----------------------------- MODULE Bridge_proofs -----------------------------
(***************************************************************************)
(* Proofs about Bridge, for any callers, any operations they ask for, any  *)
(* number of calls and of faults.  IndInv is inductive; the properties of  *)
(* the runs and the refinement of RemoteCall follow from it.               *)
(***************************************************************************)
EXTENDS Bridge, TLAPS, SequenceTheorems

(* One call of a sequence changes, and keeps what its caller asked for.    *)
Kept(c, d) == c.by = d.by /\ c.op = d.op /\ c.ticket = d.ticket

OnlyCall(cs, ds, i) ==
  /\ ds \in Seq(CallRecord) /\ Len(ds) = Len(cs) /\ DOMAIN ds = DOMAIN cs
  /\ \A j \in DOMAIN cs \ {i} : ds[j] = cs[j]
  /\ Kept(ds[i], cs[i])

LEMMA UpdatedCall ==
  ASSUME NEW cs \in Seq(CallRecord), NEW i \in DOMAIN cs, NEW c \in CallRecord,
         Kept(c, cs[i])
  PROVE  OnlyCall(cs, [cs EXCEPT ![i] = c], i) /\ [cs EXCEPT ![i] = c][i] = c
<1>1. DOMAIN cs = 1..Len(cs) /\ Len(cs) \in Nat /\ cs[i] \in CallRecord
  BY LenProperties, ElementOfSeq
<1>2. /\ [cs EXCEPT ![i] = c] \in Seq(CallRecord)
      /\ Len([cs EXCEPT ![i] = c]) = Len(cs)
      /\ \A j \in 1 .. Len(cs) : [cs EXCEPT ![i] = c][j] = IF j = i THEN c ELSE cs[j]
  BY <1>1, ExceptSeq
<1>3. DOMAIN [cs EXCEPT ![i] = c] = DOMAIN cs
  OBVIOUS
<1>4. QED
  BY <1>1, <1>2, <1>3 DEF OnlyCall

LEMMA FinishedCall ==
  ASSUME NEW cs \in Seq(CallRecord), NEW i \in DOMAIN cs, NEW r \in {"ok", "error"}
  PROVE  LET ds == Finished(cs, i, r)
         IN  /\ OnlyCall(cs, ds, i)
             /\ ds[i].state = "ended" /\ ds[i].result \in {None, r}
             /\ ds[i].sent = cs[i].sent /\ ds[i].answer = cs[i].answer /\ ds[i].view = cs[i].view
<1> DEFINE res == IF cs[i].answer = "none" THEN r ELSE None
           c == [cs[i] EXCEPT !.state = "ended", !.result = res]
<1>1. cs[i] \in CallRecord
  BY ElementOfSeq, LenProperties
<1>2. c \in CallRecord /\ Kept(c, cs[i])
  BY <1>1 DEF CallRecord, Kept
<1>3. Finished(cs, i, r) = [cs EXCEPT ![i] = c]
  BY <1>1 DEF Finished, CallRecord
<1> HIDE DEF c
<1>4. OnlyCall(cs, Finished(cs, i, r), i) /\ Finished(cs, i, r)[i] = c
  <2>1. OnlyCall(cs, [cs EXCEPT ![i] = c], i) /\ [cs EXCEPT ![i] = c][i] = c
    BY <1>2, UpdatedCall
  <2>2. QED
    BY <1>3, <2>1
<1>5. QED
  BY <1>1, <1>4 DEF c, CallRecord
-----------------------------------------------------------------------------

(* Where the calls are: in the queue, on the worker, nowhere; and in which *)
(* order they arrived and are worked.                                      *)
Queues == CallsAreHeld /\ HeldIsAllowed /\ ArrivedOnce /\ WorkedInOrder

LEMMA Typed ==
  ASSUME TypeOK
  PROVE  /\ Len(calls) \in Nat /\ DOMAIN calls = 1..Len(calls)
         /\ \A i \in DOMAIN calls : calls[i] \in CallRecord
         /\ Len(arrived) \in Nat /\ DOMAIN arrived = 1..Len(arrived)
         /\ \A k \in DOMAIN arrived : arrived[k] \in DOMAIN calls
         /\ Len(queue) \in Nat /\ DOMAIN queue = 1..Len(queue)
         /\ \A k \in DOMAIN queue : queue[k] \in DOMAIN calls
BY LenProperties, ElementOfSeq DEF TypeOK

LEMMA RestIs ==
  ASSUME TypeOK, queue # <<>>
  PROVE  /\ Rest \in Seq(DOMAIN calls) /\ Len(Rest) = Len(queue) - 1
         /\ DOMAIN Rest = 1..(Len(queue) - 1)
         /\ \A k \in DOMAIN Rest : Rest[k] = queue[k + 1]
         /\ 1 \in DOMAIN queue /\ NextCall = queue[1]
<1>1. Len(queue) \in Nat \ {0} /\ DOMAIN queue = 1..Len(queue)
  BY LenProperties, EmptySeq DEF TypeOK
<1>2. \A k \in 1..(Len(queue) - 1) : queue[k + 1] \in DOMAIN calls
  BY <1>1, Typed
<1>3. Rest = [k \in 1..(Len(queue) - 1) |-> queue[k + 1]]
  BY <1>1 DEF Rest, Front
<1>4. QED
  BY <1>1, <1>2, <1>3 DEF NextCall, Front

\* What the front of the queue is: it was accepted, and all that arrived
\* before it has ended.
LEMMA FrontLeaves ==
  ASSUME IndInv, Idle
  PROVE  /\ NextCall \in DOMAIN calls
         /\ calls[NextCall].state = "queued" /\ calls[NextCall].sent = 0
         /\ Gated(Op(NextCall)) => enabled
         /\ \A i \in DOMAIN calls :
              (\E k \in DOMAIN Rest : Rest[k] = i) <=> i # NextCall /\ calls[i].state = "queued"
         /\ \A j, k \in DOMAIN arrived :
              j < k /\ arrived[k] = NextCall => calls[arrived[j]].state = "ended"
<1> USE DEF IndInv, Idle
<1>1. NextCall \in DOMAIN calls /\ 1 \in DOMAIN queue /\ NextCall = queue[1]
  BY RestIs, Typed
<1>2. calls[NextCall].state = "queued" /\ calls[NextCall].sent = 0
  BY <1>1 DEF CallsAreHeld, SentOnce
<1>3. Gated(Op(NextCall)) => enabled
  BY <1>1, <1>2 DEF HeldIsAllowed
<1>4. \A k \in DOMAIN queue : queue[k] = NextCall => k = 1
  <2> SUFFICES ASSUME NEW k \in DOMAIN queue, queue[k] = NextCall, k # 1 PROVE FALSE
    OBVIOUS
  <2>1. PICK j \in DOMAIN arrived : arrived[j] = NextCall
    BY <1>1, <1>2 DEF ArrivedOnce
  <2>2. k \in Nat /\ 1 < k /\ j \in Nat
    BY Typed
  <2>3. j < j
    BY <1>1, <2>1, <2>2 DEF ArrivedOnce
  <2>4. QED
    BY <2>2, <2>3
<1>5. ASSUME NEW i \in DOMAIN calls
      PROVE  (\E k \in DOMAIN Rest : Rest[k] = i) <=> i # NextCall /\ calls[i].state = "queued"
  <2>1. ASSUME NEW k \in DOMAIN Rest, Rest[k] = i
        PROVE  i # NextCall /\ calls[i].state = "queued"
    <3>1. k + 1 \in DOMAIN queue /\ k + 1 # 1 /\ queue[k + 1] = i
      BY <2>1, RestIs, Typed
    <3>2. QED
      BY <1>4, <3>1 DEF CallsAreHeld
  <2>2. ASSUME i # NextCall, calls[i].state = "queued"
        PROVE  \E k \in DOMAIN Rest : Rest[k] = i
    <3>1. PICK n \in DOMAIN queue : queue[n] = i
      BY <2>2 DEF CallsAreHeld
    <3>2. n # 1
      BY <1>1, <2>2, <3>1
    <3>3. n - 1 \in 1..(Len(queue) - 1) /\ (n - 1) + 1 = n
      BY <3>2, Typed
    <3>4. n - 1 \in DOMAIN Rest /\ Rest[n - 1] = i
      BY <3>1, <3>3, RestIs
    <3>5. QED
      BY <3>4
  <2>3. QED
    BY <2>1, <2>2
<1>6. ASSUME NEW j \in DOMAIN arrived, NEW k \in DOMAIN arrived, j < k, arrived[k] = NextCall
      PROVE  calls[arrived[j]].state = "ended"
  <2>1. arrived[j] \in DOMAIN calls /\ calls[arrived[j]] \in CallRecord
    BY Typed
  <2>2. calls[arrived[j]].state # "transit"
    BY DEF ArrivedOnce
  <2>3. calls[arrived[j]].state # "running"
    BY <2>1 DEF CallsAreHeld, Resting
  <2>4. calls[arrived[j]].state # "queued"
    <3> SUFFICES ASSUME calls[arrived[j]].state = "queued" PROVE FALSE
      OBVIOUS
    <3>1. PICK m \in DOMAIN queue : queue[m] = arrived[j]
      BY <2>1 DEF CallsAreHeld
    <3>2. j \in Nat /\ k \in Nat /\ m \in Nat
      BY Typed
    <3>3. m # 1
      BY <1>1, <1>6, <3>1, <3>2 DEF ArrivedOnce
    <3>4. k < j
      BY <1>1, <1>6, <3>1, <3>2, <3>3, Typed DEF ArrivedOnce
    <3>5. QED
      BY <1>6, <3>2, <3>4
  <2>5. QED
    BY <2>1, <2>2, <2>3, <2>4 DEF CallRecord
<1>7. QED
  BY <1>1, <1>2, <1>3, <1>5, <1>6

-----------------------------------------------------------------------------

\* The worker takes the front of the queue: the call ends or runs.
LEMMA FrontTaken ==
  ASSUME IndInv, Idle, OnlyCall(calls, calls', NextCall),
         calls'[NextCall].state \in {"running", "ended"}, calls'[NextCall].sent \in {0, 1},
         queue' = Rest, UNCHANGED <<arrived, enabled>>
  PROVE  HeldIsAllowed' /\ ArrivedOnce' /\ WorkedInOrder'
<1> USE DEF IndInv
<1>1. \A j \in DOMAIN calls \ {NextCall} : calls'[j] = calls[j]
  BY DEF OnlyCall
<1>2. DOMAIN calls' = DOMAIN calls /\ NextCall \in DOMAIN calls /\ calls'[NextCall].op = calls[NextCall].op
  BY FrontLeaves DEF OnlyCall, Kept
<1>3. HeldIsAllowed'
  BY <1>1, <1>2, FrontLeaves DEF HeldIsAllowed, Gated, Op
<1>4. ArrivedOnce'
  <2>1. \A m, n \in DOMAIN Rest : m < n =>
          /\ m + 1 \in DOMAIN queue /\ n + 1 \in DOMAIN queue /\ m + 1 < n + 1
          /\ Rest[m] = queue[m + 1] /\ Rest[n] = queue[n + 1]
    BY RestIs, Typed DEF Idle
  <2>2. \A m, n \in DOMAIN Rest : \A j, k \in DOMAIN arrived :
          m < n /\ arrived[j] = Rest[m] /\ arrived[k] = Rest[n] => j < k
    BY <2>1 DEF ArrivedOnce
  <2>3. \A k \in DOMAIN arrived : calls'[arrived[k]].state # "transit"
    BY <1>1, Typed DEF ArrivedOnce
  <2>4. \A i \in DOMAIN calls :
          calls'[i].state \in {"queued", "running"} \/ calls'[i].sent = 1
            => \E k \in DOMAIN arrived : arrived[k] = i
    BY <1>1, FrontLeaves DEF ArrivedOnce
  <2>5. QED
    BY <1>2, <2>2, <2>3, <2>4 DEF ArrivedOnce
<1>5. WorkedInOrder'
  <2>1. ASSUME NEW j \in DOMAIN arrived, NEW k \in DOMAIN arrived, j < k,
               calls'[arrived[k]].state = "running" \/ calls'[arrived[k]].sent = 1
        PROVE  calls'[arrived[j]].state = "ended"
    <3>1. calls[arrived[j]].state = "ended"
      BY <1>1, <2>1, FrontLeaves, Typed DEF WorkedInOrder
    <3>2. arrived[j] # NextCall
      BY <3>1, FrontLeaves
    <3>3. QED
      BY <1>1, <3>1, <3>2, Typed
  <2>2. QED
    BY <2>1 DEF WorkedInOrder
<1>6. QED
  BY <1>3, <1>4, <1>5

LEMMA FrontEnds ==
  ASSUME IndInv, Idle, OnlyCall(calls, calls', NextCall),
         calls'[NextCall].state = "ended", calls'[NextCall].sent \in {0, 1},
         queue' = Rest, UNCHANGED <<arrived, worker, process, enabled>>
  PROVE  Queues'
<1>1. \A j \in DOMAIN calls \ {NextCall} : calls'[j] = calls[j]
  BY DEF OnlyCall
<1>2. DOMAIN calls' = DOMAIN calls /\ NextCall \in DOMAIN calls
  BY FrontLeaves DEF OnlyCall
<1>3. CallsAreHeld'
  BY <1>1, <1>2, FrontLeaves DEF IndInv, CallsAreHeld, Idle, Resting
<1>4. QED
  BY <1>3, FrontTaken DEF Queues

LEMMA FrontRuns ==
  ASSUME IndInv, Idle, OnlyCall(calls, calls', NextCall),
         calls'[NextCall].state = "running", calls'[NextCall].sent = 0,
         queue' = Rest, worker'.id = NextCall, worker'.step # "rest",
         UNCHANGED <<arrived, process, enabled>>
  PROVE  Queues'
<1> USE DEF IndInv
<1>1. \A j \in DOMAIN calls \ {NextCall} : calls'[j] = calls[j]
  BY DEF OnlyCall
<1>2. DOMAIN calls' = DOMAIN calls /\ NextCall \in DOMAIN calls
  BY FrontLeaves DEF OnlyCall
<1>3. CallsAreHeld'
  <2>1. NextCall # 0
    BY <1>2, Typed
  <2>2. \A i \in DOMAIN calls : calls'[i].state = "running" <=> worker'.id = i
    BY <1>1, <1>2, Typed DEF CallsAreHeld, Idle, Resting
  <2>3. \A i \in DOMAIN calls :
          calls'[i].state = "queued" <=> \E k \in DOMAIN queue' : queue'[k] = i
    BY <1>1, <1>2, FrontLeaves
  <2>4. worker' # Resting /\ worker'.id # 0
    BY <2>1 DEF Resting
  <2>5. QED
    BY <1>2, <2>2, <2>3, <2>4 DEF CallsAreHeld, Idle, Resting
<1>4. QED
  BY <1>3, FrontTaken DEF Queues

\* No call changes its place: answers, the sending of a market order, the
\* broker's own steps.
LEMMA PlacesKept ==
  ASSUME IndInv, DOMAIN calls' = DOMAIN calls,
         \A i \in DOMAIN calls :
            /\ calls'[i].state = calls[i].state /\ calls'[i].op = calls[i].op
            /\ calls'[i].sent = calls[i].sent \/ calls[i].state = "running",
         worker'.id = worker.id, worker' = Resting <=> worker = Resting,
         worker'.step = "rest" <=> worker.step = "rest",
         process' = "down" => process = "down" \/ (queue = <<>> /\ worker = Resting),
         UNCHANGED <<queue, arrived, enabled>>
  PROVE  Queues'
<1> USE DEF IndInv
<1>1. CallsAreHeld'
  BY DEF CallsAreHeld
<1>2. HeldIsAllowed'
  BY DEF HeldIsAllowed, Gated, Op
<1>3. ArrivedOnce'
  BY Typed DEF ArrivedOnce
<1>4. WorkedInOrder'
  BY Typed DEF WorkedInOrder
<1>5. QED
  BY <1>1, <1>2, <1>3, <1>4 DEF Queues

\* The worker is done with its call.
LEMMA WorkerEnds ==
  ASSUME IndInv, worker # Resting, OnlyCall(calls, calls', worker.id),
         calls'[worker.id].state = "ended", worker' = Resting,
         UNCHANGED <<queue, arrived, process, enabled>>
  PROVE  Queues'
<1> USE DEF IndInv
<1>1. \A j \in DOMAIN calls \ {worker.id} : calls'[j] = calls[j]
  BY DEF OnlyCall
<1>2. /\ DOMAIN calls' = DOMAIN calls /\ worker.id \in DOMAIN calls
      /\ calls[worker.id].state = "running"
  BY DEF OnlyCall, TypeOK, CallsAreHeld
<1>3. CallsAreHeld'
  BY <1>1, <1>2, Typed DEF CallsAreHeld, Resting
<1>4. HeldIsAllowed'
  BY <1>1, <1>2 DEF HeldIsAllowed, Gated, Op
<1>5. ArrivedOnce'
  <2>1. \A k \in DOMAIN arrived : calls'[arrived[k]].state # "transit"
    BY <1>1, <1>2, Typed DEF ArrivedOnce
  <2>2. \A j \in DOMAIN calls :
          calls'[j].state \in {"queued", "running"} \/ calls'[j].sent = 1
            => \E k \in DOMAIN arrived : arrived[k] = j
    BY <1>1, <1>2 DEF ArrivedOnce
  <2>3. QED
    BY <1>2, <2>1, <2>2 DEF ArrivedOnce
<1>6. WorkedInOrder'
  BY <1>1, <1>2, Typed DEF WorkedInOrder
<1>7. QED
  BY <1>3, <1>4, <1>5, <1>6 DEF Queues

LEMMA AppendIs ==
  ASSUME NEW S, NEW s \in Seq(S), NEW e \in S
  PROVE  /\ Append(s, e) \in Seq(S)
         /\ DOMAIN Append(s, e) = 1..(Len(s) + 1)
         /\ Len(Append(s, e)) = Len(s) + 1
         /\ \A k \in DOMAIN s : Append(s, e)[k] = s[k]
         /\ Append(s, e)[Len(s) + 1] = e
<1>1. Append(s, e) \in Seq(S) /\ Len(Append(s, e)) = Len(s) + 1
  BY AppendProperties
<1>2. DOMAIN Append(s, e) = 1..(Len(s) + 1)
  BY <1>1, LenProperties
<1>3. \A k \in 1..Len(s) : Append(s, e)[k] = s[k]
  BY AppendProperties
<1>4. Append(s, e)[Len(s) + 1] = e
  BY AppendProperties
<1>5. QED
  BY <1>1, <1>2, <1>3, <1>4, LenProperties

\* A call that never reaches the queue.
LEMMA TransitEnds ==
  ASSUME IndInv, NEW i \in DOMAIN calls, OnlyCall(calls, calls', i),
         calls[i].state = "transit", calls'[i].state = "ended", calls'[i].sent = calls[i].sent,
         arrived' \in {arrived, Append(arrived, i)},
         UNCHANGED <<queue, worker, process, enabled>>
  PROVE  Queues'
<1> USE DEF IndInv
<1>1. \A j \in DOMAIN calls \ {i} : calls'[j] = calls[j]
  BY DEF OnlyCall
<1>2. DOMAIN calls' = DOMAIN calls /\ calls[i].sent = 0
  BY DEF OnlyCall, SentOnce
<1>3. CallsAreHeld'
  BY <1>1, <1>2, Typed DEF CallsAreHeld
<1>4. HeldIsAllowed'
  BY <1>1, <1>2 DEF HeldIsAllowed, Gated, Op
<1>5. \A j \in DOMAIN calls : calls'[j].state # "ended" \/ calls'[j].sent = 1 =>
        calls'[j].state = calls[j].state /\ calls'[j].sent = calls[j].sent /\ j # i
  BY <1>1, <1>2
<1>6. \A j \in DOMAIN calls : calls[j].state = "ended" => calls'[j].state = "ended"
  BY <1>1
<1>7. CASE arrived' = arrived
  <2>1. ArrivedOnce'
    BY <1>2, <1>5, <1>7, Typed DEF ArrivedOnce
  <2>2. \A j, k \in DOMAIN arrived :
          j < k /\ (calls'[arrived[k]].state = "running" \/ calls'[arrived[k]].sent = 1)
            => calls'[arrived[j]].state = "ended"
    BY <1>5, <1>6, Typed DEF WorkedInOrder
  <2>3. WorkedInOrder'
    BY <1>7, <2>2 DEF WorkedInOrder
  <2>4. QED
    BY <1>3, <1>4, <2>1, <2>3 DEF Queues
<1>8. CASE arrived' = Append(arrived, i)
  <2>1. /\ DOMAIN arrived' = DOMAIN arrived \cup {Len(arrived) + 1}
        /\ \A k \in DOMAIN arrived :
             k < Len(arrived) + 1 /\ arrived'[k] = arrived[k] /\ arrived[k] # i
        /\ arrived'[Len(arrived) + 1] = i
    BY <1>8, AppendIs, Typed DEF TypeOK, ArrivedOnce
  <2>2. ArrivedOnce'
    <3>1. \A j, k \in DOMAIN arrived' : arrived'[j] = arrived'[k] => j = k
      BY <2>1, Typed DEF ArrivedOnce
    <3>2. \A k \in DOMAIN arrived' : calls'[arrived'[k]].state # "transit"
      BY <1>5, <2>1, Typed DEF ArrivedOnce
    <3>3. \A j \in DOMAIN calls :
            calls'[j].state \in {"queued", "running"} \/ calls'[j].sent = 1
              => \E k \in DOMAIN arrived' : arrived'[k] = j
      BY <1>5, <2>1 DEF ArrivedOnce
    <3>4. \A m, n \in DOMAIN queue : queue[m] # i /\ queue[n] # i
      BY DEF CallsAreHeld
    <3>5. \A m, n \in DOMAIN queue : \A j, k \in DOMAIN arrived' :
            m < n /\ arrived'[j] = queue[m] /\ arrived'[k] = queue[n] => j < k
      BY <2>1, <3>4 DEF ArrivedOnce
    <3>6. QED
      BY <1>2, <3>1, <3>2, <3>3, <3>5 DEF ArrivedOnce
  <2>3. WorkedInOrder'
    <3>1. ASSUME NEW j \in DOMAIN arrived', NEW k \in DOMAIN arrived', j < k,
                 calls'[arrived'[k]].state = "running" \/ calls'[arrived'[k]].sent = 1
          PROVE  calls'[arrived'[j]].state = "ended"
      <4>1. arrived'[k] \in DOMAIN calls /\ arrived'[j] \in DOMAIN calls
        BY <2>1, Typed
      <4>2. arrived'[k] # i
        BY <1>2, <3>1, <1>5, <4>1
      <4>3. k \in DOMAIN arrived /\ arrived'[k] = arrived[k]
        BY <2>1, <4>2
      <4>4. j \in DOMAIN arrived /\ arrived'[j] = arrived[j]
        BY <2>1, <3>1, <4>3, Typed
      <4>5. calls[arrived[j]].state = "ended"
        BY <1>5, <3>1, <4>1, <4>3, <4>4 DEF WorkedInOrder
      <4>6. QED
        BY <1>6, <4>1, <4>4, <4>5
    <3>2. QED
      BY <3>1 DEF WorkedInOrder
  <2>4. QED
    BY <1>3, <1>4, <2>2, <2>3 DEF Queues
<1>9. QED
  BY <1>7, <1>8

\* A call that the handler submits to the worker.
LEMMA Enqueued ==
  ASSUME IndInv, NEW i \in DOMAIN calls, OnlyCall(calls, calls', i),
         calls[i].state = "transit", calls'[i].state = "queued", calls'[i].sent = calls[i].sent,
         Gated(Op(i)) => enabled, process # "down",
         arrived' = Append(arrived, i), queue' = Append(queue, i),
         UNCHANGED <<worker, process, enabled>>
  PROVE  Queues'
<1> USE DEF IndInv
<1>1. \A j \in DOMAIN calls \ {i} : calls'[j] = calls[j]
  BY DEF OnlyCall
<1>2. DOMAIN calls' = DOMAIN calls /\ calls[i].sent = 0 /\ calls'[i].op = calls[i].op
  BY DEF OnlyCall, Kept, SentOnce
<1>3. /\ DOMAIN queue' = DOMAIN queue \cup {Len(queue) + 1}
      /\ \A k \in DOMAIN queue :
           k < Len(queue) + 1 /\ queue'[k] = queue[k] /\ queue[k] # i
      /\ queue'[Len(queue) + 1] = i
  <2>1. \A k \in DOMAIN queue : k < Len(queue) + 1 /\ queue[k] # i
    BY Typed DEF CallsAreHeld
  <2>2. QED
    BY <2>1, AppendIs, Typed DEF TypeOK
<1>4. /\ DOMAIN arrived' = DOMAIN arrived \cup {Len(arrived) + 1}
      /\ \A k \in DOMAIN arrived :
           k < Len(arrived) + 1 /\ arrived'[k] = arrived[k] /\ arrived[k] # i
      /\ arrived'[Len(arrived) + 1] = i
  <2>1. \A k \in DOMAIN arrived : k < Len(arrived) + 1 /\ arrived[k] # i
    BY Typed DEF ArrivedOnce
  <2>2. QED
    BY <2>1, AppendIs, Typed DEF TypeOK
<1>5. CallsAreHeld'
  <2>1. \A j \in DOMAIN calls :
          calls'[j].state = "queued" <=> \E k \in DOMAIN queue' : queue'[k] = j
    BY <1>1, <1>3 DEF CallsAreHeld
  <2>2. \A j \in DOMAIN calls : calls'[j].state = "running" <=> worker.id = j
    BY <1>1 DEF CallsAreHeld
  <2>3. QED
    BY <1>2, <2>1, <2>2 DEF CallsAreHeld
<1>6. HeldIsAllowed'
  BY <1>1, <1>2 DEF HeldIsAllowed, Gated, Op
<1>7. ArrivedOnce'
  <2>1. \A j, k \in DOMAIN arrived' : arrived'[j] = arrived'[k] => j = k
    BY <1>4, Typed DEF ArrivedOnce
  <2>2. \A k \in DOMAIN arrived' : calls'[arrived'[k]].state # "transit"
    BY <1>1, <1>4, Typed DEF ArrivedOnce
  <2>3. \A j \in DOMAIN calls :
          calls'[j].state \in {"queued", "running"} \/ calls'[j].sent = 1
            => \E k \in DOMAIN arrived' : arrived'[k] = j
    BY <1>1, <1>4 DEF ArrivedOnce
  <2>4. ASSUME NEW m \in DOMAIN queue', NEW n \in DOMAIN queue',
               NEW j \in DOMAIN arrived', NEW k \in DOMAIN arrived',
               m < n, arrived'[j] = queue'[m], arrived'[k] = queue'[n]
        PROVE  j < k
    <3>1. m \in DOMAIN queue /\ j \in DOMAIN arrived
      BY <1>3, <1>4, <2>4, Typed
    <3>2. CASE n = Len(queue) + 1
      BY <1>3, <1>4, <2>4, <3>1, <3>2
    <3>3. CASE n \in DOMAIN queue
      BY <1>3, <1>4, <2>4, <3>1, <3>3 DEF ArrivedOnce
    <3>4. QED
      BY <1>3, <3>2, <3>3
  <2>5. QED
    BY <1>2, <2>1, <2>2, <2>3, <2>4 DEF ArrivedOnce
<1>8. WorkedInOrder'
  <2>1. ASSUME NEW j \in DOMAIN arrived', NEW k \in DOMAIN arrived', j < k,
               calls'[arrived'[k]].state = "running" \/ calls'[arrived'[k]].sent = 1
        PROVE  calls'[arrived'[j]].state = "ended"
    <3>1. arrived'[k] \in DOMAIN calls /\ arrived'[k] # i
      BY <1>2, <1>4, <2>1, Typed
    <3>2. k \in DOMAIN arrived /\ arrived'[k] = arrived[k]
      BY <1>4, <3>1
    <3>3. j \in DOMAIN arrived /\ arrived'[j] = arrived[j]
      BY <1>4, <2>1, <3>2, Typed
    <3>4. calls[arrived[j]].state = "ended"
      BY <1>1, <2>1, <3>1, <3>2, <3>3 DEF WorkedInOrder
    <3>5. QED
      BY <1>1, <1>4, <3>3, <3>4, Typed
  <2>2. QED
    BY <2>1 DEF WorkedInOrder
<1>9. QED
  BY <1>5, <1>6, <1>7, <1>8 DEF Queues

-----------------------------------------------------------------------------
(* Orders and lists, when one call changes *)

LEMMA OrdersKept ==
  ASSUME IndInv, NEW i \in DOMAIN calls, OnlyCall(calls, calls', i),
         \/ calls'[i].sent = calls[i].sent /\ calls'[i].view = calls[i].view
         \/ calls'[i].sent = 1 /\ Op(i) # "orders",
         \/ arrived' = arrived
         \/ arrived' = Append(arrived, i) /\ calls'[i].sent = 0,
         orders' \subseteq orders
  PROVE  OrdersOfCalls'
<1> USE DEF IndInv
<1>1. \A j \in DOMAIN calls \ {i} : calls'[j] = calls[j]
  BY DEF OnlyCall
<1>2. DOMAIN calls' = DOMAIN calls /\ calls'[i].op = calls[i].op /\ calls'[i].by = calls[i].by
  BY DEF OnlyCall, Kept
<1>3. \A o \in orders' : /\ o.ticket \in DOMAIN calls'
                         /\ calls'[o.ticket].sent = 1 /\ calls'[o.ticket].by = o.magic
  BY <1>1, <1>2 DEF OrdersOfCalls
<1>4. Pending' \subseteq Pending
  BY DEF Pending
<1>5. ASSUME NEW j \in DOMAIN arrived', NEW k \in DOMAIN arrived', j < k,
             Op(arrived[k])' = "orders", calls'[arrived'[k]].sent = 1,
             calls'[arrived'[j]].by = calls'[arrived'[k]].by, arrived'[j] \in Pending'
      PROVE  arrived'[j] \in calls'[arrived'[k]].view
  <2>1. /\ k \in DOMAIN arrived /\ arrived'[k] = arrived[k]
        /\ j \in DOMAIN arrived /\ arrived'[j] = arrived[j]
    <3>1. CASE arrived' = arrived
      BY <3>1
    <3>2. CASE arrived' = Append(arrived, i) /\ calls'[i].sent = 0
      BY <1>5, <3>2, AppendIs, Typed DEF TypeOK
    <3>3. QED
      BY <3>1, <3>2
  <2>2. /\ arrived[k] \in DOMAIN calls /\ arrived[j] \in DOMAIN calls
        /\ calls[arrived[k]].by = calls'[arrived[k]].by
        /\ calls[arrived[j]].by = calls'[arrived[j]].by
    BY <1>1, <1>2, <2>1, Typed
  <2>3. Op(arrived[k]) = "orders" /\ calls[arrived[k]].sent = 1
        /\ calls'[arrived[k]].view = calls[arrived[k]].view
    BY <1>1, <1>2, <1>5, <2>1, <2>2 DEF Op
  <2>4. QED
    BY <1>4, <1>5, <2>1, <2>2, <2>3 DEF OrdersOfCalls
<1>6. QED
  BY <1>3, <1>5 DEF OrdersOfCalls

-----------------------------------------------------------------------------
(* One lemma per action *)

\* What a step on one call keeps beside Queues, when it does not touch the
\* broker.
LEMMA OthersKept ==
  ASSUME IndInv, NEW i \in DOMAIN calls, OnlyCall(calls, calls', i),
         calls'[i].sent \in {0, 1},
         UNCHANGED broker,
         worker' \in {worker, Resting}
  PROVE  LookedUp' /\ StopIsKept' /\ PartialNeverCloses'
<1>1. LookedUp'
  <2>1. CASE worker' = Resting
    BY <2>1 DEF LookedUp, Resting
  <2>2. CASE worker' = worker /\ worker # Resting
    <3>1. worker.id \in DOMAIN calls
      BY <2>2 DEF IndInv, TypeOK, CallsAreHeld, Resting
    <3>2. Op(worker.id)' = Op(worker.id) /\ calls'[worker.id].ticket = calls[worker.id].ticket
      BY <2>2, <3>1 DEF OnlyCall, Kept, Op
    <3>3. positions' = positions
      BY DEF broker
    <3>4. QED
      BY <2>2, <3>2, <3>3 DEF IndInv, LookedUp, PositionOf, NeedsPosition
  <2>3. CASE worker' = Resting \/ (worker' = worker /\ worker = Resting)
    BY <2>1, <2>3
  <2>4. QED
    BY <2>1, <2>2, <2>3
<1>2. StopIsKept' /\ PartialNeverCloses'
  BY DEF IndInv, StopIsKept, PartialNeverCloses, broker
<1>3. QED
  BY <1>1, <1>2

LEMMA SentKept ==
  ASSUME IndInv, NEW i \in DOMAIN calls, OnlyCall(calls, calls', i),
         calls'[i].sent = calls[i].sent,
         "ok" \in {calls'[i].result, calls'[i].answer} => calls[i].sent = 1,
         calls'[i].state \in {calls[i].state, "ended"}
           \/ (calls[i].state = "transit" /\ calls'[i].state = "queued"),
         worker' \in {worker, Resting}
  PROVE  SentOnce'
<1>1. \A j \in DOMAIN calls \ {i} : calls'[j] = calls[j]
  BY DEF OnlyCall
<1>2. DOMAIN calls' = DOMAIN calls
  BY DEF OnlyCall
<1>3. \A j \in DOMAIN calls : calls'[j].sent = calls[j].sent
  BY <1>1
<1>4. \A j \in DOMAIN calls : calls'[j].state \in {"transit", "queued"} => calls[j].sent = 0
  BY <1>1 DEF IndInv, SentOnce
<1>5. \A j \in DOMAIN calls :
        worker'.id = j => calls[j].sent = IF worker'.step = "lookup" THEN 1 ELSE 0
  BY Typed DEF IndInv, SentOnce, Resting
<1>6. \A j \in DOMAIN calls : "ok" \in {calls'[j].result, calls'[j].answer} => calls[j].sent = 1
  BY <1>1 DEF IndInv, SentOnce
<1>7. QED
  BY <1>2, <1>3, <1>4, <1>5, <1>6 DEF IndInv, SentOnce

\* The handler or the client answers; the call stays where it is.
LEMMA HandlerSteps ==
  ASSUME IndInv, NEW i \in DOMAIN calls, NEW a \in {"ok", "error", "gave_up"},
         a = "ok" => calls[i].sent = 1, calls' = Answered(i, a),
         UNCHANGED <<arrived, queue, worker, server, broker, trouble>>
  PROVE  IndInv'
<1> DEFINE c == [calls[i] EXCEPT !.answer = a, !.result = None]
<1>1. calls[i] \in CallRecord
  BY Typed DEF IndInv
<1>2. c \in CallRecord /\ Kept(c, calls[i]) /\ calls' = [calls EXCEPT ![i] = c]
  BY <1>1 DEF CallRecord, Kept, Answered
<1>3. /\ c.state = calls[i].state /\ c.sent = calls[i].sent /\ c.view = calls[i].view
      /\ "ok" \in {c.result, c.answer} => calls[i].sent = 1
  BY <1>1, BridgeAssumption DEF CallRecord, BridgeAssumption
<1> HIDE DEF c
<1>4. OnlyCall(calls, calls', i) /\ calls'[i] = c
  <2>1. calls \in Seq(CallRecord)
    BY DEF IndInv, TypeOK
  <2>2. OnlyCall(calls, [calls EXCEPT ![i] = c], i) /\ [calls EXCEPT ![i] = c][i] = c
    BY <1>2, <2>1, UpdatedCall
  <2>3. QED
    BY <1>2, <2>2
<1>5. TypeOK'
  BY <1>4 DEF IndInv, TypeOK, OnlyCall, server, broker
<1>6. Queues'
  BY <1>3, <1>4, PlacesKept DEF OnlyCall, Kept, server
<1>7. SentOnce'
  BY <1>3, <1>4, SentKept
<1>8. OrdersOfCalls'
  BY <1>3, <1>4, OrdersKept DEF broker
<1>9. calls[i].sent \in {0, 1}
  BY DEF IndInv, SentOnce
<1>10. QED
  BY <1>3, <1>4, <1>5, <1>6, <1>7, <1>8, <1>9, OthersKept DEF IndInv, Queues

LEMMA AnswersKeep ==
  ASSUME IndInv, NEW i \in DOMAIN calls, HandlerTimeout(i) \/ Respond(i) \/ GiveUp(i)
  PROVE  IndInv'
<1>1. CASE HandlerTimeout(i)
  BY <1>1, HandlerSteps DEF HandlerTimeout
<1>2. CASE GiveUp(i)
  BY <1>2, HandlerSteps DEF GiveUp
<1>3. CASE Respond(i)
  <2>1. calls[i].result \in {"ok", "error"} /\ (calls[i].result = "ok" => calls[i].sent = 1)
    BY <1>3, Typed DEF Respond, IndInv, CallRecord, SentOnce
  <2>2. QED
    BY <1>3, <2>1, HandlerSteps DEF Respond
<1>4. QED
  BY <1>1, <1>2, <1>3

LEMMA RefuseKeeps ==
  ASSUME IndInv, NEW i \in DOMAIN calls, Refuse(i)
  PROVE  IndInv'
<1>1. calls \in Seq(CallRecord) /\ calls' = Finished(calls, i, "error") /\ calls[i].state = "transit"
  BY DEF Refuse, IndInv, TypeOK
<1>2. /\ OnlyCall(calls, calls', i)
      /\ calls'[i].state = "ended" /\ calls'[i].result \in {None, "error"}
      /\ calls'[i].sent = calls[i].sent /\ calls'[i].answer = calls[i].answer
      /\ calls'[i].view = calls[i].view
  BY <1>1, FinishedCall
<1>3. calls[i].sent \in {0, 1} /\ ("ok" \in {calls'[i].result, calls'[i].answer} => calls[i].sent = 1)
  BY <1>2, BridgeAssumption DEF BridgeAssumption, IndInv, SentOnce
<1>4. TypeOK'
  BY <1>2 DEF IndInv, TypeOK, OnlyCall, Refuse, server, broker
<1>5. Queues'
  BY <1>1, <1>2, TransitEnds DEF Refuse, server
<1>6. SentOnce' /\ OrdersOfCalls'
  BY <1>2, <1>3, SentKept, OrdersKept DEF Refuse, broker
<1>7. QED
  BY <1>2, <1>3, <1>4, <1>5, <1>6, OthersKept DEF IndInv, Queues, Refuse

LEMMA ArriveKeeps ==
  ASSUME IndInv, NEW i \in DOMAIN calls, Arrive(i)
  PROVE  IndInv'
<1> USE DEF IndInv
<1>0. calls \in Seq(CallRecord) /\ calls[i].state = "transit" /\ calls[i].sent = 0
  BY DEF Arrive, TypeOK, SentOnce
<1>a. arrived' \in Seq(DOMAIN calls)
  BY AppendIs DEF Arrive, TypeOK
<1>1. CASE Gated(Op(i)) /\ ~enabled
  <2>1. calls' = Finished(calls, i, "error") /\ UNCHANGED queue
    BY <1>1 DEF Arrive
  <2>2. /\ OnlyCall(calls, calls', i)
        /\ calls'[i].state = "ended" /\ calls'[i].result \in {None, "error"}
        /\ calls'[i].sent = calls[i].sent /\ calls'[i].answer = calls[i].answer
        /\ calls'[i].view = calls[i].view
    BY <1>0, <2>1, FinishedCall
  <2>3. "ok" \in {calls'[i].result, calls'[i].answer} => calls[i].sent = 1
    BY <2>2, BridgeAssumption DEF BridgeAssumption, SentOnce
  <2>4. TypeOK'
    BY <1>a, <2>1, <2>2 DEF TypeOK, OnlyCall, Arrive, server, broker
  <2>5. Queues'
    BY <1>0, <2>1, <2>2, TransitEnds DEF Arrive, server
  <2>6. SentOnce' /\ OrdersOfCalls'
    BY <1>0, <2>2, <2>3, SentKept, OrdersKept DEF Arrive, broker
  <2>7. QED
    BY <1>0, <2>2, <2>4, <2>5, <2>6, OthersKept DEF Queues, Arrive
<1>2. CASE Gated(Op(i)) => enabled
  <2> DEFINE c == [calls[i] EXCEPT !.state = "queued"]
  <2>1. calls' = [calls EXCEPT ![i] = c] /\ queue' = Append(queue, i)
    BY <1>2 DEF Arrive
  <2>2. c \in CallRecord /\ Kept(c, calls[i])
        /\ c.state = "queued" /\ c.sent = calls[i].sent /\ c.view = calls[i].view
        /\ c.result = calls[i].result /\ c.answer = calls[i].answer
    BY Typed DEF CallRecord, Kept
  <2> HIDE DEF c
  <2>3. OnlyCall(calls, calls', i) /\ calls'[i] = c
    <3>1. OnlyCall(calls, [calls EXCEPT ![i] = c], i) /\ [calls EXCEPT ![i] = c][i] = c
      BY <1>0, <2>2, UpdatedCall
    <3>2. QED
      BY <2>1, <3>1
  <2>4. "ok" \in {calls'[i].result, calls'[i].answer} => calls[i].sent = 1
    BY <2>2, <2>3 DEF SentOnce
  <2>5. queue' \in Seq(DOMAIN calls)
    BY <2>1, AppendIs DEF TypeOK
  <2>6. TypeOK'
    BY <1>a, <2>3, <2>5 DEF TypeOK, OnlyCall, Arrive, server, broker
  <2>7. Queues'
    BY <1>0, <1>2, <2>1, <2>2, <2>3, Enqueued DEF Arrive, server
  <2>8. SentOnce' /\ OrdersOfCalls'
    BY <1>0, <2>2, <2>3, <2>4, SentKept, OrdersKept DEF Arrive, broker
  <2>9. QED
    BY <1>0, <2>2, <2>3, <2>6, <2>7, <2>8, OthersKept DEF Queues, Arrive
<1>3. QED
  BY <1>1, <1>2

\* The worker takes a call and it fails before anything is sent.
LEMMA FrontFails ==
  ASSUME IndInv, Idle, calls' = Finished(calls, NextCall, "error"), queue' = Rest,
         initialized' \in BOOLEAN, terminal' \in BOOLEAN,
         UNCHANGED <<arrived, worker, process, enabled, stuck, broker, trouble>>
  PROVE  IndInv'
<1> DEFINE i == NextCall
<1>1. /\ calls \in Seq(CallRecord) /\ calls' = Finished(calls, i, "error")
      /\ i \in DOMAIN calls /\ calls[i].state = "queued" /\ calls[i].sent = 0
  BY FrontLeaves DEF IndInv, TypeOK
<1> HIDE DEF i
<1>2. /\ OnlyCall(calls, calls', i)
      /\ calls'[i].state = "ended" /\ calls'[i].result \in {None, "error"}
      /\ calls'[i].sent = calls[i].sent /\ calls'[i].answer = calls[i].answer
      /\ calls'[i].view = calls[i].view
  BY <1>1, FinishedCall
<1>3. "ok" \in {calls'[i].result, calls'[i].answer} => calls[i].sent = 1
  BY <1>1, <1>2, BridgeAssumption DEF BridgeAssumption, IndInv, SentOnce
<1>4. TypeOK'
  BY <1>2, RestIs DEF IndInv, TypeOK, OnlyCall, broker, Idle
<1>5. Queues'
  BY <1>1, <1>2, FrontEnds DEF i
<1>6. SentOnce' /\ OrdersOfCalls'
  BY <1>1, <1>2, <1>3, SentKept, OrdersKept DEF broker
<1>7. QED
  BY <1>1, <1>2, <1>4, <1>5, <1>6, OthersKept DEF IndInv, Queues

LEMMA ReconnectFailsKeeps ==
  ASSUME IndInv, ReconnectFails
  PROVE  IndInv'
<1>1. initialized' \in BOOLEAN /\ terminal' \in BOOLEAN
  BY DEF ReconnectFails, IndInv, TypeOK
<1>2. QED
  BY <1>1, FrontFails DEF ReconnectFails

LEMMA OnlyCallTwice ==
  ASSUME NEW cs, NEW ds, NEW es, NEW i \in DOMAIN cs,
         OnlyCall(cs, ds, i), OnlyCall(ds, es, i)
  PROVE  OnlyCall(cs, es, i)
BY DEF OnlyCall, Kept

\* A read ends at once, with what the broker answers at that moment.
LEMMA ReadIs ==
  ASSUME IndInv, Read
  PROVE  /\ OnlyCall(calls, calls', NextCall)
         /\ calls'[NextCall].state = "ended" /\ calls'[NextCall].sent = 1
         /\ calls'[NextCall].view = View(calls[NextCall])
         /\ calls'[NextCall].answer = calls[NextCall].answer
<1> DEFINE i == NextCall
           f == Finished(calls, i, "ok")
           c == [f[i] EXCEPT !.sent = 1, !.view = View(calls[i])]
<1>1. /\ calls \in Seq(CallRecord)
      /\ Idle /\ i \in DOMAIN calls /\ calls[i].state = "queued" /\ calls[i].sent = 0
  BY FrontLeaves DEF Read, IndInv, TypeOK
<1>2. View(calls[i]) \subseteq Nat
  <2>1. calls[i].op \in Ops /\ calls[i].ticket \in Nat \cup {None}
    BY <1>1, Typed DEF IndInv, CallRecord
  <2>2. Ours(positions, calls[i].by) \subseteq Nat /\ Ours(orders, calls[i].by) \subseteq Nat
    BY DEF IndInv, TypeOK, Ours, PositionRecord, OrderRecord
  <2>3. HasClosingDeal(calls[i].ticket) => calls[i].ticket \in Nat
    BY DEF IndInv, TypeOK, HasClosingDeal
  <2>4. QED
    BY <2>2, <2>3 DEF View
<1>3. calls' = [f EXCEPT ![i] = c]
  BY DEF Read
<1> HIDE DEF i
<1>4. /\ OnlyCall(calls, f, i) /\ f[i].state = "ended"
      /\ f[i].result \in {None, "ok"} /\ f[i].answer = calls[i].answer
  BY <1>1, FinishedCall
<1> HIDE DEF f
<1>5. f \in Seq(CallRecord) /\ i \in DOMAIN f /\ f[i] \in CallRecord
  BY <1>1, <1>4, ElementOfSeq, LenProperties DEF OnlyCall
<1>6. /\ c \in CallRecord /\ Kept(c, f[i])
      /\ c.state = "ended" /\ c.sent = 1 /\ c.view = View(calls[i]) /\ c.answer = calls[i].answer
  BY <1>2, <1>4, <1>5 DEF CallRecord, Kept
<1> HIDE DEF c
<1>7. OnlyCall(calls, calls', i) /\ calls'[i] = c
  <2>1. OnlyCall(f, [f EXCEPT ![i] = c], i) /\ [f EXCEPT ![i] = c][i] = c
    BY <1>5, <1>6, UpdatedCall
  <2>2. OnlyCall(f, calls', i) /\ calls'[i] = c
    BY <1>3, <2>1
  <2>3. QED
    BY <1>1, <1>4, <2>2, OnlyCallTwice
<1>8. QED
  BY <1>6, <1>7 DEF i

LEMMA ReadKeeps ==
  ASSUME IndInv, Read
  PROVE  IndInv'
<1> DEFINE i == NextCall
<1>1. /\ Idle /\ i \in DOMAIN calls /\ calls[i].state = "queued" /\ calls[i].sent = 0
  BY FrontLeaves DEF Read
<1>6. /\ calls'[i].state = "ended" /\ calls'[i].sent = 1
      /\ calls'[i].view = View(calls[i])
  BY ReadIs
<1>7. OnlyCall(calls, calls', i)
  BY ReadIs
<1> HIDE DEF i
<1>8. TypeOK'
  BY <1>1, <1>7, RestIs DEF IndInv, TypeOK, OnlyCall, Read, Connect, broker, Idle
<1>9. Queues'
  BY <1>1, <1>6, <1>7, FrontEnds DEF Read, i
<1>10. SentOnce'
  <2>1. worker.id # i
    BY <1>1, Typed DEF Idle, Resting, IndInv
  <2>2. DOMAIN calls' = DOMAIN calls /\ \A j \in DOMAIN calls \ {i} : calls'[j] = calls[j]
    BY <1>7 DEF OnlyCall
  <2>3. calls'[i].sent = 1 /\ calls'[i].state = "ended" /\ UNCHANGED worker
    BY <1>6, <1>7 DEF Read
  <2>4. SentOnce
    BY DEF IndInv
  <2>5. QED
    BY <2>1, <2>2, <2>3, <2>4 DEF SentOnce
<1>11. OrdersOfCalls'
  <2>1. CASE Op(i) # "orders"
    BY <1>1, <1>6, <1>7, <2>1, OrdersKept DEF Read, broker
  <2>2. CASE Op(i) = "orders"
    <3>1. DOMAIN calls' = DOMAIN calls /\ \A j \in DOMAIN calls \ {i} : calls'[j] = calls[j]
      BY <1>7 DEF OnlyCall
    <3>2. /\ calls'[i].op = calls[i].op /\ calls'[i].by = calls[i].by
          /\ calls'[i].sent = 1 /\ calls'[i].view = Ours(orders, calls[i].by)
      BY <1>6, <1>7, <2>2 DEF OnlyCall, Kept, View, Op
    <3>3. \A o \in orders : /\ o.ticket \in DOMAIN calls'
                            /\ calls'[o.ticket].sent = 1 /\ calls'[o.ticket].by = o.magic
      BY <3>1, <3>2 DEF IndInv, OrdersOfCalls
    <3>4. ASSUME NEW j \in DOMAIN arrived, NEW k \in DOMAIN arrived, j < k,
                 calls'[arrived[k]].op = "orders", calls'[arrived[k]].sent = 1,
                 calls'[arrived[j]].by = calls'[arrived[k]].by, arrived[j] \in Pending
          PROVE  arrived[j] \in calls'[arrived[k]].view
      <4>1. arrived[j] \in DOMAIN calls /\ arrived[k] \in DOMAIN calls
        BY Typed DEF IndInv
      <4>2. calls'[arrived[j]].by = calls[arrived[j]].by
        BY <3>1, <3>2, <4>1
      <4>3. CASE arrived[k] = i
        <5>1. PICK o \in orders : o.ticket = arrived[j]
          BY <3>4 DEF Pending
        <5>2. o.magic = calls[i].by
          BY <3>2, <3>4, <4>2, <4>3, <5>1 DEF IndInv, OrdersOfCalls
        <5>3. QED
          BY <3>2, <4>3, <5>1, <5>2 DEF Ours
      <4>4. CASE arrived[k] # i
        BY <3>1, <3>4, <4>1, <4>2, <4>4 DEF IndInv, OrdersOfCalls, Op
      <4>5. QED
        BY <4>3, <4>4
    <3>5. UNCHANGED <<orders, arrived>>
      BY DEF Read, broker
    <3>6. QED
      BY <3>3, <3>4, <3>5 DEF OrdersOfCalls, Pending, Op
  <2>3. QED
    BY <2>1, <2>2
<1>12. QED
  BY <1>1, <1>6, <1>7, <1>8, <1>9, <1>10, <1>11, OthersKept DEF IndInv, Queues, Read

\* The worker takes a call and works on it.
LEMMA FrontWorks ==
  ASSUME IndInv, Idle, calls' = [calls EXCEPT ![NextCall].state = "running"], queue' = Rest,
         NEW step \in {"look", "send"}, NEW pos \in PositionRecord \cup {None},
         worker' = [id |-> NextCall, step |-> step, pos |-> pos],
         initialized' \in BOOLEAN, terminal' \in BOOLEAN, stuck' \in BOOLEAN,
         trouble' \in 0..MaxTrouble,
         UNCHANGED <<arrived, process, enabled, broker>>,
         LookedUp'
  PROVE  IndInv'
<1> DEFINE i == NextCall
           c == [calls[i] EXCEPT !.state = "running"]
<1>1. /\ calls \in Seq(CallRecord) /\ calls' = [calls EXCEPT ![i] = c]
      /\ i \in DOMAIN calls /\ calls[i].state = "queued" /\ calls[i].sent = 0
  BY FrontLeaves DEF IndInv, TypeOK
<1>2. /\ c \in CallRecord /\ Kept(c, calls[i]) /\ c.state = "running"
      /\ c.sent = calls[i].sent /\ c.view = calls[i].view
      /\ c.result = calls[i].result /\ c.answer = calls[i].answer
  BY <1>1, Typed DEF IndInv, CallRecord, Kept
<1> HIDE DEF c
<1>3. OnlyCall(calls, calls', i) /\ calls'[i] = c
  <2>1. OnlyCall(calls, [calls EXCEPT ![i] = c], i) /\ [calls EXCEPT ![i] = c][i] = c
    BY <1>1, <1>2, UpdatedCall
  <2>2. QED
    BY <1>1, <2>1
<1>4. Queues'
  BY <1>1, <1>2, <1>3, FrontRuns
<1> HIDE DEF i
<1>5. TypeOK'
  <2>1. worker' \in [id: {0} \cup DOMAIN calls, step: {"rest", "look", "send", "lookup"},
                     pos: PositionRecord \cup {None}]
    BY <1>1 DEF i
  <2>2. QED
    BY <1>3, <2>1, RestIs DEF IndInv, TypeOK, OnlyCall, broker, Idle
<1>6. SentOnce'
  <2>1. DOMAIN calls' = DOMAIN calls /\ \A j \in DOMAIN calls \ {i} : calls'[j] = calls[j]
    BY <1>3 DEF OnlyCall
  <2>2. worker'.id = i /\ worker'.step # "lookup"
    BY DEF i
  <2>3. SentOnce
    BY DEF IndInv
  <2>4. QED
    BY <1>1, <1>2, <1>3, <2>1, <2>2, <2>3 DEF SentOnce
<1>7. OrdersOfCalls'
  BY <1>1, <1>2, <1>3, OrdersKept DEF broker
<1>8. StopIsKept' /\ PartialNeverCloses'
  BY DEF IndInv, StopIsKept, PartialNeverCloses, broker
<1>9. QED
  BY <1>4, <1>5, <1>6, <1>7, <1>8 DEF IndInv, Queues

LEMMA LookKeeps ==
  ASSUME IndInv, Look
  PROVE  IndInv'
<1> DEFINE i == NextCall
           found == PositionOf(calls[i].ticket)
           pos == IF found = {} THEN None ELSE CHOOSE p \in found : TRUE
<1>1. /\ Idle /\ Op(i) \notin ReadOps /\ queue' = Rest
      /\ initialized' \in BOOLEAN /\ terminal' \in BOOLEAN
      /\ UNCHANGED <<arrived, process, enabled, stuck, broker, trouble>>
  BY DEF Look, Connect
<1>2. CASE ~Permitted(calls[i], found)
  BY <1>1, <1>2, FrontFails DEF Look
<1>3. CASE Permitted(calls[i], found)
  <2>1. /\ worker' = [id |-> i, step |-> "send", pos |-> pos]
        /\ calls' = [calls EXCEPT ![i].state = "running"]
    BY <1>3 DEF Look
  <2>2. found \subseteq positions /\ (found # {} => pos \in found)
    BY DEF PositionOf
  <2>3. pos \in PositionRecord \cup {None}
    BY <2>2 DEF IndInv, TypeOK
  <2>4. LookedUp'
    <3>1. i \in DOMAIN calls /\ calls[i] \in CallRecord /\ DOMAIN calls = 1..Len(calls)
      BY <1>1, FrontLeaves, Typed DEF IndInv
    <3>2. calls'[i].op = calls[i].op /\ calls'[i].ticket = calls[i].ticket
      BY <2>1, <3>1 DEF CallRecord
    <3>3. NeedsPosition(Op(i)) => pos \in PositionRecord /\ pos.sl = StopLoss
      BY <1>3, <2>2 DEF Permitted, Op, IndInv, TypeOK, StopIsKept
    <3>4. Op(i) = "partial" => \A p \in found : p.volume > 1
      <4>1. ASSUME Op(i) = "partial", NEW p \in found PROVE p.volume > 1
        BY <1>3, <2>2, <4>1 DEF Permitted, PartialAllowed, NeedsPosition, Op, IndInv, TypeOK, PositionRecord
      <4>2. QED
        BY <4>1
    <3>5. positions' = positions
      BY <1>1 DEF broker
    <3>6. worker'.id = i /\ worker'.pos = pos /\ worker'.step = "send"
      BY <2>1
    <3> HIDE DEF i, pos
    <3>7. QED
      BY <1>1, <3>2, <3>3, <3>4, <3>5, <3>6 DEF LookedUp, Op, PositionOf
  <2>5. stuck' \in BOOLEAN /\ trouble' \in 0..MaxTrouble
    BY <1>1 DEF IndInv, TypeOK
  <2> HIDE DEF pos
  <2>6. QED
    BY <1>1, <2>1, <2>3, <2>4, <2>5, FrontWorks
<1>4. QED
  BY <1>2, <1>3

LEMMA HangKeeps ==
  ASSUME IndInv, Hang
  PROVE  IndInv'
<1>1. /\ stuck' \in BOOLEAN /\ trouble' \in 0..MaxTrouble
      /\ initialized' \in BOOLEAN /\ terminal' \in BOOLEAN
      /\ UNCHANGED <<arrived, process, enabled, initialized, terminal, broker>>
  BY BridgeAssumption DEF Hang, IndInv, TypeOK, BridgeAssumption
<1>2. CASE UNCHANGED <<calls, queue, worker>>
  <2>1. Queues'
    BY <1>1, <1>2, PlacesKept DEF IndInv, CallsAreHeld
  <2>2. QED
    BY <1>1, <1>2, <2>1
       DEF IndInv, Queues, TypeOK, SentOnce, LookedUp, OrdersOfCalls, StopIsKept,
           PartialNeverCloses, Pending, PositionOf, Op, broker
<1>3. CASE /\ Idle /\ queue' = Rest /\ calls' = [calls EXCEPT ![NextCall].state = "running"]
           /\ worker' = [id |-> NextCall, step |-> "look", pos |-> None]
  <2>1. LookedUp'
    BY <1>3 DEF LookedUp
  <2>2. QED
    BY <1>1, <1>3, <2>1, FrontWorks
<1>4. QED
  BY <1>2, <1>3 DEF Hang

\* A deal takes from a position what was asked for, and a partial close less
\* than all of it.
LEMMA DealIs ==
  ASSUME TypeOK, StopIsKept, PartialNeverCloses, NEW t, NEW req, DealFor(t, req),
         t \in Nat, req.volume \in Nat, req.reason \in {"close", "partial", "broker"},
         req.reason = "partial" => \A p \in PositionOf(t) : req.volume < p.volume
  PROVE  /\ positions' \subseteq PositionRecord
         /\ deals' \subseteq [ticket: Nat, reason: {"close", "partial", "broker"}, left: Nat]
         /\ StopIsKept' /\ PartialNeverCloses' /\ orders' = orders
<1> DEFINE p == CHOOSE q \in PositionOf(t) : TRUE
           left == IF req.volume >= p.volume THEN 0 ELSE p.volume - req.volume
<1>1. p \in positions /\ p \in PositionOf(t) /\ p \in PositionRecord /\ p.volume \in Nat
  BY DEF DealFor, PositionOf, TypeOK, PositionRecord
<1>2. /\ deals' = deals \cup {[ticket |-> t, reason |-> req.reason, left |-> left]}
      /\ positions' = (positions \ {p}) \cup IF left = 0 THEN {} ELSE {[p EXCEPT !.volume = left]}
      /\ orders' = orders
  BY DEF DealFor
<1> HIDE DEF p
<1>3. left \in Nat /\ (req.reason = "partial" => left # 0)
  BY <1>1
<1> HIDE DEF left
<1>4. [p EXCEPT !.volume = left] \in PositionRecord /\ [p EXCEPT !.volume = left].sl = StopLoss
  BY <1>1, <1>3 DEF PositionRecord, StopIsKept
<1>5. /\ positions' \subseteq PositionRecord
      /\ \A q \in positions' : q.sl = StopLoss
  BY <1>2, <1>4 DEF TypeOK, StopIsKept
<1>6. deals' \subseteq [ticket: Nat, reason: {"close", "partial", "broker"}, left: Nat]
  BY <1>2, <1>3 DEF TypeOK
<1>7. \A d \in deals' : d.left = 0 => d.reason # "partial"
  BY <1>2, <1>3 DEF PartialNeverCloses
<1>8. QED
  BY <1>2, <1>5, <1>6, <1>7 DEF StopIsKept, PartialNeverCloses

LEMMA ExecuteIs ==
  ASSUME IndInv, worker.step = "send", Execute(worker.id)
  PROVE  /\ orders' \subseteq OrderRecord /\ positions' \subseteq PositionRecord
         /\ deals' \subseteq [ticket: Nat, reason: {"close", "partial", "broker"}, left: Nat]
         /\ StopIsKept' /\ PartialNeverCloses'
         /\ orders' \subseteq orders \cup {PendingRequest(worker.id)}
<1> DEFINE i == worker.id
           t == calls[i].ticket
<1>1. /\ i \in DOMAIN calls /\ i \in Nat /\ calls[i] \in CallRecord /\ calls[i].by \in Callers
      /\ Op(i) \in Ops \ ReadOps
  BY Typed DEF IndInv, TypeOK, CallsAreHeld, Resting, LookedUp, CallRecord, Op
<1>2. TypeOK /\ StopIsKept /\ PartialNeverCloses
  BY DEF IndInv
<1>3. NeedsPosition(Op(i)) => worker.pos \in PositionRecord /\ worker.pos.sl = StopLoss
  BY DEF IndInv, LookedUp
<1>4. t \in Nat \/ PositionOf(t) = {}
  BY <1>2 DEF TypeOK, PositionRecord, PositionOf
<1>5. CASE Op(i) = "pending"
  <2>1. PendingRequest(i) \in OrderRecord /\ PendingRequest(i).sl = StopLoss
    BY <1>1 DEF PendingRequest, OrderRecord
  <2>2. orders' = orders \cup {PendingRequest(i)} /\ UNCHANGED <<positions, deals>>
    BY <1>5 DEF Execute
  <2>3. QED
    BY <1>2, <2>1, <2>2 DEF TypeOK, StopIsKept, PartialNeverCloses
<1>6. CASE Op(i) = "market"
  <2>1. MarketRequest(i) \in PositionRecord /\ MarketRequest(i).sl = StopLoss
    BY <1>1 DEF MarketRequest, PositionRecord, FullVolume
  <2>2. positions' = positions \cup {MarketRequest(i)} /\ UNCHANGED <<orders, deals>>
    BY <1>6 DEF Execute
  <2>3. QED
    BY <1>2, <2>1, <2>2 DEF TypeOK, StopIsKept, PartialNeverCloses
<1>7. CASE Op(i) = "cancel"
  <2>1. orders' \subseteq orders /\ UNCHANGED <<positions, deals>>
    BY <1>7 DEF Execute
  <2>2. QED
    BY <1>2, <2>1 DEF TypeOK, StopIsKept, PartialNeverCloses
<1>8. CASE Op(i) = "modify"
  <2> DEFINE req == ModifyRequest(worker.pos)
  <2>1. /\ positions' = (positions \ PositionOf(t))
             \cup {[p EXCEPT !.sl = req.sl, !.tp = req.tp] : p \in PositionOf(t)}
        /\ UNCHANGED <<orders, deals>>
    BY <1>8 DEF Execute
  <2>2. req.sl = StopLoss /\ req.tp = Target
    BY <1>3, <1>8 DEF ModifyRequest, NeedsPosition
  <2> HIDE DEF req
  <2>3. \A p \in PositionOf(t) :
          /\ [p EXCEPT !.sl = req.sl, !.tp = req.tp] \in PositionRecord
          /\ [p EXCEPT !.sl = req.sl, !.tp = req.tp].sl = StopLoss
    BY <1>2, <2>2 DEF PositionOf, TypeOK, PositionRecord
  <2>4. positions' \subseteq PositionRecord /\ \A q \in positions' : q.sl = StopLoss
    BY <1>2, <2>1, <2>3 DEF TypeOK, StopIsKept
  <2>5. QED
    BY <1>2, <2>1, <2>4 DEF TypeOK, StopIsKept, PartialNeverCloses
<1>9. CASE Op(i) = "close"
  <2>1. DealFor(t, CloseRequest(worker.pos)) /\ t \in Nat
    BY <1>4, <1>9 DEF Execute, DealFor
  <2>2. CloseRequest(worker.pos).volume \in Nat /\ CloseRequest(worker.pos).reason = "close"
    BY <1>3, <1>9 DEF CloseRequest, NeedsPosition, PositionRecord
  <2>3. QED
    BY <1>2, <2>1, <2>2, DealIs DEF TypeOK
<1>10. CASE Op(i) = "partial"
  <2>1. DealFor(t, PartialRequest(worker.pos)) /\ t \in Nat
    BY <1>4, <1>10 DEF Execute, DealFor
  <2>2. PartialRequest(worker.pos).volume = 1 /\ PartialRequest(worker.pos).reason = "partial"
    BY DEF PartialRequest
  <2>3. \A p \in PositionOf(t) : 1 < p.volume
    <3>1. \A p \in PositionOf(t) : p.volume > 1 /\ p.volume \in Nat
      BY <1>10 DEF IndInv, LookedUp, TypeOK, PositionOf, PositionRecord
    <3>2. QED
      BY <3>1
  <2> DEFINE req == PartialRequest(worker.pos)
  <2>4. /\ req.volume \in Nat /\ req.reason \in {"close", "partial", "broker"}
        /\ \A p \in PositionOf(t) : req.volume < p.volume
    BY <2>2, <2>3
  <2>5. DealFor(t, req)
    BY <2>1
  <2> HIDE DEF req
  <2>6. QED
    BY <1>2, <2>1, <2>4, <2>5, DealIs DEF TypeOK
<1>11. QED
  BY <1>1, <1>5, <1>6, <1>7, <1>8, <1>9, <1>10 DEF Ops, TradingOps, ReadOps

\* A sent order that was placed is newer than every list that was answered.
LEMMA OrdersSent ==
  ASSUME IndInv, NEW i \in DOMAIN calls, OnlyCall(calls, calls', i),
         calls[i].state = "running", Op(i) # "orders", calls'[i].sent = 1,
         orders' \subseteq orders \cup {PendingRequest(i)}, UNCHANGED arrived
  PROVE  OrdersOfCalls'
<1> USE DEF IndInv
<1>1. \A j \in DOMAIN calls \ {i} : calls'[j] = calls[j]
  BY DEF OnlyCall
<1>2. DOMAIN calls' = DOMAIN calls /\ calls'[i].op = calls[i].op /\ calls'[i].by = calls[i].by
  BY DEF OnlyCall, Kept
<1>3. PendingRequest(i).ticket = i /\ PendingRequest(i).magic = calls[i].by
  BY DEF PendingRequest
<1>4. \A o \in orders' : /\ o.ticket \in DOMAIN calls'
                         /\ calls'[o.ticket].sent = 1 /\ calls'[o.ticket].by = o.magic
  <2>1. \A o \in orders : /\ o.ticket \in DOMAIN calls'
                          /\ calls'[o.ticket].sent = 1 /\ calls'[o.ticket].by = o.magic
    BY <1>1, <1>2 DEF OrdersOfCalls
  <2>2. QED
    BY <1>2, <1>3, <2>1
<1>5. Pending' \subseteq Pending \cup {i}
  BY <1>3 DEF Pending
<1>6. ASSUME NEW j \in DOMAIN arrived, NEW k \in DOMAIN arrived, j < k,
             calls'[arrived[k]].op = "orders", calls'[arrived[k]].sent = 1,
             calls'[arrived[j]].by = calls'[arrived[k]].by, arrived[j] \in Pending'
      PROVE  arrived[j] \in calls'[arrived[k]].view
  <2>1. arrived[j] \in DOMAIN calls /\ arrived[k] \in DOMAIN calls
    BY Typed
  <2>2. arrived[k] # i
    BY <1>2, <1>6 DEF Op
  <2>3. calls'[arrived[k]] = calls[arrived[k]] /\ calls'[arrived[j]].by = calls[arrived[j]].by
    BY <1>1, <1>2, <2>1, <2>2
  <2>4. calls[arrived[j]].state = "ended"
    BY <1>6, <2>3 DEF WorkedInOrder
  <2>5. arrived[j] \in Pending
    BY <1>5, <1>6, <2>4
  <2>6. QED
    BY <1>6, <2>3, <2>5 DEF OrdersOfCalls, Op
<1>7. QED
  BY <1>4, <1>6 DEF OrdersOfCalls, Op

Marked(i) == [calls EXCEPT ![i].sent = @ + 1]

LEMMA MarkedIs ==
  ASSUME IndInv, worker.step = "send"
  PROVE  LET i == worker.id
         IN  /\ i \in DOMAIN calls /\ i \in Nat /\ i # 0 /\ worker # Resting
             /\ calls[i].state = "running" /\ calls[i].sent = 0 /\ Op(i) # "orders"
             /\ OnlyCall(calls, Marked(i), i)
             /\ Marked(i)[i].sent = 1 /\ Marked(i)[i].state = "running"
             /\ Marked(i)[i].result = calls[i].result /\ Marked(i)[i].answer = calls[i].answer
<1> DEFINE i == worker.id
           c == [calls[i] EXCEPT !.sent = 1]
<1>1. /\ i \in DOMAIN calls /\ i \in Nat /\ i # 0 /\ calls[i] \in CallRecord /\ worker # Resting
      /\ calls[i].state = "running" /\ calls[i].sent = 0 /\ Op(i) # "orders"
      /\ calls \in Seq(CallRecord)
  BY Typed DEF IndInv, TypeOK, CallsAreHeld, SentOnce, Resting, LookedUp, Op, ReadOps
<1>2. /\ c \in CallRecord /\ Kept(c, calls[i]) /\ c.sent = 1 /\ c.state = "running"
      /\ c.result = calls[i].result /\ c.answer = calls[i].answer
  BY <1>1 DEF CallRecord, Kept
<1>3. Marked(i) = [calls EXCEPT ![i] = c]
  <2>1. calls[i].sent + 1 = 1
    BY <1>1
  <2>2. QED
    BY <2>1 DEF Marked
<1> HIDE DEF c, i
<1>4. OnlyCall(calls, [calls EXCEPT ![i] = c], i) /\ [calls EXCEPT ![i] = c][i] = c
  BY <1>1, <1>2, UpdatedCall
<1>5. OnlyCall(calls, Marked(i), i) /\ Marked(i)[i] = c
  BY <1>3, <1>4
<1>6. QED
  BY <1>1, <1>2, <1>5 DEF i

LEMMA SendSteps ==
  ASSUME IndInv, worker.step = "send", Execute(worker.id),
         \/ /\ worker' = Resting
            /\ \E r \in {"ok", "error"} : calls' = Finished(Marked(worker.id), worker.id, r)
         \/ /\ worker' = [worker EXCEPT !.step = "lookup"]
            /\ calls' = Marked(worker.id) /\ Op(worker.id) = "market",
         trouble' \in 0..MaxTrouble, UNCHANGED <<arrived, queue, server>>
  PROVE  IndInv'
<1> DEFINE i == worker.id
           sent == Marked(i)
<1>1. /\ i \in DOMAIN calls /\ i \in Nat /\ i # 0 /\ worker # Resting
      /\ calls[i].state = "running" /\ calls[i].sent = 0 /\ Op(i) # "orders"
  BY MarkedIs
<1>2. /\ OnlyCall(calls, sent, i) /\ sent[i].sent = 1 /\ sent[i].state = "running"
      /\ sent[i].result = calls[i].result /\ sent[i].answer = calls[i].answer
  BY MarkedIs
<1> HIDE DEF sent, i
<1>4. SentOnce
  BY DEF IndInv
<1>5. CASE /\ worker' = Resting
           /\ \E r \in {"ok", "error"} : calls' = Finished(sent, i, r)
  <2>1. PICK r \in {"ok", "error"} : calls' = Finished(sent, i, r)
    BY <1>5
  <2>2. /\ OnlyCall(sent, calls', i)
        /\ calls'[i].state = "ended" /\ calls'[i].sent = 1
    <3>1. sent \in Seq(CallRecord) /\ i \in DOMAIN sent
      BY <1>1, <1>2 DEF OnlyCall
    <3>2. /\ OnlyCall(sent, Finished(sent, i, r), i)
          /\ Finished(sent, i, r)[i].state = "ended"
          /\ Finished(sent, i, r)[i].sent = sent[i].sent
      BY <2>1, <3>1, FinishedCall
    <3>3. QED
      BY <1>2, <2>1, <3>2
  <2>3. OnlyCall(calls, calls', i)
    BY <1>1, <1>2, <2>2, OnlyCallTwice
  <2>4. Queues'
    BY <1>1, <1>5, <2>2, <2>3, WorkerEnds DEF i, server
  <2>5. SentOnce'
    <3>1. \A j \in DOMAIN calls : worker'.id # j
      BY <1>5, Typed DEF Resting, IndInv
    <3>2. QED
      BY <1>4, <2>2, <2>3, <3>1 DEF SentOnce, OnlyCall
  <2>6. LookedUp'
    BY <1>5 DEF LookedUp, Resting
  <2>7. TypeOK'
    BY <1>5, <2>3, ExecuteIs, BridgeAssumption DEF IndInv, TypeOK, OnlyCall, server, Resting
  <2>8. OrdersOfCalls'
    BY <1>1, <2>2, <2>3, ExecuteIs, OrdersSent DEF i
  <2>9. QED
    BY <2>4, <2>5, <2>6, <2>7, <2>8, ExecuteIs DEF IndInv, Queues
<1>6. CASE /\ worker' = [worker EXCEPT !.step = "lookup"]
           /\ calls' = sent /\ Op(i) = "market"
  <2>1. OnlyCall(calls, calls', i) /\ calls'[i] = sent[i]
    BY <1>2, <1>6
  <2>2. worker'.id = worker.id /\ worker'.step = "lookup" /\ worker' # Resting /\ worker'.pos = worker.pos
        /\ worker' \in [id: {0} \cup DOMAIN calls, step: {"rest", "look", "send", "lookup"},
                        pos: PositionRecord \cup {None}]
    BY <1>6 DEF IndInv, TypeOK, Resting
  <2>3. /\ DOMAIN calls' = DOMAIN calls /\ \A j \in DOMAIN calls \ {i} : calls'[j] = calls[j]
        /\ calls'[i].op = calls[i].op
    BY <2>1 DEF OnlyCall, Kept
  <2>4. Queues'
    <3>1. process' = "down" => process = "down"
      BY DEF server
    <3>2. \A j \in DOMAIN calls :
            /\ calls'[j].state = calls[j].state /\ calls'[j].op = calls[j].op
            /\ calls'[j].sent = calls[j].sent \/ calls[j].state = "running"
      BY <1>1, <1>2, <2>1, <2>3
    <3>3. UNCHANGED <<queue, arrived, enabled>>
      BY DEF server
    <3>4. QED
      BY <1>1, <2>2, <2>3, <3>1, <3>2, <3>3, PlacesKept
  <2>5. SentOnce'
    BY <1>1, <1>2, <1>4, <2>1, <2>2, <2>3 DEF SentOnce, i
  <2>6. LookedUp'
    BY <1>6, <2>2, <2>3 DEF LookedUp, Op, i
  <2>7. TypeOK'
    BY <2>1, <2>2, ExecuteIs DEF IndInv, TypeOK, OnlyCall, server
  <2>8. OrdersOfCalls'
    BY <1>1, <1>2, <2>1, ExecuteIs, OrdersSent DEF i
  <2>9. QED
    BY <2>4, <2>5, <2>6, <2>7, <2>8, ExecuteIs DEF IndInv, Queues
<1>7. QED
  BY <1>5, <1>6 DEF i, sent

LEMMA SendKeeps ==
  ASSUME IndInv, Send \/ SendUnsure
  PROVE  IndInv'
<1>1. worker.step = "send" /\ Execute(worker.id) /\ trouble' \in 0..MaxTrouble
  BY BridgeAssumption DEF Send, SendUnsure, Running, IndInv, TypeOK, BridgeAssumption
<1>2. /\ UNCHANGED <<arrived, queue, server>>
      /\ \/ /\ worker' = Resting
            /\ \E r \in {"ok", "error"} : calls' = Finished(Marked(worker.id), worker.id, r)
         \/ /\ worker' = [worker EXCEPT !.step = "lookup"]
            /\ calls' = Marked(worker.id) /\ Op(worker.id) = "market"
  BY DEF Send, SendUnsure, Marked
<1>3. QED
  BY <1>1, <1>2, SendSteps

\* The worker ends a call: refused, or looked up after it was sent.
LEMMA WorkEnds ==
  ASSUME IndInv, worker # Resting, NEW cs, NEW r \in {"ok", "error"},
         OnlyCall(calls, cs, worker.id),
         cs[worker.id].sent = calls[worker.id].sent,
         cs[worker.id].answer = calls[worker.id].answer,
         r = "ok" => calls[worker.id].sent = 1,
         \/ cs[worker.id].view = calls[worker.id].view
         \/ calls[worker.id].sent = 1 /\ Op(worker.id) # "orders",
         calls' = Finished(cs, worker.id, r), worker' = Resting,
         UNCHANGED <<arrived, queue, server, broker, trouble>>
  PROVE  IndInv'
<1> DEFINE i == worker.id
<1>1. i \in DOMAIN calls /\ calls[i].sent \in {0, 1}
  BY DEF IndInv, TypeOK, CallsAreHeld, SentOnce
<1>2. cs \in Seq(CallRecord) /\ i \in DOMAIN cs
  BY <1>1 DEF OnlyCall
<1> HIDE DEF i
<1>3. /\ OnlyCall(cs, calls', i) /\ calls'[i].state = "ended"
      /\ calls'[i].sent = cs[i].sent /\ calls'[i].view = cs[i].view
      /\ calls'[i].answer = cs[i].answer /\ calls'[i].result \in {None, r}
  BY <1>2, FinishedCall DEF i
<1>4. OnlyCall(calls, calls', i)
  BY <1>1, <1>2, <1>3, OnlyCallTwice DEF i
<1>5. Queues'
  BY <1>3, <1>4, WorkerEnds DEF i, server
<1>6. "ok" \in {calls'[i].result, calls'[i].answer} => calls[i].sent = 1
  BY <1>1, <1>3, BridgeAssumption DEF BridgeAssumption, IndInv, SentOnce, i
<1>7. SentOnce'
  BY <1>1, <1>3, <1>4, <1>6, SentKept DEF i
<1>8. OrdersOfCalls'
  <2>1. calls'[i].view = calls[i].view \/ (calls[i].sent = 1 /\ Op(i) # "orders")
    BY <1>1, <1>3 DEF i
  <2>2. CASE calls'[i].view = calls[i].view
    BY <1>1, <1>3, <1>4, <2>2, OrdersKept DEF i, broker
  <2>3. CASE calls[i].sent = 1 /\ Op(i) # "orders"
    BY <1>1, <1>3, <1>4, <2>3, OrdersKept DEF i, broker
  <2>4. QED
    BY <2>1, <2>2, <2>3
<1>9. TypeOK'
  BY <1>4, BridgeAssumption DEF IndInv, TypeOK, OnlyCall, server, broker, Resting
<1>10. QED
  BY <1>1, <1>3, <1>4, <1>5, <1>7, <1>8, <1>9, OthersKept DEF IndInv, Queues, i

LEMMA SendRefusedKeeps ==
  ASSUME IndInv, SendRefused
  PROVE  IndInv'
<1>1. worker # Resting /\ worker.id \in DOMAIN calls
  BY DEF SendRefused, Running, IndInv, TypeOK, CallsAreHeld, Resting
<1>2. OnlyCall(calls, calls, worker.id)
  BY DEF OnlyCall, Kept, IndInv, TypeOK
<1>3. QED
  BY <1>1, <1>2, WorkEnds DEF SendRefused

LEMMA LookupKeeps ==
  ASSUME IndInv, Lookup
  PROVE  IndInv'
<1> DEFINE i == worker.id
           v == {p.ticket : p \in {q \in PositionOf(i) : terminal}}
           c == [calls[i] EXCEPT !.view = v]
<1>1. /\ worker # Resting /\ i \in DOMAIN calls /\ calls[i] \in CallRecord /\ calls \in Seq(CallRecord)
      /\ calls[i].sent = 1 /\ Op(i) # "orders"
  BY Typed DEF Lookup, Running, IndInv, TypeOK, CallsAreHeld, SentOnce, LookedUp, Resting
<1>2. v \subseteq Nat
  BY DEF IndInv, TypeOK, PositionRecord, PositionOf
<1>3. calls' = Finished([calls EXCEPT ![i] = c], i, "ok")
  BY DEF Lookup
<1> HIDE DEF v
<1>4. c \in CallRecord /\ Kept(c, calls[i]) /\ c.sent = calls[i].sent /\ c.answer = calls[i].answer
  BY <1>1, <1>2 DEF CallRecord, Kept
<1> HIDE DEF c, i
<1>5. OnlyCall(calls, [calls EXCEPT ![i] = c], i) /\ [calls EXCEPT ![i] = c][i] = c
  BY <1>1, <1>4, UpdatedCall
<1> DEFINE cs == [calls EXCEPT ![i] = c]
<1>6. OnlyCall(calls, cs, i) /\ cs[i].sent = calls[i].sent /\ cs[i].answer = calls[i].answer
  BY <1>4, <1>5
<1>7. calls' = Finished(cs, i, "ok") /\ worker' = Resting
      /\ UNCHANGED <<arrived, queue, server, broker, trouble>>
  BY <1>3 DEF Lookup
<1> HIDE DEF cs
<1>8. QED
  BY <1>1, <1>6, <1>7, WorkEnds DEF i

-----------------------------------------------------------------------------

LEMMA BrokerKeeps ==
  ASSUME IndInv, Fill \/ StopOrTargetHit
  PROVE  IndInv'
<1>1. /\ UNCHANGED <<calls, arrived, queue, worker, server, trouble>>
      /\ orders' \subseteq orders
      /\ positions' \subseteq PositionRecord
      /\ \A p \in positions' : p.sl = StopLoss
      /\ \A p \in positions' \ positions : p.volume > 1
      /\ deals' \subseteq [ticket: Nat, reason: {"close", "partial", "broker"}, left: Nat]
      /\ \A d \in deals' : d.left = 0 => d.reason # "partial"
  <2>1. CASE Fill
    <3>1. PICK o \in orders :
            /\ orders' = orders \ {o}
            /\ positions' = positions \cup
                 {[ticket |-> o.ticket, magic |-> o.magic, volume |-> FullVolume, sl |-> o.sl, tp |-> None]}
      BY <2>1 DEF Fill
    <3>2. o \in OrderRecord /\ o.sl = StopLoss
      BY DEF IndInv, TypeOK, StopIsKept
    <3>3. UNCHANGED <<calls, arrived, queue, worker, server, deals, trouble>>
      BY <2>1 DEF Fill
    <3>4. QED
      BY <3>1, <3>2, <3>3
         DEF OrderRecord, PositionRecord, FullVolume, IndInv, TypeOK, StopIsKept, PartialNeverCloses
  <2>2. CASE StopOrTargetHit
    <3>1. PICK p \in positions :
            /\ positions' = positions \ {p}
            /\ deals' = deals \cup {[ticket |-> p.ticket, reason |-> "broker", left |-> 0]}
      BY <2>2 DEF StopOrTargetHit
    <3>2. p.ticket \in Nat
      BY DEF IndInv, TypeOK, PositionRecord
    <3>3. UNCHANGED <<calls, arrived, queue, worker, server, orders, trouble>>
      BY <2>2 DEF StopOrTargetHit
    <3>4. QED
      BY <3>1, <3>2, <3>3 DEF IndInv, TypeOK, StopIsKept, PartialNeverCloses
  <2>3. QED
    BY <2>1, <2>2
<1>2. TypeOK'
  BY <1>1 DEF IndInv, TypeOK, server
<1>3. Queues'
  BY <1>1, PlacesKept DEF server
<1>4. SentOnce'
  BY <1>1 DEF IndInv, SentOnce
<1>5. LookedUp'
  BY <1>1 DEF IndInv, LookedUp, PositionOf, Op
<1>6. OrdersOfCalls'
  <2>1. Pending' \subseteq Pending
    BY <1>1 DEF Pending
  <2>2. QED
    BY <1>1, <2>1 DEF IndInv, OrdersOfCalls, Op
<1>7. StopIsKept' /\ PartialNeverCloses'
  BY <1>1 DEF IndInv, StopIsKept, PartialNeverCloses
<1>8. QED
  BY <1>2, <1>3, <1>4, <1>5, <1>6, <1>7 DEF IndInv, Queues

LEMMA ServerKeeps ==
  ASSUME IndInv, TerminalGone \/ Stop \/ Shutdown \/ Startup \/ UNCHANGED vars
  PROVE  IndInv'
<1>1. UNCHANGED <<calls, arrived, queue, worker, broker>>
  BY DEF TerminalGone, Stop, Shutdown, Startup, vars
<1>2. TypeOK'
  <2>1. trouble' \in 0..MaxTrouble
    BY BridgeAssumption DEF IndInv, TypeOK, TerminalGone, Stop, Shutdown, Startup, vars, BridgeAssumption
  <2>3. process' \in {"up", "stopping", "down"}
    BY DEF IndInv, TypeOK, TerminalGone, Stop, Shutdown, Startup, vars, server
  <2>4. /\ stuck' \in {TRUE, FALSE} /\ enabled' \in {TRUE, FALSE}
        /\ initialized' \in {TRUE, FALSE} /\ terminal' \in {TRUE, FALSE}
    <3>1. /\ stuck' = stuck
          /\ enabled' = enabled \/ enabled' \in BOOLEAN
          /\ initialized' = initialized \/ initialized' \in BOOLEAN
          /\ terminal' = terminal \/ terminal' \in BOOLEAN
      BY Zenon DEF TerminalGone, Stop, Shutdown, Startup, vars, server
    <3>2. QED
      BY <3>1 DEF IndInv, TypeOK
  <2>2. QED
    BY <1>1, <2>1, <2>3, <2>4 DEF IndInv, TypeOK, broker
<1>3. Queues'
  <2>1. CASE Startup
    BY <1>1, <2>1, Typed
       DEF Startup, IndInv, Queues, CallsAreHeld, HeldIsAllowed, ArrivedOnce, WorkedInOrder, Resting
  <2>2. CASE TerminalGone \/ Stop \/ Shutdown \/ UNCHANGED vars
    BY <1>1, <2>2, PlacesKept DEF TerminalGone, Stop, Shutdown, vars, server
  <2>3. QED
    BY <2>1, <2>2
<1>4. SentOnce' /\ LookedUp' /\ OrdersOfCalls' /\ StopIsKept' /\ PartialNeverCloses'
  BY <1>1 DEF IndInv, SentOnce, LookedUp, OrdersOfCalls, StopIsKept, PartialNeverCloses,
              PositionOf, Pending, Op, broker
<1>5. QED
  BY <1>2, <1>3, <1>4 DEF IndInv, Queues

\* The end of the process ends the calls it held, and no other.
LEMMA CrashedCalls ==
  ASSUME IndInv, Crash
  PROVE  /\ calls' \in Seq(CallRecord) /\ Len(calls') = Len(calls) /\ DOMAIN calls' = DOMAIN calls
         /\ \A i \in DOMAIN calls :
              /\ calls'[i] \in CallRecord /\ Kept(calls'[i], calls[i])
              /\ calls'[i].state = IF i \in Held THEN "ended" ELSE calls[i].state
              /\ calls'[i].sent = calls[i].sent /\ calls'[i].view = calls[i].view
              /\ calls'[i].answer = calls[i].answer
              /\ calls'[i].result \in {calls[i].result, None, "error"}
<1>2. DOMAIN calls = 1..Len(calls) /\ Len(calls) \in Nat /\ calls \in Seq(CallRecord)
  BY Typed DEF IndInv, TypeOK
<1>3. ASSUME NEW i \in DOMAIN calls
      PROVE  /\ calls'[i] \in CallRecord /\ Kept(calls'[i], calls[i])
             /\ calls'[i].state = IF i \in Held THEN "ended" ELSE calls[i].state
             /\ calls'[i].sent = calls[i].sent /\ calls'[i].view = calls[i].view
             /\ calls'[i].answer = calls[i].answer
             /\ calls'[i].result \in {calls[i].result, None, "error"}
  <2>1. calls'[i] = IF i \in Held THEN Finished(calls, i, "error")[i] ELSE calls[i]
    BY DEF Crash
  <2>2. CASE i \in Held
    <3>1. /\ OnlyCall(calls, Finished(calls, i, "error"), i)
          /\ Finished(calls, i, "error")[i].state = "ended"
          /\ Finished(calls, i, "error")[i].result \in {None, "error"}
          /\ Finished(calls, i, "error")[i].sent = calls[i].sent
          /\ Finished(calls, i, "error")[i].answer = calls[i].answer
          /\ Finished(calls, i, "error")[i].view = calls[i].view
      BY <1>2, FinishedCall
    <3>2. Finished(calls, i, "error")[i] \in CallRecord
      BY <1>2, <3>1, ElementOfSeq, LenProperties DEF OnlyCall
    <3>3. QED
      BY <2>1, <2>2, <3>1, <3>2 DEF OnlyCall
  <2>3. CASE i \notin Held
    BY <1>2, <2>1, <2>3, Typed DEF Kept, IndInv
  <2>4. QED
    BY <2>2, <2>3
<1>4. calls' \in Seq(CallRecord) /\ Len(calls') = Len(calls) /\ DOMAIN calls' = DOMAIN calls
  <2>1. calls' = [i \in 1..Len(calls) |-> IF i \in Held THEN Finished(calls, i, "error")[i] ELSE calls[i]]
    BY <1>2 DEF Crash
  <2>2. DOMAIN calls' = 1..Len(calls)
    BY <2>1
  <2>3. \A i \in 1..Len(calls) : calls'[i] \in CallRecord
    BY <1>2, <1>3
  <2>4. calls' \in [1..Len(calls) -> CallRecord]
    BY <2>1, <2>2, <2>3
  <2>5. QED
    BY <1>2, <2>4
<1>5. QED
  BY <1>3, <1>4

LEMMA CrashKeeps ==
  ASSUME IndInv, Crash
  PROVE  IndInv'
<1>1. /\ process' = "down" /\ queue' = <<>> /\ worker' = Resting /\ stuck' = FALSE
      /\ initialized' = FALSE /\ trouble' \in 0..MaxTrouble
      /\ UNCHANGED <<arrived, enabled, terminal, broker>>
  BY BridgeAssumption DEF Crash, IndInv, TypeOK, BridgeAssumption
<1>2. DOMAIN calls = 1..Len(calls) /\ Len(calls) \in Nat /\ calls \in Seq(CallRecord)
  BY Typed DEF IndInv, TypeOK
<1>3. \A i \in DOMAIN calls :
        /\ calls'[i] \in CallRecord /\ Kept(calls'[i], calls[i])
        /\ calls'[i].state = IF i \in Held THEN "ended" ELSE calls[i].state
        /\ calls'[i].sent = calls[i].sent /\ calls'[i].view = calls[i].view
        /\ calls'[i].answer = calls[i].answer
        /\ calls'[i].result \in {calls[i].result, None, "error"}
  BY CrashedCalls
<1>4. calls' \in Seq(CallRecord) /\ Len(calls') = Len(calls) /\ DOMAIN calls' = DOMAIN calls
  BY CrashedCalls
<1>5. \A i \in DOMAIN calls : calls'[i].state \in {"transit", "ended"} /\ calls'[i].op = calls[i].op
        /\ calls'[i].by = calls[i].by /\ calls'[i].ticket = calls[i].ticket
  BY <1>2, <1>3, Typed DEF Held, IndInv, CallRecord, Kept
<1>6. TypeOK'
  <2>1. queue' \in Seq(DOMAIN calls') /\ arrived' \in Seq(DOMAIN calls')
    BY <1>1, <1>4 DEF IndInv, TypeOK
  <2>2. worker' \in [id: {0} \cup DOMAIN calls', step: {"rest", "look", "send", "lookup"},
                     pos: PositionRecord \cup {None}]
    BY <1>1 DEF Resting
  <2>3. orders' = orders /\ positions' = positions /\ deals' = deals
    BY <1>1 DEF broker
  <2>4. calls' \in Seq(CallRecord) /\ Len(calls') <= MaxCalls
    BY <1>4 DEF IndInv, TypeOK
  <2>5. stuck' \in BOOLEAN /\ enabled' \in BOOLEAN /\ initialized' \in BOOLEAN
        /\ terminal' \in BOOLEAN /\ process' \in {"up", "stopping", "down"}
    BY <1>1 DEF IndInv, TypeOK
  <2>6. QED
    BY <1>1, <2>1, <2>2, <2>3, <2>4, <2>5 DEF IndInv, TypeOK
<1>7. CallsAreHeld'
  BY <1>1, <1>2, <1>4, <1>5 DEF CallsAreHeld, Resting
<1>8. HeldIsAllowed'
  BY <1>4, <1>5 DEF HeldIsAllowed
<1>9. SentOnce'
  BY <1>1, <1>2, <1>3, <1>4, <1>5, BridgeAssumption DEF IndInv, SentOnce, Resting, BridgeAssumption
<1>10. LookedUp' /\ StopIsKept' /\ PartialNeverCloses'
  BY <1>1 DEF IndInv, LookedUp, Resting, StopIsKept, PartialNeverCloses, broker
<1>11. ArrivedOnce'
  <2>1. \A k \in DOMAIN arrived : calls'[arrived[k]].state # "transit"
    BY <1>3, Typed DEF IndInv, ArrivedOnce
  <2>2. \A i \in DOMAIN calls : calls'[i].sent = 1 => \E k \in DOMAIN arrived : arrived[k] = i
    BY <1>3 DEF IndInv, ArrivedOnce
  <2>3. QED
    BY <1>1, <1>4, <1>5, <2>1, <2>2 DEF IndInv, ArrivedOnce
<1>12. WorkedInOrder'
  BY <1>1, <1>3, <1>5, Typed DEF IndInv, WorkedInOrder
<1>13. OrdersOfCalls'
  BY <1>1, <1>3, <1>4, <1>5, Typed DEF IndInv, OrdersOfCalls, Pending, Op, broker
<1>14. QED
  BY <1>6, <1>7, <1>8, <1>9, <1>10, <1>11, <1>12, <1>13 DEF IndInv

\* A caller issues a call; everything else stays where it is.
LEMMA RequestKeeps ==
  ASSUME IndInv, NEW c \in Callers, Request(c)
  PROVE  IndInv'
<1> USE DEF IndInv
<1>1. PICK op \in Wants(c) : \E t \in IF op \in TicketOps THEN Tickets(c) ELSE {None} :
        calls' = Append(calls, Call(c, op, t))
  BY DEF Request
<1>2. PICK t \in IF op \in TicketOps THEN Tickets(c) ELSE {None} :
        calls' = Append(calls, Call(c, op, t))
  BY <1>1
<1> DEFINE n == Len(calls) + 1
           new == Call(c, op, t)
<1>3. t \in Nat \cup {None}
  <2>1. Tickets(c) \subseteq Nat
    BY DEF TypeOK, Tickets, Ours, OrderRecord, PositionRecord
  <2>2. QED
    BY <2>1
<1>4. op \in Ops
  BY WantsAssumption
<1>5. /\ new \in CallRecord /\ new.state = "transit" /\ new.sent = 0 /\ new.view = {}
      /\ new.result = None /\ new.answer = "none"
  BY <1>3, <1>4 DEF Call, CallRecord
<1> HIDE DEF new
<1>6. /\ calls' \in Seq(CallRecord) /\ Len(calls') = n /\ DOMAIN calls' = 1..n
      /\ \A i \in DOMAIN calls : calls'[i] = calls[i]
      /\ calls'[n] = new
  BY <1>2, <1>5, AppendIs DEF TypeOK, new
<1>7. /\ DOMAIN calls = 1..Len(calls) /\ Len(calls) \in Nat /\ n \in Nat
      /\ DOMAIN calls \subseteq DOMAIN calls' /\ n \notin DOMAIN calls
      /\ \A i \in DOMAIN calls' : i = n \/ i \in DOMAIN calls
  BY <1>6, Typed
<1>8. UNCHANGED <<arrived, queue, worker, server, broker, trouble>>
  BY DEF Request
<1>9. /\ n # 0 /\ worker.id \in {0} \cup DOMAIN calls /\ n # worker.id
      /\ \A k \in DOMAIN queue : queue[k] \in DOMAIN calls
      /\ \A k \in DOMAIN arrived : arrived[k] \in DOMAIN calls
  BY <1>7, Typed DEF TypeOK
<1>10. TypeOK'
  <2>1. Len(calls') <= MaxCalls
    BY <1>6, <1>7, BridgeAssumption DEF Request, BridgeAssumption
  <2>2. queue' \in Seq(DOMAIN calls') /\ arrived' \in Seq(DOMAIN calls')
    BY <1>7, <1>8, SeqMonotonic DEF TypeOK
  <2>3. worker' \in [id: {0} \cup DOMAIN calls', step: {"rest", "look", "send", "lookup"},
                     pos: PositionRecord \cup {None}]
    BY <1>7, <1>8 DEF TypeOK
  <2>4. QED
    BY <1>6, <1>8, <2>1, <2>2, <2>3 DEF TypeOK, server, broker
<1> HIDE DEF n
<1>11. CallsAreHeld'
  BY <1>5, <1>6, <1>7, <1>8, <1>9 DEF CallsAreHeld, server
<1>12. SentOnce'
  BY <1>5, <1>6, <1>7, <1>8, <1>9, BridgeAssumption DEF SentOnce, BridgeAssumption
<1>13. HeldIsAllowed'
  BY <1>5, <1>6, <1>7, <1>8 DEF HeldIsAllowed, Gated, Op, server
<1>14. LookedUp'
  <2>1. worker.step \in {"send", "lookup"} => worker.id \in DOMAIN calls
    BY <1>9 DEF CallsAreHeld, Resting
  <2>2. QED
    BY <1>6, <1>8, <2>1 DEF LookedUp, Op, PositionOf, broker
<1>15. ArrivedOnce'
  <2>1. \A k \in DOMAIN arrived : calls'[arrived[k]].state # "transit"
    BY <1>6, <1>9 DEF ArrivedOnce
  <2>2. \A i \in DOMAIN calls' :
          calls'[i].state \in {"queued", "running"} \/ calls'[i].sent = 1
            => \E k \in DOMAIN arrived : arrived[k] = i
    BY <1>5, <1>6, <1>7 DEF ArrivedOnce
  <2>3. QED
    BY <1>8, <2>1, <2>2 DEF ArrivedOnce
<1>16. WorkedInOrder'
  BY <1>6, <1>8, <1>9 DEF WorkedInOrder
<1>17. OrdersOfCalls'
  BY <1>6, <1>7, <1>8, <1>9 DEF OrdersOfCalls, Pending, Op, broker
<1>18. StopIsKept' /\ PartialNeverCloses'
  BY <1>8 DEF StopIsKept, PartialNeverCloses, broker
<1>19. QED
  BY <1>10, <1>11, <1>12, <1>13, <1>14, <1>15, <1>16, <1>17, <1>18

-----------------------------------------------------------------------------

LEMMA InitIndInv == Init => IndInv
<1> SUFFICES ASSUME Init PROVE IndInv
  OBVIOUS
<1>1. /\ calls = <<>> /\ arrived = <<>> /\ queue = <<>>
      /\ DOMAIN calls = {} /\ DOMAIN arrived = {} /\ DOMAIN queue = {} /\ Len(calls) = 0
  BY EmptySeq DEF Init
<1>2. TypeOK
  <2>1. calls \in Seq(CallRecord) /\ arrived \in Seq(DOMAIN calls) /\ queue \in Seq(DOMAIN calls)
    BY <1>1, EmptySeq
  <2>2. worker \in [id: {0} \cup DOMAIN calls, step: {"rest", "look", "send", "lookup"},
                    pos: PositionRecord \cup {None}]
    BY DEF Init, Resting
  <2>3. positions \subseteq PositionRecord
    BY BridgeAssumption DEF Init, PositionRecord, FullVolume, BridgeAssumption
  <2>4. Len(calls) <= MaxCalls /\ trouble \in 0..MaxTrouble
    BY <1>1, BridgeAssumption DEF Init, BridgeAssumption
  <2>5. stuck \in BOOLEAN /\ initialized \in BOOLEAN /\ terminal \in BOOLEAN /\ enabled \in BOOLEAN
    BY Zenon DEF Init
  <2>6. orders = {} /\ deals = {} /\ process = "up"
    BY DEF Init
  <2>7. QED
    BY <2>1, <2>2, <2>3, <2>4, <2>5, <2>6 DEF TypeOK
<1>3. CallsAreHeld
  BY <1>1 DEF Init, CallsAreHeld, Resting
<1>4. SentOnce /\ HeldIsAllowed /\ ArrivedOnce /\ WorkedInOrder
  BY <1>1 DEF SentOnce, HeldIsAllowed, ArrivedOnce, WorkedInOrder
<1>5. OrdersOfCalls
  BY <1>1 DEF Init, OrdersOfCalls
<1>6. LookedUp /\ StopIsKept /\ PartialNeverCloses
  BY DEF Init, LookedUp, Resting, StopIsKept, PartialNeverCloses
<1>7. QED
  BY <1>2, <1>3, <1>4, <1>5, <1>6 DEF IndInv

LEMMA NextIndInv == IndInv /\ [Next]_vars => IndInv'
<1> SUFFICES ASSUME IndInv, [Next]_vars PROVE IndInv'
  OBVIOUS
<1>1. ASSUME NEW c \in Callers, Request(c) PROVE IndInv'
  BY <1>1, RequestKeeps
<1>2. ASSUME NEW i \in DOMAIN calls,
             Arrive(i) \/ Refuse(i) \/ HandlerTimeout(i) \/ Respond(i) \/ GiveUp(i)
      PROVE  IndInv'
  BY <1>2, ArriveKeeps, RefuseKeeps, AnswersKeep
<1>3. CASE WorkerStep
  BY <1>3, ReconnectFailsKeeps, ReadKeeps, LookKeeps, SendKeeps, LookupKeeps, SendRefusedKeeps
     DEF WorkerStep
<1>4. CASE SendUnsure
  BY <1>4, SendKeeps
<1>5. CASE Fill \/ StopOrTargetHit
  BY <1>5, BrokerKeeps
<1>6. CASE TerminalGone \/ Stop \/ Shutdown \/ Startup \/ UNCHANGED vars
  BY <1>6, ServerKeeps
<1>7. CASE Hang
  BY <1>7, HangKeeps
<1>8. CASE Crash
  BY <1>8, CrashKeeps
<1>9. QED
  BY <1>1, <1>2, <1>3, <1>4, <1>5, <1>6, <1>7, <1>8 DEF Next

(* The parts of the inductive invariant hold in every reachable state, for *)
(* every number of callers, calls and faults.                              *)
THEOREM IndInvHolds == Spec => []IndInv
BY InitIndInv, NextIndInv, PTL DEF Spec

(* The variables keep their types: one executor that runs at most one      *)
(* call, a queue and a record of arrivals that only name issued calls.     *)
THEOREM TypeCorrect == Spec => []TypeOK
<1>1. IndInv => TypeOK
  BY DEF IndInv
<1>2. QED
  BY <1>1, IndInvHolds, PTL

(* Partial closes and the setting of a target never lose a position's stop:*)
(* modify_position() sends the stop it read back with the new target.      *)
THEOREM StopIsKeptHolds == Spec => []StopIsKept
<1>1. IndInv => StopIsKept
  BY DEF IndInv
<1>2. QED
  BY <1>1, IndInvHolds, PTL

(* partial_close_position(), however often it is repeated after timeouts,  *)
(* never closes a position.                                                *)
THEOREM PartialNeverClosesHolds == Spec => []PartialNeverCloses
<1>1. IndInv => PartialNeverCloses
  BY DEF IndInv
<1>2. QED
  BY <1>1, IndInvHolds, PTL

(* A list of pending orders has every pending order of its caller whose    *)
(* request reached the bridge before the list's did.                       *)
THEOREM ListShowsOrdersHolds == Spec => []ListShowsOrders
<1>1. ASSUME IndInv PROVE ListShowsOrders
  <2>1. SUFFICES ASSUME NEW r \in DOMAIN calls, NEW p \in DOMAIN calls,
                        Op(r) = "orders", calls[r].sent = 1, calls[p].by = calls[r].by,
                        p \in Pending, At(p) < At(r)
                 PROVE  p \in calls[r].view
    BY DEF ListShowsOrders
  <2>2. calls[p].sent = 1
    BY <1>1, <2>1 DEF IndInv, OrdersOfCalls, Pending
  <2>3. ASSUME NEW i \in DOMAIN calls, calls[i].sent = 1
        PROVE  At(i) \in DOMAIN arrived /\ arrived[At(i)] = i
    BY <1>1, <2>3 DEF IndInv, ArrivedOnce, At
  <2>4. /\ At(p) \in DOMAIN arrived /\ arrived[At(p)] = p
        /\ At(r) \in DOMAIN arrived /\ arrived[At(r)] = r
    BY <2>1, <2>2, <2>3
  <2>5. QED
    BY <1>1, <2>1, <2>4 DEF IndInv, OrdersOfCalls
<1>2. QED
  BY <1>1, IndInvHolds, PTL

-----------------------------------------------------------------------------
(* What a step does to the calls: it answers one, moves one, issues one or *)
(* ends the process.                                                       *)

Answers(i) ==
  /\ OnlyCall(calls, calls', i) /\ Waiting(i)
  /\ calls'[i].state = calls[i].state /\ calls'[i].sent = calls[i].sent
  /\ calls'[i].answer \in {"ok", "error", "gave_up"}
  /\ calls'[i].answer = "ok" => calls[i].sent = 1

Moves(i) ==
  /\ OnlyCall(calls, calls', i) /\ calls[i].state # "ended"
  /\ calls'[i].answer = calls[i].answer
  /\ \/ calls'[i].sent = calls[i].sent
     \/ calls[i].sent = 0 /\ calls'[i].sent = 1 /\ (Gated(Op(i)) => enabled)

LEMMA AnsweredMoves ==
  ASSUME IndInv, NEW i \in DOMAIN calls, NEW a \in {"ok", "error", "gave_up"},
         a = "ok" => calls[i].sent = 1, Waiting(i), calls' = Answered(i, a)
  PROVE  Answers(i)
<1> DEFINE c == [calls[i] EXCEPT !.answer = a, !.result = None]
<1>1. calls \in Seq(CallRecord) /\ calls[i] \in CallRecord
  BY Typed DEF IndInv, TypeOK
<1>2. /\ c \in CallRecord /\ Kept(c, calls[i]) /\ calls' = [calls EXCEPT ![i] = c]
      /\ c.state = calls[i].state /\ c.sent = calls[i].sent /\ c.answer = a
  BY <1>1 DEF CallRecord, Kept, Answered
<1> HIDE DEF c
<1>3. OnlyCall(calls, [calls EXCEPT ![i] = c], i) /\ [calls EXCEPT ![i] = c][i] = c
  BY <1>1, <1>2, UpdatedCall
<1>4. QED
  BY <1>2, <1>3 DEF Answers

LEMMA FinishedMoves ==
  ASSUME IndInv, NEW i \in DOMAIN calls, calls[i].state # "ended",
         NEW r \in {"ok", "error"}, calls' = Finished(calls, i, r)
  PROVE  Moves(i)
<1>1. calls \in Seq(CallRecord)
  BY DEF IndInv, TypeOK
<1>2. /\ OnlyCall(calls, calls', i)
      /\ calls'[i].sent = calls[i].sent /\ calls'[i].answer = calls[i].answer
  BY <1>1, FinishedCall
<1>3. QED
  BY <1>2 DEF Moves

LEMMA StateMoves ==
  ASSUME IndInv, NEW i \in DOMAIN calls, calls[i].state # "ended",
         NEW s \in {"queued", "running"}, calls' = [calls EXCEPT ![i].state = s]
  PROVE  Moves(i)
<1> DEFINE c == [calls[i] EXCEPT !.state = s]
<1>1. calls \in Seq(CallRecord) /\ calls[i] \in CallRecord
  BY Typed DEF IndInv, TypeOK
<1>2. /\ c \in CallRecord /\ Kept(c, calls[i]) /\ calls' = [calls EXCEPT ![i] = c]
      /\ c.sent = calls[i].sent /\ c.answer = calls[i].answer
  BY <1>1 DEF CallRecord, Kept
<1> HIDE DEF c
<1>3. OnlyCall(calls, [calls EXCEPT ![i] = c], i) /\ [calls EXCEPT ![i] = c][i] = c
  BY <1>1, <1>2, UpdatedCall
<1>4. QED
  BY <1>2, <1>3 DEF Moves

LEMMA ReadMoves ==
  ASSUME IndInv, Read
  PROVE  Moves(NextCall)
<1>1. /\ calls[NextCall].state = "queued" /\ calls[NextCall].sent = 0
      /\ Gated(Op(NextCall)) => enabled
  BY FrontLeaves DEF Read
<1>2. QED
  BY <1>1, ReadIs DEF Moves

LEMMA WorkMoves ==
  ASSUME IndInv, Send \/ SendUnsure \/ SendRefused \/ Lookup
  PROVE  worker.id \in DOMAIN calls /\ Moves(worker.id)
<1> DEFINE i == worker.id
<1>1. /\ calls \in Seq(CallRecord) /\ i \in DOMAIN calls
      /\ calls[i].state = "running" /\ (Gated(Op(i)) => enabled)
  BY DEF Send, SendUnsure, SendRefused, Lookup, Running, IndInv, TypeOK, CallsAreHeld,
         HeldIsAllowed, Resting
<1>2. CASE SendRefused
  BY <1>1, <1>2, FinishedMoves DEF SendRefused
<1>3. CASE Send \/ SendUnsure
  <2>1. worker.step = "send" /\ Execute(i)
    BY <1>3 DEF Send, SendUnsure, Running
  <2>2. /\ calls[i].sent = 0 /\ OnlyCall(calls, Marked(i), i)
        /\ Marked(i)[i].sent = 1 /\ Marked(i)[i].answer = calls[i].answer
    BY <2>1, MarkedIs
  <2>3. calls' = Marked(i) \/ \E r \in {"ok", "error"} : calls' = Finished(Marked(i), i, r)
    BY <1>3 DEF Send, SendUnsure, Marked
  <2> HIDE DEF i
  <2>4. CASE calls' = Marked(i)
    BY <1>1, <2>2, <2>4 DEF Moves, i
  <2>5. CASE \E r \in {"ok", "error"} : calls' = Finished(Marked(i), i, r)
    <3>1. PICK r \in {"ok", "error"} : calls' = Finished(Marked(i), i, r)
      BY <2>5
    <3>2. Marked(i) \in Seq(CallRecord) /\ i \in DOMAIN Marked(i)
      BY <1>1, <2>2 DEF OnlyCall
    <3>3. /\ OnlyCall(Marked(i), calls', i)
          /\ calls'[i].sent = Marked(i)[i].sent /\ calls'[i].answer = Marked(i)[i].answer
      BY <3>1, <3>2, FinishedCall
    <3>4. OnlyCall(calls, calls', i)
      BY <1>1, <2>2, <3>3, OnlyCallTwice
    <3>5. QED
      BY <1>1, <2>2, <3>3, <3>4 DEF Moves, i
  <2>6. QED
    BY <2>3, <2>4, <2>5
<1>4. CASE Lookup
  <2> DEFINE v == {p.ticket : p \in {q \in PositionOf(i) : terminal}}
             c == [calls[i] EXCEPT !.view = v]
  <2>1. calls[i] \in CallRecord /\ v \subseteq Nat
    BY <1>1, Typed DEF IndInv, TypeOK, PositionRecord, PositionOf
  <2>2. calls' = Finished([calls EXCEPT ![i] = c], i, "ok")
    BY <1>4 DEF Lookup
  <2> HIDE DEF v
  <2>3. c \in CallRecord /\ Kept(c, calls[i]) /\ c.sent = calls[i].sent /\ c.answer = calls[i].answer
    BY <2>1 DEF CallRecord, Kept
  <2> HIDE DEF c, i
  <2>4. OnlyCall(calls, [calls EXCEPT ![i] = c], i) /\ [calls EXCEPT ![i] = c][i] = c
    BY <1>1, <2>3, UpdatedCall
  <2> DEFINE cs == [calls EXCEPT ![i] = c]
  <2>5. OnlyCall(calls, cs, i) /\ cs[i].sent = calls[i].sent /\ cs[i].answer = calls[i].answer
    BY <2>3, <2>4
  <2>6. calls' = Finished(cs, i, "ok")
    BY <2>2
  <2> HIDE DEF cs
  <2>7. /\ OnlyCall(cs, calls', i)
        /\ calls'[i].sent = cs[i].sent /\ calls'[i].answer = cs[i].answer
    <3>1. cs \in Seq(CallRecord) /\ i \in DOMAIN cs
      BY <1>1, <2>5 DEF OnlyCall
    <3>2. QED
      BY <2>6, <3>1, FinishedCall
  <2>8. OnlyCall(calls, calls', i)
    BY <1>1, <2>5, <2>7, OnlyCallTwice
  <2>9. QED
    BY <1>1, <2>5, <2>7, <2>8 DEF Moves, i
<1>5. QED
  BY <1>1, <1>2, <1>3, <1>4

LEMMA StepOfCalls ==
  ASSUME IndInv, [Next]_vars
  PROVE  \/ UNCHANGED calls \/ Crash \/ \E c \in Callers : Request(c)
         \/ \E i \in DOMAIN calls : Answers(i) \/ Moves(i)
<1>1. ASSUME NEW i \in DOMAIN calls, Arrive(i) PROVE Moves(i)
  BY <1>1, FinishedMoves, StateMoves DEF Arrive
<1>2. ASSUME NEW i \in DOMAIN calls, Refuse(i) PROVE Moves(i)
  BY <1>2, FinishedMoves DEF Refuse
<1>3. ASSUME NEW i \in DOMAIN calls, HandlerTimeout(i) \/ GiveUp(i) PROVE Answers(i)
  BY <1>3, AnsweredMoves DEF HandlerTimeout, GiveUp
<1>4. ASSUME NEW i \in DOMAIN calls, Respond(i) PROVE Answers(i)
  <2>1. calls[i].result \in {"ok", "error"} /\ (calls[i].result = "ok" => calls[i].sent = 1)
    BY <1>4, Typed DEF Respond, IndInv, CallRecord, SentOnce
  <2>2. QED
    BY <1>4, <2>1, AnsweredMoves DEF Respond
<1>5. ASSUME ReconnectFails \/ Look \/ Hang
      PROVE  UNCHANGED calls \/ (NextCall \in DOMAIN calls /\ Moves(NextCall))
  <2>1. CASE ~ UNCHANGED calls
    <3>1. Idle
      BY <1>5, <2>1 DEF ReconnectFails, Look, Hang
    <3>2. NextCall \in DOMAIN calls /\ calls[NextCall].state = "queued"
      BY <3>1, FrontLeaves
    <3>3. \/ calls' = Finished(calls, NextCall, "error")
          \/ calls' = [calls EXCEPT ![NextCall].state = "running"]
      BY <1>5, <2>1 DEF ReconnectFails, Look, Hang
    <3>4. QED
      BY <3>2, <3>3, FinishedMoves, StateMoves
  <2>2. QED
    BY <2>1
<1>6. ASSUME Read PROVE NextCall \in DOMAIN calls /\ Moves(NextCall)
  BY <1>6, ReadMoves, FrontLeaves DEF Read
<1>7. ASSUME Fill \/ StopOrTargetHit \/ TerminalGone \/ Stop \/ Shutdown \/ Startup \/ UNCHANGED vars
      PROVE  UNCHANGED calls
  BY <1>7 DEF Fill, StopOrTargetHit, TerminalGone, Stop, Shutdown, Startup, vars
<1>8. QED
  BY <1>1, <1>2, <1>3, <1>4, <1>5, <1>6, <1>7, WorkMoves DEF Next, WorkerStep

\* An issued call is in transit; the calls before it stay as they are.
LEMMA IssuedCall ==
  ASSUME IndInv, NEW c \in Callers, Request(c)
  PROVE  LET n == Len(calls) + 1
         IN  /\ DOMAIN calls = 1..Len(calls) /\ DOMAIN calls' = 1..n /\ Len(calls) \in Nat
             /\ n <= MaxCalls
             /\ \A i \in DOMAIN calls : calls'[i] = calls[i]
             /\ calls'[n].state = "transit" /\ calls'[n].sent = 0 /\ calls'[n].answer = "none"
<1> DEFINE n == Len(calls) + 1
<1>1. PICK op \in Wants(c) : \E t \in IF op \in TicketOps THEN Tickets(c) ELSE {None} :
        calls' = Append(calls, Call(c, op, t))
  BY DEF Request
<1>2. PICK t \in IF op \in TicketOps THEN Tickets(c) ELSE {None} :
        calls' = Append(calls, Call(c, op, t))
  BY <1>1
<1>3. calls \in Seq(CallRecord) /\ Len(calls) \in Nat /\ DOMAIN calls = 1..Len(calls)
  BY Typed DEF IndInv, TypeOK
<1>4. /\ DOMAIN calls' = 1..n /\ \A i \in DOMAIN calls : calls'[i] = calls[i]
      /\ calls'[n] = Call(c, op, t)
  <2> DEFINE S == CallRecord \cup {Call(c, op, t)}
  <2>1. calls \in Seq(S)
    BY <1>3, SeqMonotonic
  <2> HIDE DEF S
  <2>2. Call(c, op, t) \in S
    BY DEF S
  <2>3. QED
    BY <1>2, <2>1, <2>2, AppendIs
<1>5. n <= MaxCalls
  BY <1>3, BridgeAssumption DEF Request, BridgeAssumption
<1>6. QED
  BY <1>3, <1>4, <1>5 DEF Call

-----------------------------------------------------------------------------

(* The kill switch: a process whose orders_enabled is off sends the broker *)
(* nothing, whatever an earlier process had accepted.                      *)
THEOREM KillSwitchIsKept == Spec => KillSwitchHolds
<1> DEFINE A == \A i \in DOMAIN calls :
                  calls'[i].sent # calls[i].sent /\ Op(i) \in TradingOps => enabled
<1>1. ASSUME IndInv, [Next]_vars PROVE A
  <2>1. CASE UNCHANGED calls
    BY <2>1
  <2>2. CASE Crash
    BY <1>1, <2>2, CrashedCalls
  <2>3. ASSUME NEW c \in Callers, Request(c) PROVE A
    BY <1>1, <2>3, IssuedCall
  <2>4. ASSUME NEW i \in DOMAIN calls, Answers(i) \/ Moves(i) PROVE A
    BY <2>4 DEF Answers, Moves, OnlyCall, Gated
  <2>5. QED
    BY <1>1, <2>1, <2>2, <2>3, <2>4, StepOfCalls
<1>2. IndInv /\ [Next]_vars => [A]_vars
  BY <1>1
<1> HIDE DEF A
<1>3. KillSwitchHolds <=> [][A]_vars
  BY DEF KillSwitchHolds, A
<1>4. QED
  BY <1>2, <1>3, IndInvHolds, PTL DEF Spec

-----------------------------------------------------------------------------
(* The refinement: what a step does to a call, seen from its caller.       *)

CallersAnswer(i) == IF i \in DOMAIN calls THEN calls[i].answer ELSE "none"

LEMMA CallsAreIds ==
  ASSUME IndInv
  PROVE  /\ DOMAIN calls \subseteq Ids
         /\ \A i \in DOMAIN calls : calls[i].sent \in {0, 1} /\ Effect(i) # "idle"
BY Typed, BridgeAssumption DEF IndInv, TypeOK, SentOnce, Effect, Ids, BridgeAssumption

LEMMA OthersStand ==
  ASSUME NEW i \in DOMAIN calls, OnlyCall(calls, calls', i), NEW j \in Ids, j # i
  PROVE  Effect(j)' = Effect(j) /\ CallersAnswer(j)' = CallersAnswer(j)
BY DEF OnlyCall, Effect, CallersAnswer

LEMMA AnswerReplies ==
  ASSUME IndInv, NEW i \in DOMAIN calls, Answers(i)
  PROVE  Promise!Reply(i)
<1>1. i \in Ids /\ calls[i].sent \in {0, 1} /\ Effect(i) # "idle" /\ i \in DOMAIN calls'
  BY CallsAreIds DEF Answers, OnlyCall
<1>2. Effect(i)' = Effect(i) /\ (calls'[i].answer = "ok" => Effect(i) = "done")
  BY <1>1 DEF Answers, Effect
<1>3. \A j \in Ids : Effect(j)' = Effect(j)
  BY <1>2, OthersStand DEF Answers
<1>4. CallersAnswer(i) = "none" /\ CallersAnswer(i)' = calls'[i].answer
  BY <1>1 DEF CallersAnswer, Answers, Waiting
<1>5. \A j \in Ids \ {i} : CallersAnswer(j)' = CallersAnswer(j)
  BY OthersStand DEF Answers
<1>6. [j \in Ids |-> Effect(j)]' = [j \in Ids |-> Effect(j)]
  BY <1>3
<1>7. [j \in Ids |-> CallersAnswer(j)]'
      = [[j \in Ids |-> CallersAnswer(j)] EXCEPT ![i] = calls'[i].answer]
  BY <1>1, <1>4, <1>5
<1>8. calls'[i].answer \in {"ok", "error", "gave_up"}
  BY DEF Answers
<1> HIDE DEF Effect
<1>9. QED
  BY <1>1, <1>2, <1>4, <1>6, <1>7, <1>8 DEF Promise!Reply, CallersAnswer

LEMMA MoveSettles ==
  ASSUME IndInv, IndInv', NEW i \in DOMAIN calls, Moves(i)
  PROVE  Promise!Settle(i) \/ UNCHANGED Promise!rcVars
<1>1. /\ i \in Ids /\ i \in DOMAIN calls'
      /\ calls[i].sent \in {0, 1} /\ calls'[i].sent \in {0, 1}
  BY CallsAreIds DEF Moves, OnlyCall, IndInv, SentOnce
<1>2. \A j \in Ids : CallersAnswer(j)' = CallersAnswer(j)
  BY <1>1, OthersStand DEF CallersAnswer, Moves
<1>3. \A j \in Ids \ {i} : Effect(j)' = Effect(j)
  BY OthersStand DEF Moves
<1>4. Effect(i)' = Effect(i) \/ (Effect(i) = "open" /\ Effect(i)' \in {"done", "never"})
  BY <1>1 DEF Moves, Effect
<1>5. [j \in Ids |-> CallersAnswer(j)]' = [j \in Ids |-> CallersAnswer(j)]
  BY <1>2
<1>6. [j \in Ids |-> Effect(j)]' = [[j \in Ids |-> Effect(j)] EXCEPT ![i] = Effect(i)']
  BY <1>1, <1>3
<1>7. CASE Effect(i)' = Effect(i)
  <2>1. [j \in Ids |-> Effect(j)]' = [j \in Ids |-> Effect(j)]
    BY <1>3, <1>7
  <2>2. QED
    BY <1>5, <2>1 DEF Promise!rcVars, CallersAnswer
<1>8. CASE Effect(i) = "open" /\ Effect(i)' \in {"done", "never"}
  BY <1>1, <1>5, <1>6, <1>8 DEF Promise!Settle, CallersAnswer
<1>9. QED
  BY <1>4, <1>7, <1>8

LEMMA RequestIssues ==
  ASSUME IndInv, NEW c \in Callers, Request(c)
  PROVE  \E i \in Ids : Promise!Issue(i)
<1>0. PICK n : n = Len(calls) + 1
  OBVIOUS
<1>1. /\ DOMAIN calls = 1..Len(calls) /\ DOMAIN calls' = 1..n /\ Len(calls) \in Nat
      /\ n <= MaxCalls
      /\ \A i \in DOMAIN calls : calls'[i] = calls[i]
      /\ calls'[n].state = "transit" /\ calls'[n].sent = 0 /\ calls'[n].answer = "none"
  BY <1>0, IssuedCall
<1>2. n \in Ids /\ n \notin DOMAIN calls /\ n \in DOMAIN calls'
      /\ \A i \in Ids \ {n} : i \in DOMAIN calls' <=> i \in DOMAIN calls
  BY <1>0, <1>1, BridgeAssumption DEF Ids, BridgeAssumption
<1>3. Effect(n) = "idle" /\ Effect(n)' = "open"
  BY <1>1, <1>2 DEF Effect
<1>4. \A j \in Ids \ {n} : Effect(j)' = Effect(j)
  BY <1>1, <1>2 DEF Effect
<1>5. \A j \in Ids : CallersAnswer(j)' = CallersAnswer(j)
  BY <1>1, <1>2 DEF CallersAnswer
<1>6. [j \in Ids |-> CallersAnswer(j)]' = [j \in Ids |-> CallersAnswer(j)]
  BY <1>5
<1>7. [j \in Ids |-> Effect(j)]' = [[j \in Ids |-> Effect(j)] EXCEPT ![n] = "open"]
  BY <1>2, <1>3, <1>4
<1>8. Promise!Issue(n)
  BY <1>2, <1>3, <1>6, <1>7 DEF Promise!Issue, CallersAnswer
<1>9. QED
  BY <1>2, <1>8

LEMMA CrashDismisses ==
  ASSUME IndInv, Crash
  PROVE  Promise!Dismiss
<1> DEFINE S == {i \in Held : calls[i].sent = 0}
<1>1. /\ DOMAIN calls' = DOMAIN calls
      /\ \A i \in DOMAIN calls :
           /\ calls'[i].state = IF i \in Held THEN "ended" ELSE calls[i].state
           /\ calls'[i].sent = calls[i].sent /\ calls'[i].answer = calls[i].answer
  BY CrashedCalls
<1>2. S \subseteq {i \in Ids : Effect(i) = "open"}
  BY CallsAreIds DEF Held, Effect
<1>3. \A i \in Ids : Effect(i)' = IF i \in S THEN "never" ELSE Effect(i)
  <2>1. ASSUME NEW i \in DOMAIN calls
        PROVE  Effect(i)' = IF i \in S THEN "never" ELSE Effect(i)
    BY <1>1, CallsAreIds DEF Effect, Held
  <2>2. ASSUME NEW i \in Ids \ DOMAIN calls
        PROVE  Effect(i)' = IF i \in S THEN "never" ELSE Effect(i)
    BY <1>1 DEF Effect, Held
  <2>3. QED
    BY <2>1, <2>2
<1>4. \A i \in Ids : CallersAnswer(i)' = CallersAnswer(i)
  BY <1>1 DEF CallersAnswer
<1>5. [i \in Ids |-> CallersAnswer(i)]' = [i \in Ids |-> CallersAnswer(i)]
  BY <1>4
<1>6. [i \in Ids |-> Effect(i)]' = [i \in Ids |-> IF i \in S THEN "never" ELSE Effect(i)]
  BY <1>3
<1> HIDE DEF S
<1>7. QED
  BY <1>2, <1>5, <1>6 DEF Promise!Dismiss, CallersAnswer

(* The bridge implements a remote call: no call is carried out twice, none *)
(* is answered with success before it was carried out, and none comes back *)
(* from a process that ended, through timeouts, reconnects, hangs, crashes *)
(* and orderly stops.                                                      *)
THEOREM BridgeImplementsRemoteCall == Spec => ImplementsRemoteCall
<1>1. Init => Promise!Init
  <2> SUFFICES ASSUME Init PROVE Promise!Init
    OBVIOUS
  <2>1. DOMAIN calls = {}
    BY EmptySeq DEF Init
  <2>2. \A i \in Ids : Effect(i) = "idle" /\ CallersAnswer(i) = "none"
    BY <2>1 DEF Effect, CallersAnswer
  <2>3. QED
    BY <2>2 DEF Promise!Init, CallersAnswer
<1>2. IndInv /\ IndInv' /\ [Next]_vars => [Promise!Next]_(Promise!rcVars)
  <2> SUFFICES ASSUME IndInv, IndInv', [Next]_vars
               PROVE  Promise!Next \/ UNCHANGED Promise!rcVars
    OBVIOUS
  <2>1. CASE UNCHANGED calls
    <3>1. \A i \in Ids : Effect(i)' = Effect(i) /\ CallersAnswer(i)' = CallersAnswer(i)
      BY <2>1 DEF Effect, CallersAnswer
    <3>2. QED
      BY <3>1 DEF Promise!rcVars, CallersAnswer
  <2>2. CASE Crash
    BY <2>2, CrashDismisses DEF Promise!Next
  <2>3. ASSUME NEW c \in Callers, Request(c)
        PROVE  Promise!Next
    BY <2>3, RequestIssues DEF Promise!Next
  <2>4. ASSUME NEW i \in DOMAIN calls, Answers(i) \/ Moves(i)
        PROVE  Promise!Next \/ UNCHANGED Promise!rcVars
    <3>1. i \in Ids
      BY CallsAreIds
    <3>2. QED
      BY <2>4, <3>1, AnswerReplies, MoveSettles DEF Promise!Next
  <2>5. QED
    BY <2>1, <2>2, <2>3, <2>4, StepOfCalls
<1>3. QED
  BY <1>1, <1>2, IndInvHolds, PTL DEF Spec, ImplementsRemoteCall, Promise!Spec
=============================================================================
