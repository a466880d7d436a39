------------------------------ MODULE RemoteCall ------------------------------
(***************************************************************************)
(* What a call to the bridge promises its caller (bridge/app/              *)
(* mt5_client.py: "place exactly what it's told, once per call"): it takes *)
(* effect at most once, and it is answered with success only after it did. *)
(* It promises nothing more: a call may take effect after its caller gave  *)
(* up, and a call answered with an error may have taken effect.            *)
(***************************************************************************)
EXTENDS Naturals

CONSTANT Ids

VARIABLES
  effect,   \* per call: "idle", "open", "done" or "never"
  answer    \* per call: "none", "ok", "error" or "gave_up"

rcVars == <<effect, answer>>

Init == effect = [i \in Ids |-> "idle"] /\ answer = [i \in Ids |-> "none"]

Issue(i) ==
  /\ effect[i] = "idle"
  /\ effect' = [effect EXCEPT ![i] = "open"]
  /\ UNCHANGED answer

Settle(i) ==
  /\ effect[i] = "open"
  /\ \E e \in {"done", "never"} : effect' = [effect EXCEPT ![i] = e]
  /\ UNCHANGED answer

Reply(i) ==
  /\ effect[i] # "idle" /\ answer[i] = "none"
  /\ \E a \in {"ok", "error", "gave_up"} :
       /\ a = "ok" => effect[i] = "done"
       /\ answer' = [answer EXCEPT ![i] = a]
  /\ UNCHANGED effect

(* The end of the bridge process settles every call it held at once.       *)
Dismiss ==
  /\ \E S \in SUBSET {i \in Ids : effect[i] = "open"} :
       effect' = [i \in Ids |-> IF i \in S THEN "never" ELSE effect[i]]
  /\ UNCHANGED answer

Next == Dismiss \/ \E i \in Ids : Issue(i) \/ Settle(i) \/ Reply(i)

Spec == Init /\ [][Next]_rcVars
=============================================================================
