------------------------------- MODULE Accounts -------------------------------
(***************************************************************************)
(* Registration, model administration and the switches of an account       *)
(* (app/core/provisioning.py and the routers auth, admin, settings,        *)
(* model_configs and trading): every request is a sequence of separate     *)
(* transactions, and requests run concurrently.                            *)
(*                                                                         *)
(* One step is one transaction, or one read that a later write relies on.  *)
(* The database keeps magic numbers and (user, model) pairs unique, and    *)
(* has no such constraint on settings.                                     *)
(***************************************************************************)
EXTENDS Naturals, Sequences, FiniteSets, Functions

CONSTANTS
  Users, Models,   \* e-mail addresses, model names
  Settled,         \* the users that registered with all defaults before
  Legacy,          \* the users that registered before there were defaults
  FirstModels,     \* the models there are at the start
  Wanted,          \* the requests that may come: [kind, user, model, on]
  MaxRequests,     \* bound: requests in all
  MaxFaults,       \* bound: commits that fail, and requests that die
  None             \* null

Kinds == {"register", "backfill", "create_model", "settings", "config",
          "close", "cancel"}
Switches == {"settings", "config"}
TicketOps == {"close", "cancel"}
(* A registration names its user, and a create_model its model.            *)
NamesItsSubject(w) ==
  /\ w.kind = "register" => w.user \in Users
  /\ w.kind = "create_model" => w.model \in Models

ASSUME AccountsAssumption ==
  /\ Settled \cup Legacy \subseteq Users /\ Settled \cap Legacy = {}
  /\ FirstModels \subseteq Models
  /\ Wanted \in Seq([kind : Kinds, user : Users \cup {None}, model : Models \cup {None}, on : BOOLEAN])
  /\ \A i \in DOMAIN Wanted : NamesItsSubject(Wanted[i])
  /\ MaxRequests \in Nat /\ MaxFaults \in Nat
  /\ IsFiniteSet(Users) /\ IsFiniteSet(Models)

VARIABLES
  users, models,   \* the rows of users and models
  configs,         \* model_configs: [user, model, magic, paused]
  settings,        \* user_settings: [id, user, paused]
  atBroker,        \* what a user may close or cancel at the broker: <<user, kind>>
  journal,         \* failure events: [kind, user, model]
  requests,        \* the requests so far
  confirmed,       \* history: the account-wide pause as last committed
  overlapped,      \* history: users whose settings were checked twice at once
  faults           \* counter of the bound

tables == <<users, models, configs, settings>>
vars == <<tables, atBroker, journal, requests, confirmed, overlapped, faults>>

Attempts == 3   \* _MAGIC_NUMBER_ALLOCATION_ATTEMPTS
Floor == 0      \* _MAGIC_NUMBER_FLOOR, the numbers counted from there

ConfigOf(u, m) == {c \in configs : c.user = u /\ c.model = m}
SettingsOf(u) == {s \in settings : s.user = u}
R(r) == requests[r]

----------------------------------------------------------------------------
Numbered(pairs, base) ==
  LET number == CHOOSE f \in [pairs -> 1..Cardinality(pairs)] : IsInjective(f)
  IN  {[user |-> p[1], model |-> p[2], magic |-> base + number[p], paused |-> FALSE] : p \in pairs}

Asked(w) ==
  [kind |-> w.kind, user |-> w.user, model |-> w.model, on |-> w.on, pc |-> "asked",
   todo |-> {}, known |-> {}, pairs |-> {}, base |-> 0, attempt |-> 0,
   done |-> FALSE, unsure |-> FALSE, answer |-> "none"]

(* The requests of a behaviour: each waits until it is first served, so    *)
(* the order they are listed in says nothing about the order they come in. *)
Init ==
  /\ users = Settled \cup Legacy /\ models = FirstModels
  /\ configs = Numbered(Settled \X FirstModels, Floor)
  /\ settings = {[id |-> 0, user |-> u, paused |-> FALSE] : u \in Settled}
  /\ atBroker = Settled \X TicketOps /\ journal = {}
  /\ \E w \in [1..MaxRequests -> DOMAIN Wanted] :
       /\ \A r \in 1..MaxRequests - 1 : w[r] <= w[r + 1]
       /\ requests = [r \in 1..MaxRequests |-> Asked(Wanted[w[r]])]
  /\ confirmed = [u \in Users |-> FALSE] /\ overlapped = {} /\ faults = 0

Goto(r, pc) == requests' = [requests EXCEPT ![r].pc = pc]
EndedAs(q, a) ==
  [q EXCEPT !.pc = "ended", !.answer = a, !.todo = {}, !.pairs = {}, !.base = 0]
Answer(r, a) == requests' = [requests EXCEPT ![r] = EndedAs(@, a)]
At(r, pc) == R(r).pc = pc
(* Only registered users have a session.                                   *)
Arrives(r, kind) ==
  /\ At(r, "asked") /\ R(r).kind = kind
  /\ kind \in Switches \cup TicketOps => R(r).user \in users
Committed(r, pc) == requests' = [requests EXCEPT ![r].pc = pc, ![r].done = TRUE]

----------------------------------------------------------------------------
(* The first transaction of each request.                                  *)

RegisterUser(r) ==
  /\ Arrives(r, "register")
  /\ IF R(r).user \in users
     THEN Answer(r, "error") /\ UNCHANGED users
     ELSE users' = users \cup {R(r).user} /\ Committed(r, "missing")
  /\ UNCHANGED <<models, configs, settings, atBroker, journal, confirmed, overlapped, faults>>

(* backfill_user_defaults reads the users and provisions one by one.       *)
BackfillUsers(r) ==
  /\ Arrives(r, "backfill")
  /\ \E u \in users :
       requests' = [requests EXCEPT ![r].todo = users \ {u}, ![r].user = u,
                                    ![r].known = users \X models,
                                    ![r].done = TRUE, ![r].pc = "missing"]
  /\ UNCHANGED <<tables, atBroker, journal, confirmed, overlapped, faults>>

CreateModel(r) ==
  /\ Arrives(r, "create_model")
  /\ IF R(r).model \in models
     THEN Answer(r, "error") /\ UNCHANGED models
     ELSE models' = models \cup {R(r).model} /\ Committed(r, "missing")
  /\ UNCHANGED <<users, configs, settings, atBroker, journal, confirmed, overlapped, faults>>

(* PATCH /settings changes the first row it finds, PATCH /model-configs    *)
(* the row of the model.                                                   *)
UpdateSettings(r) ==
  /\ Arrives(r, "settings")
  /\ LET u == R(r).user
         rows == SettingsOf(u)
     IN  IF rows = {}
         THEN Answer(r, "error") /\ UNCHANGED <<settings, confirmed>>
         ELSE /\ \E s \in rows :
                   settings' = (settings \ {s}) \cup {[s EXCEPT !.paused = R(r).on]}
              /\ confirmed' = [confirmed EXCEPT ![u] = R(r).on]
              /\ Committed(r, "journal")
  /\ UNCHANGED <<users, models, configs, atBroker, journal, overlapped, faults>>

UpdateModelConfig(r) ==
  /\ Arrives(r, "config")
  /\ LET rows == ConfigOf(R(r).user, R(r).model)
     IN  IF rows = {}
         THEN Answer(r, "error") /\ UNCHANGED configs
         ELSE /\ configs' = (configs \ rows) \cup {[c EXCEPT !.paused = R(r).on] : c \in rows}
              /\ Committed(r, "journal")
  /\ UNCHANGED <<users, models, settings, atBroker, journal, confirmed, overlapped, faults>>

(* A ticket is looked for among the caller's own and acted on at the       *)
(* bridge, which may do it and not say so.                                 *)
ActAtBridge(r) ==
  LET it == <<R(r).user, R(r).kind>>
  IN  /\ \/ it \notin atBroker /\ Answer(r, "error") /\ UNCHANGED <<atBroker, faults>>
         \/ /\ it \in atBroker /\ atBroker' = atBroker \ {it} /\ Committed(r, "journal")
            /\ UNCHANGED faults
         \/ /\ it \in atBroker /\ faults < MaxFaults /\ faults' = faults + 1
            /\ atBroker' \in {atBroker, atBroker \ {it}}
            /\ requests' = [requests EXCEPT ![r] =
                             [EndedAs(@, "error") EXCEPT !.unsure = TRUE,
                                                         !.done = atBroker' # atBroker]]
      /\ UNCHANGED <<tables, journal, confirmed, overlapped>>

ClosePosition(r) == Arrives(r, "close") /\ ActAtBridge(r)
CancelPendingOrder(r) == Arrives(r, "cancel") /\ ActAtBridge(r)

----------------------------------------------------------------------------
(* provision_new_user_defaults and provision_model_for_all_users: what is  *)
(* missing is read once; the numbers are read again on every attempt.      *)

Missing(r) ==
  LET mine == IF R(r).kind = "create_model" THEN users \X {R(r).model} ELSE {R(r).user} \X models
  IN  {p \in mine : ConfigOf(p[1], p[2]) = {}}

Continue(r) ==
  IF R(r).kind = "create_model" THEN Answer(r, "ok")
  ELSE requests' = [requests EXCEPT ![r].pc = "check_settings", ![r].pairs = {}, ![r].base = 0]

ReadMissing(r) ==
  /\ At(r, "missing")
  /\ IF Missing(r) = {} THEN Continue(r)
     ELSE requests' = [requests EXCEPT ![r].pairs = Missing(r), ![r].attempt = 1,
                                       ![r].pc = "allocate"]
  /\ UNCHANGED <<tables, atBroker, journal, confirmed, overlapped, faults>>

(* max(magic_number), or the floor.                                        *)
HighestMagic ==
  IF configs = {} THEN Floor
  ELSE (CHOOSE c \in configs : \A o \in configs : o.magic <= c.magic).magic

AllocateMagicNumbers(r) ==
  /\ At(r, "allocate")
  /\ requests' = [requests EXCEPT ![r].base = HighestMagic, ![r].pc = "insert"]
  /\ UNCHANGED <<tables, atBroker, journal, confirmed, overlapped, faults>>

(* The commit either keeps both unique constraints or is rolled back.      *)
Conflict(rows) ==
  \E x \in rows, c \in configs :
    c.magic = x.magic \/ (c.user = x.user /\ c.model = x.model)
GaveUp(r) == R(r).attempt = Attempts

(* RuntimeError: create_model goes on to journal it, the others end.       *)
FailedSilently(r) == Answer(r, IF R(r).kind = "create_model" THEN "ok" ELSE "error")
Failed(r) ==
  IF R(r).kind = "create_model" THEN Goto(r, "journal_failure") ELSE Answer(r, "error")

InsertModelConfigs(r) ==
  /\ At(r, "insert")
  /\ LET rows == Numbered(R(r).pairs, R(r).base)
     IN  CASE ~Conflict(rows) ->
                configs' = configs \cup rows /\ Continue(r)
           [] Conflict(rows) /\ ~GaveUp(r) ->
                /\ requests' = [requests EXCEPT ![r].attempt = @ + 1, ![r].pc = "allocate"]
                /\ UNCHANGED configs
           [] Conflict(rows) /\ GaveUp(r) ->
                Failed(r) /\ UNCHANGED configs
  /\ UNCHANGED <<users, models, settings, atBroker, journal, confirmed, overlapped, faults>>

(* _provision_missing_settings: a look, and then an insert.  The script    *)
(* goes on with its next user.                                             *)
NextUserStops(r) == Answer(r, "ok")
NextUser(r) ==
  IF R(r).todo = {}
  THEN Answer(r, "ok")
  ELSE \E u \in R(r).todo :
         requests' = [requests EXCEPT ![r].user = u, ![r].todo = @ \ {u}, ![r].pc = "missing"]

HasPausedSettings(u) == \E s \in SettingsOf(u) : ~s.paused
HasSettings(u) == SettingsOf(u) # {}
CheckSettings(r) ==
  /\ At(r, "check_settings")
  /\ LET u == R(r).user
     IN  /\ IF HasSettings(u) THEN NextUser(r) ELSE Goto(r, "add_settings")
         /\ overlapped' = overlapped \cup
              {v \in {u} : \E o \in DOMAIN requests :
                             o # r /\ At(o, "add_settings") /\ R(o).user = v}
  /\ UNCHANGED <<tables, atBroker, journal, confirmed, faults>>

AddSettings(r) ==
  /\ At(r, "add_settings")
  /\ settings' = settings \cup {[id |-> r, user |-> R(r).user, paused |-> FALSE]}
  /\ NextUser(r)
  /\ UNCHANGED <<users, models, configs, atBroker, journal, confirmed, overlapped, faults>>

----------------------------------------------------------------------------
(* The event is written in a transaction of its own; if that fails, so is  *)
(* an event about the failure; and if that fails too, it is only logged.   *)
(* A failed settings entry has no model to be filed under if the user's    *)
(* models could not be read.  (The close also tags its trades row, whose   *)
(* life PositionTracker models.)                                           *)

JournalChange(r) ==
  /\ At(r, "journal")
  /\ Answer(r, "ok")
  /\ UNCHANGED <<tables, atBroker, journal, confirmed, overlapped, faults>>

AfterJournalRefused(r) == Answer(r, "error")
AfterJournalFailed(r) == Goto(r, "journal_failure")
JournalFails(r) ==
  /\ At(r, "journal") /\ faults < MaxFaults
  /\ AfterJournalFailed(r) /\ faults' = faults + 1
  /\ UNCHANGED <<tables, atBroker, journal, confirmed, overlapped>>

JournalFailure(r) ==
  /\ At(r, "journal_failure")
  /\ LET told == journal \cup {[kind |-> R(r).kind, user |-> R(r).user, model |-> R(r).model]}
     IN  journal' \in IF R(r).kind = "settings" THEN {journal, told} ELSE {told}
  /\ Answer(r, "ok")
  /\ UNCHANGED <<tables, atBroker, confirmed, overlapped, faults>>

OnlyLogged(r) ==
  /\ At(r, "journal_failure") /\ faults < MaxFaults
  /\ requests' = [requests EXCEPT ![r] = [EndedAs(@, "ok") EXCEPT !.unsure = TRUE]]
  /\ faults' = faults + 1
  /\ UNCHANGED <<tables, atBroker, journal, confirmed, overlapped>>

(* Any other failure of create_model's backfill is caught the same way.    *)
BackfillFails(r) ==
  /\ R(r).kind = "create_model" /\ R(r).pc \in {"missing", "allocate", "insert"}
  /\ faults < MaxFaults /\ faults' = faults + 1
  /\ Goto(r, "journal_failure")
  /\ UNCHANGED <<tables, atBroker, journal, confirmed, overlapped>>

(* The process ends, or a commit fails for another reason than a conflict: *)
(* the request is not answered with success.                               *)
Die(r) ==
  /\ R(r).pc \notin {"asked", "ended"} /\ faults < MaxFaults
  /\ requests' = [requests EXCEPT ![r] = [EndedAs(@, "error") EXCEPT !.unsure = TRUE]]
  /\ faults' = faults + 1
  /\ UNCHANGED <<tables, atBroker, journal, confirmed, overlapped>>

Step(r) ==
  \/ RegisterUser(r) \/ BackfillUsers(r) \/ CreateModel(r)
  \/ UpdateSettings(r) \/ UpdateModelConfig(r)
  \/ ClosePosition(r) \/ CancelPendingOrder(r)
  \/ ReadMissing(r) \/ AllocateMagicNumbers(r) \/ InsertModelConfigs(r)
  \/ CheckSettings(r) \/ AddSettings(r) \/ JournalChange(r) \/ JournalFailure(r)

Next ==
  \E r \in DOMAIN requests : Step(r) \/ JournalFails(r) \/ OnlyLogged(r) \/ BackfillFails(r) \/ Die(r)

Spec == Init /\ [][Next]_vars

----------------------------------------------------------------------------
(* What the runner asks before it places an order: get_user_paused_status  *)
(* reads the first row it finds, and no row means not paused.              *)
MayTrade(u) == SettingsOf(u) = {} \/ \E s \in SettingsOf(u) : ~s.paused

(* Properties.                                                             *)

Stages == {"asked", "missing", "allocate", "insert", "check_settings", "add_settings",
           "journal", "journal_failure", "ended"}
RequestRecord ==
  [kind : Kinds, user : Users \cup {None}, model : Models \cup {None}, on : BOOLEAN,
   pc : Stages, todo : SUBSET Users, known : SUBSET (Users \X Models),
   pairs : SUBSET (Users \X Models), base : Nat, attempt : Nat, done : BOOLEAN,
   unsure : BOOLEAN, answer : {"none", "ok", "error"}]

TypeOK ==
  /\ users \subseteq Users /\ models \subseteq Models /\ atBroker \subseteq users \X TicketOps
  /\ configs \subseteq [user : users, model : models, magic : Nat \ {Floor}, paused : BOOLEAN]
  /\ settings \subseteq [id : Nat, user : users, paused : BOOLEAN]
  /\ journal \subseteq [kind : Kinds, user : Users \cup {None}, model : Models \cup {None}]
  /\ requests \in [1..MaxRequests -> RequestRecord]
  /\ confirmed \in [Users -> BOOLEAN] /\ overlapped \subseteq Users /\ faults \in 0..MaxFaults

(* A user has every model, or somebody was told: when no request is under  *)
(* way, a missing model_configs row goes back to a registration that was   *)
(* not answered with success, or to a new model whose backfill failed and  *)
(* was journaled (or, failing that, logged).  Users and models commit      *)
(* first and look for the other side afterwards, so that one of two        *)
(* concurrent requests sees the other.                                     *)
Quiet == \A r \in DOMAIN requests : R(r).pc \in {"asked", "ended"}
Told(u, m) ==
  \E r \in DOMAIN requests :
    \/ R(r).kind = "register" /\ R(r).user = u /\ R(r).done /\ R(r).answer = "error"
    \/ R(r).kind = "create_model" /\ R(r).model = m /\ R(r).done
       /\ (R(r).unsure \/ \E e \in journal : e.kind = "create_model" /\ e.model = m)
GapsAreTold ==
  Quiet => \A u \in users \ Legacy, m \in models : ConfigOf(u, m) = {} => Told(u, m)

(* The backfill script is the cure: once it has ended with success, every  *)
(* user it found has settings and a row for every model there was.         *)
BackfillHeals ==
  \A r \in DOMAIN requests :
    R(r).kind = "backfill" /\ R(r).answer = "ok" =>
      \A p \in R(r).known : ConfigOf(p[1], p[2]) # {} /\ HasSettings(p[1])

(* The emergency stop: after a pause was committed no read of the runner   *)
(* lets the user trade, unless two provisioning runs for the same user     *)
(* overlapped and left two settings rows.                                  *)
PauseHoldsUnlessDoubled ==
  \A u \in Users \ overlapped : confirmed[u] => ~MayTrade(u)

(* The answer tells the truth: a switch, a new model or a close that was   *)
(* refused was not carried out, and one that was answered with success     *)
(* was, whatever happened to its journal entry.  What a dying process or   *)
(* an unsure bridge leaves open is excepted.                               *)
AnswersAreTrue ==
  \A r \in DOMAIN requests :
    /\ R(r).answer = "ok" => R(r).done
    /\ R(r).kind \in Switches \cup TicketOps \cup {"create_model"} /\ R(r).answer = "error"
         => ~R(r).done \/ R(r).unsure

(* What user_settings.py says of is_paused: "stop everything right now" is *)
(* a single action.                                                        *)
PauseHolds == \A u \in Users : confirmed[u] => ~MayTrade(u)

(* What _insert_model_configs_with_retry says: when another insert raced   *)
(* for the same magic numbers it is safe to just retry.  Two requests      *)
(* never exhaust the three attempts.                                       *)
RetrySettles ==
  Cardinality({r \in DOMAIN requests : ~At(r, "asked")}) <= 2
    => \A r \in DOMAIN requests : At(r, "ended") => ~GaveUp(r)

----------------------------------------------------------------------------
(* The inductive invariant behind these properties, part by part.          *)

(* Magic numbers are unique, and there is a highest one.                   *)
NumbersAreUnique ==
  /\ \A c, d \in configs : c.magic = d.magic => c = d
  /\ configs # {} => \E c \in configs : \A o \in configs : o.magic <= c.magic

(* Where a request can be, and what it has done by then.                   *)
Provisions == {"missing", "allocate", "insert", "check_settings", "add_settings"}
StageFits(q) ==
  /\ q.answer = "none" <=> q.pc # "ended"
  /\ q.pc = "asked" => ~q.done /\ ~q.unsure
  /\ q.pc \notin {"asked", "ended"} => q.done
  /\ q.pc \in Provisions => q.kind \in {"register", "backfill", "create_model"}
  /\ q.pc \in {"check_settings", "add_settings"} => q.kind # "create_model"
  /\ q.pc = "journal" => q.kind \in Switches \cup TicketOps
  /\ q.pc = "journal_failure" => q.kind \in Switches \cup TicketOps \cup {"create_model"}

(* Whom and what it is about exists.                                       *)
SubjectsExist(q) ==
  /\ q.kind = "register" => q.user \in Users
  /\ q.kind = "create_model" => q.model \in Models
  /\ q.kind = "create_model" /\ q.pc \notin {"asked", "ended"} => q.model \in models
  /\ q.pc \in Provisions /\ q.kind # "create_model" => q.user \in users
  /\ q.todo \subseteq users /\ (q.kind # "backfill" => q.todo = {})
  /\ q.pairs \subseteq users \X models /\ q.known \subseteq users \X models

RequestsFit ==
  \A r \in DOMAIN requests : StageFits(R(r)) /\ SubjectsExist(R(r))

(* A user has one settings row unless two looks for it overlapped, and     *)
(* none while a request is about to add it.                                *)
OneSettingsRow ==
  \A u \in Users \ overlapped :
    /\ \A s, t \in SettingsOf(u) : s = t
    /\ \A r \in DOMAIN requests : At(r, "add_settings") /\ R(r).user = u =>
         /\ SettingsOf(u) = {}
         /\ \A o \in DOMAIN requests : At(o, "add_settings") /\ R(o).user = u => o = r

(* What the backfill script has still to do.                               *)
BackfillLeft(q) ==
  q.kind = "backfill" /\ q.pc \in Provisions =>
    \A p \in q.known :
      /\ p[1] \in q.todo \cup {q.user} \/ (ConfigOf(p[1], p[2]) # {} /\ HasSettings(p[1]))
      /\ p[1] = q.user /\ q.pc # "missing" =>
           ConfigOf(p[1], p[2]) # {} \/ (q.pc \in {"allocate", "insert"} /\ p \in q.pairs)
BackfillGoesOn == \A r \in DOMAIN requests : BackfillLeft(R(r))

(* A gap nobody was told of is one that a request is about to close or to  *)
(* tell of.                                                                *)
Covers(q, u, m) ==
  \/ /\ q.kind = "register" /\ q.user = u
     /\ q.pc = "missing" \/ (q.pc \in {"allocate", "insert"} /\ <<u, m>> \in q.pairs)
  \/ /\ q.kind = "create_model" /\ q.model = m
     /\ q.pc \in {"missing", "journal_failure"}
        \/ (q.pc \in {"allocate", "insert"} /\ <<u, m>> \in q.pairs)
GapsAreCovered ==
  \A u \in users \ Legacy, m \in models :
    ConfigOf(u, m) = {} => Told(u, m) \/ \E r \in DOMAIN requests : Covers(R(r), u, m)

IndInv ==
  /\ TypeOK /\ NumbersAreUnique /\ RequestsFit /\ OneSettingsRow
  /\ BackfillGoesOn /\ GapsAreCovered
  /\ BackfillHeals /\ PauseHoldsUnlessDoubled /\ AnswersAreTrue
=============================================================================
