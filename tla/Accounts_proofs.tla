---------------------------- MODULE Accounts_proofs ----------------------------
(***************************************************************************)
(* Proofs about the requests of Accounts: a request that takes a step      *)
(* becomes another one (Becomes), the tables only grow (OnlyGrows), and    *)
(* StepKeeps says once what that leaves of the inductive invariant.  Each  *)
(* transaction then has a lemma of its own.                                *)
(***************************************************************************)
EXTENDS Accounts, FiniteSetTheorems, FunctionTheorems, TLAPS

ConfigRecord == [user : Users, model : Models, magic : Nat \ {Floor}, paused : BOOLEAN]

(* A finite set can be numbered from 1, and the last number is given.      *)
LEMMA NumbersExist ==
  ASSUME NEW S, IsFiniteSet(S)
  PROVE  /\ Cardinality(S) \in Nat
         /\ LET number == CHOOSE f \in [S -> 1..Cardinality(S)] : IsInjective(f)
            IN  /\ number \in [S -> 1..Cardinality(S)]
                /\ \A p, q \in S : number[p] = number[q] => p = q
                /\ S # {} => \E p \in S : number[p] = Cardinality(S)
<1> DEFINE n == Cardinality(S)
           number == CHOOSE f \in [S -> 1..n] : IsInjective(f)
<1>1. n \in Nat /\ ExistsBijection(1..n, S)
  BY FS_CardinalityType
<1>2. PICK g \in Bijection(S, 1..n) : TRUE
  BY <1>1, Fun_ExistsBijSymmetric, Fun_ExistsBij
<1>3. g \in [S -> 1..n] /\ IsInjective(g)
  BY <1>2 DEF Bijection, Injection
<1> HIDE DEF n
<1>4. number \in [S -> 1..n] /\ IsInjective(number)
  BY <1>3
<1> HIDE DEF number
<1>5. \A p, q \in S : number[p] = number[q] => p = q
  BY <1>4 DEF IsInjective
<1>6. ASSUME S # {} PROVE \E p \in S : number[p] = n
  <2>1. number \in Bijection(S, Range(number))
    BY <1>4, <1>5, Fun_IsInj, Fun_InjMeansBijImage
  <2>2. ExistsBijection(S, Range(number))
    BY <2>1, Fun_ExistsBij
  <2>3. Cardinality(Range(number)) = n
    BY <2>2, FS_Bijection DEF n
  <2>4. IsFiniteSet(1..n) /\ Cardinality(1..n) = n /\ n # 0
    BY <1>1, <1>6, FS_Interval, FS_EmptySet DEF n
  <2>5. Range(number) \subseteq 1..n
    BY <1>4 DEF Range
  <2>6. Range(number) = 1..n
    BY <2>3, <2>4, <2>5, FS_Subset
  <2>7. n \in Range(number)
    BY <1>1, <2>4, <2>6
  <2>8. QED
    BY <1>4, <2>7 DEF Range
<1>7. QED
  BY <1>1, <1>4, <1>5, <1>6 DEF n, number

(* The rows of an insert: one for each pair, each with a number of its own *)
(* above the base.                                                         *)
LEMMA NumberedIs ==
  ASSUME NEW S \in SUBSET (Users \X Models), NEW base \in Nat
  PROVE  /\ Numbered(S, base) \subseteq ConfigRecord
         /\ \A x \in Numbered(S, base) : <<x.user, x.model>> \in S /\ base < x.magic
         /\ \A p \in S : \E x \in Numbered(S, base) : x.user = p[1] /\ x.model = p[2]
         /\ \A x, y \in Numbered(S, base) : x.magic = y.magic => x = y
         /\ S # {} => \E x \in Numbered(S, base) :
                        \A y \in Numbered(S, base) : y.magic <= x.magic
<1> DEFINE n == Cardinality(S)
           number == CHOOSE f \in [S -> 1..n] : IsInjective(f)
<1>1. IsFiniteSet(S)
  <2>1. IsFiniteSet(Users \X Models)
    BY AccountsAssumption, FS_Product DEF AccountsAssumption
  <2>2. QED
    BY <2>1, FS_Subset
<1>2. /\ n \in Nat /\ number \in [S -> 1..n]
      /\ \A p, q \in S : number[p] = number[q] => p = q
      /\ S # {} => \E p \in S : number[p] = n
  BY <1>1, NumbersExist
<1> DEFINE Row(p) == [user |-> p[1], model |-> p[2], magic |-> base + number[p], paused |-> FALSE]
<1>3. Numbered(S, base) = {Row(p) : p \in S}
  BY DEF Numbered
<1> HIDE DEF n, number
<1>4. \A p \in S : p[1] \in Users /\ p[2] \in Models /\ p = <<p[1], p[2]>>
                   /\ number[p] \in 1..n
  BY <1>2
<1>a. ASSUME NEW p \in S
      PROVE  /\ Row(p) \in ConfigRecord /\ Row(p).user = p[1] /\ Row(p).model = p[2]
             /\ Row(p).magic = base + number[p] /\ base < Row(p).magic
  <2>1. base + number[p] \in Nat \ {Floor} /\ base < base + number[p]
    BY <1>2, <1>4 DEF Floor
  <2>2. QED
    BY <1>4, <2>1 DEF ConfigRecord
<1> HIDE DEF Row
<1>5. Numbered(S, base) \subseteq ConfigRecord
  BY <1>3, <1>a
<1>6. \A x \in Numbered(S, base) : <<x.user, x.model>> \in S /\ base < x.magic
  BY <1>3, <1>4, <1>a
<1>7. \A p \in S : \E x \in Numbered(S, base) : x.user = p[1] /\ x.model = p[2]
  BY <1>3, <1>a
<1>8. \A x, y \in Numbered(S, base) : x.magic = y.magic => x = y
  <2>1. SUFFICES ASSUME NEW p \in S, NEW q \in S, Row(p).magic = Row(q).magic
                 PROVE  p = q
    BY <1>3
  <2>2. number[p] = number[q]
    BY <1>2, <1>4, <1>a, <2>1
  <2>3. QED
    BY <1>2, <2>2
<1>9. ASSUME S # {}
      PROVE  \E x \in Numbered(S, base) : \A y \in Numbered(S, base) : y.magic <= x.magic
  <2>1. PICK p \in S : number[p] = n
    BY <1>2, <1>9
  <2>2. Row(p) \in Numbered(S, base) /\ Row(p).magic = base + n
    BY <1>3, <1>a, <2>1
  <2>3. \A q \in S : base + number[q] <= base + n
    BY <1>2, <1>4
  <2>4. \A y \in Numbered(S, base) : y.magic <= base + n
    BY <1>3, <1>a, <2>3
  <2>5. QED
    BY <2>2, <2>4
<1>10. QED
  BY <1>5, <1>6, <1>7, <1>8, <1>9

-----------------------------------------------------------------------------
(* One request takes a step: R(r) becomes q.                               *)

Truthful(q) ==
  /\ q.answer = "ok" => q.done
  /\ q.kind \in Switches \cup TicketOps \cup {"create_model"} /\ q.answer = "error"
       => ~q.done \/ q.unsure
Healed(q) ==
  q.kind = "backfill" /\ q.answer = "ok" =>
    \A p \in q.known : ConfigOf(p[1], p[2]) # {} /\ HasSettings(p[1])
Becomes(r, q) ==
  /\ requests' = [requests EXCEPT ![r] = q] /\ q \in RequestRecord
  /\ R(r).pc # "ended"
  /\ q.kind = R(r).kind /\ q.model = R(r).model /\ (q.kind # "backfill" => q.user = R(r).user)
  /\ R(r).done => q.done
  /\ R(r).unsure => q.unsure
  /\ StageFits(q) /\ Truthful(q)
Tables ==
  /\ users \subseteq Users /\ models \subseteq Models /\ atBroker \subseteq users \X TicketOps
  /\ configs \subseteq [user : users, model : models, magic : Nat \ {Floor}, paused : BOOLEAN]
  /\ settings \subseteq [id : Nat, user : users, paused : BOOLEAN]
  /\ journal \subseteq [kind : Kinds, user : Users \cup {None}, model : Models \cup {None}]
  /\ confirmed \in [Users -> BOOLEAN] /\ overlapped \subseteq Users /\ faults \in 0..MaxFaults
OnlyGrows ==
  /\ users \subseteq users' /\ models \subseteq models' /\ journal \subseteq journal'
  /\ \A u, m : ConfigOf(u, m) # {} => ConfigOf(u, m)' # {}
  /\ \A u : HasSettings(u) => HasSettings(u)'

(* What the invariant says of the tables and of each request.              *)
LEMMA Typed ==
  ASSUME IndInv
  PROVE  /\ DOMAIN requests = 1..MaxRequests /\ Tables
         /\ \A r \in DOMAIN requests : /\ R(r) \in RequestRecord /\ StageFits(R(r))
                                       /\ SubjectsExist(R(r)) /\ BackfillLeft(R(r))
                                       /\ Truthful(R(r)) /\ Healed(R(r))
BY DEF IndInv, TypeOK, Tables, RequestsFit, BackfillGoesOn, AnswersAreTrue, BackfillHeals,
       Truthful, Healed, R

(* A step of one request leaves the others alone.                          *)
LEMMA Others ==
  ASSUME IndInv, NEW r \in DOMAIN requests, NEW q, Becomes(r, q)
  PROVE  /\ DOMAIN requests' = DOMAIN requests /\ requests' \in [1..MaxRequests -> RequestRecord]
         /\ R(r)' = q
         /\ \A o \in DOMAIN requests \ {r} : R(o)' = R(o)
         /\ \A o \in DOMAIN requests : R(o)' = IF o = r THEN q ELSE R(o)
BY DEF Becomes, IndInv, TypeOK, R

(* Users and models are never deleted here.                                *)
LEMMA SubjectsStay ==
  ASSUME users \subseteq users', models \subseteq models', NEW q, SubjectsExist(q)
  PROVE  SubjectsExist(q)'
BY DEF SubjectsExist

(* What somebody was told stays told.                                      *)
LEMMA ToldStays ==
  ASSUME IndInv, NEW r \in DOMAIN requests, NEW q, Becomes(r, q), journal \subseteq journal',
         NEW u, NEW m, Told(u, m)
  PROVE  Told(u, m)'
<1>1. PICK o \in DOMAIN requests :
        \/ R(o).kind = "register" /\ R(o).user = u /\ R(o).done /\ R(o).answer = "error"
        \/ R(o).kind = "create_model" /\ R(o).model = m /\ R(o).done
           /\ (R(o).unsure \/ \E e \in journal : e.kind = "create_model" /\ e.model = m)
  BY DEF Told
<1>2. CASE o = r
  <2>1. R(r).answer = "none"
    BY Typed DEF Becomes, StageFits
  <2>2. R(o)'.kind = "create_model" /\ R(o)'.model = m /\ R(o)'.done
        /\ (R(o)'.unsure \/ \E e \in journal' : e.kind = "create_model" /\ e.model = m)
    BY <1>1, <1>2, <2>1, Others DEF Becomes
  <2>3. QED
    BY <2>2, Others DEF Told, R
<1>3. CASE o # r
  BY <1>1, <1>3, Others DEF Told, R
<1>4. QED
  BY <1>2, <1>3

(* The step of one request, whatever its transaction: only what concerns   *)
(* the request itself, the numbers and the settings is left to show.       *)
LEMMA StepKeeps ==
  ASSUME IndInv, NEW r \in DOMAIN requests, NEW q, Becomes(r, q),
         OnlyGrows, Tables', NumbersAreUnique', OneSettingsRow', PauseHoldsUnlessDoubled',
         SubjectsExist(q)', BackfillLeft(q)', Healed(q)',
         \A u \in users' \ Legacy, m \in models' : ConfigOf(u, m)' = {} =>
            \/ u \in users /\ m \in models /\ ~Covers(R(r), u, m)
            \/ Told(u, m)' \/ Covers(q, u, m)
  PROVE  IndInv'
<1>1. TypeOK'
  BY Others DEF Tables, TypeOK
<1>2. RequestsFit'
  <2>1. ASSUME NEW o \in DOMAIN requests PROVE StageFits(R(o)') /\ SubjectsExist(R(o))'
    <3>1. CASE o = r
      BY <3>1, Others DEF Becomes, SubjectsExist
    <3>2. CASE o # r
      <4>1. R(o)' = R(o) /\ StageFits(R(o)) /\ SubjectsExist(R(o))
        BY <3>2, Others, Typed
      <4>2. QED
        BY <4>1 DEF SubjectsExist, OnlyGrows
    <3>3. QED
      BY <3>1, <3>2
  <2>2. QED
    BY <2>1, Others DEF RequestsFit, StageFits
<1>3. BackfillGoesOn'
  <2>1. ASSUME NEW o \in DOMAIN requests PROVE BackfillLeft(R(o))'
    <3>1. CASE o = r
      BY <3>1, Others DEF BackfillLeft
    <3>2. CASE o # r
      <4>1. R(o)' = R(o) /\ BackfillLeft(R(o))
        BY <3>2, Others, Typed
      <4>2. QED
        BY <4>1 DEF BackfillLeft, OnlyGrows
    <3>3. QED
      BY <3>1, <3>2
  <2>2. QED
    BY <2>1, Others DEF BackfillGoesOn
<1>4. BackfillHeals'
  <2>1. ASSUME NEW o \in DOMAIN requests PROVE Healed(R(o))'
    <3>1. CASE o = r
      BY <3>1, Others DEF Healed
    <3>2. CASE o # r
      <4>1. R(o)' = R(o) /\ Healed(R(o))
        BY <3>2, Others, Typed
      <4>2. QED
        BY <4>1 DEF Healed, OnlyGrows
    <3>3. QED
      BY <3>1, <3>2
  <2>2. QED
    BY <2>1, Others DEF BackfillHeals, Healed
<1>5. AnswersAreTrue'
  BY Others, Typed DEF AnswersAreTrue, Truthful, Becomes
<1>6. GapsAreCovered'
  <2>1. SUFFICES ASSUME NEW u \in users' \ Legacy, NEW m \in models', ConfigOf(u, m)' = {}
                 PROVE  Told(u, m)' \/ \E o \in DOMAIN requests : Covers(R(o)', u, m)
    BY Others DEF GapsAreCovered, Covers
  <2>2. CASE Told(u, m)' \/ Covers(q, u, m)
    BY <2>2, Others
  <2>3. CASE u \in users /\ m \in models /\ ~Covers(R(r), u, m)
    <3>1. ConfigOf(u, m) = {}
      BY <2>1 DEF OnlyGrows
    <3>2. Told(u, m) \/ \E o \in DOMAIN requests : Covers(R(o), u, m)
      BY <2>1, <2>3, <3>1 DEF IndInv, GapsAreCovered
    <3>3. CASE Told(u, m)
      BY <3>3, ToldStays DEF OnlyGrows
    <3>4. CASE \E o \in DOMAIN requests : Covers(R(o), u, m)
      BY <2>3, <3>4, Others
    <3>5. QED
      BY <3>2, <3>3, <3>4
  <2>4. QED
    BY <2>1, <2>2, <2>3
<1>7. QED
  BY <1>1, <1>2, <1>3, <1>4, <1>5, <1>6 DEF IndInv

\* No settings row changes, and the request does not come to add one.
LEMMA SettingsStay ==
  ASSUME IndInv, NEW r \in DOMAIN requests, NEW q, Becomes(r, q),
         UNCHANGED <<settings, confirmed>>, overlapped \subseteq overlapped',
         q.pc # "add_settings"
  PROVE  OneSettingsRow' /\ PauseHoldsUnlessDoubled'
<1>1. \A u : SettingsOf(u)' = SettingsOf(u)
  BY DEF SettingsOf
<1>2. \A o \in DOMAIN requests : At(o, "add_settings")' =>
        At(o, "add_settings") /\ R(o)' = R(o)
  BY Others DEF At
<1>3. OneSettingsRow'
  BY <1>1, <1>2, Others DEF IndInv, OneSettingsRow
<1>4. PauseHoldsUnlessDoubled'
  BY <1>1 DEF IndInv, PauseHoldsUnlessDoubled, MayTrade
<1>5. QED
  BY <1>3, <1>4

\* The tables stay as they are: the request goes on or ends.
LEMMA TablesStay ==
  ASSUME IndInv, NEW r \in DOMAIN requests, NEW q, Becomes(r, q),
         UNCHANGED <<tables, confirmed, overlapped>>,
         atBroker' \subseteq atBroker, journal \subseteq journal',
         journal' \subseteq [kind : Kinds, user : Users \cup {None}, model : Models \cup {None}],
         faults' \in 0..MaxFaults,
         q.pc # "add_settings", SubjectsExist(q), BackfillLeft(q), Healed(q),
         \A u \in users \ Legacy, m \in models :
            ConfigOf(u, m) = {} /\ Covers(R(r), u, m) => Told(u, m)' \/ Covers(q, u, m)
  PROVE  IndInv'
<1>1. UNCHANGED <<users, models, configs, settings, confirmed, overlapped>>
  BY DEF tables
<1>2. OnlyGrows /\ \A u, m : ConfigOf(u, m)' = ConfigOf(u, m)
  BY <1>1 DEF OnlyGrows, ConfigOf, HasSettings, SettingsOf
<1>3. Tables' /\ NumbersAreUnique'
  <2>1. Tables /\ NumbersAreUnique
    BY Typed DEF IndInv
  <2>2. QED
    BY <1>1, <2>1 DEF Tables, NumbersAreUnique
<1>4. OneSettingsRow' /\ PauseHoldsUnlessDoubled'
  BY <1>1, SettingsStay
<1>5. SubjectsExist(q)' /\ BackfillLeft(q)' /\ Healed(q)'
  BY <1>1, <1>2 DEF SubjectsExist, BackfillLeft, Healed, HasSettings, SettingsOf
<1>6. QED
  BY <1>1, <1>2, <1>3, <1>4, <1>5, StepKeeps

\* A request that ends: what it leaves undone was told of.
LEMMA EndedIs ==
  ASSUME NEW q \in RequestRecord, NEW a \in {"ok", "error"}
  PROVE  LET e == EndedAs(q, a)
         IN  /\ e \in RequestRecord
             /\ e.pc = "ended" /\ e.answer = a /\ e.todo = {} /\ e.pairs = {}
             /\ e.kind = q.kind /\ e.user = q.user /\ e.model = q.model
             /\ e.known = q.known /\ e.done = q.done /\ e.unsure = q.unsure
BY DEF EndedAs, RequestRecord, Stages

\* A request ends and leaves the tables as they are.
LEMMA EndKeeps ==
  ASSUME IndInv, NEW r \in DOMAIN requests, NEW q \in RequestRecord,
         requests' = [requests EXCEPT ![r] = q], R(r).pc # "ended",
         q.pc = "ended", q.answer \in {"ok", "error"}, q.todo = {}, q.pairs = {},
         q.kind = R(r).kind, q.user = R(r).user, q.model = R(r).model, q.known = R(r).known,
         R(r).done => q.done, R(r).unsure => q.unsure, Truthful(q), Healed(q),
         UNCHANGED <<tables, confirmed, overlapped>>,
         atBroker' \subseteq atBroker, journal \subseteq journal',
         journal' \subseteq [kind : Kinds, user : Users \cup {None}, model : Models \cup {None}],
         faults' \in 0..MaxFaults,
         \A u \in users \ Legacy, m \in models :
            ConfigOf(u, m) = {} /\ Covers(R(r), u, m) => Told(u, m)'
  PROVE  IndInv'
<1>1. StageFits(q)
  BY DEF StageFits, Provisions
<1>2. Becomes(r, q)
  BY <1>1 DEF Becomes
<1>3. SubjectsExist(q)
  <2>1. SubjectsExist(R(r)) /\ StageFits(R(r))
    BY Typed
  <2>2. QED
    BY <2>1 DEF SubjectsExist, Provisions
<1>4. BackfillLeft(q)
  BY DEF BackfillLeft, Provisions
<1>5. QED
  BY <1>2, <1>3, <1>4, TablesStay

-----------------------------------------------------------------------------
(* The actions.                                                            *)

\* What the first transaction of a request and its errors have in common.
LEMMA AskedIs ==
  ASSUME IndInv, NEW r \in DOMAIN requests, NEW k, Arrives(r, k)
  PROVE  /\ R(r) \in RequestRecord /\ R(r).kind = k /\ R(r).pc = "asked" /\ R(r).answer = "none"
         /\ ~R(r).done /\ ~R(r).unsure /\ R(r).todo \subseteq users
         /\ SubjectsExist(R(r)) /\ \A u, m : ~Covers(R(r), u, m)
BY Typed DEF Arrives, At, StageFits, Covers, SubjectsExist

\* A request refused in its first transaction.
LEMMA RefusedKeeps ==
  ASSUME IndInv, NEW r \in DOMAIN requests, NEW k, Arrives(r, k), Answer(r, "error"),
         UNCHANGED <<tables, atBroker, journal, confirmed, overlapped, faults>>
  PROVE  IndInv'
<1>1. /\ R(r) \in RequestRecord /\ R(r).pc = "asked" /\ ~R(r).done
      /\ \A u, m : ~Covers(R(r), u, m)
  BY AskedIs
<1>2. PICK q : q = EndedAs(R(r), "error")
  OBVIOUS
<1>3. requests' = [requests EXCEPT ![r] = q]
  BY <1>2 DEF Answer, R
<1>4. /\ q \in RequestRecord /\ q.pc = "ended" /\ q.answer = "error" /\ q.todo = {} /\ q.pairs = {}
      /\ q.kind = R(r).kind /\ q.user = R(r).user /\ q.model = R(r).model
      /\ q.known = R(r).known /\ q.done = R(r).done /\ q.unsure = R(r).unsure
  BY <1>1, <1>2, EndedIs
<1>5. Truthful(q) /\ Healed(q)
  BY <1>1, <1>4 DEF Truthful, Healed
<1>6. Tables
  BY Typed
<1>7. QED
  BY <1>1, <1>3, <1>4, <1>5, <1>6, EndKeeps DEF Tables

\* A new user is missing every model: the registration covers the gaps.
LEMMA RegisterUserKeeps ==
  ASSUME IndInv, NEW r \in DOMAIN requests, RegisterUser(r)
  PROVE  IndInv'
<1>1. Arrives(r, "register")
  BY DEF RegisterUser
<1>2. /\ R(r) \in RequestRecord /\ R(r).kind = "register" /\ R(r).pc = "asked"
      /\ R(r).answer = "none" /\ ~R(r).done /\ ~R(r).unsure
      /\ SubjectsExist(R(r)) /\ \A u, m : ~Covers(R(r), u, m)
  BY <1>1, AskedIs
<1>3. CASE R(r).user \in users
  BY <1>1, <1>3, RefusedKeeps DEF RegisterUser, tables
<1>4. CASE R(r).user \notin users
  <2>1. PICK q : q = [R(r) EXCEPT !.pc = "missing", !.done = TRUE]
    OBVIOUS
  <2>2. /\ requests' = [requests EXCEPT ![r] = q] /\ users' = users \cup {R(r).user}
        /\ UNCHANGED <<models, configs, settings, atBroker, journal, confirmed, overlapped, faults>>
    BY <1>4, <2>1 DEF RegisterUser, Committed, R
  <2>3. /\ q \in RequestRecord /\ q.kind = "register" /\ q.user = R(r).user /\ q.model = R(r).model
        /\ q.pc = "missing" /\ q.done /\ q.answer = "none" /\ q.unsure = R(r).unsure
        /\ q.todo = R(r).todo /\ q.pairs = R(r).pairs /\ q.known = R(r).known
    BY <1>2, <2>1 DEF RequestRecord, Stages
  <2>4. Becomes(r, q)
    BY <1>2, <2>2, <2>3 DEF Becomes, StageFits, Truthful, Provisions
  <2>5. OnlyGrows
    BY <2>2 DEF OnlyGrows, ConfigOf, HasSettings, SettingsOf
  <2>6. Tables' /\ NumbersAreUnique'
    <3>1. Tables /\ NumbersAreUnique
      BY Typed DEF IndInv
    <3>2. R(r).user \in Users
      BY <1>2 DEF SubjectsExist
    <3>3. QED
      BY <2>2, <3>1, <3>2 DEF Tables, NumbersAreUnique
  <2>7. OneSettingsRow' /\ PauseHoldsUnlessDoubled'
    BY <2>2, <2>3, <2>4, SettingsStay
  <2>8. SubjectsExist(q)' /\ BackfillLeft(q)' /\ Healed(q)'
    BY <1>2, <2>2, <2>3 DEF SubjectsExist, BackfillLeft, Healed, Provisions
  <2>9. \A u \in users', m \in models' : (u \in users /\ m \in models) \/ Covers(q, u, m)
    BY <2>2, <2>3 DEF Covers
  <2>10. QED
    BY <1>2, <2>4, <2>5, <2>6, <2>7, <2>8, <2>9, StepKeeps
<1>5. QED
  BY <1>3, <1>4

\* The backfill script has everything left to do.
LEMMA BackfillUsersKeeps ==
  ASSUME IndInv, NEW r \in DOMAIN requests, BackfillUsers(r)
  PROVE  IndInv'
<1>1. /\ R(r) \in RequestRecord /\ R(r).kind = "backfill" /\ R(r).pc = "asked"
      /\ R(r).answer = "none" /\ ~R(r).done /\ ~R(r).unsure
      /\ SubjectsExist(R(r)) /\ \A u, m : ~Covers(R(r), u, m)
  BY AskedIs DEF BackfillUsers
<1>2. PICK u \in users :
        requests' = [requests EXCEPT ![r].todo = users \ {u}, ![r].user = u,
                                     ![r].known = users \X models,
                                     ![r].done = TRUE, ![r].pc = "missing"]
  BY DEF BackfillUsers
<1>3. UNCHANGED <<tables, atBroker, journal, confirmed, overlapped, faults>>
  BY DEF BackfillUsers
<1>4. Tables
  BY Typed
<1>5. PICK q : q = [R(r) EXCEPT !.todo = users \ {u}, !.user = u, !.known = users \X models,
                                !.done = TRUE, !.pc = "missing"]
  OBVIOUS
<1>6. requests' = [requests EXCEPT ![r] = q]
  BY <1>2, <1>5 DEF R
<1>7. /\ q \in RequestRecord /\ q.kind = "backfill" /\ q.user = u /\ q.model = R(r).model
      /\ q.pc = "missing" /\ q.done /\ q.answer = "none" /\ q.unsure = R(r).unsure
      /\ q.todo = users \ {u} /\ q.pairs = R(r).pairs /\ q.known = users \X models
  <2>1. users \subseteq Users /\ users \X models \subseteq Users \X Models
    BY <1>4 DEF Tables
  <2>2. QED
    BY <1>1, <1>2, <1>5, <2>1 DEF RequestRecord, Stages
<1>8. Becomes(r, q)
  BY <1>1, <1>6, <1>7 DEF Becomes, StageFits, Truthful, Provisions
<1>9. SubjectsExist(q) /\ BackfillLeft(q) /\ Healed(q)
  BY <1>1, <1>7 DEF SubjectsExist, BackfillLeft, Healed, Provisions
<1>10. QED
  BY <1>1, <1>3, <1>4, <1>7, <1>8, <1>9, TablesStay DEF Tables

\* A new model is missing from every user: create_model covers the gaps.
LEMMA CreateModelKeeps ==
  ASSUME IndInv, NEW r \in DOMAIN requests, CreateModel(r)
  PROVE  IndInv'
<1>1. Arrives(r, "create_model")
  BY DEF CreateModel
<1>2. /\ R(r) \in RequestRecord /\ R(r).kind = "create_model" /\ R(r).pc = "asked"
      /\ R(r).answer = "none" /\ ~R(r).done /\ ~R(r).unsure
      /\ SubjectsExist(R(r)) /\ \A u, m : ~Covers(R(r), u, m)
  BY <1>1, AskedIs
<1>3. CASE R(r).model \in models
  BY <1>1, <1>3, RefusedKeeps DEF CreateModel, tables
<1>4. CASE R(r).model \notin models
  <2>1. PICK q : q = [R(r) EXCEPT !.pc = "missing", !.done = TRUE]
    OBVIOUS
  <2>2. /\ requests' = [requests EXCEPT ![r] = q] /\ models' = models \cup {R(r).model}
        /\ UNCHANGED <<users, configs, settings, atBroker, journal, confirmed, overlapped, faults>>
    BY <1>4, <2>1 DEF CreateModel, Committed, R
  <2>3. /\ q \in RequestRecord /\ q.kind = "create_model" /\ q.user = R(r).user
        /\ q.model = R(r).model
        /\ q.pc = "missing" /\ q.done /\ q.answer = "none" /\ q.unsure = R(r).unsure
        /\ q.todo = R(r).todo /\ q.pairs = R(r).pairs /\ q.known = R(r).known
    BY <1>2, <2>1 DEF RequestRecord, Stages
  <2>4. Becomes(r, q)
    BY <1>2, <2>2, <2>3 DEF Becomes, StageFits, Truthful, Provisions
  <2>5. OnlyGrows
    BY <2>2 DEF OnlyGrows, ConfigOf, HasSettings, SettingsOf
  <2>6. Tables' /\ NumbersAreUnique'
    <3>1. Tables /\ NumbersAreUnique
      BY Typed DEF IndInv
    <3>2. R(r).model \in Models
      BY <1>2 DEF SubjectsExist
    <3>3. QED
      BY <2>2, <3>1, <3>2 DEF Tables, NumbersAreUnique
  <2>7. OneSettingsRow' /\ PauseHoldsUnlessDoubled'
    BY <2>2, <2>3, <2>4, SettingsStay
  <2>8. SubjectsExist(q)' /\ BackfillLeft(q)' /\ Healed(q)'
    BY <1>2, <2>2, <2>3 DEF SubjectsExist, BackfillLeft, Healed, Provisions
  <2>9. \A u \in users', m \in models' : (u \in users /\ m \in models) \/ Covers(q, u, m)
    BY <2>2, <2>3 DEF Covers
  <2>10. QED
    BY <1>2, <2>4, <2>5, <2>6, <2>7, <2>8, <2>9, StepKeeps
<1>5. QED
  BY <1>3, <1>4

\* A change of a switch that was committed: the request goes on to its journal entry.
LEMMA SwitchedIs ==
  ASSUME IndInv, NEW r \in DOMAIN requests, NEW k \in Switches \cup TicketOps, Arrives(r, k),
         Committed(r, "journal")
  PROVE  \E q : /\ Becomes(r, q) /\ q.pc = "journal" /\ q.kind = k /\ q.answer = "none"
                /\ SubjectsExist(q) /\ BackfillLeft(q) /\ Healed(q)
                /\ \A u, m : ~Covers(R(r), u, m)
<1>1. /\ R(r) \in RequestRecord /\ R(r).kind = k /\ R(r).pc = "asked"
      /\ R(r).answer = "none" /\ ~R(r).done /\ ~R(r).unsure
      /\ SubjectsExist(R(r)) /\ \A u, m : ~Covers(R(r), u, m)
  BY AskedIs
<1>2. PICK q : q = [R(r) EXCEPT !.pc = "journal", !.done = TRUE]
  OBVIOUS
<1>3. requests' = [requests EXCEPT ![r] = q]
  BY <1>2 DEF Committed, R
<1>4. /\ q \in RequestRecord /\ q.kind = k /\ q.user = R(r).user /\ q.model = R(r).model
      /\ q.pc = "journal" /\ q.done /\ q.answer = "none" /\ q.unsure = R(r).unsure
      /\ q.todo = R(r).todo /\ q.pairs = R(r).pairs /\ q.known = R(r).known
  BY <1>1, <1>2 DEF RequestRecord, Stages
<1>5. Becomes(r, q)
  BY <1>1, <1>3, <1>4 DEF Becomes, StageFits, Truthful, Provisions
<1>6. SubjectsExist(q) /\ BackfillLeft(q) /\ Healed(q)
  BY <1>1, <1>4 DEF SubjectsExist, BackfillLeft, Healed, Provisions, Switches, TicketOps
<1>7. QED
  BY <1>1, <1>4, <1>5, <1>6

\* The switch changes the one settings row there is, unless two looks overlapped.
LEMMA UpdateSettingsKeeps ==
  ASSUME IndInv, NEW r \in DOMAIN requests, UpdateSettings(r)
  PROVE  IndInv'
<1>1. Arrives(r, "settings")
  BY DEF UpdateSettings
<1>2. CASE SettingsOf(R(r).user) = {}
  BY <1>1, <1>2, RefusedKeeps DEF UpdateSettings, tables
<1>3. CASE SettingsOf(R(r).user) # {}
  <2>1. PICK u, on : u = R(r).user /\ on = R(r).on
    OBVIOUS
  <2>2. PICK s \in SettingsOf(u) :
          settings' = (settings \ {s}) \cup {[s EXCEPT !.paused = on]}
    BY <1>3, <2>1 DEF UpdateSettings
  <2>3. /\ confirmed' = [confirmed EXCEPT ![u] = on] /\ Committed(r, "journal")
        /\ UNCHANGED <<users, models, configs, atBroker, journal, overlapped, faults>>
    BY <1>3, <2>1 DEF UpdateSettings
  <2>4. PICK q : /\ Becomes(r, q) /\ q.pc = "journal" /\ q.kind = "settings"
                 /\ SubjectsExist(q) /\ BackfillLeft(q) /\ Healed(q)
                 /\ \A v, m : ~Covers(R(r), v, m)
    BY <1>1, <2>3, SwitchedIs DEF Switches
  <2>5. Tables /\ NumbersAreUnique /\ OneSettingsRow /\ PauseHoldsUnlessDoubled
    BY Typed DEF IndInv
  <2>6. R(r) \in RequestRecord
    BY Typed
  <2>7. s \in settings /\ s.user = u /\ u \in users /\ on \in BOOLEAN
        /\ s \in [id : Nat, user : users, paused : BOOLEAN]
    BY <2>1, <2>2, <2>5, <2>6 DEF SettingsOf, Tables, RequestRecord
  <2>8. PICK t : t = [s EXCEPT !.paused = on]
    OBVIOUS
  <2>9. t \in [id : Nat, user : users, paused : BOOLEAN] /\ t.user = u /\ t.paused = on
    BY <2>7, <2>8
  <2>10. settings' = (settings \ {s}) \cup {t}
    BY <2>2, <2>8
  <2>11. \A v : v # u => SettingsOf(v)' = SettingsOf(v)
    BY <2>7, <2>9, <2>10 DEF SettingsOf
  <2>12. SettingsOf(u)' = (SettingsOf(u) \ {s}) \cup {t}
    BY <2>7, <2>9, <2>10 DEF SettingsOf
  <2>13. OnlyGrows
    <3>1. \A v : HasSettings(v) => HasSettings(v)'
      BY <2>11, <2>12 DEF HasSettings
    <3>2. QED
      BY <2>3, <3>1 DEF OnlyGrows, ConfigOf
  <2>14. Tables' /\ NumbersAreUnique'
    BY <2>3, <2>5, <2>7, <2>9, <2>10 DEF Tables, NumbersAreUnique
  <2>15. \A o \in DOMAIN requests : At(o, "add_settings")' => At(o, "add_settings") /\ R(o)' = R(o)
    BY <2>4, Others DEF At
  <2>16. u \notin overlapped => SettingsOf(u) = {s} /\ SettingsOf(u)' = {t}
    <3>1. u \in Users
      BY <2>5, <2>7 DEF Tables
    <3>2. u \notin overlapped => \A a, b \in SettingsOf(u) : a = b
      BY <2>5, <3>1 DEF OneSettingsRow
    <3>3. u \notin overlapped => SettingsOf(u) = {s}
      BY <2>2, <3>2
    <3>4. QED
      BY <2>12, <3>3
  <2>17. OneSettingsRow'
    <3>1. SUFFICES ASSUME NEW v \in Users \ overlapped
                   PROVE  /\ \A a, b \in SettingsOf(v)' : a = b
                          /\ \A o \in DOMAIN requests : At(o, "add_settings")' /\ R(o)'.user = v =>
                               /\ SettingsOf(v)' = {}
                               /\ \A p \in DOMAIN requests :
                                    At(p, "add_settings")' /\ R(p)'.user = v => p = o
      BY <2>3, <2>4, Others DEF OneSettingsRow
    <3>2. /\ \A a, b \in SettingsOf(v) : a = b
          /\ \A o \in DOMAIN requests : At(o, "add_settings") /\ R(o).user = v =>
               /\ SettingsOf(v) = {}
               /\ \A p \in DOMAIN requests : At(p, "add_settings") /\ R(p).user = v => p = o
      BY <2>5 DEF OneSettingsRow
    <3>3. CASE v = u
      BY <2>15, <2>16, <3>2, <3>3
    <3>4. CASE v # u
      BY <2>11, <2>15, <3>2, <3>4
    <3>5. QED
      BY <3>3, <3>4
  <2>18. PauseHoldsUnlessDoubled'
    <3>1. SUFFICES ASSUME NEW v \in Users \ overlapped, confirmed'[v]
                   PROVE  SettingsOf(v)' # {} /\ \A a \in SettingsOf(v)' : a.paused
      BY <2>3 DEF PauseHoldsUnlessDoubled, MayTrade
    <3>2. CASE v = u
      <4>1. on
        BY <2>3, <2>5, <3>1, <3>2 DEF Tables
      <4>2. QED
        BY <2>9, <2>16, <3>2, <4>1
    <3>3. CASE v # u
      <4>1. confirmed[v]
        BY <2>3, <2>5, <3>1, <3>3 DEF Tables
      <4>2. QED
        BY <2>5, <2>11, <3>3, <4>1 DEF PauseHoldsUnlessDoubled, MayTrade
    <3>4. QED
      BY <3>2, <3>3
  <2>19. SubjectsExist(q)' /\ BackfillLeft(q)' /\ Healed(q)'
    BY <2>3, <2>4 DEF SubjectsExist, BackfillLeft, Healed
  <2>20. \A v \in users', m \in models' : v \in users /\ m \in models
    BY <2>3
  <2>21. QED
    BY <2>4, <2>13, <2>14, <2>17, <2>18, <2>19, <2>20, StepKeeps
<1>4. QED
  BY <1>2, <1>3

\* A row of model_configs keeps its user, its model and its number.
LEMMA UpdateModelConfigKeeps ==
  ASSUME IndInv, NEW r \in DOMAIN requests, UpdateModelConfig(r)
  PROVE  IndInv'
<1>1. Arrives(r, "config")
  BY DEF UpdateModelConfig
<1>2. PICK rows : rows = ConfigOf(R(r).user, R(r).model)
  OBVIOUS
<1>3. CASE rows = {}
  BY <1>1, <1>2, <1>3, RefusedKeeps DEF UpdateModelConfig, tables
<1>4. CASE rows # {}
  <2>1. PICK on : on = R(r).on
    OBVIOUS
  <2> DEFINE F(c) == [c EXCEPT !.paused = on]
             Row == [user : users, model : models, magic : Nat \ {Floor}, paused : BOOLEAN]
  <2>2. /\ configs' = (configs \ rows) \cup {F(c) : c \in rows} /\ Committed(r, "journal")
        /\ UNCHANGED <<users, models, settings, atBroker, journal, confirmed, overlapped, faults>>
    BY <1>2, <1>4, <2>1 DEF UpdateModelConfig
  <2>3. PICK q : /\ Becomes(r, q) /\ q.pc = "journal" /\ q.kind = "config"
                 /\ SubjectsExist(q) /\ BackfillLeft(q) /\ Healed(q)
                 /\ \A v, m : ~Covers(R(r), v, m)
    BY <1>1, <2>2, SwitchedIs DEF Switches
  <2>4. Tables /\ NumbersAreUnique
    BY Typed DEF IndInv
  <2>5. R(r) \in RequestRecord
    BY Typed
  <2>6. \A c \in configs : /\ c \in Row /\ F(c) \in Row /\ F(c).user = c.user
                           /\ F(c).model = c.model /\ F(c).magic = c.magic
    BY <2>1, <2>4, <2>5 DEF Tables, RequestRecord
  <2>7. rows \subseteq configs
    BY <1>2 DEF ConfigOf
  <2>8. \A x \in configs' : \E c \in configs :
          /\ x.user = c.user /\ x.model = c.model /\ x.magic = c.magic /\ x \in Row
          /\ x = (IF c \in rows THEN F(c) ELSE c)
    BY <2>2, <2>6, <2>7
  <2>9. \A c \in configs : \E x \in configs' :
          x.user = c.user /\ x.model = c.model /\ x.magic = c.magic
    BY <2>2, <2>6, <2>7
  <2> HIDE DEF F
  <2>10. \A v, m : ConfigOf(v, m) # {} => ConfigOf(v, m)' # {}
    BY <2>9 DEF ConfigOf
  <2>11. OnlyGrows
    BY <2>2, <2>10 DEF OnlyGrows, HasSettings, SettingsOf
  <2>12. Tables'
    BY <2>2, <2>4, <2>8 DEF Tables
  <2>13. NumbersAreUnique'
    <3>1. \A x, y \in configs' : x.magic = y.magic => x = y
      BY <2>4, <2>8 DEF NumbersAreUnique
    <3>2. \E x \in configs' : \A y \in configs' : y.magic <= x.magic
      <4>1. configs # {}
        BY <1>4, <2>7
      <4>2. PICK c \in configs : \A d \in configs : d.magic <= c.magic
        BY <2>4, <4>1 DEF NumbersAreUnique
      <4>3. PICK x \in configs' : x.magic = c.magic
        BY <2>9
      <4>4. QED
        BY <2>8, <4>2, <4>3
    <3>3. QED
      BY <3>1, <3>2 DEF NumbersAreUnique
  <2>14. OneSettingsRow' /\ PauseHoldsUnlessDoubled'
    BY <2>2, <2>3, SettingsStay
  <2>15. SubjectsExist(q)' /\ BackfillLeft(q)' /\ Healed(q)'
    BY <2>2, <2>3 DEF SubjectsExist, BackfillLeft, Healed
  <2>16. \A v \in users', m \in models' : v \in users /\ m \in models
    BY <2>2
  <2>17. QED
    BY <2>3, <2>11, <2>12, <2>13, <2>14, <2>15, <2>16, StepKeeps
<1>5. QED
  BY <1>3, <1>4

\* A close or a cancel touches no table.
LEMMA ActAtBridgeKeeps ==
  ASSUME IndInv, NEW r \in DOMAIN requests, NEW k \in TicketOps, Arrives(r, k), ActAtBridge(r)
  PROVE  IndInv'
<1>1. PICK it : it = <<R(r).user, R(r).kind>>
  OBVIOUS
<1>2. UNCHANGED <<tables, journal, confirmed, overlapped>>
  BY DEF ActAtBridge
<1>3. Tables
  BY Typed
<1>4. CASE it \notin atBroker
  BY <1>1, <1>2, <1>4, RefusedKeeps DEF ActAtBridge
<1>5. CASE /\ atBroker' = atBroker \ {it} /\ Committed(r, "journal") /\ UNCHANGED faults
  <2>1. PICK q : /\ Becomes(r, q) /\ q.pc = "journal"
                 /\ SubjectsExist(q) /\ BackfillLeft(q) /\ Healed(q)
                 /\ \A v, m : ~Covers(R(r), v, m)
    BY <1>5, SwitchedIs
  <2>2. QED
    BY <1>2, <1>3, <1>5, <2>1, TablesStay DEF Tables
<1>6. CASE /\ faults < MaxFaults /\ faults' = faults + 1
           /\ atBroker' \in {atBroker, atBroker \ {it}}
           /\ requests' = [requests EXCEPT ![r] =
                            [EndedAs(@, "error") EXCEPT !.unsure = TRUE,
                                                        !.done = atBroker' # atBroker]]
  <2>1. /\ R(r) \in RequestRecord /\ R(r).kind = k /\ R(r).pc = "asked" /\ ~R(r).done
        /\ ~R(r).unsure /\ \A u, m : ~Covers(R(r), u, m)
    BY AskedIs
  <2>2. PICK d \in BOOLEAN : d = (atBroker' # atBroker)
    OBVIOUS
  <2>3. PICK e : e = EndedAs(R(r), "error")
    OBVIOUS
  <2>4. /\ e \in RequestRecord /\ e.pc = "ended" /\ e.answer = "error" /\ e.todo = {} /\ e.pairs = {}
        /\ e.kind = R(r).kind /\ e.user = R(r).user /\ e.model = R(r).model
        /\ e.known = R(r).known
    BY <2>1, <2>3, EndedIs
  <2>5. PICK q : q = [e EXCEPT !.unsure = TRUE, !.done = d]
    OBVIOUS
  <2>6. requests' = [requests EXCEPT ![r] = q]
    BY <1>6, <2>2, <2>3, <2>5 DEF R
  <2>7. /\ q \in RequestRecord /\ q.pc = "ended" /\ q.answer = "error" /\ q.todo = {} /\ q.pairs = {}
        /\ q.kind = R(r).kind /\ q.user = R(r).user /\ q.model = R(r).model
        /\ q.known = R(r).known /\ q.unsure
    BY <2>2, <2>4, <2>5 DEF RequestRecord
  <2>8. Truthful(q) /\ Healed(q)
    BY <2>7 DEF Truthful, Healed
  <2>9. faults' \in 0..MaxFaults /\ atBroker' \subseteq atBroker
    BY <1>3, <1>6, AccountsAssumption DEF Tables, AccountsAssumption
  <2>10. QED
    BY <1>2, <1>3, <2>1, <2>6, <2>7, <2>8, <2>9, EndKeeps DEF Tables
<1>7. QED
  BY <1>1, <1>4, <1>5, <1>6 DEF ActAtBridge

\* A provisioning run whose model_configs rows are all there now.
LEMMA ContinueKeeps ==
  ASSUME IndInv, NEW r \in DOMAIN requests, R(r).pc \in {"missing", "insert"}, Continue(r),
         OnlyGrows, Tables', NumbersAreUnique',
         UNCHANGED <<users, models, settings, confirmed, overlapped>>,
         \A u \in users, m \in models :
            \/ Covers(R(r), u, m)
            \/ R(r).kind = "backfill" /\ u = R(r).user /\ <<u, m>> \in R(r).known
            => ConfigOf(u, m)' # {}
  PROVE  IndInv'
<1>1. /\ R(r) \in RequestRecord /\ StageFits(R(r)) /\ SubjectsExist(R(r))
      /\ BackfillLeft(R(r)) /\ Truthful(R(r))
  BY Typed
<1>2. PICK q : q = IF R(r).kind = "create_model" THEN EndedAs(R(r), "ok")
                   ELSE [R(r) EXCEPT !.pc = "check_settings", !.pairs = {}, !.base = 0]
  OBVIOUS
<1>3. requests' = [requests EXCEPT ![r] = q]
  <2>1. CASE R(r).kind = "create_model"
    BY <1>2, <2>1 DEF Continue, Answer, R
  <2>2. CASE R(r).kind # "create_model"
    BY <1>2, <2>2 DEF Continue, R
  <2>3. QED
    BY <2>1, <2>2
<1>4. /\ q \in RequestRecord /\ q.kind = R(r).kind /\ q.user = R(r).user /\ q.model = R(r).model
      /\ q.known = R(r).known /\ q.done = R(r).done /\ q.unsure = R(r).unsure /\ q.pairs = {}
      /\ \/ q.kind = "create_model" /\ q.pc = "ended" /\ q.answer = "ok" /\ q.todo = {}
         \/ /\ q.kind # "create_model" /\ q.pc = "check_settings" /\ q.answer = R(r).answer
            /\ q.todo = R(r).todo
  <2>1. CASE R(r).kind = "create_model"
    BY <1>1, <1>2, <2>1, EndedIs
  <2>2. CASE R(r).kind # "create_model"
    BY <1>1, <1>2, <2>2 DEF RequestRecord, Stages
  <2>3. QED
    BY <2>1, <2>2
<1>5. Becomes(r, q)
  BY <1>1, <1>3, <1>4 DEF Becomes, StageFits, Truthful, Provisions
<1>6. OneSettingsRow' /\ PauseHoldsUnlessDoubled'
  BY <1>4, <1>5, SettingsStay
<1>7. SubjectsExist(q)'
  <2>1. SubjectsExist(q)
    BY <1>1, <1>4 DEF SubjectsExist, Provisions
  <2>2. QED
    BY <2>1, SubjectsStay DEF OnlyGrows
<1>8. Healed(q)'
  BY <1>1, <1>4 DEF Healed, StageFits
<1>9. BackfillLeft(q)'
  <2>1. SUFFICES ASSUME q.kind = "backfill", q.pc = "check_settings", NEW p \in R(r).known
                 PROVE  /\ p[1] \in q.todo \cup {q.user}
                           \/ (ConfigOf(p[1], p[2])' # {} /\ HasSettings(p[1])')
                        /\ p[1] = q.user => ConfigOf(p[1], p[2])' # {}
    BY <1>4 DEF BackfillLeft, Provisions
  <2>2. p[1] \in users /\ p[2] \in models /\ p = <<p[1], p[2]>>
    BY <1>1 DEF SubjectsExist
  <2>3. p[1] = q.user => ConfigOf(p[1], p[2])' # {}
    BY <1>4, <2>1, <2>2
  <2>4. p[1] \in R(r).todo \cup {R(r).user} \/ (ConfigOf(p[1], p[2]) # {} /\ HasSettings(p[1]))
    BY <1>1, <1>4, <2>1 DEF BackfillLeft, Provisions
  <2>5. QED
    BY <1>4, <2>1, <2>3, <2>4 DEF OnlyGrows
<1>10. QED
  BY <1>5, <1>6, <1>7, <1>8, <1>9, StepKeeps

\* What is missing is read while users and models may still grow.
LEMMA ReadMissingKeeps ==
  ASSUME IndInv, NEW r \in DOMAIN requests, ReadMissing(r)
  PROVE  IndInv'
<1>1. R(r).pc = "missing" /\ UNCHANGED <<tables, atBroker, journal, confirmed, overlapped, faults>>
  BY DEF ReadMissing, At
<1>2. /\ R(r) \in RequestRecord /\ StageFits(R(r)) /\ SubjectsExist(R(r))
      /\ BackfillLeft(R(r)) /\ Truthful(R(r)) /\ Tables /\ NumbersAreUnique
  BY Typed DEF IndInv
<1>3. PICK missing : missing = Missing(r)
  OBVIOUS
<1>4. \A u \in users, m \in models :
        (R(r).kind = "create_model" /\ m = R(r).model) \/ (R(r).kind # "create_model" /\ u = R(r).user)
        => (ConfigOf(u, m) = {} <=> <<u, m>> \in missing)
  BY <1>3 DEF Missing
<1>5. missing \subseteq users \X models
  BY <1>1, <1>2, <1>3 DEF Missing, SubjectsExist, Provisions
<1>6. CASE missing = {}
  <2>1. OnlyGrows /\ Tables' /\ NumbersAreUnique'
    BY <1>1, <1>2 DEF OnlyGrows, Tables, NumbersAreUnique, tables, ConfigOf, HasSettings, SettingsOf
  <2>2. \A u, m : ConfigOf(u, m)' = ConfigOf(u, m)
    BY <1>1 DEF tables, ConfigOf
  <2>3. \A u \in users, m \in models :
          \/ Covers(R(r), u, m)
          \/ R(r).kind = "backfill" /\ u = R(r).user /\ <<u, m>> \in R(r).known
          => ConfigOf(u, m)' # {}
    BY <1>4, <1>6, <2>2 DEF Covers
  <2>4. Continue(r)
    BY <1>3, <1>6 DEF ReadMissing
  <2>5. QED
    BY <1>1, <2>1, <2>3, <2>4, ContinueKeeps DEF tables
<1>7. CASE missing # {}
  <2>1. PICK q : q = [R(r) EXCEPT !.pairs = missing, !.attempt = 1, !.pc = "allocate"]
    OBVIOUS
  <2>2. requests' = [requests EXCEPT ![r] = q]
    BY <1>3, <1>7, <2>1 DEF ReadMissing, R
  <2>3. /\ q \in RequestRecord /\ q.kind = R(r).kind /\ q.user = R(r).user /\ q.model = R(r).model
        /\ q.known = R(r).known /\ q.done = R(r).done /\ q.unsure = R(r).unsure
        /\ q.pairs = missing /\ q.pc = "allocate" /\ q.answer = R(r).answer /\ q.todo = R(r).todo
    <3>1. missing \subseteq Users \X Models
      BY <1>2, <1>5 DEF Tables
    <3>2. QED
      BY <1>2, <2>1, <3>1 DEF RequestRecord, Stages
  <2>4. Becomes(r, q)
    BY <1>1, <1>2, <2>2, <2>3 DEF Becomes, StageFits, Truthful, Provisions
  <2>5. SubjectsExist(q) /\ Healed(q)
    BY <1>1, <1>2, <1>5, <2>3 DEF SubjectsExist, Healed, StageFits, Provisions
  <2>6. BackfillLeft(q)
    <3>1. SUFFICES ASSUME q.kind = "backfill", NEW p \in R(r).known
                   PROVE  /\ p[1] \in q.todo \cup {q.user}
                             \/ (ConfigOf(p[1], p[2]) # {} /\ HasSettings(p[1]))
                          /\ p[1] = q.user => ConfigOf(p[1], p[2]) # {} \/ p \in q.pairs
      BY <2>3 DEF BackfillLeft
    <3>2. p[1] \in users /\ p[2] \in models /\ p = <<p[1], p[2]>>
      BY <1>2 DEF SubjectsExist
    <3>3. p[1] \in R(r).todo \cup {R(r).user} \/ (ConfigOf(p[1], p[2]) # {} /\ HasSettings(p[1]))
      BY <1>1, <1>2, <2>3, <3>1 DEF BackfillLeft, Provisions
    <3>4. QED
      BY <1>4, <2>3, <3>1, <3>2, <3>3
  <2>7. \A u \in users \ Legacy, m \in models :
          ConfigOf(u, m) = {} /\ Covers(R(r), u, m) => Covers(q, u, m)
    BY <1>4, <2>3 DEF Covers
  <2>8. QED
    BY <1>1, <1>2, <2>3, <2>4, <2>5, <2>6, <2>7, TablesStay DEF Tables
<1>8. QED
  BY <1>6, <1>7

\* Another try at the numbers: nothing but the base, the attempt and the stage changes.
LEMMA RetryKeeps ==
  ASSUME IndInv, NEW r \in DOMAIN requests, R(r).pc \in {"allocate", "insert"},
         NEW q \in RequestRecord, requests' = [requests EXCEPT ![r] = q],
         q.kind = R(r).kind, q.user = R(r).user, q.model = R(r).model, q.known = R(r).known,
         q.done = R(r).done, q.unsure = R(r).unsure, q.pairs = R(r).pairs,
         q.answer = R(r).answer, q.todo = R(r).todo, q.pc \in {"allocate", "insert"},
         UNCHANGED <<tables, atBroker, journal, confirmed, overlapped, faults>>
  PROVE  IndInv'
<1>1. /\ StageFits(R(r)) /\ SubjectsExist(R(r)) /\ BackfillLeft(R(r)) /\ Truthful(R(r)) /\ Tables
  BY Typed
<1>2. Becomes(r, q)
  BY <1>1 DEF Becomes, StageFits, Truthful, Provisions
<1>3. SubjectsExist(q) /\ Healed(q)
  BY <1>1 DEF SubjectsExist, Healed, StageFits, Provisions
<1>4. BackfillLeft(q)
  BY <1>1 DEF BackfillLeft, Provisions
<1>5. \A u \in users \ Legacy, m \in models : Covers(R(r), u, m) => Covers(q, u, m)
  BY DEF Covers
<1>6. QED
  BY <1>1, <1>2, <1>3, <1>4, <1>5, TablesStay DEF Tables

\* The highest number is a number.
LEMMA AllocateMagicNumbersKeeps ==
  ASSUME IndInv, NEW r \in DOMAIN requests, AllocateMagicNumbers(r)
  PROVE  IndInv'
<1>1. R(r).pc = "allocate" /\ UNCHANGED <<tables, atBroker, journal, confirmed, overlapped, faults>>
  BY DEF AllocateMagicNumbers, At
<1>2. R(r) \in RequestRecord /\ Tables /\ NumbersAreUnique
  BY Typed DEF IndInv
<1>3. HighestMagic \in Nat
  BY <1>2 DEF HighestMagic, NumbersAreUnique, Tables, Floor
<1>4. PICK q : q = [R(r) EXCEPT !.base = HighestMagic, !.pc = "insert"]
  OBVIOUS
<1>5. requests' = [requests EXCEPT ![r] = q]
  BY <1>4 DEF AllocateMagicNumbers, R
<1>6. /\ q \in RequestRecord /\ q.kind = R(r).kind /\ q.user = R(r).user /\ q.model = R(r).model
      /\ q.known = R(r).known /\ q.done = R(r).done /\ q.unsure = R(r).unsure
      /\ q.pairs = R(r).pairs /\ q.pc = "insert" /\ q.answer = R(r).answer /\ q.todo = R(r).todo
  BY <1>2, <1>3, <1>4 DEF RequestRecord, Stages
<1>7. QED
  BY <1>1, <1>5, <1>6, RetryKeeps

\* An insert of numbered rows that conflicts with no row there is.
LEMMA InsertKeepsNumbers ==
  ASSUME Tables, NumbersAreUnique, NEW pairs \in SUBSET (users \X models), NEW base \in Nat,
         ~Conflict(Numbered(pairs, base)), configs' = configs \cup Numbered(pairs, base),
         UNCHANGED <<users, models, settings, atBroker, journal, confirmed, overlapped, faults>>
  PROVE  /\ OnlyGrows /\ Tables' /\ NumbersAreUnique'
         /\ \A p \in pairs : ConfigOf(p[1], p[2])' # {}
<1>1. PICK rows : rows = Numbered(pairs, base)
  OBVIOUS
<1>2. /\ rows \subseteq ConfigRecord
      /\ \A x \in rows : <<x.user, x.model>> \in pairs
      /\ \A p \in pairs : \E x \in rows : x.user = p[1] /\ x.model = p[2]
      /\ \A x, y \in rows : x.magic = y.magic => x = y
      /\ pairs # {} => \E x \in rows : \A y \in rows : y.magic <= x.magic
  <2>1. pairs \in SUBSET (Users \X Models)
    BY DEF Tables
  <2>2. QED
    BY <1>1, <2>1, NumberedIs
<1>3. configs' = configs \cup rows /\ \A x \in rows, c \in configs : c.magic # x.magic
  BY <1>1 DEF Conflict
<1>4. OnlyGrows
  BY <1>3 DEF OnlyGrows, ConfigOf, HasSettings, SettingsOf
<1>5. Tables'
  <2>1. rows \subseteq [user : users, model : models, magic : Nat \ {Floor}, paused : BOOLEAN]
    BY <1>2 DEF ConfigRecord
  <2>2. QED
    BY <1>3, <2>1 DEF Tables
<1>6. \A c, d \in configs' : c.magic = d.magic => c = d
  BY <1>2, <1>3 DEF NumbersAreUnique
<1>7. ASSUME configs' # {} PROVE \E c \in configs' : \A o \in configs' : o.magic <= c.magic
  <2>1. \A c \in configs' : c.magic \in Nat
    BY <1>5 DEF Tables
  <2>2. CASE rows = {}
    BY <1>3, <1>7, <2>2 DEF NumbersAreUnique
  <2>3. CASE rows # {} /\ configs = {}
    BY <1>2, <1>3, <2>3
  <2>4. CASE rows # {} /\ configs # {}
    <3>1. PICK x \in rows : \A y \in rows : y.magic <= x.magic
      BY <1>2, <2>4
    <3>2. PICK c \in configs : \A d \in configs : d.magic <= c.magic
      BY <2>4 DEF NumbersAreUnique
    <3>3. CASE c.magic <= x.magic
      BY <1>3, <2>1, <3>1, <3>2, <3>3
    <3>4. CASE x.magic <= c.magic
      BY <1>3, <2>1, <3>1, <3>2, <3>4
    <3>5. QED
      BY <1>3, <2>1, <3>3, <3>4
  <2>5. QED
    BY <2>2, <2>3, <2>4
<1>8. \A p \in pairs : ConfigOf(p[1], p[2])' # {}
  BY <1>2, <1>3 DEF ConfigOf
<1>9. QED
  BY <1>4, <1>5, <1>6, <1>7, <1>8 DEF NumbersAreUnique

\* create_model gives up on its backfill and turns to the failure event.
LEMMA TurnsToFailureKeeps ==
  ASSUME IndInv, NEW r \in DOMAIN requests, Goto(r, "journal_failure"),
         R(r).kind \in Switches \cup TicketOps \cup {"create_model"},
         R(r).pc \notin {"asked", "ended"},
         UNCHANGED <<tables, atBroker, journal, confirmed, overlapped>>, faults' \in 0..MaxFaults
  PROVE  IndInv'
<1>1. /\ R(r) \in RequestRecord /\ StageFits(R(r)) /\ SubjectsExist(R(r)) /\ Truthful(R(r)) /\ Tables
  BY Typed
<1>2. PICK q : q = [R(r) EXCEPT !.pc = "journal_failure"]
  OBVIOUS
<1>3. requests' = [requests EXCEPT ![r] = q]
  BY <1>2 DEF Goto, R
<1>4. /\ q \in RequestRecord /\ q.kind = R(r).kind /\ q.user = R(r).user /\ q.model = R(r).model
      /\ q.known = R(r).known /\ q.done = R(r).done /\ q.unsure = R(r).unsure
      /\ q.pairs = R(r).pairs /\ q.pc = "journal_failure" /\ q.answer = R(r).answer
      /\ q.todo = R(r).todo
  BY <1>1, <1>2 DEF RequestRecord, Stages
<1>5. q.kind # "backfill" /\ q.kind # "register"
  BY <1>4 DEF Switches, TicketOps
<1>6. Becomes(r, q)
  BY <1>1, <1>3, <1>4 DEF Becomes, StageFits, Truthful, Provisions
<1>7. SubjectsExist(q) /\ BackfillLeft(q) /\ Healed(q)
  BY <1>1, <1>4, <1>5 DEF SubjectsExist, BackfillLeft, Healed, Provisions
<1>8. \A u \in users \ Legacy, m \in models : Covers(R(r), u, m) => Covers(q, u, m)
  BY <1>4, <1>5 DEF Covers
<1>9. QED
  BY <1>1, <1>4, <1>6, <1>7, <1>8, TablesStay DEF Tables

\* A registration or the backfill script ends with an error.
LEMMA GivenUpKeeps ==
  ASSUME IndInv, NEW r \in DOMAIN requests, Answer(r, "error"),
         R(r).kind \in {"register", "backfill"}, R(r).pc \notin {"asked", "ended"},
         UNCHANGED <<tables, atBroker, journal, confirmed, overlapped, faults>>
  PROVE  IndInv'
<1>1. /\ R(r) \in RequestRecord /\ StageFits(R(r)) /\ Tables
  BY Typed
<1>2. PICK q : q = EndedAs(R(r), "error")
  OBVIOUS
<1>3. requests' = [requests EXCEPT ![r] = q]
  BY <1>2 DEF Answer, R
<1>4. /\ q \in RequestRecord /\ q.pc = "ended" /\ q.answer = "error" /\ q.todo = {} /\ q.pairs = {}
      /\ q.kind = R(r).kind /\ q.user = R(r).user /\ q.model = R(r).model
      /\ q.known = R(r).known /\ q.done = R(r).done /\ q.unsure = R(r).unsure
  BY <1>1, <1>2, EndedIs
<1>5. Truthful(q) /\ Healed(q) /\ q.done
  BY <1>1, <1>4 DEF Truthful, Healed, StageFits, Switches, TicketOps
<1>6. \A u \in users \ Legacy, m \in models : Covers(R(r), u, m) => Told(u, m)'
  <2>1. R(r)' = q
    BY <1>3, Typed DEF R
  <2>2. r \in DOMAIN requests'
    BY <1>3
  <2>3. QED
    BY <1>4, <1>5, <2>1, <2>2 DEF Covers, Told
<1>7. QED
  BY <1>1, <1>3, <1>4, <1>5, <1>6, EndKeeps DEF Tables

\* The insert closes the gaps, is tried again, or gives up and says so.
LEMMA InsertModelConfigsKeeps ==
  ASSUME IndInv, NEW r \in DOMAIN requests, InsertModelConfigs(r)
  PROVE  IndInv'
<1>1. /\ R(r).pc = "insert"
      /\ UNCHANGED <<users, models, settings, atBroker, journal, confirmed, overlapped, faults>>
  BY DEF InsertModelConfigs, At
<1>2. /\ R(r) \in RequestRecord /\ StageFits(R(r)) /\ SubjectsExist(R(r)) /\ BackfillLeft(R(r))
      /\ Tables /\ NumbersAreUnique
  BY Typed DEF IndInv
<1>3. PICK rows : rows = Numbered(R(r).pairs, R(r).base)
  OBVIOUS
<1>4. CASE ~Conflict(rows)
  <2>1. configs' = configs \cup rows /\ Continue(r)
    BY <1>3, <1>4 DEF InsertModelConfigs
  <2>2. R(r).pairs \in SUBSET (users \X models) /\ R(r).base \in Nat
    BY <1>2 DEF SubjectsExist, RequestRecord
  <2>3. /\ OnlyGrows /\ Tables' /\ NumbersAreUnique'
        /\ \A p \in R(r).pairs : ConfigOf(p[1], p[2])' # {}
    BY <1>1, <1>2, <1>3, <1>4, <2>1, <2>2, InsertKeepsNumbers
  <2>4. \A u \in users, m \in models :
          \/ Covers(R(r), u, m)
          \/ R(r).kind = "backfill" /\ u = R(r).user /\ <<u, m>> \in R(r).known
          => ConfigOf(u, m)' # {}
    <3>1. ASSUME NEW u \in users, NEW m \in models, Covers(R(r), u, m)
          PROVE  ConfigOf(u, m)' # {}
      <4>1. <<u, m>> \in R(r).pairs
        BY <1>1, <3>1 DEF Covers
      <4>2. QED
        BY <2>3, <4>1
    <3>2. ASSUME NEW u \in users, NEW m \in models,
                 R(r).kind = "backfill", u = R(r).user, <<u, m>> \in R(r).known
          PROVE  ConfigOf(u, m)' # {}
      <4>1. PICK p : p = <<u, m>>
        OBVIOUS
      <4>2. ConfigOf(p[1], p[2]) # {} \/ p \in R(r).pairs
        BY <1>1, <1>2, <3>2, <4>1 DEF BackfillLeft, Provisions
      <4>3. QED
        BY <2>3, <4>1, <4>2 DEF OnlyGrows
    <3>3. QED
      BY <3>1, <3>2
  <2>5. QED
    BY <1>1, <2>1, <2>3, <2>4, ContinueKeeps
<1>5. CASE Conflict(rows) /\ ~GaveUp(r)
  <2>1. /\ requests' = [requests EXCEPT ![r].attempt = @ + 1, ![r].pc = "allocate"]
        /\ UNCHANGED configs
    BY <1>3, <1>5 DEF InsertModelConfigs
  <2>a. PICK n \in Nat : n = R(r).attempt + 1
    BY <1>2 DEF RequestRecord
  <2>2. PICK q : q = [R(r) EXCEPT !.attempt = n, !.pc = "allocate"]
    OBVIOUS
  <2>3. requests' = [requests EXCEPT ![r] = q]
    BY <2>1, <2>2, <2>a DEF R
  <2>4. /\ q \in RequestRecord /\ q.kind = R(r).kind /\ q.user = R(r).user /\ q.model = R(r).model
        /\ q.known = R(r).known /\ q.done = R(r).done /\ q.unsure = R(r).unsure
        /\ q.pairs = R(r).pairs /\ q.pc = "allocate" /\ q.answer = R(r).answer /\ q.todo = R(r).todo
    BY <1>2, <2>2 DEF RequestRecord, Stages
  <2>5. QED
    <3>1. UNCHANGED <<tables, atBroker, journal, confirmed, overlapped, faults>>
      BY <1>1, <2>1 DEF tables
    <3>2. R(r).pc \in {"allocate", "insert"} /\ q.pc \in {"allocate", "insert"}
      BY <1>1, <2>4
    <3>3. QED
      BY <2>3, <2>4, <3>1, <3>2, RetryKeeps
<1>6. CASE Conflict(rows) /\ GaveUp(r)
  <2>1. Failed(r) /\ UNCHANGED configs
    BY <1>3, <1>6 DEF InsertModelConfigs
  <2>2. CASE R(r).kind = "create_model"
    <3>1. Goto(r, "journal_failure")
      BY <2>1, <2>2 DEF Failed
    <3>2. faults' \in 0..MaxFaults
      BY <1>1, <1>2 DEF Tables
    <3>3. QED
      BY <1>1, <2>1, <2>2, <3>1, <3>2, TurnsToFailureKeeps DEF tables
  <2>3. CASE R(r).kind # "create_model"
    <3>1. Answer(r, "error")
      BY <2>1, <2>3 DEF Failed
    <3>2. R(r).kind \in {"register", "backfill"}
      BY <1>1, <1>2, <2>3 DEF StageFits, Provisions
    <3>3. QED
      BY <1>1, <2>1, <3>1, <3>2, GivenUpKeeps DEF tables
  <2>4. QED
    BY <2>2, <2>3
<1>7. QED
  BY <1>4, <1>5, <1>6

\* A user is done with: the request ends or turns to its next user.
LEMMA NextUserIs ==
  ASSUME IndInv, NEW r \in DOMAIN requests, R(r).pc \in {"check_settings", "add_settings"},
         NextUser(r)
  PROVE  \E q : /\ Becomes(r, q) /\ q.pc \in {"ended", "missing"} /\ SubjectsExist(q)
                /\ q.kind = "backfill" => \A p \in q.known :
                     \/ q.pc = "missing" /\ p[1] \in q.todo \cup {q.user}
                     \/ ConfigOf(p[1], p[2]) # {} /\ (p[1] = R(r).user \/ HasSettings(p[1]))
<1>1. /\ R(r) \in RequestRecord /\ StageFits(R(r)) /\ SubjectsExist(R(r))
      /\ BackfillLeft(R(r)) /\ Truthful(R(r))
  BY Typed
<1>2. R(r).kind = "backfill" => \A p \in R(r).known :
        \/ p[1] \in R(r).todo
        \/ ConfigOf(p[1], p[2]) # {} /\ (p[1] = R(r).user \/ HasSettings(p[1]))
  BY <1>1 DEF BackfillLeft, Provisions
<1>3. CASE R(r).todo = {}
  <2>1. PICK q : q = EndedAs(R(r), "ok")
    OBVIOUS
  <2>2. requests' = [requests EXCEPT ![r] = q]
    BY <1>3, <2>1 DEF NextUser, Answer, R
  <2>3. /\ q \in RequestRecord /\ q.pc = "ended" /\ q.answer = "ok" /\ q.todo = {} /\ q.pairs = {}
        /\ q.kind = R(r).kind /\ q.user = R(r).user /\ q.model = R(r).model
        /\ q.known = R(r).known /\ q.done = R(r).done /\ q.unsure = R(r).unsure
    BY <1>1, <2>1, EndedIs
  <2>4. Becomes(r, q)
    BY <1>1, <2>2, <2>3 DEF Becomes, StageFits, Truthful, Provisions
  <2>5. SubjectsExist(q)
    BY <1>1, <2>3 DEF SubjectsExist, Provisions
  <2>6. QED
    BY <1>2, <1>3, <2>3, <2>4, <2>5
<1>4. CASE R(r).todo # {}
  <2>1. PICK u \in R(r).todo :
          requests' = [requests EXCEPT ![r].user = u, ![r].todo = @ \ {u}, ![r].pc = "missing"]
    BY <1>4 DEF NextUser
  <2>2. PICK left : left = R(r).todo \ {u}
    OBVIOUS
  <2>3. PICK q : q = [R(r) EXCEPT !.user = u, !.todo = left, !.pc = "missing"]
    OBVIOUS
  <2>4. requests' = [requests EXCEPT ![r] = q]
    BY <2>1, <2>2, <2>3 DEF R
  <2>5. R(r).kind = "backfill" /\ u \in users /\ u \in Users /\ left \subseteq users
        /\ left \in SUBSET Users
    BY <1>1, <1>4, <2>2 DEF SubjectsExist, RequestRecord
  <2>6. /\ q \in RequestRecord /\ q.pc = "missing" /\ q.answer = R(r).answer /\ q.todo = left
        /\ q.pairs = R(r).pairs /\ q.kind = R(r).kind /\ q.user = u /\ q.model = R(r).model
        /\ q.known = R(r).known /\ q.done = R(r).done /\ q.unsure = R(r).unsure
    BY <1>1, <2>3, <2>5 DEF RequestRecord, Stages
  <2>7. Becomes(r, q)
    BY <1>1, <2>4, <2>5, <2>6 DEF Becomes, StageFits, Truthful, Provisions
  <2>8. SubjectsExist(q)
    BY <1>1, <2>5, <2>6 DEF SubjectsExist, Provisions
  <2>9. QED
    BY <1>2, <2>2, <2>6, <2>7, <2>8
<1>5. QED
  BY <1>3, <1>4

\* ... and its settings row is there by then.
LEMMA NextUserKeeps ==
  ASSUME IndInv, NEW r \in DOMAIN requests, NEW q, Becomes(r, q), q.pc \in {"ended", "missing"},
         R(r).pc \in {"check_settings", "add_settings"}, SubjectsExist(q),
         q.kind = "backfill" => \A p \in q.known :
             \/ q.pc = "missing" /\ p[1] \in q.todo \cup {q.user}
             \/ ConfigOf(p[1], p[2]) # {} /\ (p[1] = R(r).user \/ HasSettings(p[1])),
         NEW u, u = R(r).user, HasSettings(u)', OnlyGrows, UNCHANGED <<users, models>>, Tables',
         NumbersAreUnique', OneSettingsRow', PauseHoldsUnlessDoubled'
  PROVE  IndInv'
<1>1. SubjectsExist(q)'
  BY SubjectsStay DEF OnlyGrows
<1>2. q.kind = "backfill" => \A p \in q.known :
        \/ q.pc = "missing" /\ p[1] \in q.todo \cup {q.user}
        \/ ConfigOf(p[1], p[2])' # {} /\ HasSettings(p[1])'
  BY DEF OnlyGrows
<1>3. BackfillLeft(q)' /\ Healed(q)'
  <2>1. BackfillLeft(q)'
    BY <1>2 DEF BackfillLeft, Provisions
  <2>2. q.answer = "ok" => q.pc = "ended"
    BY DEF Becomes, StageFits
  <2>3. Healed(q)'
    BY <1>2, <2>2 DEF Healed
  <2>4. QED
    BY <2>1, <2>3
<1>4. \A v, m : ~Covers(R(r), v, m)
  BY DEF Covers
<1>5. \A v \in users', m \in models' : v \in users /\ m \in models
  OBVIOUS
<1>6. QED
  BY <1>1, <1>3, <1>4, <1>5, StepKeeps

\* Two looks for the same user overlap, or there is one row at most.
LEMMA CheckSettingsKeeps ==
  ASSUME IndInv, NEW r \in DOMAIN requests, CheckSettings(r)
  PROVE  IndInv'
<1>1. PICK u : u = R(r).user
  OBVIOUS
<1>2. /\ R(r).pc = "check_settings" /\ UNCHANGED <<tables, atBroker, journal, confirmed, faults>>
      /\ overlapped' = overlapped \cup
              {v \in {u} : \E o \in DOMAIN requests :
                             o # r /\ At(o, "add_settings") /\ R(o).user = v}
  BY <1>1 DEF CheckSettings, At
<1>3. /\ R(r) \in RequestRecord /\ StageFits(R(r)) /\ SubjectsExist(R(r)) /\ BackfillLeft(R(r))
      /\ Truthful(R(r)) /\ Tables /\ NumbersAreUnique
  BY Typed DEF IndInv
<1>4. u \in users /\ u \in Users
  BY <1>1, <1>2, <1>3 DEF SubjectsExist, StageFits, Provisions, Tables
<1>5. OnlyGrows /\ NumbersAreUnique'
  BY <1>2, <1>3 DEF OnlyGrows, NumbersAreUnique, tables, ConfigOf, HasSettings, SettingsOf
<1>6. Tables'
  BY <1>2, <1>3, <1>4 DEF Tables, tables
<1>7. CASE HasSettings(u)
  <2>1. NextUser(r)
    BY <1>1, <1>7 DEF CheckSettings
  <2>2. PICK q : /\ Becomes(r, q) /\ q.pc \in {"ended", "missing"} /\ SubjectsExist(q)
                 /\ q.kind = "backfill" => \A p \in q.known :
                      \/ q.pc = "missing" /\ p[1] \in q.todo \cup {q.user}
                      \/ ConfigOf(p[1], p[2]) # {} /\ (p[1] = R(r).user \/ HasSettings(p[1]))
    BY <1>2, <2>1, NextUserIs
  <2>3. overlapped \subseteq overlapped' /\ UNCHANGED <<settings, confirmed>>
    BY <1>2 DEF tables
  <2>4. OneSettingsRow' /\ PauseHoldsUnlessDoubled'
    BY <2>2, <2>3, SettingsStay
  <2>5. HasSettings(u)'
    BY <1>7, <2>3 DEF HasSettings, SettingsOf
  <2>6. QED
    BY <1>1, <1>2, <1>5, <1>6, <2>2, <2>4, <2>5, NextUserKeeps DEF tables
<1>8. CASE ~HasSettings(u)
  <2>1. PICK q : q = [R(r) EXCEPT !.pc = "add_settings"]
    OBVIOUS
  <2>2. requests' = [requests EXCEPT ![r] = q]
    BY <1>1, <1>8, <2>1 DEF CheckSettings, Goto, R
  <2>3. /\ q \in RequestRecord /\ q.pc = "add_settings" /\ q.answer = R(r).answer
        /\ q.todo = R(r).todo
        /\ q.pairs = R(r).pairs /\ q.kind = R(r).kind /\ q.user = u /\ q.model = R(r).model
        /\ q.known = R(r).known /\ q.done = R(r).done /\ q.unsure = R(r).unsure
    BY <1>1, <1>3, <2>1 DEF RequestRecord, Stages
  <2>4. Becomes(r, q)
    BY <1>1, <1>2, <1>3, <2>2, <2>3 DEF Becomes, StageFits, Truthful, Provisions
  <2>5. SubjectsExist(q)'
    <3>1. SubjectsExist(q)
      BY <1>1, <1>2, <1>3, <2>3 DEF SubjectsExist, StageFits, Provisions
    <3>2. QED
      BY <1>5, <3>1, SubjectsStay DEF OnlyGrows
  <2>6. BackfillLeft(q)' /\ Healed(q)'
    <3>1. BackfillLeft(q) /\ q.answer # "ok"
      BY <1>1, <1>2, <1>3, <2>3 DEF BackfillLeft, StageFits, Provisions
    <3>2. QED
      BY <1>5, <3>1 DEF OnlyGrows, BackfillLeft, Healed
  <2>7. SettingsOf(u) = {} /\ \A v : SettingsOf(v)' = SettingsOf(v)
    BY <1>2, <1>8 DEF tables, HasSettings, SettingsOf
  <2>8. OneSettingsRow'
    <3>1. SUFFICES ASSUME NEW v \in Users \ overlapped'
                   PROVE  /\ \A a, b \in SettingsOf(v) : a = b
                          /\ \A o \in DOMAIN requests : At(o, "add_settings")' /\ R(o)'.user = v =>
                               /\ SettingsOf(v) = {}
                               /\ \A p \in DOMAIN requests :
                                    At(p, "add_settings")' /\ R(p)'.user = v => p = o
      BY <2>4, <2>7, Others DEF OneSettingsRow
    <3>2. /\ \A a, b \in SettingsOf(v) : a = b
          /\ \A o \in DOMAIN requests : At(o, "add_settings") /\ R(o).user = v =>
               /\ SettingsOf(v) = {}
               /\ \A p \in DOMAIN requests : At(p, "add_settings") /\ R(p).user = v => p = o
      BY <1>2, <3>1 DEF IndInv, OneSettingsRow
    <3>3. \A o \in DOMAIN requests : o # r =>
            (At(o, "add_settings")' <=> At(o, "add_settings")) /\ R(o)' = R(o)
      BY <2>4, Others DEF At
    <3>4. CASE v = u
      <4>1. \A o \in DOMAIN requests : At(o, "add_settings")' /\ R(o)'.user = u => o = r
        BY <1>2, <3>1, <3>3, <3>4
      <4>2. QED
        BY <2>7, <3>2, <3>4, <4>1
    <3>5. CASE v # u
      <4>1. R(r)'.user # v
        BY <2>3, <2>4, <3>5, Others
      <4>2. QED
        BY <3>2, <3>3, <4>1
    <3>6. QED
      BY <3>4, <3>5
  <2>9. PauseHoldsUnlessDoubled'
    BY <1>2, <2>7 DEF IndInv, PauseHoldsUnlessDoubled, MayTrade
  <2>10. \A w, m : ~Covers(R(r), w, m)
    BY <1>2 DEF Covers
  <2>11. \A w \in users', m \in models' : w \in users /\ m \in models
    BY <1>2 DEF tables
  <2>12. QED
    BY <1>5, <1>6, <2>4, <2>5, <2>6, <2>8, <2>9, <2>10, <2>11, StepKeeps
<1>9. QED
  BY <1>7, <1>8

\* The row that is added is the only one, unless two looks overlapped.
LEMMA AddSettingsKeeps ==
  ASSUME IndInv, NEW r \in DOMAIN requests, AddSettings(r)
  PROVE  IndInv'
<1>1. PICK u, row : u = R(r).user /\ row = [id |-> r, user |-> u, paused |-> FALSE]
  OBVIOUS
<1>2. /\ R(r).pc = "add_settings" /\ settings' = settings \cup {row} /\ NextUser(r)
      /\ UNCHANGED <<users, models, configs, atBroker, journal, confirmed, overlapped, faults>>
  BY <1>1 DEF AddSettings, At
<1>3. /\ R(r) \in RequestRecord /\ StageFits(R(r)) /\ SubjectsExist(R(r))
      /\ Tables /\ NumbersAreUnique /\ r \in Nat
  BY Typed, AccountsAssumption DEF IndInv, AccountsAssumption
<1>4. u \in users /\ u \in Users
  BY <1>1, <1>2, <1>3 DEF SubjectsExist, StageFits, Provisions, Tables
<1>5. row.user = u /\ ~row.paused /\ row \in [id : Nat, user : users, paused : BOOLEAN]
  BY <1>1, <1>3, <1>4
<1>6. PICK q : /\ Becomes(r, q) /\ q.pc \in {"ended", "missing"} /\ SubjectsExist(q)
               /\ q.kind = "backfill" => \A p \in q.known :
                    \/ q.pc = "missing" /\ p[1] \in q.todo \cup {q.user}
                    \/ ConfigOf(p[1], p[2]) # {} /\ (p[1] = R(r).user \/ HasSettings(p[1]))
  BY <1>2, NextUserIs
<1>7. \A v : SettingsOf(v)' = IF v = u THEN SettingsOf(v) \cup {row} ELSE SettingsOf(v)
  BY <1>2, <1>5 DEF SettingsOf
<1>8. HasSettings(u)' /\ \A v : HasSettings(v) => HasSettings(v)'
  BY <1>7 DEF HasSettings
<1>9. OnlyGrows
  BY <1>2, <1>8 DEF OnlyGrows, ConfigOf
<1>10. Tables' /\ NumbersAreUnique'
  BY <1>2, <1>3, <1>5 DEF Tables, NumbersAreUnique
<1>11. u \notin overlapped =>
         /\ SettingsOf(u) = {}
         /\ \A o \in DOMAIN requests : At(o, "add_settings") /\ R(o).user = u => o = r
  BY <1>1, <1>2, <1>4 DEF IndInv, OneSettingsRow, At
<1>12. \A o \in DOMAIN requests : At(o, "add_settings")' =>
         o # r /\ At(o, "add_settings") /\ R(o)' = R(o)
  BY <1>6, Others DEF At
<1>13. OneSettingsRow'
  <2>1. SUFFICES ASSUME NEW v \in Users \ overlapped
                 PROVE  /\ \A a, b \in SettingsOf(v)' : a = b
                        /\ \A o \in DOMAIN requests : At(o, "add_settings")' /\ R(o)'.user = v =>
                             /\ SettingsOf(v)' = {}
                             /\ \A p \in DOMAIN requests :
                                  At(p, "add_settings")' /\ R(p)'.user = v => p = o
    BY <1>2, <1>6, Others DEF OneSettingsRow
  <2>2. CASE v = u
    BY <1>7, <1>11, <1>12, <2>2
  <2>3. CASE v # u
    <3>1. /\ \A a, b \in SettingsOf(v) : a = b
          /\ \A o \in DOMAIN requests : At(o, "add_settings") /\ R(o).user = v =>
               /\ SettingsOf(v) = {}
               /\ \A p \in DOMAIN requests : At(p, "add_settings") /\ R(p).user = v => p = o
      BY DEF IndInv, OneSettingsRow
    <3>2. QED
      BY <1>7, <1>12, <2>3, <3>1
  <2>4. QED
    BY <2>2, <2>3
<1>14. PauseHoldsUnlessDoubled'
  <2>1. SUFFICES ASSUME NEW v \in Users \ overlapped, confirmed[v]
                 PROVE  SettingsOf(v)' # {} /\ \A a \in SettingsOf(v)' : a.paused
    BY <1>2 DEF PauseHoldsUnlessDoubled, MayTrade
  <2>2. SettingsOf(v) # {} /\ \A a \in SettingsOf(v) : a.paused
    BY <2>1 DEF IndInv, PauseHoldsUnlessDoubled, MayTrade
  <2>3. v # u
    BY <1>11, <2>2
  <2>4. QED
    BY <1>7, <2>2, <2>3
<1>15. QED
  BY <1>1, <1>2, <1>6, <1>8, <1>9, <1>10, <1>13, <1>14, NextUserKeeps

\* The answer follows the journal entry.
LEMMA JournalChangeKeeps ==
  ASSUME IndInv, NEW r \in DOMAIN requests, JournalChange(r)
  PROVE  IndInv'
<1>1. /\ R(r).pc = "journal" /\ Answer(r, "ok")
      /\ UNCHANGED <<tables, atBroker, journal, confirmed, overlapped, faults>>
  BY DEF JournalChange, At
<1>2. R(r) \in RequestRecord /\ StageFits(R(r)) /\ Tables
  BY Typed
<1>3. PICK q : q = EndedAs(R(r), "ok")
  OBVIOUS
<1>4. requests' = [requests EXCEPT ![r] = q]
  BY <1>1, <1>3 DEF Answer, R
<1>5. /\ q \in RequestRecord /\ q.pc = "ended" /\ q.answer = "ok" /\ q.todo = {} /\ q.pairs = {}
      /\ q.kind = R(r).kind /\ q.user = R(r).user /\ q.model = R(r).model
      /\ q.known = R(r).known /\ q.done = R(r).done /\ q.unsure = R(r).unsure
  BY <1>2, <1>3, EndedIs
<1>6. Truthful(q) /\ Healed(q)
  BY <1>1, <1>2, <1>5 DEF Truthful, Healed, StageFits, Switches, TicketOps
<1>7. \A u, m : ~Covers(R(r), u, m)
  BY <1>1 DEF Covers
<1>8. QED
  BY <1>1, <1>2, <1>4, <1>5, <1>6, <1>7, EndKeeps DEF Tables

\* The entry is refused: the failure is written next.
LEMMA JournalFailsKeeps ==
  ASSUME IndInv, NEW r \in DOMAIN requests, JournalFails(r)
  PROVE  IndInv'
<1>1. /\ R(r).pc = "journal" /\ Goto(r, "journal_failure") /\ faults' = faults + 1
      /\ faults < MaxFaults
      /\ UNCHANGED <<tables, atBroker, journal, confirmed, overlapped>>
  BY DEF JournalFails, AfterJournalFailed, At
<1>2. StageFits(R(r)) /\ Tables
  BY Typed
<1>3. faults' \in 0..MaxFaults
  BY <1>1, <1>2, AccountsAssumption DEF Tables, AccountsAssumption
<1>4. R(r).kind \in Switches \cup TicketOps
  BY <1>1, <1>2 DEF StageFits
<1>5. QED
  BY <1>1, <1>3, <1>4, TurnsToFailureKeeps

\* create_model's backfill failed: the failure is written next.
LEMMA BackfillFailsKeeps ==
  ASSUME IndInv, NEW r \in DOMAIN requests, BackfillFails(r)
  PROVE  IndInv'
<1>1. /\ R(r).kind = "create_model" /\ R(r).pc \in {"missing", "allocate", "insert"}
      /\ Goto(r, "journal_failure") /\ faults' = faults + 1 /\ faults < MaxFaults
      /\ UNCHANGED <<tables, atBroker, journal, confirmed, overlapped>>
  BY DEF BackfillFails
<1>2. faults' \in 0..MaxFaults
  BY <1>1, Typed, AccountsAssumption DEF Tables, AccountsAssumption
<1>3. QED
  BY <1>1, <1>2, TurnsToFailureKeeps

\* The failure event tells of the gaps of a new model.
LEMMA JournalFailureKeeps ==
  ASSUME IndInv, NEW r \in DOMAIN requests, JournalFailure(r)
  PROVE  IndInv'
<1>a. PICK event : event = [kind |-> R(r).kind, user |-> R(r).user, model |-> R(r).model]
  OBVIOUS
<1>1. PICK told : told = journal \cup {event}
  OBVIOUS
<1>2. /\ R(r).pc = "journal_failure" /\ Answer(r, "ok")
      /\ journal' = told \/ (R(r).kind = "settings" /\ journal' = journal)
      /\ UNCHANGED <<tables, atBroker, confirmed, overlapped, faults>>
  BY <1>1, <1>a DEF JournalFailure, At
<1>3. R(r) \in RequestRecord /\ StageFits(R(r)) /\ Tables
  BY Typed
<1>4. PICK q : q = EndedAs(R(r), "ok")
  OBVIOUS
<1>5. requests' = [requests EXCEPT ![r] = q]
  BY <1>2, <1>4 DEF Answer, R
<1>6. /\ q \in RequestRecord /\ q.pc = "ended" /\ q.answer = "ok" /\ q.todo = {} /\ q.pairs = {}
      /\ q.kind = R(r).kind /\ q.user = R(r).user /\ q.model = R(r).model
      /\ q.known = R(r).known /\ q.done = R(r).done /\ q.unsure = R(r).unsure
  BY <1>3, <1>4, EndedIs
<1>7. Truthful(q) /\ Healed(q) /\ q.done /\ q.kind # "register"
  BY <1>2, <1>3, <1>6 DEF Truthful, Healed, StageFits, Switches, TicketOps
<1>8. /\ journal \subseteq journal'
      /\ journal' \subseteq [kind : Kinds, user : Users \cup {None}, model : Models \cup {None}]
  <2>1. event \in [kind : Kinds, user : Users \cup {None}, model : Models \cup {None}]
    BY <1>3, <1>a DEF RequestRecord
  <2>2. QED
    BY <1>1, <1>2, <1>3, <2>1 DEF Tables
<1>9. ASSUME NEW u \in users \ Legacy, NEW m \in models, Covers(R(r), u, m)
      PROVE  Told(u, m)'
  <2>1. R(r).kind = "create_model" /\ R(r).model = m
    BY <1>6, <1>7, <1>9 DEF Covers
  <2>2. event \in journal' /\ event.kind = "create_model" /\ event.model = m
    BY <1>a, <1>1, <1>2, <2>1
  <2>3. R(r)' = q /\ r \in DOMAIN requests'
    BY <1>5, Typed DEF R
  <2>4. QED
    BY <1>6, <1>7, <2>1, <2>2, <2>3 DEF Told
<1>10. QED
  BY <1>2, <1>3, <1>5, <1>6, <1>7, <1>8, <1>9, EndKeeps DEF Tables

\* The request ends and nobody is told: what it did is left open.
LEMMA UnsureKeeps ==
  ASSUME IndInv, NEW r \in DOMAIN requests, NEW a \in {"ok", "error"},
         R(r).pc \notin {"asked", "ended"},
         requests' = [requests EXCEPT ![r] = [EndedAs(@, a) EXCEPT !.unsure = TRUE]],
         a = "ok" => R(r).kind \notin {"register", "backfill"},
         faults < MaxFaults, faults' = faults + 1,
         UNCHANGED <<tables, atBroker, journal, confirmed, overlapped>>
  PROVE  IndInv'
<1>1. R(r) \in RequestRecord /\ StageFits(R(r)) /\ Tables
  BY Typed
<1>2. PICK e : e = EndedAs(R(r), a)
  OBVIOUS
<1>3. /\ e \in RequestRecord /\ e.pc = "ended" /\ e.answer = a /\ e.todo = {} /\ e.pairs = {}
      /\ e.kind = R(r).kind /\ e.user = R(r).user /\ e.model = R(r).model
      /\ e.known = R(r).known /\ e.done = R(r).done
  BY <1>1, <1>2, EndedIs
<1>4. PICK q : q = [e EXCEPT !.unsure = TRUE]
  OBVIOUS
<1>5. requests' = [requests EXCEPT ![r] = q]
  BY <1>2, <1>4 DEF R
<1>6. /\ q \in RequestRecord /\ q.pc = "ended" /\ q.answer = a /\ q.todo = {} /\ q.pairs = {}
      /\ q.kind = R(r).kind /\ q.user = R(r).user /\ q.model = R(r).model
      /\ q.known = R(r).known /\ q.done = R(r).done /\ q.unsure
  BY <1>3, <1>4 DEF RequestRecord
<1>7. Truthful(q) /\ Healed(q) /\ q.done
  BY <1>1, <1>6 DEF Truthful, Healed, StageFits
<1>8. faults' \in 0..MaxFaults
  BY <1>1, AccountsAssumption DEF Tables, AccountsAssumption
<1>9. ASSUME NEW u \in users \ Legacy, NEW m \in models, Covers(R(r), u, m)
      PROVE  Told(u, m)'
  <2>1. \/ R(r).kind = "register" /\ R(r).user = u /\ q.answer = "error"
        \/ R(r).kind = "create_model" /\ R(r).model = m
    BY <1>6, <1>9 DEF Covers
  <2>2. R(r)' = q /\ r \in DOMAIN requests'
    BY <1>5, Typed DEF R
  <2>3. QED
    BY <1>6, <1>7, <2>1, <2>2 DEF Told
<1>10. QED
  BY <1>1, <1>5, <1>6, <1>7, <1>8, <1>9, EndKeeps DEF Tables

\* Even the failure event was refused.
LEMMA OnlyLoggedKeeps ==
  ASSUME IndInv, NEW r \in DOMAIN requests, OnlyLogged(r)
  PROVE  IndInv'
<1>1. R(r).pc = "journal_failure" /\ StageFits(R(r))
  BY Typed DEF OnlyLogged, At
<1>2. R(r).kind \notin {"register", "backfill"}
  BY <1>1 DEF StageFits, Switches, TicketOps
<1>3. QED
  BY <1>1, <1>2, UnsureKeeps DEF OnlyLogged

\* The process ends in the middle of a request.
LEMMA DieKeeps ==
  ASSUME IndInv, NEW r \in DOMAIN requests, Die(r)
  PROVE  IndInv'
BY UnsureKeeps DEF Die

-----------------------------------------------------------------------------
\* It holds at the start ...
LEMMA InitIndInv == Init => IndInv
<1> SUFFICES ASSUME Init PROVE IndInv
  OBVIOUS
<1>1. PICK w \in [1..MaxRequests -> DOMAIN Wanted] :
        requests = [r \in 1..MaxRequests |-> Asked(Wanted[w[r]])]
  BY DEF Init
<1> DEFINE Wish == [kind : Kinds, user : Users \cup {None}, model : Models \cup {None}, on : BOOLEAN]
<1>2. ASSUME NEW i \in DOMAIN Wanted
      PROVE  /\ Asked(Wanted[i]) \in RequestRecord
             /\ LET q == Asked(Wanted[i])
                IN  /\ q.pc = "asked" /\ q.answer = "none" /\ ~q.done /\ ~q.unsure
                    /\ q.todo = {} /\ q.pairs = {} /\ q.known = {}
                    /\ q.kind = "register" => q.user \in Users
                    /\ q.kind = "create_model" => q.model \in Models
  <2>1. Wanted[i] \in Wish
    <3>1. Wanted \in Seq(Wish)
      BY AccountsAssumption DEF AccountsAssumption
    <3> HIDE DEF Wish
    <3>2. QED
      BY <3>1
  <2>2. PICK wish \in Wish : wish = Wanted[i]
    BY <2>1
  <2>3. /\ wish.kind = "register" => wish.user \in Users
        /\ wish.kind = "create_model" => wish.model \in Models
    <3>1. NamesItsSubject(Wanted[i])
      BY AccountsAssumption DEF AccountsAssumption
    <3>2. NamesItsSubject(wish)
      BY <2>2, <3>1
    <3>3. QED
      BY <3>2 DEF NamesItsSubject
  <2>4. Asked(wish) \in RequestRecord
    <3>1. /\ wish.kind \in Kinds /\ wish.user \in Users \cup {None} /\ wish.model \in Models \cup {None}
          /\ wish.on \in BOOLEAN
      OBVIOUS
    <3>2. {} \in SUBSET Users /\ {} \in SUBSET (Users \X Models) /\ 0 \in Nat
      OBVIOUS
    <3>3. QED
      BY <3>1, <3>2 DEF Asked, RequestRecord, Stages
  <2>5. QED
    BY <2>2, <2>3, <2>4 DEF Asked
<1>3. DOMAIN requests = 1..MaxRequests
      /\ \A r \in 1..MaxRequests : w[r] \in DOMAIN Wanted /\ R(r) = Asked(Wanted[w[r]])
  BY <1>1 DEF R
<1>4. \A r \in DOMAIN requests :
        /\ R(r) \in RequestRecord /\ R(r).pc = "asked" /\ R(r).answer = "none"
        /\ ~R(r).done /\ ~R(r).unsure
        /\ R(r).todo = {} /\ R(r).pairs = {} /\ R(r).known = {}
        /\ R(r).kind = "register" => R(r).user \in Users
        /\ R(r).kind = "create_model" => R(r).model \in Models
  BY <1>2, <1>3
<1>5. /\ configs \subseteq ConfigRecord
      /\ \A x \in configs : <<x.user, x.model>> \in Settled \X FirstModels
      /\ \A p \in Settled \X FirstModels : \E x \in configs : x.user = p[1] /\ x.model = p[2]
      /\ \A x, y \in configs : x.magic = y.magic => x = y
      /\ Settled \X FirstModels # {} => \E x \in configs : \A y \in configs : y.magic <= x.magic
  <2>1. PICK pairs \in SUBSET (Users \X Models) : pairs = Settled \X FirstModels
    BY AccountsAssumption DEF AccountsAssumption
  <2>2. configs = Numbered(pairs, Floor) /\ Floor \in Nat
    BY <2>1 DEF Init, Floor
  <2>3. /\ Numbered(pairs, Floor) \subseteq ConfigRecord
        /\ \A x \in Numbered(pairs, Floor) : <<x.user, x.model>> \in pairs
        /\ \A p \in pairs : \E x \in Numbered(pairs, Floor) : x.user = p[1] /\ x.model = p[2]
        /\ \A x, y \in Numbered(pairs, Floor) : x.magic = y.magic => x = y
        /\ pairs # {} => \E x \in Numbered(pairs, Floor) :
                           \A y \in Numbered(pairs, Floor) : y.magic <= x.magic
    BY <2>2, NumberedIs
  <2>4. QED
    BY <2>1, <2>2, <2>3
<1>6. Settled \subseteq users /\ users = Settled \cup Legacy /\ models = FirstModels
  BY DEF Init
<1>7. TypeOK
  <2>1. users \subseteq Users /\ models \subseteq Models /\ atBroker \subseteq users \X TicketOps
    BY <1>6, AccountsAssumption DEF Init, AccountsAssumption
  <2>2. configs \subseteq [user : users, model : models, magic : Nat \ {Floor}, paused : BOOLEAN]
    BY <1>5, <1>6 DEF ConfigRecord
  <2>3. settings \subseteq [id : Nat, user : users, paused : BOOLEAN]
    <3>1. \A u \in Settled : [id |-> 0, user |-> u, paused |-> FALSE]
                               \in [id : Nat, user : users, paused : BOOLEAN]
      BY <1>6
    <3>2. QED
      BY <3>1 DEF Init
  <2>4. requests \in [1..MaxRequests -> RequestRecord]
    BY <1>1, <1>3, <1>4 DEF R
  <2>5. journal = {} /\ confirmed \in [Users -> BOOLEAN] /\ overlapped = {} /\ faults \in 0..MaxFaults
    BY AccountsAssumption DEF Init, AccountsAssumption
  <2>6. QED
    BY <2>1, <2>2, <2>3, <2>4, <2>5 DEF TypeOK
<1>8. NumbersAreUnique
  BY <1>5 DEF NumbersAreUnique
<1>9. RequestsFit
  BY <1>4 DEF RequestsFit, StageFits, SubjectsExist, Provisions
<1>10. OneSettingsRow
  <2>1. \A u, s : s \in SettingsOf(u) => s = [id |-> 0, user |-> u, paused |-> FALSE]
    BY DEF Init, SettingsOf
  <2>2. QED
    BY <1>4, <2>1 DEF OneSettingsRow, At
<1>11. BackfillGoesOn /\ BackfillHeals
  BY <1>4 DEF BackfillGoesOn, BackfillLeft, BackfillHeals, Provisions
<1>12. GapsAreCovered
  <2>1. ASSUME NEW u \in users \ Legacy, NEW m \in models PROVE ConfigOf(u, m) # {}
    <3>a. u \in Settled /\ m \in FirstModels
      BY <1>6
    <3>b. <<u, m>> \in Settled \X FirstModels /\ <<u, m>>[1] = u /\ <<u, m>>[2] = m
      BY <3>a
    <3>1. PICK p \in Settled \X FirstModels : p[1] = u /\ p[2] = m
      BY <3>b
    <3>2. QED
      BY <1>5, <3>1 DEF ConfigOf
  <2>2. QED
    BY <2>1 DEF GapsAreCovered
<1>13. PauseHoldsUnlessDoubled
  BY DEF Init, PauseHoldsUnlessDoubled
<1>14. AnswersAreTrue
  BY <1>4 DEF AnswersAreTrue
<1>15. QED
  BY <1>7, <1>8, <1>9, <1>10, <1>11, <1>12, <1>13, <1>14 DEF IndInv

\* ... when nothing happens ...
LEMMA StutterKeeps == IndInv /\ UNCHANGED vars => IndInv'
<1> SUFFICES ASSUME IndInv, UNCHANGED vars PROVE IndInv'
  OBVIOUS
<1>1. UNCHANGED <<users, models, configs, settings, atBroker, journal, requests, confirmed,
                  overlapped, faults>>
  BY DEF vars, tables
<1> USE <1>1
<1>2. TypeOK' /\ NumbersAreUnique' /\ RequestsFit' /\ OneSettingsRow' /\ BackfillGoesOn'
  BY DEF IndInv, TypeOK, NumbersAreUnique, RequestsFit, StageFits, SubjectsExist, OneSettingsRow,
         BackfillGoesOn, BackfillLeft, R, At, ConfigOf, SettingsOf, HasSettings
<1>3. GapsAreCovered'
  <2>1. \A u, m : /\ ConfigOf(u, m)' = ConfigOf(u, m)
                  /\ Told(u, m)' <=> Told(u, m)
    BY DEF ConfigOf, Told, R
  <2>2. \A r, u, m : Covers(R(r), u, m)' <=> Covers(R(r), u, m)
    BY DEF Covers, R
  <2>3. GapsAreCovered
    BY DEF IndInv
  <2>4. QED
    BY <2>1, <2>2, <2>3 DEF GapsAreCovered
<1>4. BackfillHeals' /\ PauseHoldsUnlessDoubled' /\ AnswersAreTrue'
  BY DEF IndInv, BackfillHeals, PauseHoldsUnlessDoubled, AnswersAreTrue, MayTrade, R, ConfigOf,
         SettingsOf, HasSettings
<1>5. QED
  BY <1>2, <1>3, <1>4 DEF IndInv

\* ... and after every step.
LEMMA NextIndInv == IndInv /\ [Next]_vars => IndInv'
<1> SUFFICES ASSUME IndInv, [Next]_vars PROVE IndInv'
  OBVIOUS
<1>1. CASE UNCHANGED vars
  BY <1>1, StutterKeeps
<1>2. ASSUME NEW r \in DOMAIN requests, Step(r) PROVE IndInv'
  <2>1. CASE RegisterUser(r)
    BY <2>1, RegisterUserKeeps
  <2>2. CASE BackfillUsers(r)
    BY <2>2, BackfillUsersKeeps
  <2>3. CASE CreateModel(r)
    BY <2>3, CreateModelKeeps
  <2>4. CASE UpdateSettings(r)
    BY <2>4, UpdateSettingsKeeps
  <2>5. CASE UpdateModelConfig(r)
    BY <2>5, UpdateModelConfigKeeps
  <2>6. CASE ClosePosition(r)
    BY <2>6, ActAtBridgeKeeps DEF ClosePosition, TicketOps
  <2>7. CASE CancelPendingOrder(r)
    BY <2>7, ActAtBridgeKeeps DEF CancelPendingOrder, TicketOps
  <2>8. CASE ReadMissing(r)
    BY <2>8, ReadMissingKeeps
  <2>9. CASE AllocateMagicNumbers(r)
    BY <2>9, AllocateMagicNumbersKeeps
  <2>10. CASE InsertModelConfigs(r)
    BY <2>10, InsertModelConfigsKeeps
  <2>11. CASE CheckSettings(r)
    BY <2>11, CheckSettingsKeeps
  <2>12. CASE AddSettings(r)
    BY <2>12, AddSettingsKeeps
  <2>13. CASE JournalChange(r)
    BY <2>13, JournalChangeKeeps
  <2>14. CASE JournalFailure(r)
    BY <2>14, JournalFailureKeeps
  <2>15. QED
    BY <1>2, <2>1, <2>2, <2>3, <2>4, <2>5, <2>6, <2>7, <2>8, <2>9, <2>10, <2>11, <2>12, <2>13,
       <2>14 DEF Step
<1>3. ASSUME NEW r \in DOMAIN requests, JournalFails(r) PROVE IndInv'
  BY <1>3, JournalFailsKeeps
<1>4. ASSUME NEW r \in DOMAIN requests, OnlyLogged(r) PROVE IndInv'
  BY <1>4, OnlyLoggedKeeps
<1>5. ASSUME NEW r \in DOMAIN requests, BackfillFails(r) PROVE IndInv'
  BY <1>5, BackfillFailsKeeps
<1>6. ASSUME NEW r \in DOMAIN requests, Die(r) PROVE IndInv'
  BY <1>6, DieKeeps
<1>7. QED
  BY <1>1, <1>2, <1>3, <1>4, <1>5, <1>6 DEF Next

(* The invariant that every transaction of every request keeps.            *)
THEOREM IndInvHolds == Spec => []IndInv
BY InitIndInv, NextIndInv, PTL DEF Spec

(* The variables have the shapes the tables and the requests have, and a   *)
(* row belongs to a user and a model there are.                            *)
THEOREM TypeCorrect == Spec => []TypeOK
<1>1. IndInv => TypeOK
  BY DEF IndInv
<1>2. QED
  BY <1>1, IndInvHolds, PTL

(* When no request is under way, a model_configs row that is missing was   *)
(* told of: a registration and a create_model that race see each other.    *)
THEOREM GapsAreToldHolds == Spec => []GapsAreTold
<1>1. ASSUME IndInv PROVE GapsAreTold
  <2>1. SUFFICES ASSUME Quiet, NEW u \in users \ Legacy, NEW m \in models, ConfigOf(u, m) = {}
                 PROVE  Told(u, m)
    BY DEF GapsAreTold
  <2>2. Told(u, m) \/ \E r \in DOMAIN requests : Covers(R(r), u, m)
    BY <1>1, <2>1 DEF IndInv, GapsAreCovered
  <2>3. \A r \in DOMAIN requests : ~Covers(R(r), u, m)
    BY <2>1 DEF Quiet, Covers
  <2>4. QED
    BY <2>2, <2>3
<1>2. QED
  BY <1>1, IndInvHolds, PTL

(* A user and a model the backfill script found have their rows once it    *)
(* has ended with success, whatever other requests did meanwhile.          *)
THEOREM BackfillHealsHolds == Spec => []BackfillHeals
<1>1. IndInv => BackfillHeals
  BY DEF IndInv
<1>2. QED
  BY <1>1, IndInvHolds, PTL

(* After a committed pause no row the runner may read says otherwise,      *)
(* unless two looks for the settings of one user overlapped.               *)
THEOREM PauseHoldsUnlessDoubledHolds == Spec => []PauseHoldsUnlessDoubled
<1>1. IndInv => PauseHoldsUnlessDoubled
  BY DEF IndInv
<1>2. QED
  BY <1>1, IndInvHolds, PTL

(* What a request answers is what it did, for any number of requests.      *)
THEOREM AnswersAreTrueHolds == Spec => []AnswersAreTrue
<1>1. IndInv => AnswersAreTrue
  BY DEF IndInv
<1>2. QED
  BY <1>1, IndInvHolds, PTL
=============================================================================
