----------------------------- MODULE Ledger_proofs -----------------------------
(***************************************************************************)
(* Proofs about the rows of Ledger, for any number of days, positions,     *)
(* runs of the script and replays.  What the module says of a position     *)
(* with CHOOSE (Mine, Left) is first put as what its deals are; deals only *)
(* grow, so that what was known of a position stays known (GrowthKeeps).   *)
(***************************************************************************)
EXTENDS Ledger, FiniteSetTheorems, WellFoundedInduction, TLAPS

HasOpened(D, p) == \E d \in D : d.pos = p /\ d.entry = "in"
IsMine(D, p) == \E d \in D : d.pos = p /\ d.entry = "in" /\ d.magic = "mine"
IsClosed(D, p) == \E d \in D : d.pos = p /\ d.left = 0
HasOut(D, p) == \E d \in D : d.pos = p /\ d.entry = "out"
DealKind == [pos : 1..MaxPositions, entry : {"in", "out"}, day : 1..LastDay,
             magic : {"mine", "other", "none"}, left : 0..2]
OneIn(D) == \A d, e \in D : d.pos = e.pos /\ d.entry = "in" /\ e.entry = "in" => d = e

(* InDeal finds the opening deal.                                          *)
LEMMA InDealIs ==
  ASSUME NEW D, OneIn(D), NEW e \in D, e.entry = "in"
  PROVE  (CHOOSE d \in D : d.pos = e.pos /\ d.entry = "in") = e
BY DEF OneIn

(* Left is 0 of a position with a deal that leaves nothing, and only then. *)
LEMMA LeftIs ==
  ASSUME NEW D \in SUBSET DealKind, NEW p, \E d \in D : d.pos = p
  PROVE  (CHOOSE n \in 0..2 : /\ \E d \in D : d.pos = p /\ d.left = n
                              /\ \A d \in D : d.pos = p => n <= d.left) = 0
           <=> IsClosed(D, p)
<1> DEFINE Least(n) == /\ \E d \in D : d.pos = p /\ d.left = n
                       /\ \A d \in D : d.pos = p => n <= d.left
<1>1. \A d \in D : d.left \in {0, 1, 2}
  BY DEF DealKind
<1>2. \E n \in 0..2 : Least(n)
  <2>1. CASE IsClosed(D, p)
    <3>1. Least(0)
      BY <1>1, <2>1 DEF IsClosed
    <3>2. QED
      BY <3>1
  <2>2. CASE ~IsClosed(D, p) /\ \E d \in D : d.pos = p /\ d.left = 1
    <3>1. Least(1)
      BY <1>1, <2>2 DEF IsClosed
    <3>2. QED
      BY <3>1
  <2>3. CASE ~IsClosed(D, p) /\ ~\E d \in D : d.pos = p /\ d.left = 1
    <3>1. Least(2)
      BY <1>1, <2>3 DEF IsClosed
    <3>2. QED
      BY <3>1
  <2>4. QED
    BY <2>1, <2>2, <2>3
<1>3. Least(CHOOSE n \in 0..2 : Least(n)) /\ (CHOOSE n \in 0..2 : Least(n)) \in 0..2
  <2> HIDE DEF Least
  <2>1. QED
    BY <1>2
<1>4. ASSUME NEW n \in 0..2, Least(n)
      PROVE  n = 0 <=> IsClosed(D, p)
  BY <1>1, <1>4 DEF IsClosed
<1>5. QED
  BY <1>3, <1>4

----------------------------------------------------------------------------
(* What deals and snapshot say, without CHOOSE.                            *)
Known ==
  /\ \A p \in Positions : /\ Mine(p) <=> IsMine(deals, p)
                          /\ Left(p) = 0 <=> IsClosed(deals, p)
  /\ \A p : p \in Ours(fetched) <=> IsMine(fetched, p) /\ HasOut(fetched, p)
  /\ \A p : IsMine(fetched, p) => IsMine(deals, p)
  /\ \A p : IsMine(deals, p) \/ HasOpened(deals, p) \/ IsClosed(deals, p) => p \in Positions

LEMMA DealsAreKnown == TypeOK /\ DealsFit => Known
<1> SUFFICES ASSUME TypeOK, DealsFit
             PROVE  Known
  OBVIOUS
<1>1. deals \in SUBSET DealKind /\ fetched \in SUBSET deals
  BY DEF TypeOK, DealKind
<1>2. OneIn(deals)
  BY DEF DealsFit, OneIn
<1>3. ASSUME NEW p \in Positions
      PROVE  /\ Mine(p) <=> IsMine(deals, p)
             /\ Left(p) = 0 <=> IsClosed(deals, p)
  <2>1. PICK e \in deals : e.pos = p /\ e.entry = "in"
    BY DEF DealsFit
  <2>2. InDeal(p) = e
    BY <1>2, <2>1, InDealIs DEF InDeal
  <2>3. Mine(p) <=> IsMine(deals, p)
    BY <1>2, <2>1, <2>2 DEF Mine, IsMine, OneIn
  <2>4. Left(p) = 0 <=> IsClosed(deals, p)
    BY <1>1, <2>1, LeftIs DEF Left
  <2>5. QED
    BY <2>3, <2>4
<1>4. \A p : p \in Ours(fetched) <=> IsMine(fetched, p) /\ HasOut(fetched, p)
  BY <1>1 DEF Ours, IsMine, HasOut, Positions
<1>5. /\ \A p : IsMine(fetched, p) => IsMine(deals, p)
      /\ \A p : IsMine(deals, p) \/ HasOpened(deals, p) \/ IsClosed(deals, p) => p \in Positions
  BY <1>1 DEF IsMine, HasOpened, IsClosed, Positions
<1>6. QED
  BY <1>3, <1>4, <1>5 DEF Known

(* The next position's number is the first that is free.                   *)
LEMMA NextNumber ==
  TypeOK /\ DealsFit => /\ NewPosition \in 1..MaxPositions + 1
                        /\ Positions = 1..NewPosition - 1
<1> SUFFICES ASSUME TypeOK, DealsFit
             PROVE  NewPosition \in 1..MaxPositions + 1 /\ Positions = 1..NewPosition - 1
  OBVIOUS
<1>1. MaxPositions \in Nat
  BY LedgerAssumption
<1>2. Positions \in SUBSET (1..MaxPositions)
  BY DEF TypeOK, Positions
<1>3. IsFiniteSet(1..MaxPositions) /\ Cardinality(1..MaxPositions) = MaxPositions
  <2>1. Cardinality(1..MaxPositions) = IF 1 > MaxPositions THEN 0 ELSE MaxPositions - 1 + 1
    BY <1>1, FS_Interval
  <2>2. QED
    BY <1>1, <2>1, FS_Interval
<1>4. IsFiniteSet(Positions) /\ Cardinality(Positions) <= MaxPositions
  BY <1>2, <1>3, FS_Subset
<1>5. Cardinality(Positions) \in Nat
  BY <1>4, FS_CardinalityType
<1>6. QED
  BY <1>1, <1>4, <1>5 DEF NewPosition, DealsFit

(* One more position is the one with the next number.                      *)
LEMMA OneMore ==
  ASSUME NEW n \in Nat
  PROVE  /\ (1..n) \cup {n + 1} = 1..n + 1
         /\ Cardinality(1..n) = n /\ Cardinality(1..n + 1) = n + 1
<1>1. Cardinality(1..n) = IF 1 > n THEN 0 ELSE n - 1 + 1
  BY FS_Interval
<1>2. Cardinality(1..n + 1) = IF 1 > n + 1 THEN 0 ELSE n + 1 - 1 + 1
  BY FS_Interval
<1>3. QED
  BY <1>1, <1>2

LEMMA DealsAreKnownNext == TypeOK' /\ DealsFit' => Known'
BY DealsAreKnown, PTL

----------------------------------------------------------------------------
(* The deals grow and nothing else moves but, at an opening, what is due:  *)
(* rows, script and chain keep what they say.                              *)
DealsGrow ==
  /\ deals \subseteq deals'
  /\ \A p \in due' : p \in due \/ p \notin Positions
  /\ UNCHANGED <<rows, again>> /\ UNCHANGED script

LEMMA GrowthKeeps ==
  IndInv /\ TypeOK' /\ DealsFit' /\ DealsGrow
    => RowsFit' /\ ScriptFits' /\ AddedFit' /\ ChainHolds'
<1> SUFFICES ASSUME IndInv, TypeOK', DealsFit', DealsGrow
             PROVE  RowsFit' /\ ScriptFits' /\ AddedFit' /\ ChainHolds'
  OBVIOUS
<1>1. Known /\ Known'
  BY DealsAreKnown, DealsAreKnownNext DEF IndInv
<1>2. /\ Positions \subseteq Positions'
      /\ \A p \in Positions : (Mine(p) => Mine(p)') /\ (Left(p) = 0 => Left(p)' = 0)
  <2>1. Positions \subseteq Positions'
    BY DEF DealsGrow, Positions
  <2>2. ASSUME NEW p \in Positions
        PROVE  (IsMine(deals, p) => IsMine(deals', p)) /\ (IsClosed(deals, p) => IsClosed(deals', p))
    BY DEF DealsGrow, IsMine, IsClosed
  <2>3. ASSUME NEW p \in Positions'
        PROVE  (Mine(p)' <=> IsMine(deals', p)) /\ (Left(p)' = 0 <=> IsClosed(deals', p))
    BY <1>1 DEF Known
  <2>4. ASSUME NEW p \in Positions
        PROVE  (Mine(p) <=> IsMine(deals, p)) /\ (Left(p) = 0 <=> IsClosed(deals, p))
    BY <1>1 DEF Known
  <2>5. QED
    BY <2>1, <2>2, <2>3, <2>4
<1>3. Ours(fetched)' = Ours(fetched)
  <2>1. fetched' = fetched
    BY DEF DealsGrow, script
  <2>2. \A p : p \in Ours(fetched)' <=> IsMine(fetched', p) /\ HasOut(fetched', p)
    BY <1>1 DEF Known
  <2>3. \A p : p \in Ours(fetched) <=> IsMine(fetched, p) /\ HasOut(fetched, p)
    BY <1>1 DEF Known
  <2>4. \A p : p \in Ours(fetched)' <=> p \in Ours(fetched)
    BY <2>1, <2>2, <2>3
  <2>5. QED
    BY <2>4 DEF Ours
<1>4. Ours(fetched) \subseteq Positions
  BY DEF Ours
<1>5. \A p : RowsOf(p)' = RowsOf(p)
  BY DEF RowsOf, DealsGrow
<1>6. RowsFit'
  BY <1>2 DEF IndInv, RowsFit, DealsGrow, script
<1>7. ScriptFits'
  BY <1>3, <1>5 DEF IndInv, ScriptFits, DealsGrow, script
<1>8. AddedFit'
  BY <1>2, <1>3, <1>4 DEF IndInv, AddedFit, DealsGrow, script
<1>9. ChainHolds'
  BY DEF IndInv, ChainHolds, DealsGrow
<1>10. QED
  BY <1>6, <1>7, <1>8, <1>9

(* If besides no position of this model is new, what is due stays fit.     *)
LEMMA GrowthKeepsDue ==
  /\ IndInv /\ TypeOK' /\ DealsFit' /\ DealsGrow
  /\ UNCHANGED <<up, due>> /\ \A p : IsMine(deals', p) => IsMine(deals, p)
  => DueFits'
<1> SUFFICES ASSUME IndInv, TypeOK', DealsFit', DealsGrow, UNCHANGED <<up, due>>,
                    \A p : IsMine(deals', p) => IsMine(deals, p)
             PROVE  DueFits'
  OBVIOUS
<1>1. Known /\ Known'
  BY DealsAreKnown, DealsAreKnownNext DEF IndInv
<1>2. Positions \subseteq Positions'
  BY DEF DealsGrow, Positions
<1>3. ASSUME NEW p \in Positions', Mine(p)'
      PROVE  p \in Positions /\ Mine(p)
  BY <1>1, <1>3 DEF Known
<1>4. ASSUME NEW p \in Positions, Mine(p)
      PROVE  Mine(p)'
  <2>1. IsMine(deals, p)
    BY <1>1, <1>4 DEF Known
  <2>2. IsMine(deals', p)
    BY <2>1 DEF IsMine, DealsGrow
  <2>3. QED
    BY <1>1, <1>2, <2>2 DEF Known
<1>5. (~up' => due' = {})
  BY DEF IndInv, DueFits
<1>6. \A p \in due' : p \in Positions' /\ Mine(p)' /\ \A q \in Positions' : Mine(q)' => q <= p
  BY <1>2, <1>3, <1>4 DEF IndInv, DueFits
<1>7. \A p \in due', r \in rows' : r.pos = p => IF r.from = "runner" THEN p \in again'
                                                                    ELSE p \in early'
  BY DEF IndInv, DueFits, DealsGrow, script
<1>8. QED
  BY <1>5, <1>6, <1>7 DEF DueFits

----------------------------------------------------------------------------
(* Initially there is nothing.                                             *)
LEMMA InitIndInv == Init => IndInv
<1> SUFFICES ASSUME Init
             PROVE  IndInv
  OBVIOUS
<1> USE LedgerAssumption DEF Init
<1>1. LastDay \in Nat /\ MaxPositions \in Nat /\ MaxRuns \in Nat /\ MaxReplays \in Nat
  OBVIOUS
<1>2. Positions = {} /\ NewPosition = 1
  <2>1. Positions = {}
    BY DEF Positions
  <2>2. QED
    BY <2>1, FS_EmptySet DEF NewPosition
<1>3. Ours(fetched) = {}
  BY <1>2 DEF Ours
<1>4. TypeOK
  <2>1. journal \in [1..LastDay -> 0..MaxReplays + 1]
    BY <1>1
  <2>2. day \in 1..LastDay /\ runs \in 0..MaxRuns /\ replays \in 0..MaxReplays /\ up \in BOOLEAN
    BY <1>1
  <2>3. due \cup again \cup todo \cup flagged \cup early \cup forgotten \subseteq 0..MaxPositions
    BY <1>1 DEF Idle
  <2>4. QED
    BY <2>1, <2>2, <2>3 DEF TypeOK
<1>5. DealsFit /\ DueFits /\ RowsFit /\ ChainHolds
  BY <1>2 DEF DealsFit, DueFits, RowsFit, ChainHolds
<1>6. ScriptFits /\ AddedFit /\ NarratedFits
  BY <1>1, <1>3 DEF ScriptFits, AddedFit, NarratedFits
<1>7. QED
  BY <1>4, <1>5, <1>6 DEF IndInv

(* A day passes, the runner stops or starts, a day is replayed: of the     *)
(* rest only what is due may become less.                                  *)
LEMMA QuietKeeps ==
  /\ IndInv /\ TypeOK' /\ NarratedFits' /\ due' \subseteq due /\ (~up' => due' = {})
  /\ UNCHANGED <<deals, rows, again>> /\ UNCHANGED script
  => IndInv'
<1> SUFFICES ASSUME IndInv, TypeOK', NarratedFits', due' \subseteq due, ~up' => due' = {},
                    UNCHANGED <<deals, rows, again>>, UNCHANGED script
             PROVE  IndInv'
  OBVIOUS
<1> USE DEF script
<1>1. /\ Positions' = Positions /\ NewPosition' = NewPosition
      /\ \A p : Mine(p)' = Mine(p) /\ Left(p)' = Left(p) /\ RowsOf(p)' = RowsOf(p)
      /\ Ours(fetched)' = Ours(fetched)
  BY DEF Positions, NewPosition, Mine, InDeal, Left, RowsOf, Ours
<1>2. DealsFit'
  BY <1>1 DEF IndInv, DealsFit
<1>3. DueFits'
  BY <1>1 DEF IndInv, DueFits
<1>4. RowsFit'
  BY <1>1 DEF IndInv, RowsFit
<1>5. ScriptFits'
  BY <1>1 DEF IndInv, ScriptFits
<1>6. AddedFit'
  BY <1>1 DEF IndInv, AddedFit
<1>7. ChainHolds'
  BY DEF IndInv, ChainHolds
<1>8. QED
  BY <1>2, <1>3, <1>4, <1>5, <1>6, <1>7 DEF IndInv

LEMMA NextDayKeeps == IndInv /\ NextDay => IndInv'
<1> SUFFICES ASSUME IndInv, NextDay
             PROVE  IndInv'
  OBVIOUS
<1>1. TypeOK'
  BY LedgerAssumption DEF IndInv, TypeOK, NextDay, runner, script
<1>2. NarratedFits' /\ due' \subseteq due /\ (~up' => due' = {})
  BY DEF IndInv, NarratedFits, DueFits, NextDay, runner
<1>3. QED
  BY <1>1, <1>2, QuietKeeps DEF NextDay, runner

LEMMA StopOrStartKeeps == IndInv /\ StopOrStart => IndInv'
<1> SUFFICES ASSUME IndInv, StopOrStart
             PROVE  IndInv'
  OBVIOUS
<1>1. TypeOK'
  BY DEF IndInv, TypeOK, StopOrStart, script
<1>2. NarratedFits'
  BY DEF IndInv, NarratedFits, StopOrStart
<1>3. QED
  BY <1>1, <1>2, QuietKeeps DEF StopOrStart

LEMMA ReplayDayKeeps == IndInv /\ ReplayDay => IndInv'
<1> SUFFICES ASSUME IndInv, ReplayDay
             PROVE  IndInv'
  OBVIOUS
<1>1. PICK d \in 1..day - 1 : /\ replays < MaxReplays
                              /\ journal' = [journal EXCEPT ![d] = @ + 1]
                              /\ replays' = replays + 1
  BY DEF ReplayDay
<1>2. /\ journal \in [1..LastDay -> 0..MaxReplays + 1] /\ replays \in 0..MaxReplays
      /\ MaxReplays \in Nat /\ LastDay \in Nat /\ day \in 1..LastDay
      /\ \A e \in 1..LastDay : journal[e] <= replays + 1
  BY LedgerAssumption DEF IndInv, TypeOK, NarratedFits
<1>3. d \in 1..LastDay
  BY <1>2
<1>4. \A e \in 1..LastDay : journal'[e] = IF e = d THEN journal[e] + 1 ELSE journal[e]
  BY <1>1, <1>2
<1>5. \A e \in 1..LastDay : journal'[e] \in 0..MaxReplays + 1 /\ journal'[e] <= replays' + 1
  <2> SUFFICES ASSUME NEW e \in 1..LastDay
               PROVE  journal'[e] \in 0..MaxReplays + 1 /\ journal'[e] <= replays' + 1
    OBVIOUS
  <2>1. journal[e] \in 0..MaxReplays + 1
    BY <1>2
  <2>2. QED
    BY <1>1, <1>2, <1>4, <2>1
<1>6. journal' \in [1..LastDay -> 0..MaxReplays + 1]
  BY <1>1, <1>2, <1>5
<1>7. replays' \in 0..MaxReplays
  BY <1>1, <1>2
<1>8. TypeOK'
  BY <1>6, <1>7 DEF IndInv, TypeOK, ReplayDay, runner, script
<1>9. NarratedFits'
  BY <1>5 DEF NarratedFits
<1>10. (~up' => due' = {}) /\ due' \subseteq due
  BY DEF IndInv, DueFits, ReplayDay, runner
<1>11. QED
  BY <1>8, <1>9, <1>10, QuietKeeps DEF ReplayDay, runner

----------------------------------------------------------------------------
(* A position opens, with one opening deal; another's is closed at once.   *)
LEMMA OpeningFits ==
  ASSUME IndInv, NEW e \in DealKind, e.entry = "in", e.pos = NewPosition,
         NEW N, N \subseteq DealKind, rows' = rows, deals' = deals \cup N,
         e \in N, \A d \in N : d = e \/ (d.pos = NewPosition /\ d.entry = "out" /\ d.left = 0)
  PROVE  DealsFit'
<1>1. /\ NewPosition \in Nat /\ NewPosition >= 1 /\ NewPosition - 1 \in Nat
      /\ Positions = 1..NewPosition - 1
  BY LedgerAssumption, NextNumber DEF IndInv
<1>2. Positions' = Positions \cup {NewPosition}
  BY DEF Positions
<1>3. Positions' = 1..NewPosition /\ NewPosition' = NewPosition + 1
  <2>1. PICK n \in Nat : n = NewPosition - 1
    BY <1>1
  <2>2. NewPosition = n + 1
    BY <1>1, <2>1
  <2>3. Positions' = 1..n + 1
    BY <1>1, <1>2, <2>1, <2>2, OneMore
  <2>4. Cardinality(Positions') = n + 1
    BY <2>3, OneMore
  <2>5. QED
    BY <2>2, <2>3, <2>4 DEF NewPosition
<1>4. \A d \in deals : d.pos \in Positions /\ d.pos # NewPosition
  BY <1>1 DEF Positions
<1>5. Positions' = 1..NewPosition' - 1
  BY <1>1, <1>3
<1>6. \A p \in Positions' : \E d \in deals' : d.pos = p /\ d.entry = "in"
  BY <1>2 DEF IndInv, DealsFit
<1>7. \A d, o \in deals' : d.pos = o.pos /\ d.entry = "in" /\ o.entry = "in" => d = o
  <2>1. \A d, o \in deals : d.pos = o.pos /\ d.entry = "in" /\ o.entry = "in" => d = o
    BY DEF IndInv, DealsFit
  <2>2. \A d \in N : d.pos = NewPosition /\ (d.entry = "in" => d = e)
    OBVIOUS
  <2>3. QED
    BY <1>4, <2>1, <2>2
<1>8. \A d \in deals' : d.entry = "out" => d.left = 0 \/ (d.left = 1 /\ RowsOf(d.pos)' # {})
  <2>1. \A p : RowsOf(p)' = RowsOf(p)
    BY DEF RowsOf
  <2>2. \A d \in deals : d.entry = "out" => d.left = 0 \/ (d.left = 1 /\ RowsOf(d.pos) # {})
    BY DEF IndInv, DealsFit
  <2>3. \A d \in N : d.entry = "out" => d.left = 0
    OBVIOUS
  <2>4. QED
    BY <2>1, <2>2, <2>3
<1>9. QED
  BY <1>5, <1>6, <1>7, <1>8 DEF DealsFit

LEMMA OpenKeeps == IndInv /\ Open => IndInv'
<1> SUFFICES ASSUME IndInv, Open
             PROVE  IndInv'
  OBVIOUS
<1> DEFINE e == Deal(NewPosition, "in", "mine", 2)
<1>1. /\ NewPosition \in Int /\ NewPosition \in 1..MaxPositions /\ MaxPositions \in Nat
      /\ day \in 1..LastDay /\ LastDay \in Nat /\ MaxReplays \in Nat /\ replays \in 0..MaxReplays
      /\ Positions = 1..NewPosition - 1
  BY LedgerAssumption, NextNumber DEF IndInv, Open, TypeOK
<1>2. e \in DealKind
  BY <1>1 DEF Deal, DealKind
<1>3. journal' \in [1..LastDay -> 0..MaxReplays + 1] /\ NarratedFits'
  <2>1. journal' \in {journal, [journal EXCEPT ![day] = 1]} /\ replays' = replays
    BY DEF Open
  <2>2. journal \in [1..LastDay -> 0..MaxReplays + 1] /\ NarratedFits
    BY DEF IndInv, TypeOK
  <2>3. 1 \in 0..MaxReplays + 1 /\ 1 <= replays + 1
    BY <1>1
  <2>4. journal' \in [1..LastDay -> 0..MaxReplays + 1]
    BY <1>1, <2>1, <2>2, <2>3
  <2>5. \A d \in 1..LastDay : journal'[d] \in {journal[d], 1}
    BY <1>1, <2>1, <2>2
  <2>6. NarratedFits'
    BY <2>1, <2>2, <2>3, <2>5 DEF NarratedFits
  <2>7. QED
    BY <2>4, <2>6
<1>4. deals' \subseteq DealKind /\ due' \subseteq 0..MaxPositions
  BY <1>1, <1>2 DEF IndInv, TypeOK, Open, DealKind
<1>5. TypeOK'
  BY <1>3, <1>4 DEF IndInv, TypeOK, Open, script, DealKind
<1>6. DealsFit'
  <2>1. PICK N : N = {e}
    OBVIOUS
  <2>2. N \subseteq DealKind /\ e.entry = "in" /\ e.pos = NewPosition
    BY <1>2, <2>1 DEF Deal
  <2>3. rows' = rows /\ deals' = deals \cup N
    BY <2>1 DEF Open
  <2>4. \A d \in N : d = e
    BY <2>1
  <2> HIDE DEF e
  <2>5. QED
    BY <1>2, <2>1, <2>2, <2>3, <2>4, OpeningFits
<1>7. DealsGrow
  BY <1>1 DEF DealsGrow, Open, IndInv, DueFits
<1>8. RowsFit' /\ ScriptFits' /\ AddedFit' /\ ChainHolds'
  BY <1>5, <1>6, <1>7, GrowthKeeps
<1>9. PICK p : p = NewPosition
  OBVIOUS
<1>10. e.pos = p /\ e.entry = "in" /\ e.magic = "mine" /\ deals' = deals \cup {e}
  BY <1>9 DEF Open, Deal
<1> HIDE DEF e
<1>11. DueFits'
  <2>1. ~up' => due' = {}
    BY DEF Open, IndInv, DueFits
  <2>2. due' \subseteq {p}
    BY <1>9 DEF Open, IndInv, DueFits
  <2>3. p \in Positions' /\ IsMine(deals', p)
    BY <1>10 DEF Positions, IsMine
  <2>4. Known'
    BY <1>5, <1>6, DealsAreKnownNext
  <2>5. Mine(p)'
    BY <2>3, <2>4 DEF Known
  <2>6. \A q \in Positions' : q <= p
    <3>1. Positions' \subseteq Positions \cup {p}
      BY <1>10 DEF Positions
    <3>2. QED
      BY <1>1, <1>9, <3>1
  <2>7. \A r \in rows' : r.pos # p
    BY <1>1, <1>9 DEF Open, IndInv, RowsFit
  <2>8. QED
    BY <2>1, <2>2, <2>3, <2>5, <2>6, <2>7 DEF DueFits
<1>12. QED
  BY <1>3, <1>5, <1>6, <1>8, <1>11 DEF IndInv

LEMMA OtherTradesKeeps == IndInv /\ OtherTrades => IndInv'
<1> SUFFICES ASSUME IndInv, OtherTrades
             PROVE  IndInv'
  OBVIOUS
<1> DEFINE e == Deal(NewPosition, "in", "other", 2)
           o == Deal(NewPosition, "out", "other", 0)
<1>1. NewPosition \in 1..MaxPositions /\ day \in 1..LastDay
  BY LedgerAssumption, NextNumber DEF IndInv, OtherTrades, TypeOK
<1>2. e \in DealKind /\ o \in DealKind
  BY <1>1 DEF Deal, DealKind
<1>3. deals' = deals \cup {e, o} /\ deals' \subseteq DealKind
  BY <1>2 DEF IndInv, TypeOK, OtherTrades, DealKind
<1>4. TypeOK' /\ NarratedFits'
  BY <1>3 DEF IndInv, TypeOK, NarratedFits, OtherTrades, runner, script, DealKind
<1>5. DealsFit'
  <2>1. /\ e.entry = "in" /\ e.pos = NewPosition /\ {e, o} \subseteq DealKind
        /\ o.pos = NewPosition /\ o.entry = "out" /\ o.left = 0
    BY <1>2 DEF Deal
  <2>2. rows' = rows
    BY DEF OtherTrades
  <2> HIDE DEF e, o
  <2>3. \A d \in {e, o} : d = e \/ (d.pos = NewPosition /\ d.entry = "out" /\ d.left = 0)
    BY <2>1
  <2>4. QED
    BY <1>2, <1>3, <2>1, <2>2, <2>3, OpeningFits
<1>6. DealsGrow
  BY DEF DealsGrow, OtherTrades, runner
<1>7. RowsFit' /\ ScriptFits' /\ AddedFit' /\ ChainHolds'
  BY <1>4, <1>5, <1>6, GrowthKeeps
<1>8. DueFits'
  <2>1. \A p : IsMine(deals', p) => IsMine(deals, p)
    BY <1>3 DEF IsMine, Deal
  <2>2. QED
    BY <1>4, <1>5, <1>6, <2>1, GrowthKeepsDue DEF OtherTrades, runner
<1>9. QED
  BY <1>4, <1>5, <1>7, <1>8 DEF IndInv

(* A position is closed, or half of it if it has a row.                    *)
LEMMA OutDealKeeps ==
  ASSUME IndInv, NEW p \in Positions, NEW left \in {0, 1}, OutDeal(p, left),
         left = 1 => RowsOf(p) # {},
         UNCHANGED <<day, rows, journal, replays>>, UNCHANGED runner, UNCHANGED script
  PROVE  IndInv'
<1>1. PICK e : /\ deals' = deals \cup {e}
               /\ \E magic \in {"mine", "none"} : e = Deal(p, "out", magic, left)
  BY DEF OutDeal
<1>2. e.pos = p /\ e.entry = "out" /\ e.left = left
  BY <1>1 DEF Deal
<1>3. e \in DealKind
  <2>1. p \in 1..MaxPositions /\ day \in 1..LastDay
    BY DEF IndInv, TypeOK, Positions
  <2>2. QED
    BY <1>1, <2>1 DEF Deal, DealKind
<1>4. TypeOK' /\ NarratedFits'
  <2>1. deals' \subseteq DealKind
    BY <1>1, <1>3 DEF IndInv, TypeOK, DealKind
  <2>2. QED
    BY <1>1, <2>1 DEF IndInv, TypeOK, NarratedFits, runner, script, DealKind
<1>5. DealsFit'
  <2>1. Positions' = Positions /\ NewPosition' = NewPosition
    <3>1. Positions' = Positions
      BY <1>1, <1>2 DEF Positions
    <3>2. QED
      BY <3>1 DEF NewPosition
  <2>2. \A q : RowsOf(q)' = RowsOf(q)
    BY DEF RowsOf
  <2>3. QED
    BY <1>1, <1>2, <2>1, <2>2 DEF IndInv, DealsFit
<1>6. DealsGrow
  BY <1>1 DEF DealsGrow, runner
<1>7. RowsFit' /\ ScriptFits' /\ AddedFit' /\ ChainHolds'
  BY <1>4, <1>5, <1>6, GrowthKeeps
<1>8. DueFits'
  <2>1. \A q : IsMine(deals', q) => IsMine(deals, q)
    BY <1>1, <1>2 DEF IsMine
  <2>2. QED
    BY <1>4, <1>5, <1>6, <2>1, GrowthKeepsDue DEF runner
<1>9. QED
  BY <1>4, <1>5, <1>7, <1>8 DEF IndInv

LEMMA CloseKeeps == ASSUME IndInv, NEW p \in Positions, Close(p) PROVE IndInv'
BY OutDealKeeps DEF Close

LEMMA HalveKeeps == IndInv /\ Halve => IndInv'
<1> SUFFICES ASSUME IndInv, Halve
             PROVE  IndInv'
  OBVIOUS
<1>1. PICK r \in rows : OutDeal(r.pos, 1)
  BY DEF Halve
<1>2. r.pos \in Positions /\ RowsOf(r.pos) # {}
  BY DEF IndInv, RowsFit, RowsOf
<1>3. QED
  BY <1>1, <1>2, OutDealKeeps DEF Halve

----------------------------------------------------------------------------
(* The deals stay and rows may come.                                       *)
LEMMA SameDeals ==
  ASSUME UNCHANGED deals
  PROVE  /\ Positions' = Positions /\ NewPosition' = NewPosition
         /\ \A p : Mine(p)' = Mine(p) /\ Left(p)' = Left(p)
<1>1. Positions' = Positions
  BY DEF Positions
<1>2. QED
  BY <1>1 DEF NewPosition, Mine, InDeal, Left

LEMMA MoreRows ==
  ASSUME IndInv, UNCHANGED deals, \A p : RowsOf(p) # {} => RowsOf(p)' # {}
  PROVE  DealsFit'
<1>1. /\ Positions' = Positions /\ NewPosition' = NewPosition
  BY SameDeals
<1>2. QED
  BY <1>1 DEF IndInv, DealsFit

(* A row as it is, but for its status.                                     *)
SameButStatus(r, s) ==
  r.pos = s.pos /\ r.before = s.before /\ r.after = s.after /\ r.from = s.from

RowKind == [pos : 1..MaxPositions, before : 0..MaxPositions,
            after : {NoEquity} \cup 1..MaxPositions,
            status : {"open", "closed"}, from : {"runner", "history"}]

(* The chain does not look at the status.                                  *)
LEMMA ChainIgnoresStatus ==
  ASSUME ChainHolds, UNCHANGED again,
         \A s \in rows' : \E r \in rows : SameButStatus(r, s),
         \A r \in rows : \E s \in rows' : SameButStatus(r, s)
  PROVE  ChainHolds'
<1> DEFINE Earlier(R, r) == {o \in R : o.from = "runner" /\ o.pos < r.pos}
           Last(R, r) == {o \in Earlier(R, r) : \A e \in Earlier(R, r) : e.pos <= o.pos}
           Between(R, r) == {h \in R : h.from = "history" /\ h.pos <= r.pos
                                         /\ \A o \in Last(R, r) : o.pos <= h.pos}
<1>1. SUFFICES ASSUME NEW s \in rows', s.from = "runner"
               PROVE  \/ \E o \in Last(rows', s) : s.before = o.after
                      \/ s.before = Balance /\ (Last(rows', s) = {} \/ Between(rows', s) # {})
                      \/ s.before = s.after /\ s.pos \in again'
  BY DEF ChainHolds
<1>2. PICK r \in rows : SameButStatus(r, s)
  OBVIOUS
<1>3. \/ \E o \in Last(rows, r) : r.before = o.after
      \/ r.before = Balance /\ (Last(rows, r) = {} \/ Between(rows, r) # {})
      \/ r.before = r.after /\ r.pos \in again
  BY <1>1, <1>2 DEF ChainHolds, SameButStatus
<1>4. /\ \A e \in Earlier(rows, r) : \E f \in Earlier(rows', s) : SameButStatus(e, f)
      /\ \A f \in Earlier(rows', s) : \E e \in Earlier(rows, r) : SameButStatus(e, f)
  BY <1>2 DEF SameButStatus
<1> HIDE DEF Earlier
<1>5. /\ \A e \in Last(rows, r) : \E f \in Last(rows', s) : SameButStatus(e, f)
      /\ \A f \in Last(rows', s) : \E e \in Last(rows, r) : SameButStatus(e, f)
  BY <1>4 DEF SameButStatus
<1> HIDE DEF Last
<1>6. \A e \in Between(rows, r) : \E f \in Between(rows', s) : SameButStatus(e, f)
  BY <1>2, <1>5 DEF SameButStatus
<1> HIDE DEF Between
<1>7. CASE \E o \in Last(rows, r) : r.before = o.after
  BY <1>2, <1>5, <1>7 DEF SameButStatus
<1>8. CASE r.before = Balance /\ (Last(rows, r) = {} \/ Between(rows, r) # {})
  <2>1. s.before = Balance
    BY <1>2, <1>8 DEF SameButStatus
  <2>2. Last(rows, r) = {} => Last(rows', s) = {}
    BY <1>5
  <2>3. Between(rows, r) # {} => Between(rows', s) # {}
    BY <1>6
  <2>4. QED
    BY <1>8, <2>1, <2>2, <2>3
<1>9. CASE r.before = r.after /\ r.pos \in again
  BY <1>2, <1>9 DEF SameButStatus
<1>10. QED
  BY <1>3, <1>7, <1>8, <1>9

(* The tracker records a close.                                            *)
LEMMA RecordCloseKeeps == IndInv /\ RecordClose => IndInv'
<1> SUFFICES ASSUME IndInv, RecordClose
             PROVE  IndInv'
  OBVIOUS
<1> USE DEF runner, script
<1>1. PICK r \in rows : /\ r.status = "open" /\ Left(r.pos) = 0
                        /\ rows' = (rows \ {r}) \cup {[r EXCEPT !.status = "closed"]}
  BY DEF RecordClose
<1>2. PICK s : s = [r EXCEPT !.status = "closed"]
  OBVIOUS
<1>3. r \in RowKind
  BY DEF IndInv, TypeOK, RowKind
<1>4. s \in RowKind /\ SameButStatus(r, s) /\ s.status = "closed"
  BY <1>2, <1>3 DEF RowKind, SameButStatus
<1>5. rows' = (rows \ {r}) \cup {s}
  BY <1>1, <1>2
<1>6. /\ Positions' = Positions /\ \A p : Mine(p)' = Mine(p) /\ Left(p)' = Left(p)
  BY SameDeals DEF RecordClose
<1>7. TypeOK' /\ NarratedFits'
  BY <1>4, <1>5 DEF IndInv, TypeOK, NarratedFits, RecordClose, RowKind
<1>8. /\ \A o \in rows' : \E q \in rows : SameButStatus(q, o)
      /\ \A q \in rows : \E o \in rows' : SameButStatus(q, o)
  BY <1>4, <1>5 DEF SameButStatus
<1>9. \A p : RowsOf(p) # {} => RowsOf(p)' # {}
  BY <1>8 DEF RowsOf, SameButStatus
<1>10. \A p : RowsOf(p)' # {} => RowsOf(p) # {}
  BY <1>8 DEF RowsOf, SameButStatus
<1>11. DealsFit'
  BY <1>9, MoreRows DEF RecordClose
<1>12. DueFits'
  BY <1>6, <1>8 DEF IndInv, DueFits, RecordClose, SameButStatus
<1>13. RowsFit'
  <2>1. ASSUME NEW q \in rows', NEW o \in rows', q.pos = o.pos, q # o
        PROVE  IF q.from # o.from THEN q.pos \in early ELSE q.from = "runner" /\ q.pos \in again
    BY <1>4, <1>5, <2>1 DEF IndInv, RowsFit, SameButStatus
  <2>2. ASSUME NEW q \in rows'
        PROVE  /\ q.pos \in Positions /\ Mine(q.pos)
               /\ q.status = "closed" => Left(q.pos) = 0
               /\ q.after = IF q.from = "runner" THEN q.pos ELSE NoEquity
    BY <1>1, <1>4, <1>5 DEF IndInv, RowsFit, SameButStatus
  <2>3. QED
    BY <1>6, <2>1, <2>2 DEF RowsFit, RecordClose
<1>14. Ours(fetched)' = Ours(fetched)
  BY <1>6 DEF Ours, RecordClose
<1>15. ScriptFits'
  BY <1>9, <1>14 DEF IndInv, ScriptFits, RecordClose
<1>16. AddedFit'
  BY <1>6, <1>8, <1>14 DEF IndInv, AddedFit, RecordClose, SameButStatus
<1>17. ChainHolds'
  BY <1>8, ChainIgnoresStatus DEF IndInv, RecordClose
<1>18. QED
  BY <1>7, <1>11, <1>12, <1>13, <1>15, <1>16, <1>17 DEF IndInv

----------------------------------------------------------------------------
(* The runner's row stands at the end of the chain.                        *)
LEMMA RowJoinsChain ==
  ASSUME IndInv, NEW p \in due, NEW row \in RunnerRow(p), rows' = rows \cup {row},
         again \subseteq again'
  PROVE  ChainHolds'
<1>1. row.pos = p /\ row.from = "runner" /\ row.after = p /\ row.before \in CurrentEquity
  BY DEF RunnerRow
<1>2. p \in 1..MaxPositions /\ MaxPositions \in Nat
  BY LedgerAssumption DEF IndInv, DueFits, TypeOK, Positions
<1>3. \A r \in rows : /\ r.pos \in 1..MaxPositions /\ r.pos <= p
                      /\ r.from \in {"runner", "history"}
  BY DEF IndInv, TypeOK, DueFits, RowsFit
<1> DEFINE Earlier(R, r) == {o \in R : o.from = "runner" /\ o.pos < r.pos}
           Last(R, r) == {o \in Earlier(R, r) : \A e \in Earlier(R, r) : e.pos <= o.pos}
           Between(R, r) == {h \in R : h.from = "history" /\ h.pos <= r.pos
                                         /\ \A o \in Last(R, r) : o.pos <= h.pos}
           Joined(R, A, r) == \/ \E o \in Last(R, r) : r.before = o.after
                              \/ r.before = Balance /\ (Last(R, r) = {} \/ Between(R, r) # {})
                              \/ r.before = r.after /\ r.pos \in A
<1>4. ASSUME NEW r \in rows'
      PROVE  Earlier(rows', r) = Earlier(rows, r)
  BY <1>1, <1>2, <1>3
<1>5. ASSUME NEW r \in rows'
      PROVE  Last(rows', r) = Last(rows, r) /\ Between(rows', r) = Between(rows, r)
  <2> HIDE DEF Earlier
  <2>1. Last(rows', r) = Last(rows, r)
    BY <1>4
  <2> HIDE DEF Last
  <2>2. QED
    BY <1>1, <2>1
<1>6. ASSUME NEW r \in rows, r.from = "runner"
      PROVE  Joined(rows', again', r)
  <2>1. Joined(rows, again, r)
    BY <1>6 DEF IndInv, ChainHolds
  <2>2. r \in rows'
    OBVIOUS
  <2> HIDE DEF Last, Between, Earlier
  <2>3. QED
    BY <1>5, <2>1, <2>2
<1>7. Joined(rows', again', row)
  <2>1. CASE rows = {}
    <3>1. row.before = Balance
      BY <1>1, <2>1 DEF CurrentEquity
    <3>2. Last(rows, row) = {}
      BY <2>1
    <3> HIDE DEF Last, Between
    <3>3. QED
      BY <1>5, <3>1, <3>2
  <2>2. CASE rows # {}
    <3>1. PICK x \in rows : /\ \A o \in rows : o.pos <= x.pos
                            /\ row.before = IF x.after = NoEquity THEN Balance ELSE x.after
      BY <1>1, <2>2 DEF CurrentEquity
    <3>2. x.after = IF x.from = "runner" THEN x.pos ELSE NoEquity
      BY DEF IndInv, RowsFit
    <3>3. CASE x.from = "runner" /\ x.pos < p
      <4>1. x \in Last(rows, row)
        BY <1>1, <3>1, <3>3
      <4>2. row.before = x.after
        BY <1>3, <3>1, <3>2, <3>3 DEF NoEquity
      <4> HIDE DEF Last, Between
      <4>3. QED
        BY <1>5, <4>1, <4>2
    <3>4. CASE x.from = "runner" /\ x.pos = p
      <4>1. row.before = row.after
        BY <1>1, <1>2, <3>1, <3>2, <3>4 DEF NoEquity
      <4>2. row.pos \in again'
        BY <1>1, <3>4 DEF IndInv, DueFits
      <4>3. QED
        BY <4>1, <4>2
    <3>5. CASE x.from = "history"
      <4>1. row.before = Balance
        BY <3>1, <3>2, <3>5
      <4>2. x \in Between(rows, row)
        BY <1>1, <1>3, <3>1, <3>5
      <4> HIDE DEF Last, Between
      <4>3. QED
        BY <1>5, <4>1, <4>2
    <3>6. x.pos < p \/ x.pos = p
      BY <1>2, <1>3
    <3>7. QED
      BY <1>3, <3>3, <3>4, <3>5, <3>6
  <2>3. QED
    BY <2>1, <2>2
<1>8. \A r \in rows' : r.from = "runner" => Joined(rows', again', r)
  <2> HIDE DEF Joined
  <2>1. QED
    BY <1>6, <1>7
<1>9. QED
  BY <1>8 DEF ChainHolds

(* The end of a day writes its row, or does not.                           *)
LEMMA FinalizeDayKeeps == IndInv /\ FinalizeDay => IndInv'
<1> SUFFICES ASSUME IndInv, FinalizeDay
             PROVE  IndInv'
  OBVIOUS
<1>1. PICK p \in due :
        /\ up
        /\ \/ due' = due \ {p} /\ rows' = rows /\ UNCHANGED again
           \/ \E row \in RunnerRow(p) :
                /\ rows' = rows \cup {row}
                /\ \/ due' = due \ {p} /\ UNCHANGED again
                   \/ again = {} /\ again' = {p} /\ UNCHANGED due
        /\ UNCHANGED <<day, deals, up, journal, replays>> /\ UNCHANGED script
  BY DEF FinalizeDay
<1> USE DEF script
<1>2. p \in Positions /\ Mine(p) /\ p \in 1..MaxPositions /\ MaxPositions \in Nat
  BY LedgerAssumption DEF IndInv, DueFits, TypeOK, Positions
<1>3. CASE due' = due \ {p} /\ rows' = rows /\ UNCHANGED again
  <2>1. TypeOK' /\ NarratedFits'
    BY <1>1, <1>3 DEF IndInv, TypeOK, NarratedFits
  <2>2. QED
    BY <1>1, <1>3, <2>1, QuietKeeps
<1>4. CASE \E row \in RunnerRow(p) :
             /\ rows' = rows \cup {row}
             /\ \/ due' = due \ {p} /\ UNCHANGED again
                \/ again = {} /\ again' = {p} /\ UNCHANGED due
  <2>1. PICK row \in RunnerRow(p) :
          /\ rows' = rows \cup {row}
          /\ \/ due' = due \ {p} /\ UNCHANGED again
             \/ again = {} /\ again' = {p} /\ UNCHANGED due
    BY <1>4
  <2>2. /\ due' \subseteq due /\ again \subseteq again' /\ (p \in due' => p \in again')
        /\ again' \subseteq again \cup {p}
    BY <2>1
  <2>3. /\ row.pos = p /\ row.from = "runner" /\ row.after = p
        /\ row.status = "closed" => Left(p) = 0
    BY DEF RunnerRow
  <2>4. row \in RowKind
    <3>1. CurrentEquity \subseteq 0..MaxPositions
      BY <1>2 DEF CurrentEquity, IndInv, TypeOK, NoEquity, Balance
    <3>2. QED
      BY <1>2, <3>1 DEF RunnerRow, RowKind
  <2>5. TypeOK' /\ NarratedFits'
    <3>1. rows' \subseteq RowKind
      BY <2>1, <2>4 DEF IndInv, TypeOK, RowKind
    <3>2. due' \subseteq 0..MaxPositions /\ again' \subseteq 0..MaxPositions
      BY <1>2, <2>2 DEF IndInv, TypeOK
    <3>3. QED
      BY <1>1, <3>1, <3>2 DEF IndInv, TypeOK, NarratedFits, RowKind
  <2>6. /\ Positions' = Positions /\ \A q : Mine(q)' = Mine(q) /\ Left(q)' = Left(q)
    BY <1>1, SameDeals
  <2>7. \A q : RowsOf(q) # {} => RowsOf(q)' # {}
    BY <2>1 DEF RowsOf
  <2>8. DealsFit'
    BY <1>1, <2>7, MoreRows
  <2>9. Ours(fetched)' = Ours(fetched)
    BY <1>1, <2>6 DEF Ours
  <2>10. \A r \in rows : r.pos = p => IF r.from = "runner" THEN p \in again ELSE p \in early
    BY DEF IndInv, DueFits
  <2>11. DueFits'
    BY <1>1, <2>1, <2>2, <2>3, <2>6 DEF IndInv, DueFits
  <2>12. RowsFit'
    <3>1. ASSUME NEW r \in rows', NEW o \in rows', r.pos = o.pos, r # o
          PROVE  IF r.from # o.from THEN r.pos \in early' ELSE r.from = "runner" /\ r.pos \in again'
      BY <1>1, <2>1, <2>2, <2>3, <2>10, <3>1 DEF IndInv, RowsFit
    <3>2. ASSUME NEW r \in rows'
          PROVE  /\ r.pos \in Positions /\ Mine(r.pos)
                 /\ r.status = "closed" => Left(r.pos) = 0
                 /\ r.after = IF r.from = "runner" THEN r.pos ELSE NoEquity
      BY <1>2, <2>1, <2>3 DEF IndInv, RowsFit
    <3>3. QED
      BY <2>6, <3>1, <3>2 DEF RowsFit
  <2>13. ScriptFits'
    BY <1>1, <2>7, <2>9 DEF IndInv, ScriptFits
  <2>14. AddedFit'
    BY <1>1, <2>1, <2>2, <2>3, <2>6, <2>9 DEF IndInv, AddedFit
  <2>15. ChainHolds'
    BY <2>1, <2>2, RowJoinsChain
  <2>16. QED
    BY <2>5, <2>8, <2>11, <2>12, <2>13, <2>14, <2>15 DEF IndInv
<1>5. QED
  BY <1>1, <1>3, <1>4

----------------------------------------------------------------------------
(* The script takes its snapshot.                                          *)
LEMMA FetchKeeps == IndInv /\ Fetch => IndInv'
<1> SUFFICES ASSUME IndInv, Fetch
             PROVE  IndInv'
  OBVIOUS
<1> USE DEF Fetch, runner
<1>1. /\ Positions' = Positions /\ NewPosition' = NewPosition
      /\ \A q : Mine(q)' = Mine(q) /\ Left(q)' = Left(q)
  BY SameDeals
<1>2. \A q : RowsOf(q)' = RowsOf(q)
  BY DEF RowsOf
<1>3. todo' = Ours(fetched') /\ Ours(fetched)' = Ours(fetched')
  BY <1>1 DEF Ours
<1>4. todo' \subseteq 1..MaxPositions /\ added = {} /\ forgotten' = {} /\ MaxPositions \in Nat
  <2>1. Positions \subseteq 1..MaxPositions
    BY DEF IndInv, TypeOK, Positions
  <2>2. todo' \subseteq Positions
    BY <1>3 DEF Ours
  <2>3. QED
    BY <2>1, <2>2, LedgerAssumption DEF IndInv, ScriptFits
<1>5. TypeOK'
  <2>1. fetched' \subseteq deals' /\ runs' \in 0..MaxRuns /\ todo' \subseteq 0..MaxPositions
    BY <1>4, LedgerAssumption DEF IndInv, TypeOK
  <2>2. QED
    BY <2>1 DEF IndInv, TypeOK
<1>6. DealsFit'
  BY <1>1, <1>2, MoreRows
<1>7. DueFits' /\ RowsFit' /\ ChainHolds' /\ NarratedFits'
  <2>1. DueFits'
    BY <1>1 DEF IndInv, DueFits
  <2>2. RowsFit'
    BY <1>1 DEF IndInv, RowsFit
  <2>3. ChainHolds' /\ NarratedFits'
    BY DEF IndInv, ChainHolds, NarratedFits
  <2>4. QED
    BY <2>1, <2>2, <2>3
<1>8. ScriptFits'
  <2>1. todo' # Idle
    BY <1>4 DEF Idle
  <2>2. QED
    BY <1>3, <1>4, <2>1 DEF ScriptFits
<1>9. AddedFit'
  BY <1>4 DEF AddedFit
<1>10. QED
  BY <1>5, <1>6, <1>7, <1>8, <1>9 DEF IndInv

(* A set of positions has a least one.                                     *)
LEMMA LeastExists ==
  ASSUME NEW S \in SUBSET Nat, S # {}
  PROVE  \E x \in S : \A y \in S : x <= y
<1>1. PICK x \in S : \A y \in S : ~ (<<y, x>> \in OpToRel(<, Nat))
  BY WFMin, NatLessThanWellFounded
<1>2. \A y \in S : ~ (y < x)
  BY <1>1 DEF OpToRel
<1>3. QED
  BY <1>2

(* It looks at a position: recorded, told of, or a row to add.             *)
LEMMA ExamineKeeps == IndInv /\ Examine => IndInv'
<1> SUFFICES ASSUME IndInv, Examine
             PROVE  IndInv'
  OBVIOUS
<1>1. MaxPositions \in Nat /\ Positions \subseteq 1..MaxPositions
  BY LedgerAssumption DEF IndInv, TypeOK, Positions
<1>2. todo # {} /\ todo # Idle /\ todo \subseteq Ours(fetched)
  BY DEF Examine, IndInv, ScriptFits
<1>3. todo \subseteq Positions
  BY <1>2 DEF Ours
<1>4. PICK p : p = CHOOSE x \in todo : \A y \in todo : x <= y
  OBVIOUS
<1>5. p \in todo
  <2>1. todo \subseteq Nat
    BY <1>1, <1>3
  <2>2. QED
    BY <1>2, <1>4, <2>1, LeastExists
<1> DEFINE sequence == Cardinality(Deals(p, "out")) > 1
           recorded == ~sequence /\ TradeExistsForTicket(p)
           matchable == ~sequence /\ journal[InDeal(p).day] > 0
<1>6. /\ todo' = todo \ {p}
      /\ \/ recorded /\ UNCHANGED <<added, flagged, early>>
         \/ ~recorded /\ flagged' = flagged \cup {p} /\ UNCHANGED <<added, early>>
         \/ /\ ~recorded /\ matchable
            /\ \E equity \in CurrentEquity : added' = added \cup {HistoricalRow(p, equity)}
            /\ flagged' = flagged \cup {p}
            /\ early' = early \cup ({p} \cap due)
  BY <1>4 DEF Examine
<1>7. UNCHANGED <<day, deals, rows, journal, replays, fetched, runs, forgotten, up, due, again>>
  BY DEF Examine, runner
<1>8. recorded => RowsOf(p) # {}
  BY DEF TradeExistsForTicket
<1>9. ~recorded /\ matchable => RowsOf(p) = {}
  BY DEF TradeExistsForTicket
<1> HIDE DEF sequence, recorded, matchable
<1>10. /\ early \subseteq early' /\ early' \subseteq early \cup {p}
       /\ flagged \subseteq flagged' /\ flagged' \subseteq flagged \cup {p}
       /\ p \in flagged' \/ RowsOf(p) # {}
  BY <1>6, <1>8
<1>11. /\ Positions' = Positions /\ NewPosition' = NewPosition
       /\ \A q : Mine(q)' = Mine(q) /\ Left(q)' = Left(q)
  BY <1>7, SameDeals
<1>12. (\A q : RowsOf(q)' = RowsOf(q)) /\ Ours(fetched)' = Ours(fetched)
  BY <1>7, <1>11 DEF RowsOf, Ours
<1>13. TypeOK' /\ NarratedFits'
  <2>1. todo' \cup flagged' \cup early' \subseteq 0..MaxPositions
    BY <1>1, <1>3, <1>5, <1>6, <1>10 DEF IndInv, TypeOK
  <2>2. QED
    BY <1>7, <2>1 DEF IndInv, TypeOK, NarratedFits
<1>14. DealsFit'
  BY <1>7, <1>12, MoreRows
<1>15. DueFits'
  BY <1>7, <1>10, <1>11 DEF IndInv, DueFits
<1>16. RowsFit'
  BY <1>7, <1>10, <1>11 DEF IndInv, RowsFit
<1>17. ScriptFits'
  <2>1. todo' # Idle
    BY <1>1, <1>3, <1>6 DEF Idle
  <2>2. todo' \subseteq Ours(fetched)'
    BY <1>2, <1>6, <1>12
  <2>3. \A q \in Ours(fetched)' : q \in todo' \cup flagged' \/ RowsOf(q)' # {}
    BY <1>6, <1>10, <1>12 DEF IndInv, ScriptFits
  <2>4. QED
    BY <1>7, <2>1, <2>2, <2>3 DEF IndInv, ScriptFits
<1>18. AddedFit'
  <2>1. ASSUME NEW a \in added
        PROVE  /\ a.pos \in Ours(fetched) \ todo' /\ Left(a.pos) = 0 /\ a.pos # p
               /\ \E equity \in 0..MaxPositions : a = HistoricalRow(a.pos, equity)
               /\ a.pos \in due => a.pos \in early'
               /\ \A r \in rows : a.pos = r.pos => r.from = "runner" /\ a.pos \in early'
    BY <1>5, <1>6, <1>10 DEF IndInv, AddedFit
  <2>2. CASE added' = added
    BY <1>7, <1>11, <1>12, <2>1, <2>2 DEF IndInv, AddedFit
  <2>3. CASE /\ ~recorded /\ matchable
             /\ \E equity \in CurrentEquity : added' = added \cup {HistoricalRow(p, equity)}
             /\ early' = early \cup ({p} \cap due)
    <3>1. PICK equity \in CurrentEquity : added' = added \cup {HistoricalRow(p, equity)}
      BY <2>3
    <3>2. equity \in 0..MaxPositions
      BY <1>1 DEF CurrentEquity, IndInv, TypeOK, NoEquity, Balance
    <3>3. PICK n : n = HistoricalRow(p, equity)
      OBVIOUS
    <3>4. n.pos = p /\ n = HistoricalRow(n.pos, equity)
      BY <3>3 DEF HistoricalRow
    <3>5. RowsOf(p) = {}
      BY <1>9, <2>3
    <3>6. Left(p) = 0
      <4>1. Known
        BY DealsAreKnown DEF IndInv
      <4>2. HasOut(fetched, p)
        BY <1>2, <1>5, <4>1 DEF Known
      <4>3. PICK d \in deals : d.pos = p /\ d.entry = "out"
        BY <4>2 DEF HasOut, IndInv, TypeOK
      <4>4. d.left = 0
        BY <3>5, <4>3 DEF IndInv, DealsFit
      <4>5. QED
        BY <1>3, <1>5, <4>1, <4>3, <4>4 DEF Known, IsClosed
    <3>7. /\ p \in Ours(fetched) \ todo'
          /\ p \in due => p \in early'
          /\ \A r \in rows : r.pos # p
      BY <1>2, <1>5, <1>6, <2>3, <3>5 DEF RowsOf
    <3>8. \A a \in added' : a \in added \/ a = n
      BY <3>1, <3>3
    <3>9. ASSUME NEW a \in added', NEW b \in added', a.pos = b.pos
          PROVE  a = b
      BY <2>1, <3>4, <3>8, <3>9 DEF IndInv, AddedFit
    <3>10. ASSUME NEW a \in added'
           PROVE  /\ a.pos \in Ours(fetched) \ todo' /\ Left(a.pos) = 0
                  /\ \E eq \in 0..MaxPositions : a = HistoricalRow(a.pos, eq)
                  /\ a.pos \in due => a.pos \in early'
                  /\ \A r \in rows : a.pos = r.pos => r.from = "runner" /\ a.pos \in early'
      <4>1. CASE a \in added
        BY <2>1, <4>1
      <4>2. CASE a = n
        BY <3>2, <3>4, <3>6, <3>7, <4>2
      <4>3. QED
        BY <3>8, <4>1, <4>2
    <3>11. \A q, eq : HistoricalRow(q, eq)' = HistoricalRow(q, eq)
      BY DEF HistoricalRow
    <3>12. QED
      BY <1>7, <1>11, <1>12, <3>9, <3>10, <3>11 DEF AddedFit
  <2>4. QED
    BY <1>6, <2>2, <2>3
<1>19. ChainHolds'
  BY <1>7 DEF IndInv, ChainHolds
<1>20. QED
  BY <1>13, <1>14, <1>15, <1>16, <1>17, <1>18, <1>19 DEF IndInv

(* It ends without a commit.                                               *)
LEMMA RollbackKeeps == IndInv /\ Rollback => IndInv'
<1> SUFFICES ASSUME IndInv, Rollback
             PROVE  IndInv'
  OBVIOUS
<1> USE DEF Rollback, runner, Ended
<1>1. /\ Positions' = Positions /\ NewPosition' = NewPosition
      /\ \A q : Mine(q)' = Mine(q) /\ Left(q)' = Left(q)
  BY SameDeals
<1>2. \A r \in rows : r.from = "history" /\ r.pos \in early => r.pos \in early'
  BY DEF IndInv, AddedFit
<1>3. \A q : RowsOf(q)' = RowsOf(q)
  BY DEF RowsOf
<1>4. TypeOK' /\ NarratedFits'
  <2>1. early' \subseteq early /\ Idle \subseteq 0..MaxPositions
    BY LedgerAssumption DEF Idle
  <2>2. QED
    BY <2>1 DEF IndInv, TypeOK, NarratedFits
<1>5. DealsFit'
  BY <1>3, MoreRows
<1>6. \A r \in rows : r.from \in {"runner", "history"}
  BY DEF IndInv, TypeOK
<1>7. DueFits'
  BY <1>1, <1>2, <1>6 DEF IndInv, DueFits
<1>8. RowsFit'
  <2>1. ASSUME NEW r \in rows, NEW o \in rows, r.pos = o.pos, r # o
        PROVE  IF r.from # o.from THEN r.pos \in early' ELSE r.from = "runner" /\ r.pos \in again
    BY <1>2, <1>6, <2>1 DEF IndInv, RowsFit
  <2>2. QED
    BY <1>1, <2>1 DEF IndInv, RowsFit
<1>9. ScriptFits' /\ AddedFit'
  <2>1. Ours(fetched)' = {}
    BY DEF Ours
  <2>2. QED
    BY <2>1 DEF IndInv, ScriptFits, AddedFit
<1>10. ChainHolds'
  BY DEF IndInv, ChainHolds
<1>11. QED
  BY <1>4, <1>5, <1>7, <1>8, <1>9, <1>10 DEF IndInv

(* It commits its rows; every closed position of its snapshot was recorded *)
(* or told of.                                                             *)
LEMMA CommitKeeps == IndInv /\ Commit => IndInv'
<1> SUFFICES ASSUME IndInv, Commit
             PROVE  IndInv'
  OBVIOUS
<1> USE DEF runner, Ended
<1>1. /\ todo = {} /\ rows' = rows \cup added
      /\ UNCHANGED <<day, deals, journal, replays, runs, early, up, due, again>>
      /\ fetched' = {} /\ todo' = Idle /\ added' = {} /\ flagged' = {}
  BY DEF Commit
<1>2. /\ Positions' = Positions /\ NewPosition' = NewPosition
      /\ \A q : Mine(q)' = Mine(q) /\ Left(q)' = Left(q)
  BY <1>1, SameDeals
<1>3. Known
  BY DealsAreKnown DEF IndInv
<1>4. ASSUME NEW a \in added
      PROVE  /\ a \in RowKind /\ a.from = "history" /\ a.after = NoEquity
             /\ a.pos \in Positions /\ Mine(a.pos) /\ Left(a.pos) = 0
             /\ a.pos \in due => a.pos \in early
             /\ \A b \in added : a.pos = b.pos => a = b
             /\ \A r \in rows : a.pos = r.pos => r.from = "runner" /\ a.pos \in early
  <2>1. a.pos \in Ours(fetched) /\ Left(a.pos) = 0
    BY DEF IndInv, AddedFit
  <2>2. a.pos \in Positions
    BY <2>1 DEF Ours
  <2>3. IsMine(deals, a.pos)
    BY <1>3, <2>1 DEF Known
  <2>4. Mine(a.pos)
    BY <1>3, <2>2, <2>3 DEF Known
  <2>5. PICK equity \in 0..MaxPositions : a = HistoricalRow(a.pos, equity)
    BY DEF IndInv, AddedFit
  <2>6. a.pos \in 1..MaxPositions
    BY <2>2 DEF Positions, IndInv, TypeOK
  <2>7. a.from = "history" /\ a.after = NoEquity /\ a \in RowKind
    BY <2>5, <2>6 DEF HistoricalRow, RowKind
  <2>8. QED
    BY <2>1, <2>2, <2>4, <2>7 DEF IndInv, AddedFit
<1>5. forgotten' = {}
  <2>1. \A p \in Ours(fetched) : p \in flagged \/ RowsOf(p) # {}
    BY <1>1 DEF IndInv, ScriptFits
  <2>2. \A p : RowsOf(p) # {} => p \in {r.pos : r \in rows}
    BY DEF RowsOf
  <2>3. \A p \in forgotten' : p \in Ours(fetched) /\ p \notin flagged \cup {r.pos : r \in rows}
    BY DEF Commit, Ours
  <2>4. QED
    BY <2>1, <2>2, <2>3
<1>6. TypeOK' /\ NarratedFits'
  <2>1. rows' \subseteq RowKind
    BY <1>1, <1>4 DEF IndInv, TypeOK, RowKind
  <2>2. Idle \subseteq 0..MaxPositions
    BY LedgerAssumption DEF Idle
  <2>3. QED
    BY <1>1, <1>5, <2>1, <2>2 DEF IndInv, TypeOK, NarratedFits, RowKind
<1>7. DealsFit'
  <2>1. \A q : RowsOf(q) # {} => RowsOf(q)' # {}
    BY <1>1 DEF RowsOf
  <2>2. QED
    BY <1>1, <2>1, MoreRows
<1>8. DueFits'
  BY <1>1, <1>2, <1>4 DEF IndInv, DueFits
<1>9. RowsFit'
  <2>1. ASSUME NEW r \in rows', NEW o \in rows', r.pos = o.pos, r # o
        PROVE  IF r.from # o.from THEN r.pos \in early ELSE r.from = "runner" /\ r.pos \in again
    <3>1. CASE r \in rows /\ o \in rows
      BY <2>1, <3>1 DEF IndInv, RowsFit
    <3>2. CASE r \in added \/ o \in added
      BY <1>1, <1>4, <2>1, <3>2
    <3>3. QED
      BY <1>1, <3>1, <3>2
  <2>2. ASSUME NEW r \in rows'
        PROVE  /\ r.pos \in Positions /\ Mine(r.pos)
               /\ r.status = "closed" => Left(r.pos) = 0
               /\ r.after = IF r.from = "runner" THEN r.pos ELSE NoEquity
    BY <1>1, <1>4 DEF IndInv, RowsFit
  <2>3. QED
    BY <1>1, <1>2, <2>1, <2>2 DEF RowsFit
<1>10. ScriptFits' /\ AddedFit'
  <2>1. Ours(fetched)' = {}
    BY <1>1 DEF Ours
  <2>2. QED
    BY <1>1, <1>5, <2>1 DEF IndInv, ScriptFits, AddedFit
<1>11. ChainHolds'
  <2> DEFINE Earlier(R, r) == {o \in R : o.from = "runner" /\ o.pos < r.pos}
             Last(R, r) == {o \in Earlier(R, r) : \A e \in Earlier(R, r) : e.pos <= o.pos}
             Between(R, r) == {h \in R : h.from = "history" /\ h.pos <= r.pos
                                           /\ \A o \in Last(R, r) : o.pos <= h.pos}
  <2>1. ASSUME NEW r \in rows', r.from = "runner"
        PROVE  \/ \E o \in Last(rows', r) : r.before = o.after
               \/ r.before = Balance /\ (Last(rows', r) = {} \/ Between(rows', r) # {})
               \/ r.before = r.after /\ r.pos \in again'
    <3>1. r \in rows
      BY <1>1, <1>4, <2>1
    <3>2. Earlier(rows', r) = Earlier(rows, r)
      BY <1>1, <1>4
    <3>3. \/ \E o \in Last(rows, r) : r.before = o.after
          \/ r.before = Balance /\ (Last(rows, r) = {} \/ Between(rows, r) # {})
          \/ r.before = r.after /\ r.pos \in again
      BY <2>1, <3>1 DEF IndInv, ChainHolds
    <3> HIDE DEF Earlier
    <3>4. Last(rows', r) = Last(rows, r)
      BY <3>2
    <3> HIDE DEF Last
    <3>5. Between(rows, r) \subseteq Between(rows', r)
      BY <1>1, <3>4
    <3> HIDE DEF Between
    <3>6. QED
      BY <1>1, <3>3, <3>4, <3>5
  <2>2. QED
    BY <2>1 DEF ChainHolds
<1>12. QED
  BY <1>6, <1>7, <1>8, <1>9, <1>10, <1>11 DEF IndInv

----------------------------------------------------------------------------
LEMMA NextKeeps == IndInv /\ [Next]_vars => IndInv'
<1>1. ASSUME IndInv, UNCHANGED vars
      PROVE  IndInv'
  <2>1. TypeOK' /\ NarratedFits'
    BY <1>1 DEF IndInv, TypeOK, NarratedFits, vars
  <2>2. ~up' => due' = {}
    BY <1>1 DEF IndInv, DueFits, vars
  <2>3. QED
    BY <1>1, <2>1, <2>2, QuietKeeps DEF vars, script
<1>2. QED
  BY <1>1, NextDayKeeps, StopOrStartKeeps, OpenKeeps, OtherTradesKeeps, CloseKeeps,
     FinalizeDayKeeps, HalveKeeps, RecordCloseKeeps, ReplayDayKeeps, FetchKeeps,
     ExamineKeeps, CommitKeeps, RollbackKeeps DEF Next

(* The inductive invariant holds through days, restarts, retried ends of a *)
(* day and both scripts of historical_reconciliation.py, for any bounds.   *)
THEOREM IndInvHolds == Spec => []IndInv
<1>1. Init => IndInv
  BY InitIndInv
<1>2. IndInv /\ [Next]_vars => IndInv'
  BY NextKeeps
<1>3. QED
  BY <1>1, <1>2, PTL DEF Spec

(* Type correctness of the rows, the broker's deals and the script.        *)
THEOREM TypeCorrect == Spec => []TypeOK
<1>1. IndInv => TypeOK
  BY DEF IndInv
<1>2. QED
  BY <1>1, IndInvHolds, PTL

(* The rows are the account's history: of this model's positions only, one *)
(* each unless the script came before the end of the day or the day ended  *)
(* twice, closed only with their position, and no closed position in the   *)
(* range of a committed reconcile_deals is left without a row or an event. *)
THEOREM HistoryIsTrueHolds == Spec => []HistoryIsTrue
<1>1. IndInv => HistoryIsTrue
  <2> SUFFICES ASSUME IndInv
               PROVE  HistoryIsTrue
    OBVIOUS
  <2>1. forgotten = {}
    BY DEF IndInv, ScriptFits
  <2>2. ASSUME NEW r \in rows
        PROVE  Mine(r.pos) /\ (r.status = "closed" => Left(r.pos) = 0)
    BY DEF IndInv, RowsFit
  <2>3. ASSUME NEW r \in rows, r.pos \notin early \cup again
        PROVE  ~ (Cardinality(RowsOf(r.pos)) > 1)
    <3>1. RowsOf(r.pos) = {r}
      BY <2>3 DEF IndInv, RowsFit, RowsOf
    <3>2. Cardinality({r}) = 1
      BY FS_Singleton
    <3>3. QED
      BY <3>1, <3>2
  <2>4. QED
    BY <2>1, <2>2, <2>3 DEF HistoryIsTrue
<1>2. QED
  BY <1>1, IndInvHolds, PTL

(* The equity of the runner's rows is one chain (get_current_equity): it   *)
(* begins anew from the balance only behind a row of the script.           *)
THEOREM ChainHoldsAlways == Spec => []ChainHolds
<1>1. IndInv => ChainHolds
  BY DEF IndInv
<1>2. QED
  BY <1>1, IndInvHolds, PTL
=============================================================================
