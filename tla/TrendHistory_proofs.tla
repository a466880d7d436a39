------------------------ MODULE TrendHistory_proofs ------------------------
(***************************************************************************)
(* Proofs about the daily trend: type correctness, the last swings that    *)
(* memory and journal share, the healing of a gate after a restart, and    *)
(* the agreement of the live verdict with the batch one, for every         *)
(* sequence of days and every value of the bounds.  The argument: a full   *)
(* window of days that were seen whole decides about its middle day what   *)
(* daily_trend_as_of() decides about it, days that are over decide nothing *)
(* new, and an event later than those in the journal is the new last one   *)
(* there as it is in the lists of the gate.                                *)
(***************************************************************************)
EXTENDS TrendHistory, FiniteSetTheorems, SequenceTheorems, WellFoundedInduction, TLAPS

\* A set of numbers up to n has a greatest one.
LEMMA TopExists ==
  ASSUME NEW n \in Nat, NEW S \in SUBSET (0..n), S # {}
  PROVE  \E x \in S : Top(x, S)
<1> DEFINE T == {n - x : x \in S}
<1>a. \A x \in S : n - x \in Nat
  OBVIOUS
<1>1. T \subseteq Nat /\ T # {}
  BY <1>a
<1>2. \E m \in T : \A y \in T : ~ (<<y, m>> \in OpToRel(<, Nat))
  BY <1>1, WFMin, NatLessThanWellFounded
<1>3. PICK m \in T : \A y \in T : ~ (y < m)
  BY <1>1, <1>2 DEF OpToRel
<1>4. PICK x \in S : m = n - x
  BY <1>3
<1>5. ASSUME NEW y \in S PROVE y <= x
  <2>1. n - y \in T /\ ~(n - y < m)
    BY <1>3
  <2>2. QED
    BY <1>4, <2>1
<1>6. QED
  BY <1>4, <1>5 DEF Top

\* Sequences of none, one and two.
LEMMA ShortSeqs ==
  ASSUME NEW S, NEW f
  PROVE  /\ f \in [1..0 -> S] => f = <<>>
         /\ \A a \in S : f \in [1..1 -> S] /\ f[1] = a => f = <<a>>
         /\ \A a, b \in S : f \in [1..2 -> S] /\ f[1] = a /\ f[2] = b => f = <<a, b>>
<1>1. \A n \in Nat : f \in [1..n -> S] => f \in Seq(S) /\ Len(f) = n
  BY SeqDef
<1>2. f \in [1..0 -> S] => f = <<>>
  BY <1>1, EmptySeq
<1>3. ASSUME NEW a \in S, f \in [1..1 -> S], f[1] = a PROVE f = <<a>>
  <2>1. f \in Seq(S) /\ Len(f) = 1
    BY <1>1, <1>3
  <2>2. <<a>> \in Seq(S) /\ Len(<<a>>) = 1 /\ <<a>>[1] = a
    OBVIOUS
  <2>3. \A i \in 1..Len(f) : f[i] = <<a>>[i]
    BY <1>3, <2>1, <2>2
  <2>4. QED
    BY <2>1, <2>2, <2>3, SeqEqual
<1>4. ASSUME NEW a \in S, NEW b \in S, f \in [1..2 -> S], f[1] = a, f[2] = b PROVE f = <<a, b>>
  <2>1. f \in Seq(S) /\ Len(f) = 2
    BY <1>1, <1>4
  <2>2. <<a, b>> \in Seq(S) /\ Len(<<a, b>>) = 2 /\ <<a, b>>[1] = a /\ <<a, b>>[2] = b
    OBVIOUS
  <2>3. \A i \in 1..Len(f) : f[i] = <<a, b>>[i]
    BY <1>4, <2>1, <2>2
  <2>4. QED
    BY <2>1, <2>2, <2>3, SeqEqual
<1>5. QED
  BY <1>2, <1>3, <1>4

\* A set of two.
LEMMA PairIs ==
  ASSUME NEW a, NEW b, a # b
  PROVE  IsFiniteSet({a, b}) /\ Cardinality({a, b}) = 2
<1>1. IsFiniteSet({b}) /\ Cardinality({b}) = 1
  BY FS_Singleton
<1>2. IsFiniteSet({b} \cup {a}) /\ Cardinality({b} \cup {a}) = Cardinality({b}) + 1
  BY <1>1, FS_AddElement
<1>3. {b} \cup {a} = {a, b}
  OBVIOUS
<1>4. QED
  BY <1>1, <1>2, <1>3

\* What the window of the last two events is, for each number of them.
LEMMA PricesNone == PricesOf({}) = <<>>
<1> DEFINE Later(e) == {o \in {} : o.day > e.day}
           recent == {e \in {} : Cardinality(Later(e)) < 2}
           Rank(e) == Cardinality(recent) - Cardinality(Later(e))
<1>1. PricesOf({}) = [k \in 1..Cardinality(recent) |-> (CHOOSE e \in recent : Rank(e) = k).price]
  BY DEF PricesOf
<1>2. recent = {}
  OBVIOUS
<1> HIDE DEF recent, Rank
<1>3. Cardinality(recent) = 0
  BY <1>2, FS_EmptySet
<1>4. PricesOf({}) \in [1..0 -> {0}]
  <2>1. 1..0 = {}
    OBVIOUS
  <2>2. QED
    BY <1>1, <1>3, <2>1
<1>5. QED
  BY <1>4, ShortSeqs

\* One event is the window of the last two.
LEMMA PricesOne ==
  ASSUME NEW e, e.day \in Int, e.price \in Int
  PROVE  PricesOf({e}) = <<e.price>>
<1> DEFINE Later(x) == {o \in {e} : o.day > x.day}
           recent == {x \in {e} : Cardinality(Later(x)) < 2}
           Rank(x) == Cardinality(recent) - Cardinality(Later(x))
<1>1. PricesOf({e}) = [k \in 1..Cardinality(recent) |-> (CHOOSE x \in recent : Rank(x) = k).price]
  BY DEF PricesOf
<1>2. Later(e) = {}
  OBVIOUS
<1>3. Cardinality(Later(e)) = 0
  BY <1>2, FS_EmptySet
<1> HIDE DEF Later
<1>4. recent = {e}
  BY <1>3
<1>5. Cardinality(recent) = 1
  BY <1>4, FS_Singleton
<1>6. Rank(e) = 1
  BY <1>3, <1>5
<1> HIDE DEF recent, Rank
<1>7. (CHOOSE x \in recent : Rank(x) = 1) = e
  BY <1>4, <1>6
<1>8. PricesOf({e}) = [k \in 1..1 |-> (CHOOSE x \in recent : Rank(x) = k).price]
  BY <1>1, <1>5
<1>9. PricesOf({e}) \in [1..1 -> Int] /\ PricesOf({e})[1] = e.price
  <2>1. 1..1 = {1}
    OBVIOUS
  <2>2. QED
    BY <1>7, <1>8, <2>1
<1>10. QED
  BY <1>9, ShortSeqs

\* Of two events or more the window holds the last two, in order.
LEMMA PricesTwo ==
  ASSUME NEW S, IsFiniteSet(S), \A o \in S : o.day \in Int /\ o.price \in Int,
         NEW e \in S, NEW f \in S, f.day < e.day, \A o \in S \ {e, f} : o.day < f.day
  PROVE  PricesOf(S) = <<f.price, e.price>>
<1> DEFINE Later(x) == {o \in S : o.day > x.day}
           recent == {x \in S : Cardinality(Later(x)) < 2}
           Rank(x) == Cardinality(recent) - Cardinality(Later(x))
<1>0. e # f
  <2>1. e.day \in Int /\ f.day \in Int /\ f.day < e.day
    OBVIOUS
  <2>2. QED
    BY <2>1
<1>1. PricesOf(S) = [k \in 1..Cardinality(recent) |-> (CHOOSE x \in recent : Rank(x) = k).price]
  BY DEF PricesOf
<1>2. Later(e) = {} /\ Later(f) = {e}
  OBVIOUS
<1>3. Cardinality(Later(e)) = 0 /\ Cardinality(Later(f)) = 1
  BY <1>2, FS_EmptySet, FS_Singleton
<1>4. ASSUME NEW o \in S \ {e, f} PROVE ~(Cardinality(Later(o)) < 2)
  <2>1. {e, f} \subseteq Later(o) /\ IsFiniteSet(Later(o))
    <3>1. Later(o) \subseteq S
      OBVIOUS
    <3>2. QED
      BY <3>1, FS_Subset
  <2>2. Cardinality({e, f}) = 2
    BY <1>0, PairIs
  <2> HIDE DEF Later
  <2>3. Cardinality({e, f}) <= Cardinality(Later(o)) /\ Cardinality(Later(o)) \in Nat
    BY <2>1, FS_Subset, FS_CardinalityType
  <2>4. QED
    BY <2>2, <2>3
<1> HIDE DEF Later
<1>5. recent = {e, f}
  BY <1>3, <1>4
<1>a. Cardinality({e, f}) = 2
  BY <1>0, PairIs
<1> HIDE DEF recent
<1>6. Cardinality(recent) = 2
  BY <1>a, <1>5
<1>7. Rank(e) = 2 /\ Rank(f) = 1
  BY <1>3, <1>6
<1> HIDE DEF Rank
<1>8. (CHOOSE x \in recent : Rank(x) = 1) = f /\ (CHOOSE x \in recent : Rank(x) = 2) = e
  <2>1. (CHOOSE x \in recent : Rank(x) = 1) \in recent /\ Rank(CHOOSE x \in recent : Rank(x) = 1) = 1
    BY <1>5, <1>7
  <2>2. (CHOOSE x \in recent : Rank(x) = 2) \in recent /\ Rank(CHOOSE x \in recent : Rank(x) = 2) = 2
    BY <1>5, <1>7
  <2>3. QED
    BY <2>1, <2>2, <1>5, <1>7
<1>9. PricesOf(S) = [k \in 1..2 |-> (CHOOSE x \in recent : Rank(x) = k).price]
  BY <1>1, <1>6
<1>10. PricesOf(S) \in [1..2 -> Int] /\ PricesOf(S)[1] = f.price /\ PricesOf(S)[2] = e.price
  <2>1. 1..2 = {1, 2}
    OBVIOUS
  <2>2. QED
    BY <1>8, <1>9, <2>1
<1>11. QED
  BY <1>10, ShortSeqs

\* The last event of a set of events of different days.
LEMMA TopDay ==
  ASSUME NEW S, NEW n \in Nat, S # {}, \A o \in S : o.day \in 0..n,
         \A o, p \in S : o.day = p.day => o = p
  PROVE  \E e \in S : \A o \in S \ {e} : o.day < e.day
<1> DEFINE T == {o.day : o \in S}
<1>1. T \in SUBSET (0..n) /\ T # {}
  OBVIOUS
<1>2. PICK x \in T : \A y \in T : y <= x
  BY <1>1, TopExists DEF Top
<1>3. PICK e \in S : e.day = x
  BY <1>2
<1>4. ASSUME NEW o \in S \ {e} PROVE o.day < e.day
  <2>1. o.day \in T /\ o.day \in Int /\ e.day \in Int
    OBVIOUS
  <2>2. o.day <= e.day /\ o.day # e.day
    BY <1>2, <1>3, <2>1
  <2>3. QED
    BY <2>1, <2>2
<1>5. QED
  BY <1>4

\* The three shapes of a set of events of different days.
LEMMA Shapes ==
  ASSUME NEW S, NEW n \in Nat, \A o \in S : o.day \in 0..n,
         \A o, p \in S : o.day = p.day => o = p
  PROVE  \/ S = {}
         \/ \E e \in S : S = {e}
         \/ \E e, f \in S : f.day < e.day /\ \A o \in S \ {e, f} : o.day < f.day
<1>1. SUFFICES ASSUME S # {}, \A e \in S : S # {e}
               PROVE  \E e, f \in S : f.day < e.day /\ \A o \in S \ {e, f} : o.day < f.day
  OBVIOUS
<1>2. PICK e \in S : \A o \in S \ {e} : o.day < e.day
  BY <1>1, TopDay
<1>3. S \ {e} # {} /\ \A o \in S \ {e} : o.day \in 0..n
  BY <1>1
<1>4. \A o, p \in S \ {e} : o.day = p.day => o = p
  OBVIOUS
<1>5. \E f \in S \ {e} : \A o \in (S \ {e}) \ {f} : o.day < f.day
  BY <1>3, <1>4, TopDay
<1>6. PICK f \in S \ {e} : \A o \in (S \ {e}) \ {f} : o.day < f.day
  BY <1>5
<1>7. QED
  BY <1>2, <1>6

\* Short sequences, one longer.
LEMMA AppendToNone ==
  ASSUME NEW a \in Int
  PROVE  Append(<<>>, a) = <<a>>
<1> DEFINE s == Append(<<>>, a)
           t == <<a>>
<1>0. <<>> \in Seq(Int) /\ Len(<<>>) = 0
  OBVIOUS
<1>1. s \in Seq(Int) /\ Len(s) = 1 /\ s[1] = a
  <2>1. \A q \in Seq(Int) : Append(q, a) \in Seq(Int) /\ Len(Append(q, a)) = Len(q) + 1
                            /\ Append(q, a)[Len(q) + 1] = a
    OBVIOUS
  <2>2. 0 + 1 = 1
    OBVIOUS
  <2>3. QED
    BY <1>0, <2>1, <2>2
<1>2. t \in Seq(Int) /\ Len(t) = 1 /\ t[1] = a
  OBVIOUS
<1> HIDE DEF s, t
<1>3. \A i \in 1..Len(s) : s[i] = t[i]
  <2>1. 1..1 = {1}
    OBVIOUS
  <2>2. QED
    BY <1>1, <1>2, <2>1
<1>4. s = t
  BY <1>1, <1>2, <1>3, SeqEqual
<1>5. QED
  BY <1>4 DEF s, t

\* One element, one more.
LEMMA AppendToOne ==
  ASSUME NEW a \in Int, NEW b \in Int
  PROVE  Append(<<a>>, b) = <<a, b>>
<1> DEFINE s == Append(<<a>>, b)
           t == <<a, b>>
<1>1. s \in Seq(Int) /\ t \in Seq(Int) /\ Len(s) = 2 /\ Len(t) = 2
  OBVIOUS
<1>2. s[1] = a /\ s[2] = b /\ t[1] = a /\ t[2] = b
  OBVIOUS
<1> HIDE DEF s, t
<1>3. \A i \in 1..Len(s) : s[i] = t[i]
  <2>1. 1..2 = {1, 2}
    OBVIOUS
  <2>2. QED
    BY <1>1, <1>2, <2>1
<1>4. s = t
  BY <1>1, <1>3, SeqEqual
<1>5. QED
  BY <1>4 DEF s, t

\* Two elements, one more.
LEMMA AppendToTwo ==
  ASSUME NEW a \in Int, NEW b \in Int, NEW c \in Int
  PROVE  Append(<<a, b>>, c) = <<a, b, c>>
<1> DEFINE s == Append(<<a, b>>, c)
           t == <<a, b, c>>
<1>1. s \in Seq(Int) /\ t \in Seq(Int) /\ Len(s) = 3 /\ Len(t) = 3
  OBVIOUS
<1>2. s[1] = a /\ s[2] = b /\ s[3] = c /\ t[1] = a /\ t[2] = b /\ t[3] = c
  OBVIOUS
<1> HIDE DEF s, t
<1>3. \A i \in 1..Len(s) : s[i] = t[i]
  <2>1. 1..3 = {1, 2, 3}
    OBVIOUS
  <2>2. QED
    BY <1>1, <1>2, <2>1
<1>4. s = t
  BY <1>1, <1>3, SeqEqual
<1>5. QED
  BY <1>4 DEF s, t

\* LastOf on sequences of one, two and three.
LEMMA LastOfOne ==
  ASSUME NEW a \in Int
  PROVE  LastOf(<<a>>, 2) = <<a>>
  BY DEF LastOf

\* Two are kept.
LEMMA LastOfTwo ==
  ASSUME NEW a \in Int, NEW b \in Int
  PROVE  LastOf(<<a, b>>, 2) = <<a, b>>
  BY DEF LastOf

\* Of three the last two are kept.
LEMMA LastOfThree ==
  ASSUME NEW a \in Int, NEW b \in Int, NEW c \in Int
  PROVE  LastOf(<<a, b, c>>, 2) = <<b, c>>
<1> DEFINE s == <<a, b, c>>
           u == SubSeq(s, 2, 3)
           t == <<b, c>>
<1>0. LastOf(s, 2) = SubSeq(s, 2, 3)
  <2>1. Len(s) = 3
    OBVIOUS
  <2> HIDE DEF s
  <2>2. ~(3 <= 2) /\ 3 - 2 + 1 = 2
    OBVIOUS
  <2>3. QED
    BY <2>1, <2>2 DEF LastOf
<1>1. u \in Seq(Int) /\ t \in Seq(Int) /\ Len(u) = 2 /\ Len(t) = 2
  OBVIOUS
<1>2. u[1] = b /\ u[2] = c /\ t[1] = b /\ t[2] = c
  OBVIOUS
<1> HIDE DEF u, t
<1>3. \A i \in 1..Len(u) : u[i] = t[i]
  <2>1. 1..2 = {1, 2}
    OBVIOUS
  <2>2. QED
    BY <1>1, <1>2, <2>1
<1>4. u = t
  BY <1>1, <1>3, SeqEqual
<1>5. QED
  BY <1>0, <1>4 DEF u, t

\* What LastOf does at length two.
LEMMA LastTwoOf ==
  ASSUME NEW s \in Seq(Int)
  PROVE  /\ Len(s) <= 2 => LastOf(s, 2) = s
         /\ Len(s) > 2 => LastOf(s, 2) = <<s[Len(s) - 1], s[Len(s)]>>
<1>1. Len(s) <= 2 => LastOf(s, 2) = s
  BY DEF LastOf
<1>2. ASSUME Len(s) > 2 PROVE LastOf(s, 2) = <<s[Len(s) - 1], s[Len(s)]>>
  <2> DEFINE t == SubSeq(s, Len(s) - 2 + 1, Len(s))
  <2>1. LastOf(s, 2) = t
    BY <1>2 DEF LastOf
  <2>2. Len(s) \in Nat /\ Len(s) - 2 + 1 \in 1..Len(s)
    BY <1>2
  <2>3. t \in Seq(Int) /\ Len(t) = 2
    BY <2>2
  <2>4. t[1] = s[Len(s) - 1] /\ t[2] = s[Len(s)]
    BY <2>2
  <2> DEFINE u == <<s[Len(s) - 1], s[Len(s)]>>
  <2>5. u \in Seq(Int) /\ Len(u) = 2 /\ u[1] = s[Len(s) - 1] /\ u[2] = s[Len(s)]
    BY <2>2
  <2> HIDE DEF t, u
  <2>6. \A i \in 1..Len(t) : t[i] = u[i]
    BY <2>3, <2>4, <2>5
  <2>7. t = u
    BY <2>3, <2>5, <2>6, SeqEqual
  <2>8. QED
    BY <2>1, <2>7 DEF u
<1>3. QED
  BY <1>1, <1>2

\* The last two of a longer sequence only take the last two of the shorter one.
LEMMA LastAppend ==
  ASSUME NEW s \in Seq(Int), NEW x \in Int
  PROVE  LastOf(Append(s, x), 2) = LastOf(Append(LastOf(s, 2), x), 2)
<1>1. CASE Len(s) <= 2
  BY <1>1, LastTwoOf
<1>2. CASE Len(s) > 2
  <2> DEFINE a == s[Len(s) - 1]
             b == s[Len(s)]
  <2>0. Len(s) \in Nat /\ a \in Int /\ b \in Int
    BY <1>2
  <2>1. LastOf(s, 2) = <<a, b>>
    BY <1>2, LastTwoOf
  <2>2. Append(s, x) \in Seq(Int) /\ Len(Append(s, x)) = Len(s) + 1
    OBVIOUS
  <2>3. Append(s, x)[Len(s)] = b /\ Append(s, x)[Len(s) + 1] = x
    BY <1>2
  <2> DEFINE u == Append(s, x)
  <2>4. u \in Seq(Int) /\ Len(u) = Len(s) + 1 /\ u[Len(s)] = b /\ u[Len(s) + 1] = x
    BY <2>2, <2>3
  <2> HIDE DEF u, a, b
  <2>5. LastOf(u, 2) = <<u[Len(u) - 1], u[Len(u)]>>
    <3>1. Len(u) > 2
      BY <1>2, <2>0, <2>4
    <3>2. QED
      BY <2>4, <3>1, LastTwoOf
  <2>6. Len(u) - 1 = Len(s)
    BY <2>0, <2>4
  <2>7. LastOf(u, 2) = <<b, x>>
    BY <2>4, <2>5, <2>6
  <2>8. Append(<<a, b>>, x) = <<a, b, x>> /\ LastOf(<<a, b, x>>, 2) = <<b, x>>
    BY <2>0, AppendToTwo, LastOfThree
  <2>9. QED
    BY <2>1, <2>7, <2>8 DEF u
<1>3. QED
  BY <1>1, <1>2

\* A later event is the new last price.
LEMMA PricesGrow ==
  ASSUME NEW S, IsFiniteSet(S), \A o \in S : o.day \in Nat /\ o.price \in Int,
         \A o, p \in S : o.day = p.day => o = p,
         NEW e, e.day \in Nat, e.price \in Int, \A o \in S : o.day < e.day
  PROVE  PricesOf(S \cup {e}) = LastOf(Append(PricesOf(S), e.price), 2)
<1>0. e \notin S
  OBVIOUS
<1>1. \A o \in S : o.day \in 0..e.day
  OBVIOUS
<1>2. CASE S = {}
  <2>1. PricesOf(S \cup {e}) = <<e.price>> /\ PricesOf(S) = <<>>
    <3>1. {} \cup {e} = {e} /\ e.day \in Int
      OBVIOUS
    <3>2. QED
      BY <1>2, <3>1, PricesNone, PricesOne
  <2>2. Append(<<>>, e.price) = <<e.price>> /\ LastOf(<<e.price>>, 2) = <<e.price>>
    BY AppendToNone, LastOfOne
  <2>3. QED
    BY <2>1, <2>2
<1>3. ASSUME NEW f \in S, S = {f} PROVE PricesOf(S \cup {e}) = LastOf(Append(PricesOf(S), e.price), 2)
  <2>1. PricesOf(S) = <<f.price>>
    BY <1>3, PricesOne
  <2>2. IsFiniteSet(S \cup {e}) /\ \A o \in S \cup {e} : o.day \in Int /\ o.price \in Int
    BY FS_AddElement
  <2>3. e \in S \cup {e} /\ f \in S \cup {e} /\ f.day < e.day
        /\ \A o \in (S \cup {e}) \ {e, f} : o.day < f.day
    BY <1>3
  <2> DEFINE U == S \cup {e}
  <2>4. PricesOf(U) = <<f.price, e.price>>
    <3> HIDE DEF U
    <3>1. e \in U /\ f \in U /\ IsFiniteSet(U) /\ (\A o \in U : o.day \in Int /\ o.price \in Int)
          /\ f.day < e.day /\ (\A o \in U \ {e, f} : o.day < f.day)
      BY <2>2, <2>3 DEF U
    <3>2. QED
      BY <3>1, PricesTwo
  <2>5. f.price \in Int /\ e.price \in Int
    OBVIOUS
  <2>6. Append(<<f.price>>, e.price) = <<f.price, e.price>>
        /\ LastOf(<<f.price, e.price>>, 2) = <<f.price, e.price>>
    BY <2>5, AppendToOne, LastOfTwo
  <2>7. QED
    BY <2>1, <2>4, <2>6
<1>4. ASSUME NEW f \in S, NEW g \in S, g.day < f.day, \A o \in S \ {f, g} : o.day < g.day
      PROVE  PricesOf(S \cup {e}) = LastOf(Append(PricesOf(S), e.price), 2)
  <2>1. PricesOf(S) = <<g.price, f.price>>
    <3>1. \A o \in S : o.day \in Int /\ o.price \in Int
      OBVIOUS
    <3>2. QED
      BY <1>4, <3>1, PricesTwo
  <2>2. IsFiniteSet(S \cup {e}) /\ \A o \in S \cup {e} : o.day \in Int /\ o.price \in Int
    BY FS_AddElement
  <2> DEFINE U == S \cup {e}
  <2>3. \A o \in U \ {e, f} : o.day < f.day
    <3>1. SUFFICES ASSUME NEW o \in S, o # f PROVE o.day < f.day
      OBVIOUS
    <3>2. o = g \/ o.day < g.day
      BY <1>4, <3>1
    <3>3. o.day \in Int /\ g.day \in Int /\ f.day \in Int
      OBVIOUS
    <3>4. QED
      BY <1>4, <3>2, <3>3
  <2>4. PricesOf(U) = <<f.price, e.price>>
    <3> HIDE DEF U
    <3>1. e \in U /\ f \in U /\ IsFiniteSet(U) /\ (\A o \in U : o.day \in Int /\ o.price \in Int)
          /\ f.day < e.day /\ (\A o \in U \ {e, f} : o.day < f.day)
      BY <2>2, <2>3 DEF U
    <3>2. QED
      BY <3>1, PricesTwo
  <2>5. g.price \in Int /\ f.price \in Int /\ e.price \in Int
    OBVIOUS
  <2>6. Append(<<g.price, f.price>>, e.price) = <<g.price, f.price, e.price>>
        /\ LastOf(<<g.price, f.price, e.price>>, 2) = <<f.price, e.price>>
    BY <2>5, AppendToTwo, LastOfThree
  <2>7. QED
    BY <2>1, <2>4, <2>6
<1>5. QED
  BY <1>1, <1>2, <1>3, <1>4, Shapes

\* The window of the last two is short, and of integers.
LEMMA PricesType ==
  ASSUME NEW S, IsFiniteSet(S), NEW n \in Nat, \A o \in S : o.day \in 0..n /\ o.price \in Int,
         \A o, p \in S : o.day = p.day => o = p
  PROVE  PricesOf(S) \in Seq(Int) /\ Len(PricesOf(S)) <= 2
<1>1. CASE S = {}
  <2>1. PricesOf(S) = <<>>
    BY <1>1, PricesNone
  <2>2. <<>> \in Seq(Int) /\ Len(<<>>) <= 2
    OBVIOUS
  <2>3. QED
    BY <2>1, <2>2
<1>2. ASSUME NEW e \in S, S = {e} PROVE PricesOf(S) \in Seq(Int) /\ Len(PricesOf(S)) <= 2
  <2>1. PricesOf(S) = <<e.price>> /\ e.price \in Int
    BY <1>2, PricesOne
  <2>2. QED
    BY <2>1
<1>3. ASSUME NEW e \in S, NEW f \in S, f.day < e.day, \A o \in S \ {e, f} : o.day < f.day
      PROVE  PricesOf(S) \in Seq(Int) /\ Len(PricesOf(S)) <= 2
  <2>1. \A o \in S : o.day \in Int /\ o.price \in Int
    OBVIOUS
  <2>2. PricesOf(S) = <<f.price, e.price>>
    BY <1>3, <2>1, PricesTwo
  <2>3. QED
    BY <2>1, <2>2
<1>4. QED
  BY <1>1, <1>2, <1>3, Shapes

\* Ranges and days seen.
LEMMA RangeEnds ==
  ASSUME TrendAssumption, NEW kind \in Kinds
  PROVE  /\ \A r \in Ranges : EndOf(kind, r) \in Int
         /\ \A x \in DaySeen : EndOf(kind, x) \in Int
<1>1. Ranges \subseteq [high : Int, low : Int]
  BY DEF TrendAssumption
<1>2. ASSUME NEW r \in Ranges PROVE EndOf(kind, r) \in Int
  <2>1. r.high \in Int /\ r.low \in Int
    BY <1>1
  <2>2. QED
    BY <2>1 DEF EndOf
<1>3. ASSUME NEW x \in DaySeen PROVE EndOf(kind, x) \in Int
  <2>1. x.high \in Int /\ x.low \in Int
    BY DEF DaySeen
  <2>2. QED
    BY <2>1 DEF EndOf
<1>4. QED
  BY <1>2, <1>3

\* What Append and Tail do to five.
LEMMA AppendIs ==
  ASSUME NEW S, NEW u \in Seq(S), NEW x \in S
  PROVE  /\ Append(u, x) \in Seq(S) /\ Len(Append(u, x)) = Len(u) + 1
         /\ Append(u, x)[Len(u) + 1] = x
         /\ \A k \in 1..Len(u) : Append(u, x)[k] = u[k]
  OBVIOUS

\* The first day leaves a full window.
LEMMA TailOfFive ==
  ASSUME NEW S, NEW w \in Seq(S), Len(w) = 5
  PROVE  Tail(w) \in Seq(S) /\ Len(Tail(w)) = 4 /\ \A k \in 1..4 : Tail(w)[k] = w[k + 1]
<1>1. w # <<>>
  <2>1. w = <<>> <=> Len(w) = 0
    BY EmptySeq
  <2>2. 5 # 0
    OBVIOUS
  <2>3. QED
    BY <2>1, <2>2
<1>2. Tail(w) \in Seq(S) /\ Len(Tail(w)) = Len(w) - 1 /\ \A k \in 1..Len(Tail(w)) : Tail(w)[k] = w[k + 1]
  BY <1>1, HeadTailProperties
<1>3. 5 - 1 = 4
  OBVIOUS
<1>4. QED
  BY <1>2, <1>3

\* The two days on either side.
LEMMA Around ==
  ASSUME NEW p \in Int
  PROVE  /\ \A k \in 1..5 : p - 3 + k \in (p - 2)..(p + 2)
         /\ \A j \in (p - 2)..(p + 2) : j - p + 3 \in 1..5 /\ p - 3 + (j - p + 3) = j
  OBVIOUS

\* v is w with x pushed into it.
Pushed(w, v, x) ==
  /\ Len(v) = (IF Len(w) < 5 THEN Len(w) + 1 ELSE 5)
  /\ v[Len(v)] = x
  /\ Len(w) < 5 => \A k \in 1..Len(w) : v[k] = w[k]
  /\ Len(w) = 5 => \A k \in 1..4 : v[k] = w[k + 1]

\* What Push does.
LEMMA PushIs ==
  ASSUME NEW S, NEW w \in Seq(S), Len(w) <= 5, NEW x \in S
  PROVE  Push(w, x) \in Seq(S) /\ Pushed(w, Push(w, x), x)
<1>1. CASE Len(w) < 5
  <2>1. Push(w, x) = Append(w, x)
    BY <1>1 DEF Push, PivotN
  <2>2. QED
    BY <1>1, <2>1 DEF Pushed
<1>2. CASE Len(w) = 5
  <2>1. Push(w, x) = Append(Tail(w), x)
    BY <1>2 DEF Push, PivotN
  <2>2. Tail(w) \in Seq(S) /\ Len(Tail(w)) = 4 /\ \A k \in 1..4 : Tail(w)[k] = w[k + 1]
    BY <1>2, TailOfFive
  <2> DEFINE u == Tail(w)
  <2>a. u \in Seq(S) /\ Len(u) = 4 /\ \A k \in 1..4 : u[k] = w[k + 1]
    BY <2>2
  <2> HIDE DEF u
  <2>3. Append(u, x) \in Seq(S) /\ Len(Append(u, x)) = 5 /\ Append(u, x)[5] = x
        /\ \A k \in 1..4 : Append(u, x)[k] = u[k]
    <3>0. \A q \in Seq(S) :
            /\ Append(q, x) \in Seq(S) /\ Len(Append(q, x)) = Len(q) + 1
            /\ Append(q, x)[Len(q) + 1] = x
            /\ \A k \in 1..Len(q) : Append(q, x)[k] = q[k]
      BY AppendIs
    <3>1. Append(u, x) \in Seq(S) /\ Len(Append(u, x)) = Len(u) + 1
      BY <2>a, <3>0, Zenon
    <3>2. Append(u, x)[Len(u) + 1] = x /\ \A k \in 1..Len(u) : Append(u, x)[k] = u[k]
      BY <2>a, <3>0, Zenon
    <3>3. 4 + 1 = 5
      OBVIOUS
    <3>4. QED
      BY <2>a, <3>1, <3>2, <3>3
  <2>4. Push(w, x) = Append(u, x)
    BY <2>1 DEF u
  <2>5. QED
    BY <1>2, <2>a, <2>3, <2>4 DEF Pushed
<1>a. Len(w) < 5 \/ Len(w) = 5
  OBVIOUS
<1>3. QED
  BY <1>1, <1>2, <1>a

\* The events of one kind that a window confirms.
LEMMA ConfirmedOf ==
  ASSUME NEW w, NEW kind \in Kinds
  PROVE  OfKind(Confirmed(w), kind) =
           IF Confirms(kind, w)
           THEN {[kind |-> kind, day |-> w[3].day, price |-> EndOf(kind, w[3])]} ELSE {}
<1>0. PivotN + 1 = 3
  BY DEF PivotN
<1>1. Confirmed(w) = (IF IsTop(w) THEN {[kind |-> "high", day |-> w[3].day, price |-> w[3].high]} ELSE {})
                \cup (IF IsBottom(w) THEN {[kind |-> "low", day |-> w[3].day, price |-> w[3].low]} ELSE {})
  BY <1>0 DEF Confirmed
<1>2. CASE kind = "high"
  BY <1>1, <1>2 DEF OfKind, Confirms, EndOf
<1>3. CASE kind = "low"
  BY <1>1, <1>3 DEF OfKind, Confirms, EndOf
<1>4. QED
  BY <1>2, <1>3 DEF Kinds

\* The events of a kind in a union.
LEMMA OfKinds ==
  ASSUME NEW A, NEW B, NEW kind
  PROVE  OfKind(A \cup B, kind) = OfKind(A, kind) \cup OfKind(B, kind)
  BY DEF OfKind

\* A day more: what is a swing stays one, and only the day of two days ago is new.
LEMMA SwingsGrow ==
  ASSUME TrendAssumption, days \in Seq(Ranges), NEW r \in Ranges, days' = Append(days, r),
         NEW kind \in Kinds
  PROVE  /\ \A i \in 0..(Len(days) - 1) : PriceOf(kind, i)' = PriceOf(kind, i)
         /\ SwingsOf(kind) \subseteq 0..(Len(days) - 3)
         /\ SwingsOf(kind)' \subseteq SwingsOf(kind) \cup {Len(days) - 2}
         /\ SwingsOf(kind) \subseteq SwingsOf(kind)'
<1>0. Len(days) \in Nat /\ Len(days') = Len(days) + 1
  OBVIOUS
<1>1. ASSUME NEW i \in 0..(Len(days) - 1) PROVE D(i)' = D(i)
  <2>1. i + 1 \in 1..Len(days)
    BY <1>0
  <2>2. Append(days, r)[i + 1] = days[i + 1]
    BY <2>1
  <2>3. QED
    BY <2>2 DEF D
<1>2. \A i \in 0..(Len(days) - 1) : PriceOf(kind, i)' = PriceOf(kind, i)
  BY <1>1 DEF PriceOf
<1>3. Pivots = 2..(Len(days) - 3) /\ Pivots' = 2..(Len(days) - 2)
  BY <1>0 DEF Pivots, PivotN
<1>4. SwingsOf(kind) \subseteq Pivots /\ SwingsOf(kind)' \subseteq Pivots'
  BY DEF SwingsOf, SwingHighs, SwingLows
<1>5. ASSUME NEW i \in Pivots
      PROVE  i \in SwingsOf(kind)' <=> i \in SwingsOf(kind)
  <2>1. i \in 0..(Len(days) - 1) /\ \A k \in Near(i) : k \in 0..(Len(days) - 1)
    <3>1. i \in Int /\ 2 <= i /\ i <= Len(days) - 3
      BY <1>0, <1>3
    <3>2. Near(i) = (i - 2)..(i + 2)
      BY DEF Near, PivotN
    <3>3. ASSUME NEW k \in Near(i) PROVE k \in 0..(Len(days) - 1)
      <4>1. k \in Int /\ i - 2 <= k /\ k <= i + 2
        BY <3>1, <3>2
      <4>2. QED
        BY <1>0, <3>1, <4>1
    <3>4. QED
      BY <1>0, <3>1, <3>3
  <2>2. D(i)' = D(i) /\ \A k \in Near(i) : D(k)' = D(k)
    BY <1>1, <2>1
  <2>3. i \in Pivots'
    BY <1>0, <1>3
  <2>4. i \in SwingHighs' <=> i \in SwingHighs
    BY <2>2, <2>3 DEF SwingHighs
  <2>5. i \in SwingLows' <=> i \in SwingLows
    BY <2>2, <2>3 DEF SwingLows
  <2>6. QED
    BY <2>4, <2>5 DEF SwingsOf
<1>6. SwingsOf(kind) \subseteq 0..(Len(days) - 3)
  <2>1. Pivots \subseteq 0..(Len(days) - 3)
    BY <1>0, <1>3
  <2>2. QED
    BY <1>4, <2>1
<1>7. SwingsOf(kind)' \subseteq SwingsOf(kind) \cup {Len(days) - 2}
  <2>1. ASSUME NEW i \in Pivots' PROVE i \in Pivots \/ i = Len(days) - 2
    <3>1. i \in Int /\ 2 <= i /\ i <= Len(days) - 2
      BY <1>0, <1>3
    <3>2. QED
      BY <1>0, <1>3, <3>1
  <2>2. QED
    BY <1>4, <1>5, <2>1
<1>8. SwingsOf(kind) \subseteq SwingsOf(kind)'
  BY <1>4, <1>5
<1>9. QED
  BY <1>2, <1>6, <1>7, <1>8

\* A full window that holds the last five days as they were confirms the day in its middle.
LEMMA MiddleDay ==
  ASSUME TrendAssumption, days' \in Seq(Ranges), NEW w \in Seq(DaySeen), Len(w) = 5,
         NEW p \in Nat, Len(days') = p + 3, p >= 2,
         \A k \in DOMAIN w : w[k].day = p - 3 + k,
         \A k \in DOMAIN w, kind \in Kinds : EndOf(kind, w[k]) = PriceOf(kind, w[k].day)',
         NEW kind \in Kinds
  PROVE  /\ p \in SwingsOf(kind)' <=> Confirms(kind, w)
         /\ EndOf(kind, w[3]) = PriceOf(kind, p)'
<1>0. p \in Int /\ DOMAIN w = 1..5 /\ 3 \in DOMAIN w /\ Len(days') \in Nat
  OBVIOUS
<1>1. \A k \in 1..5 : w[k].day = p - 3 + k
  BY <1>0
<1>2. ASSUME NEW k \in 1..5
      PROVE  w[k].high = D(p - 3 + k)'.high /\ w[k].low = D(p - 3 + k)'.low
  <2>1. EndOf("high", w[k]) = PriceOf("high", p - 3 + k)' /\ EndOf("low", w[k]) = PriceOf("low", p - 3 + k)'
    BY <1>0, <1>1 DEF Kinds
  <2>2. QED
    BY <2>1 DEF EndOf, PriceOf
<1>3. p - 3 + 3 = p
  BY <1>0
<1>4. w[3].high = D(p)'.high /\ w[3].low = D(p)'.low
  BY <1>2, <1>3
<1>5. p \in Pivots' /\ Near(p) = (p - 2)..(p + 2)
  BY <1>0 DEF Pivots, PivotN, Near
<1>6. IsTop(w) <=> \A k \in 1..5 : w[k].high <= w[3].high
  BY <1>0 DEF IsTop, PivotN
<1>7. IsBottom(w) <=> \A k \in 1..5 : w[k].low >= w[3].low
  BY <1>0 DEF IsBottom, PivotN
<1>8. \A j \in Near(p) : j - p + 3 \in 1..5 /\ p - 3 + (j - p + 3) = j
  BY <1>0, <1>5, Around
<1>9. \A k \in 1..5 : p - 3 + k \in Near(p)
  BY <1>0, <1>5, Around
<1>10. p \in SwingHighs' <=> IsTop(w)
  <2>1. ASSUME p \in SwingHighs' PROVE IsTop(w)
    <3>1. \A j \in Near(p) : D(j)'.high <= D(p)'.high
      BY <2>1 DEF SwingHighs
    <3>2. QED
      BY <1>2, <1>4, <1>6, <1>9, <3>1
  <2>2. ASSUME IsTop(w) PROVE p \in SwingHighs'
    <3>1. ASSUME NEW j \in Near(p) PROVE D(j)'.high <= D(p)'.high
      <4>1. j - p + 3 \in 1..5 /\ p - 3 + (j - p + 3) = j
        BY <1>8
      <4>2. w[j - p + 3].high = D(j)'.high
        BY <1>2, <4>1
      <4>3. w[j - p + 3].high <= w[3].high
        BY <1>6, <2>2, <4>1
      <4>4. QED
        BY <1>4, <4>2, <4>3
    <3>2. QED
      BY <1>5, <3>1 DEF SwingHighs
  <2>3. QED
    BY <2>1, <2>2
<1>11. p \in SwingLows' <=> IsBottom(w)
  <2>1. ASSUME p \in SwingLows' PROVE IsBottom(w)
    <3>1. \A j \in Near(p) : D(j)'.low >= D(p)'.low
      BY <2>1 DEF SwingLows
    <3>2. QED
      BY <1>2, <1>4, <1>7, <1>9, <3>1
  <2>2. ASSUME IsBottom(w) PROVE p \in SwingLows'
    <3>1. ASSUME NEW j \in Near(p) PROVE D(j)'.low >= D(p)'.low
      <4>1. j - p + 3 \in 1..5 /\ p - 3 + (j - p + 3) = j
        BY <1>8
      <4>2. w[j - p + 3].low = D(j)'.low
        BY <1>2, <4>1
      <4>3. w[j - p + 3].low >= w[3].low
        BY <1>7, <2>2, <4>1
      <4>4. QED
        BY <1>4, <4>2, <4>3
    <3>2. QED
      BY <1>5, <3>1 DEF SwingLows
  <2>3. QED
    BY <2>1, <2>2
<1>12. p \in SwingsOf(kind)' <=> Confirms(kind, w)
  BY <1>10, <1>11 DEF SwingsOf, Confirms
<1>13. EndOf(kind, w[3]) = PriceOf(kind, p)'
  BY <1>4 DEF EndOf, PriceOf
<1>14. QED
  BY <1>12, <1>13

----------------------------------------------------------------------------
\* What the days alone decide stays with the days.
LEMMA SameDays ==
  ASSUME days' = days
  PROVE  /\ SwingEvents' = SwingEvents
         /\ \A kind \in Kinds : SwingsOf(kind)' = SwingsOf(kind)
         /\ \A kind \in Kinds : \A i : PriceOf(kind, i)' = PriceOf(kind, i)
<1>1. \A i : D(i)' = D(i)
  BY DEF D
<1>2. Pivots' = Pivots
  BY DEF Pivots
<1>3. SwingHighs' = SwingHighs /\ SwingLows' = SwingLows
  BY <1>1, <1>2 DEF SwingHighs, SwingLows
<1>4. SwingEvents' = SwingEvents
  BY <1>1, <1>3 DEF SwingEvents
<1>5. \A kind \in Kinds : SwingsOf(kind)' = SwingsOf(kind)
  BY <1>3 DEF SwingsOf
<1>6. \A kind \in Kinds : \A i : PriceOf(kind, i)' = PriceOf(kind, i)
  BY <1>1 DEF PriceOf
<1>7. QED
  BY <1>4, <1>5, <1>6

\* Before the first start nothing is known and nothing is journaled.
LEMMA InitIndInv ==
  ASSUME TrendAssumption, Init
  PROVE  IndInv
<1>0. /\ days = History /\ window = <<>> /\ gateHighs = <<>> /\ gateLows = <<>>
      /\ journal = {} /\ marker = FALSE /\ pc = "down" /\ startedAt = 0
      /\ starts = 0 /\ lost = 0 /\ fedFrom = 0 /\ clean = TRUE
  BY DEF Init
<1>1. History \in Seq(Ranges) /\ Len(History) <= MaxDays /\ MaxStarts \in Nat /\ MaxLost \in Nat
  BY DEF TrendAssumption
<1>a. <<>> \in Seq(DaySeen) /\ <<>> \in Seq(Int) /\ Len(<<>>) = 0 /\ DOMAIN <<>> = {}
  <2>1. 1..0 = {}
    OBVIOUS
  <2>2. QED
    BY <2>1
<1>2. TypeOK
  <2>1. days \in Seq(Ranges) /\ Len(days) <= MaxDays /\ Len(days) \in Nat
    BY <1>0, <1>1
  <2>2. window \in Seq(DaySeen) /\ Len(window) <= 2 * PivotN + 1 /\ gateHighs \in Seq(Int) /\ gateLows \in Seq(Int)
    BY <1>0, <1>a DEF PivotN
  <2>3. journal \subseteq Swing /\ IsFiniteSet(journal)
    BY <1>0, FS_EmptySet
  <2>4. starts \in 0..MaxStarts /\ lost \in 0..MaxLost /\ fedFrom \in 0..Len(days) /\ startedAt \in 0..Len(days)
    BY <1>0, <1>1, <2>1
  <2>5. marker \in BOOLEAN /\ clean \in BOOLEAN /\ pc \in {"down", "marking", "seeding", "up", "ending"}
    BY <1>0
  <2>6. QED
    BY <2>1, <2>2, <2>3, <2>4, <2>5 DEF TypeOK
<1>3. PlacesFit /\ WindowFits /\ WindowTrue /\ GateFits /\ GateJournaled
  BY <1>0 DEF PlacesFit, WindowFits, WindowTrue, GateFits, GateJournaled
<1>4. OneRange
  BY <1>0, <1>a DEF OneRange
<1>5. JournalFits
  BY <1>0 DEF JournalFits
<1>6. QED
  BY <1>2, <1>3, <1>4, <1>5 DEF IndInv

\* A crash empties memory; the journal stays what it was.
LEMMA CrashKeeps ==
  ASSUME TrendAssumption, IndInv, Crash
  PROVE  IndInv'
<1>0. /\ TypeOK /\ OneRange /\ JournalFits
  BY DEF IndInv
<1>1. /\ pc' = "down" /\ window' = <<>> /\ gateHighs' = <<>> /\ gateLows' = <<>>
      /\ days' = days /\ journal' = journal /\ marker' = marker /\ startedAt' = startedAt
      /\ starts' = starts /\ lost' = lost /\ fedFrom' = fedFrom /\ clean' = clean
  BY DEF Crash
<1>a. <<>> \in Seq(DaySeen) /\ <<>> \in Seq(Int) /\ Len(<<>>) = 0 /\ DOMAIN <<>> = {}
  <2>1. 1..0 = {}
    OBVIOUS
  <2>2. QED
    BY <2>1
<1>2. TypeOK'
  <2>1. window' \in Seq(DaySeen) /\ Len(window') <= 2 * PivotN + 1 /\ gateHighs' \in Seq(Int) /\ gateLows' \in Seq(Int)
    BY <1>1, <1>a DEF PivotN
  <2>2. pc' \in {"down", "marking", "seeding", "up", "ending"}
    BY <1>1
  <2>3. QED
    BY <1>0, <1>1, <2>1, <2>2 DEF TypeOK
<1>3. PlacesFit' /\ WindowFits' /\ WindowTrue' /\ GateFits' /\ GateJournaled'
  BY <1>1 DEF PlacesFit, WindowFits, WindowTrue, GateFits, GateJournaled
<1>4. OneRange'
  BY <1>0, <1>1, <1>a DEF OneRange, EndOf
<1>5. JournalFits'
  <2>1. ASSUME lost = 0, NEW e \in journal PROVE e.day + PivotN + 0 < Len(days)
    <3>1. e.day + PivotN + (IF pc = "ending" THEN 1 ELSE 0) < Len(days)
      BY <1>0, <2>1 DEF JournalFits
    <3>2. e.day \in Nat /\ Len(days) \in Nat /\ PivotN = 2
      BY <1>0 DEF TypeOK, Swing, PivotN
    <3>3. QED
      BY <3>1, <3>2
  <2>2. PivotN' = PivotN
    BY DEF PivotN
  <2>3. QED
    BY <1>1, <2>1, <2>2 DEF JournalFits
<1>6. QED
  BY <1>2, <1>3, <1>4, <1>5 DEF IndInv

\* The marker changes nothing that the invariant speaks of but where the process is.
LEMMA MarkBootstrappedKeeps ==
  ASSUME TrendAssumption, IndInv, MarkBootstrapped
  PROVE  IndInv'
<1>0. /\ TypeOK /\ PlacesFit /\ WindowFits /\ WindowTrue /\ OneRange /\ JournalFits
  BY DEF IndInv
<1>1. /\ pc = "marking" /\ marker' = TRUE /\ pc' = "seeding"
      /\ days' = days /\ window' = window /\ gateHighs' = gateHighs /\ gateLows' = gateLows
      /\ journal' = journal /\ startedAt' = startedAt /\ starts' = starts /\ lost' = lost
      /\ fedFrom' = fedFrom /\ clean' = clean
  BY DEF MarkBootstrapped
<1>2. TypeOK'
  BY <1>0, <1>1 DEF TypeOK
<1>3. PlacesFit'
  <2>1. SwingEvents' = SwingEvents
    BY <1>1, SameDays
  <2>2. QED
    BY <1>0, <1>1, <2>1 DEF PlacesFit
<1>4. WindowFits'
  BY <1>0, <1>1 DEF WindowFits
<1>5. WindowTrue'
  BY <1>0, <1>1, SameDays DEF WindowTrue, EndOf
<1>6. OneRange'
  BY <1>0, <1>1 DEF OneRange, EndOf
<1>7. GateFits' /\ GateJournaled'
  BY <1>1 DEF GateFits, GateJournaled
<1>8. JournalFits'
  BY <1>0, <1>1 DEF JournalFits
<1>9. QED
  BY <1>2, <1>3, <1>4, <1>5, <1>6, <1>7, <1>8 DEF IndInv

\* A start without bootstrap begins with an empty window, fed from today on.
LEMMA SkipBootstrapKeeps ==
  ASSUME TrendAssumption, IndInv, SkipBootstrap
  PROVE  IndInv'
<1>0. /\ TypeOK /\ PlacesFit /\ OneRange /\ JournalFits
  BY DEF IndInv
<1>1. /\ pc = "down" /\ starts < MaxStarts /\ pc' = "seeding" /\ starts' = starts + 1
      /\ startedAt' = Len(days) /\ fedFrom' = Len(days) /\ clean' = TRUE
      /\ days' = days /\ window' = window /\ gateHighs' = gateHighs /\ gateLows' = gateLows
      /\ journal' = journal /\ lost' = lost
  BY DEF SkipBootstrap
<1>b. marker' \in BOOLEAN
  <2>1. marker' \in (IF ~marker /\ journal # {} THEN {TRUE} ELSE {marker}) /\ marker \in BOOLEAN
    BY <1>0 DEF SkipBootstrap, TypeOK
  <2>2. QED
    BY <2>1
<1>2. window = <<>>
  BY <1>0, <1>1 DEF PlacesFit
<1>a. Len(<<>>) = 0 /\ DOMAIN <<>> = {}
  <2>1. 1..0 = {}
    OBVIOUS
  <2>2. QED
    BY <2>1
<1>3. TypeOK'
  <2>1. starts' \in 0..MaxStarts
    <3>1. starts \in 0..MaxStarts /\ MaxStarts \in Nat
      BY <1>0 DEF TypeOK, TrendAssumption
    <3>2. QED
      BY <1>1, <3>1
  <2>2. startedAt' \in 0..Len(days') /\ fedFrom' \in 0..Len(days')
    BY <1>0, <1>1 DEF TypeOK
  <2>3. QED
    BY <1>0, <1>1, <1>b, <2>1, <2>2 DEF TypeOK
<1>4. PlacesFit'
  BY <1>1 DEF PlacesFit
<1>5. WindowFits' /\ WindowTrue'
  <2>1. DOMAIN window' = {} /\ Len(window') = 0
    BY <1>1, <1>2, <1>a
  <2>2. Len(days') - fedFrom' = 0 /\ 2 * PivotN + 1 = 5
    BY <1>0, <1>1 DEF TypeOK, PivotN
  <2>3. (2 * PivotN + 1)' = 2 * PivotN + 1
    BY DEF PivotN
  <2>4. WindowFits'
    BY <2>1 DEF WindowFits
  <2>5. WindowTrue'
    BY <2>1, <2>2, <2>3 DEF WindowTrue
  <2>6. QED
    BY <2>4, <2>5
<1>6. OneRange'
  BY <1>0, <1>1 DEF OneRange, EndOf
<1>7. GateFits' /\ GateJournaled'
  BY <1>1 DEF GateFits, GateJournaled
<1>8. JournalFits'
  BY <1>0, <1>1 DEF JournalFits
<1>9. QED
  BY <1>3, <1>4, <1>5, <1>6, <1>7, <1>8 DEF IndInv

\* A day missed moves the end of the days away from the journal.
LEMMA DayMissedKeeps ==
  ASSUME TrendAssumption, IndInv, DayMissed
  PROVE  IndInv'
<1>0. /\ TypeOK /\ PlacesFit /\ OneRange /\ JournalFits
  BY DEF IndInv
<1>1. /\ pc = "down" /\ Len(days) < MaxDays
      /\ window' = window /\ gateHighs' = gateHighs /\ gateLows' = gateLows
      /\ journal' = journal /\ marker' = marker /\ pc' = pc /\ startedAt' = startedAt
      /\ starts' = starts /\ lost' = lost /\ fedFrom' = fedFrom /\ clean' = clean
  BY DEF DayMissed
<1>2. PICK r \in Ranges : days' = Append(days, r)
  BY DEF DayMissed
<1>3. days \in Seq(Ranges) /\ Len(days) \in Nat /\ days' \in Seq(Ranges) /\ Len(days') = Len(days) + 1
  <2>1. days \in Seq(Ranges)
    BY <1>0 DEF TypeOK
  <2>2. QED
    BY <1>2, <2>1
<1>4. TypeOK'
  <2>1. Len(days') <= MaxDays /\ fedFrom' \in 0..Len(days') /\ startedAt' \in 0..Len(days')
    <3>1. fedFrom \in 0..Len(days) /\ startedAt \in 0..Len(days) /\ MaxDays \in Nat
      BY <1>0 DEF TypeOK, TrendAssumption
    <3>2. QED
      BY <1>1, <1>3, <3>1
  <2>2. QED
    BY <1>0, <1>1, <1>3, <2>1 DEF TypeOK
<1>5. PlacesFit' /\ WindowFits' /\ WindowTrue' /\ GateFits' /\ GateJournaled'
  <2>1. PlacesFit'
    BY <1>0, <1>1 DEF PlacesFit
  <2>2. QED
    BY <1>1, <2>1 DEF WindowFits, WindowTrue, GateFits, GateJournaled
<1>6. OneRange'
  <2>1. \A e \in journal : e.day \in Nat
    BY <1>0 DEF TypeOK, Swing
  <2>2. window = <<>> /\ DOMAIN <<>> = {}
    <3>1. 1..0 = {}
      OBVIOUS
    <3>2. QED
      BY <1>0, <1>1, <3>1 DEF PlacesFit
  <2>3. \A e \in journal' : e.day < Len(days')
    <3>1. \A e \in journal : e.day < Len(days)
      BY <1>0 DEF OneRange
    <3>2. QED
      BY <1>1, <1>3, <2>1, <3>1
  <2>4. QED
    BY <1>0, <1>1, <2>2, <2>3 DEF OneRange
<1>7. JournalFits'
  <2>1. ASSUME lost = 0, NEW e \in journal PROVE e.day + PivotN + 0 < Len(days')
    <3>1. e.day + PivotN + 0 < Len(days)
      BY <1>0, <1>1, <2>1 DEF JournalFits
    <3>2. e.day \in Nat /\ PivotN = 2
      BY <1>0 DEF TypeOK, Swing, PivotN
    <3>3. QED
      BY <1>3, <3>1, <3>2
  <2>2. PivotN' = PivotN
    BY DEF PivotN
  <2>3. QED
    BY <1>1, <2>1, <2>2 DEF JournalFits
<1>8. QED
  BY <1>4, <1>5, <1>6, <1>7 DEF IndInv

----------------------------------------------------------------------------
\* The events of one kind in the journal are one a day.
LEMMA JournalOfKind ==
  ASSUME TypeOK, OneRange, NEW kind \in Kinds
  PROVE  LET E == OfKind(journal, kind)
         IN  /\ IsFiniteSet(E)
             /\ \A o \in E : o.day \in 0..Len(days) /\ o.day \in Nat /\ o.price \in Int
             /\ \A o, p \in E : o.day = p.day => o = p
             /\ PricesOf(E) \in Seq(Int) /\ Len(PricesOf(E)) <= 2
<1> DEFINE E == OfKind(journal, kind)
<1>1. IsFiniteSet(E)
  <2>1. E \subseteq journal /\ IsFiniteSet(journal)
    BY DEF OfKind, TypeOK
  <2>2. QED
    BY <2>1, FS_Subset
<1>2. \A o \in E : o.day \in 0..Len(days) /\ o.day \in Nat /\ o.price \in Int
  <2>1. ASSUME NEW o \in E PROVE o.day \in 0..Len(days) /\ o.day \in Nat /\ o.price \in Int
    <3>1. o \in journal /\ o \in Swing /\ Len(days) \in Nat
      BY DEF OfKind, TypeOK
    <3>2. o.day < Len(days)
      BY <3>1 DEF OneRange
    <3>3. QED
      BY <3>1, <3>2 DEF Swing
  <2>2. QED
    BY <2>1
<1>3. \A o, p \in E : o.day = p.day => o = p
  BY DEF OfKind, OneRange
<1>4. Len(days) \in Nat
  BY DEF TypeOK
<1> HIDE DEF E
<1>5. PricesOf(E) \in Seq(Int) /\ Len(PricesOf(E)) <= 2
  BY <1>1, <1>2, <1>3, <1>4, PricesType
<1>6. QED
  BY <1>1, <1>2, <1>3, <1>5 DEF E

\* The prices of the swings of the days.
LEMMA PricesAreInt ==
  ASSUME TrendAssumption, days \in Seq(Ranges), NEW kind \in Kinds
  PROVE  /\ SwingsOf(kind) \subseteq 0..Len(days)
         /\ \A i \in SwingsOf(kind) : i \in Nat /\ PriceOf(kind, i) \in Int
         /\ \A i \in 0..(Len(days) - 1) : PriceOf(kind, i) \in Int
         /\ \A i \in SwingsOf(kind) : i + 2 < Len(days)
<1>1. Len(days) \in Nat
  OBVIOUS
<1>2. Pivots = 2..(Len(days) - 3)
  BY <1>1 DEF Pivots, PivotN
<1>3. SwingsOf(kind) \subseteq 2..(Len(days) - 3)
  BY <1>2 DEF SwingsOf, SwingHighs, SwingLows
<1>4. ASSUME NEW i \in 0..(Len(days) - 1) PROVE PriceOf(kind, i) \in Int
  <2>1. i + 1 \in 1..Len(days)
    BY <1>1
  <2>2. days[i + 1] \in Ranges
    BY <2>1
  <2>3. QED
    BY <2>2, RangeEnds DEF PriceOf, D
<1>5. ASSUME NEW i \in 2..(Len(days) - 3)
      PROVE  i \in 0..Len(days) /\ i \in 0..(Len(days) - 1) /\ i \in Nat /\ i + 2 < Len(days)
  BY <1>1
<1>6. QED
  BY <1>3, <1>4, <1>5

\* Journaled all at once, the swings are read back as they are.
LEMMA SeededEnds ==
  ASSUME TrendAssumption, days \in Seq(Ranges), NEW kind \in Kinds
  PROVE  Ends(PricesOf(OfKind(SwingEvents, kind)), kind, SwingsOf(kind))
<1> DEFINE S == SwingsOf(kind)
           Ev(i) == [kind |-> kind, day |-> i, price |-> PriceOf(kind, i)]
           E == {Ev(i) : i \in S}
<1>1. OfKind(SwingEvents, kind) = E
  <2>1. CASE kind = "high"
    BY <2>1 DEF OfKind, SwingEvents, SwingsOf, PriceOf, EndOf
  <2>2. CASE kind = "low"
    BY <2>2 DEF OfKind, SwingEvents, SwingsOf, PriceOf, EndOf
  <2>3. QED
    BY <2>1, <2>2 DEF Kinds
<1>2. /\ S \subseteq 0..Len(days) /\ Len(days) \in Nat
      /\ \A i \in S : i \in Nat /\ PriceOf(kind, i) \in Int
  BY PricesAreInt
<1>3. IsFiniteSet(E)
  <2>1. IsFiniteSet(0..Len(days))
    BY <1>2, FS_Interval
  <2>2. IsFiniteSet(S)
    BY <1>2, <2>1, FS_Subset
  <2> HIDE DEF S
  <2> DEFINE f == [i \in S |-> Ev(i)]
  <2>3. f \in [S -> E] /\ \A e \in E : \E i \in S : f[i] = e
    OBVIOUS
  <2>4. f \in Surjection(S, E)
    BY <2>3 DEF Surjection
  <2>5. QED
    BY <2>2, <2>4, FS_Surjection
<1> HIDE DEF S
<1>4. \A i \in S : Ev(i).day = i /\ Ev(i).price = PriceOf(kind, i)
  OBVIOUS
<1> HIDE DEF Ev
<1>5. \A o \in E : o.day \in Int /\ o.price \in Int
  BY <1>2, <1>4
<1> DEFINE g == PricesOf(E)
<1>6. SUFFICES ASSUME NEW i \in S, Top(i, S)
      PROVE  /\ Len(g) >= 1 /\ g[Len(g)] = PriceOf(kind, i)
             /\ \A j \in S : Top(j, S \ {i}) => Len(g) >= 2 /\ g[Len(g) - 1] = PriceOf(kind, j)
  BY <1>1 DEF Ends, S
<1>7. CASE S = {i}
  <2>1. E = {Ev(i)}
    BY <1>7
  <2>2. g = <<PriceOf(kind, i)>>
    <3>1. Ev(i).day \in Int /\ Ev(i).price \in Int
      BY <1>2, <1>4
    <3>2. PricesOf({Ev(i)}) = <<Ev(i).price>>
      BY <3>1, PricesOne
    <3>3. QED
      BY <1>4, <2>1, <3>2
  <2> HIDE DEF g
  <2>3. Len(g) = 1 /\ g[1] = PriceOf(kind, i)
    BY <2>2
  <2>4. \A j : ~Top(j, S \ {i})
    BY <1>7 DEF Top
  <2>5. Len(g) >= 1 /\ g[Len(g)] = PriceOf(kind, i)
    BY <2>3
  <2>6. QED
    BY <2>4, <2>5, Zenon
<1>8. CASE S # {i}
  <2>1. S \ {i} # {} /\ S \ {i} \in SUBSET (0..Len(days))
    BY <1>2, <1>8
  <2>2. PICK m \in S \ {i} : Top(m, S \ {i})
    BY <1>2, <2>1, TopExists
  <2>3. m < i
    <3>1. m <= i /\ m # i /\ m \in Int /\ i \in Int
      BY <1>2, <1>6, <2>2 DEF Top
    <3>2. QED
      BY <3>1
  <2>4. \A k \in S \ {i, m} : k < m
    <3>1. SUFFICES ASSUME NEW k \in S \ {i, m} PROVE k < m
      OBVIOUS
    <3>2. k <= m /\ k # m /\ k \in Int /\ m \in Int
      BY <1>2, <2>2 DEF Top
    <3>3. QED
      BY <3>2
  <2>5. Ev(i) \in E /\ Ev(m) \in E /\ Ev(m).day < Ev(i).day
    BY <1>4, <2>3
  <2>6. \A o \in E \ {Ev(i), Ev(m)} : o.day < Ev(m).day
    BY <1>4, <2>4
  <2>7. g = <<Ev(m).price, Ev(i).price>>
    <3> HIDE DEF E
    <3>1. QED
      BY <1>3, <1>5, <2>5, <2>6, PricesTwo
  <2>8. g = <<PriceOf(kind, m), PriceOf(kind, i)>>
    BY <1>4, <2>7
  <2> HIDE DEF g
  <2>9. Len(g) = 2 /\ g[2] = PriceOf(kind, i) /\ g[2 - 1] = PriceOf(kind, m)
    <3>1. Len(g) = 2 /\ g[2] = PriceOf(kind, i) /\ g[1] = PriceOf(kind, m)
      BY <2>8
    <3>2. 2 - 1 = 1
      OBVIOUS
    <3>3. QED
      BY <3>1, <3>2
  <2>10. ASSUME NEW j \in S, Top(j, S \ {i}) PROVE j = m
    <3>1. j <= m /\ m <= j /\ j \in Int /\ m \in Int
      BY <1>2, <2>2, <2>10 DEF Top
    <3>2. QED
      BY <3>1
  <2>11. Len(g) >= 1 /\ g[Len(g)] = PriceOf(kind, i) /\ Len(g) >= 2 /\ g[Len(g) - 1] = PriceOf(kind, m)
    BY <2>9
  <2>12. QED
    BY <2>10, <2>11, Zenon
<1>9. QED
  BY <1>7, <1>8

\* What holds of the last swings holds of the last swings from a day on.
LEMMA EndsFed ==
  ASSUME NEW gate, NEW kind, NEW S \in SUBSET Int, NEW m \in Int, Ends(gate, kind, S)
  PROVE  Ends(gate, kind, {i \in S : i - PivotN >= m})
<1> DEFINE T == {i \in S : i - PivotN >= m}
<1>0. PivotN = 2
  BY DEF PivotN
<1>1. SUFFICES ASSUME NEW i \in T, Top(i, T)
      PROVE  /\ Len(gate) >= 1 /\ gate[Len(gate)] = PriceOf(kind, i)
             /\ \A j \in T : Top(j, T \ {i}) =>
                  Len(gate) >= 2 /\ gate[Len(gate) - 1] = PriceOf(kind, j)
  BY DEF Ends
<1>2. ASSUME NEW k \in S, NEW t \in T, ~(k <= t) PROVE k \in T
  <2>1. k \in Int /\ t \in Int /\ t - 2 >= m
    BY <1>0
  <2>2. k - 2 >= m
    BY <1>2, <2>1
  <2>3. QED
    BY <1>0, <2>2
<1>3. Top(i, S)
  BY <1>1, <1>2 DEF Top
<1>4. ASSUME NEW j \in T, Top(j, T \ {i}) PROVE Top(j, S \ {i})
  BY <1>2, <1>4 DEF Top
<1> HIDE DEF T
<1>5. T \subseteq S
  BY DEF T
<1>6. QED
  BY <1>3, <1>4, <1>5 DEF Ends

\* Seeding makes the lists of the gate what the journal holds.
LEMMA SeedTrendHistoryKeeps ==
  ASSUME TrendAssumption, IndInv, SeedTrendHistory
  PROVE  IndInv'
<1>0. /\ TypeOK /\ PlacesFit /\ WindowFits /\ WindowTrue /\ OneRange /\ JournalFits
  BY DEF IndInv
<1>1. /\ pc = "seeding" /\ pc' = "up"
      /\ gateHighs' = PricesOf(OfKind(journal, "high"))
      /\ gateLows' = PricesOf(OfKind(journal, "low"))
      /\ days' = days /\ window' = window /\ journal' = journal /\ marker' = marker
      /\ startedAt' = startedAt /\ starts' = starts /\ lost' = lost
      /\ fedFrom' = fedFrom /\ clean' = clean
  BY DEF SeedTrendHistory, Prices
<1>2. /\ "high" \in Kinds /\ "low" \in Kinds
      /\ \A kind \in Kinds : GateOf(kind)' = PricesOf(OfKind(journal, kind))
  BY <1>1 DEF Kinds, GateOf
<1>3. \A kind \in Kinds : PricesOf(OfKind(journal, kind)) \in Seq(Int)
                          /\ Len(PricesOf(OfKind(journal, kind))) <= 2
  BY <1>0, JournalOfKind
<1>4. TypeOK'
  <2>1. gateHighs' \in Seq(Int) /\ gateLows' \in Seq(Int)
    BY <1>1, <1>2, <1>3
  <2>2. QED
    BY <1>0, <1>1, <2>1 DEF TypeOK
<1>5. PlacesFit'
  BY <1>1 DEF PlacesFit
<1>6. WindowFits'
  BY <1>0, <1>1 DEF WindowFits
<1>7. WindowTrue'
  BY <1>0, <1>1, SameDays DEF WindowTrue, EndOf
<1>8. OneRange'
  BY <1>0, <1>1 DEF OneRange, EndOf
<1>9. JournalFits'
  BY <1>0, <1>1 DEF JournalFits
<1>10. GateFits'
  <2>1. SUFFICES ASSUME NEW kind \in Kinds
                 PROVE  Ends(GateOf(kind), kind, FedSwings(kind))'
    BY DEF GateFits
  <2>2. days \in Seq(Ranges) /\ fedFrom \in Int /\ Len(days) \in Nat
    BY <1>0 DEF TypeOK
  <2>3. /\ SwingsOf(kind) \subseteq Int /\ \A i \in SwingsOf(kind) : i \in Nat /\ i + 2 < Len(days)
    BY <2>2, PricesAreInt
  <2>4. Ends(GateOf(kind)', kind, FedSwings(kind))
    <3>1. CASE journal = SwingEvents
      <4>1. Ends(GateOf(kind)', kind, SwingsOf(kind))
        BY <1>2, <2>2, <3>1, SeededEnds
      <4> DEFINE gate == GateOf(kind)'
                 S == SwingsOf(kind)
      <4>2. S \in SUBSET Int /\ Ends(gate, kind, S)
        BY <2>3, <4>1
      <4> HIDE DEF gate, S
      <4>3. Ends(gate, kind, {i \in S : i - PivotN >= fedFrom})
        BY <2>2, <4>2, EndsFed
      <4>4. QED
        BY <4>3 DEF gate, S, FedSwings
    <3>2. CASE fedFrom = Len(days)
      <4>1. FedSwings(kind) = {}
        BY <2>2, <2>3, <3>2 DEF FedSwings, PivotN
      <4>2. QED
        BY <4>1 DEF Ends
    <3>3. QED
      BY <1>0, <1>1, <3>1, <3>2 DEF PlacesFit
  <2>5. FedSwings(kind)' = FedSwings(kind)
    BY <1>1, SameDays DEF FedSwings, PivotN
  <2>6. \A i : PriceOf(kind, i)' = PriceOf(kind, i)
    BY <1>1, SameDays
  <2>7. QED
    BY <2>4, <2>5, <2>6 DEF Ends, Top
<1>11. GateJournaled'
  <2>1. ASSUME NEW kind \in Kinds
        PROVE  LastOf(GateOf(kind)', 2) = PricesOf(OfKind(journal, kind))
    BY <1>2, <1>3, LastTwoOf
  <2>2. (journal \cup Unwritten)' = journal
    BY <1>1 DEF Unwritten
  <2>3. ASSUME NEW kind \in Kinds
        PROVE  LastOf(GateOf(kind), 2)' = PricesOf(OfKind(journal \cup Unwritten, kind))'
    <3>1. LastOf(GateOf(kind), 2)' = LastOf(GateOf(kind)', 2)
      BY DEF LastOf
    <3>2. PricesOf(OfKind(journal \cup Unwritten, kind))' = PricesOf(OfKind(journal, kind))
      BY <2>2
    <3>3. QED
      BY <2>1, <3>1, <3>2
  <2>4. QED
    BY <2>3 DEF GateJournaled
<1>12. QED
  BY <1>4, <1>5, <1>6, <1>7, <1>8, <1>9, <1>10, <1>11 DEF IndInv

\* The last days the bridge serves, as the window holds them.
LEMMA ServedWindow ==
  ASSUME TrendAssumption, days \in Seq(Ranges)
  PROVE  LET w == LastOf(Served, 2 * PivotN + 1)
         IN  /\ w \in Seq(DaySeen)
             /\ Len(w) = IF Len(days) < 5 THEN Len(days) ELSE 5
             /\ \A k \in 1..Len(w) : w[k].day = Len(days) - Len(w) + k - 1
             /\ \A k \in 1..Len(w), kind \in Kinds : EndOf(kind, w[k]) = PriceOf(kind, w[k].day)
<1> DEFINE n == Len(days)
           w == LastOf(Served, 2 * PivotN + 1)
<1>0. n \in Nat /\ DOMAIN days = 1..n /\ 2 * PivotN + 1 = 5
  BY DEF PivotN
<1>1. Served = [k \in 1..n |-> [day |-> k - 1, high |-> days[k].high, low |-> days[k].low]]
  BY <1>0 DEF Served
<1>2. ASSUME NEW k \in 1..n
      PROVE  /\ Served[k] = [day |-> k - 1, high |-> days[k].high, low |-> days[k].low]
             /\ Served[k] \in DaySeen
  <2>1. Served[k] = [day |-> k - 1, high |-> days[k].high, low |-> days[k].low]
    BY <1>1
  <2>2. days[k] \in Ranges /\ k - 1 \in Nat
    BY <1>0
  <2>3. days[k].high \in Int /\ days[k].low \in Int
    BY <2>2 DEF TrendAssumption
  <2>4. QED
    BY <2>1, <2>2, <2>3 DEF DaySeen
<1> HIDE DEF n
<1>3. Served \in Seq(DaySeen) /\ Len(Served) = n
  <2>1. Served \in [1..n -> DaySeen]
    BY <1>1, <1>2
  <2>2. QED
    BY <1>0, <2>1, SeqDef
<1>4. /\ w \in Seq(DaySeen) /\ Len(w) = (IF n < 5 THEN n ELSE 5)
      /\ \A k \in 1..Len(w) : w[k] = Served[n - Len(w) + k]
  <2> DEFINE s == Served
  <2>0. s \in Seq(DaySeen) /\ Len(s) = n
    BY <1>3
  <2> HIDE DEF s
  <2>1. CASE n <= 5
    <3>1. w = s
      BY <1>0, <2>0, <2>1 DEF LastOf, s
    <3> HIDE DEF w
    <3>2. ASSUME NEW k \in 1..n PROVE n - n + k = k
      BY <1>0
    <3>a. Len(w) = n
      BY <2>0, <3>1
    <3>b. n = IF n < 5 THEN n ELSE 5
      BY <1>0, <2>1
    <3>3. Len(w) = (IF n < 5 THEN n ELSE 5)
      BY <3>a, <3>b
    <3>4. \A k \in 1..Len(w) : w[k] = s[n - Len(w) + k]
      BY <3>a, <3>1, <3>2
    <3>5. QED
      BY <2>0, <3>1, <3>3, <3>4 DEF s
  <2>2. CASE n > 5
    <3>a. ~(n <= 5)
      BY <1>0, <2>2
    <3>b. w = LastOf(s, 5)
      BY <1>0 DEF s
    <3>1. w = SubSeq(s, n - 5 + 1, n)
      BY <2>0, <3>a, <3>b DEF LastOf
    <3>2. n - 5 + 1 \in 1..n /\ n \in 1..n /\ n - (n - 5 + 1) + 1 = 5
      BY <1>0, <2>2
    <3> HIDE DEF w
    <3>3. w \in Seq(DaySeen) /\ Len(w) = 5
      BY <1>0, <2>0, <3>1, <3>2
    <3>4. ASSUME NEW k \in 1..5 PROVE w[k] = s[n - 5 + k]
      <4>1. w[k] = s[n - 5 + 1 + k - 1]
        BY <1>0, <2>0, <3>1, <3>2
      <4>2. n - 5 + 1 + k - 1 = n - 5 + k
        BY <1>0
      <4>3. QED
        BY <4>1, <4>2
    <3>5. ~(n < 5)
      BY <1>0, <2>2
    <3>6. QED
      BY <3>3, <3>4, <3>5 DEF s
  <2>3. QED
    BY <1>0, <2>1, <2>2
<1> HIDE DEF w
<1>5. ASSUME NEW k \in 1..Len(w)
      PROVE  /\ w[k].day = n - Len(w) + k - 1
             /\ \A kind \in Kinds : EndOf(kind, w[k]) = PriceOf(kind, w[k].day)
  <2> DEFINE j == n - Len(w) + k
  <2>1. j \in 1..n /\ j - 1 + 1 = j
    BY <1>0, <1>4
  <2>2. w[k] = Served[j]
    BY <1>4
  <2> HIDE DEF j
  <2>a. Served[j] = [day |-> j - 1, high |-> days[j].high, low |-> days[j].low]
    BY <1>2, <2>1
  <2>3. w[k].day = j - 1 /\ w[k].high = days[j].high /\ w[k].low = days[j].low
    BY <2>2, <2>a
  <2>4. \A kind \in Kinds : EndOf(kind, w[k]) = PriceOf(kind, w[k].day)
    <3>1. D(j - 1) = days[j]
      BY <2>1 DEF D
    <3>2. \A kind \in Kinds : EndOf(kind, w[k]) = PriceOf(kind, j - 1)
      BY <2>3, <3>1 DEF EndOf, PriceOf
    <3>3. QED
      BY <2>3, <3>2
  <2>5. w[k].day = n - Len(w) + k - 1
    <3>1. w[k].day = (n - Len(w) + k) - 1
      BY <2>3, Zenon DEF j
    <3>2. n \in Int /\ Len(w) \in Int /\ k \in Int
      BY <1>0, <1>4
    <3>3. (n - Len(w) + k) - 1 = n - Len(w) + k - 1
      BY <3>2
    <3>4. QED
      BY <3>1, <3>3
  <2>6. QED
    BY <2>4, <2>5, Zenon
<1>6. QED
  BY <1>4, <1>5 DEF n, w

\* The bootstrapped events are swings of days that are over.
LEMMA SwingEventsFit ==
  ASSUME TrendAssumption, days \in Seq(Ranges)
  PROVE  /\ SwingEvents \subseteq Swing /\ IsFiniteSet(SwingEvents)
         /\ \A e \in SwingEvents : e.day + 2 < Len(days) /\ e.price = PriceOf(e.kind, e.day)
<1> DEFINE EvH(i) == [kind |-> "high", day |-> i, price |-> D(i).high]
           EvL(i) == [kind |-> "low", day |-> i, price |-> D(i).low]
           H == {EvH(i) : i \in SwingHighs}
           L == {EvL(i) : i \in SwingLows}
<1>0. SwingEvents = H \cup L
  BY DEF SwingEvents
<1>1. /\ SwingHighs \subseteq 0..Len(days) /\ SwingLows \subseteq 0..Len(days) /\ Len(days) \in Nat
      /\ \A i \in SwingHighs : i \in Nat /\ D(i).high \in Int /\ i + 2 < Len(days)
      /\ \A i \in SwingLows : i \in Nat /\ D(i).low \in Int /\ i + 2 < Len(days)
  <2>1. "high" \in Kinds /\ "low" \in Kinds
    BY DEF Kinds
  <2>2. SwingsOf("high") = SwingHighs /\ SwingsOf("low") = SwingLows
    BY DEF SwingsOf
  <2>3. \A i : PriceOf("high", i) = D(i).high /\ PriceOf("low", i) = D(i).low
    BY DEF PriceOf, EndOf
  <2>4. /\ SwingsOf("high") \subseteq 0..Len(days)
        /\ \A i \in SwingsOf("high") : i \in Nat /\ PriceOf("high", i) \in Int /\ i + 2 < Len(days)
    BY <2>1, PricesAreInt
  <2>5. /\ SwingsOf("low") \subseteq 0..Len(days)
        /\ \A i \in SwingsOf("low") : i \in Nat /\ PriceOf("low", i) \in Int /\ i + 2 < Len(days)
    BY <2>1, PricesAreInt
  <2>6. QED
    BY <2>2, <2>3, <2>4, <2>5
<1>2. IsFiniteSet(H) /\ IsFiniteSet(L)
  <2>1. IsFiniteSet(0..Len(days))
    BY <1>1, FS_Interval
  <2>2. IsFiniteSet(SwingHighs) /\ IsFiniteSet(SwingLows)
    BY <1>1, <2>1, FS_Subset
  <2> DEFINE f == [i \in SwingHighs |-> EvH(i)]
             g == [i \in SwingLows |-> EvL(i)]
  <2>3. f \in [SwingHighs -> H] /\ \A e \in H : \E i \in SwingHighs : f[i] = e
    OBVIOUS
  <2>4. g \in [SwingLows -> L] /\ \A e \in L : \E i \in SwingLows : g[i] = e
    OBVIOUS
  <2>5. f \in Surjection(SwingHighs, H) /\ g \in Surjection(SwingLows, L)
    BY <2>3, <2>4 DEF Surjection
  <2>6. QED
    BY <2>2, <2>5, FS_Surjection
<1>3. IsFiniteSet(SwingEvents)
  BY <1>0, <1>2, FS_Union
<1>4. ASSUME NEW e \in H
      PROVE  e \in Swing /\ e.day + 2 < Len(days) /\ e.price = PriceOf(e.kind, e.day)
  BY <1>1 DEF Swing, Kinds, PriceOf, EndOf
<1>5. ASSUME NEW e \in L
      PROVE  e \in Swing /\ e.day + 2 < Len(days) /\ e.price = PriceOf(e.kind, e.day)
  BY <1>1 DEF Swing, Kinds, PriceOf, EndOf
<1>6. QED
  BY <1>0, <1>3, <1>4, <1>5

\* The bootstrap leaves the last days in the window and all swings in the journal.
LEMMA BootstrapKeeps ==
  ASSUME TrendAssumption, IndInv, Bootstrap
  PROVE  IndInv'
<1>0. TypeOK
  BY DEF IndInv
<1>1. /\ pc = "down" /\ starts < MaxStarts
      /\ window' = LastOf(Served, 2 * PivotN + 1) /\ journal' = SwingEvents
      /\ pc' = "marking" /\ starts' = starts + 1
      /\ startedAt' = Len(days) /\ fedFrom' = 0 /\ clean' = TRUE
      /\ days' = days /\ gateHighs' = gateHighs /\ gateLows' = gateLows
      /\ marker' = marker /\ lost' = lost
  BY DEF Bootstrap
<1>2. days \in Seq(Ranges) /\ Len(days) \in Nat /\ PivotN = 2 /\ 2 * PivotN + 1 = 5
  BY <1>0 DEF TypeOK, PivotN
<1>3. /\ window' \in Seq(DaySeen)
      /\ Len(window') = IF Len(days) < 5 THEN Len(days) ELSE 5
      /\ \A k \in 1..Len(window') : window'[k].day = Len(days) - Len(window') + k - 1
      /\ \A k \in 1..Len(window'), kind \in Kinds :
           EndOf(kind, window'[k]) = PriceOf(kind, window'[k].day)
  BY <1>1, <1>2, ServedWindow
<1>a. DOMAIN window' = 1..Len(window') /\ Len(window') \in Nat /\ Len(window') <= 5
  <2>1. window' \in Seq(DaySeen) /\ Len(window') = IF Len(days) < 5 THEN Len(days) ELSE 5
    BY <1>3
  <2>2. DOMAIN window' = 1..Len(window')
    BY <2>1, LenProperties
  <2>3. QED
    BY <1>2, <2>1, <2>2
<1>4. /\ SwingEvents \subseteq Swing /\ IsFiniteSet(SwingEvents)
      /\ \A e \in SwingEvents : e.day + 2 < Len(days) /\ e.price = PriceOf(e.kind, e.day)
  BY <1>2, SwingEventsFit
<1>5. \A kind \in Kinds : \A i : PriceOf(kind, i)' = PriceOf(kind, i)
  BY <1>1, SameDays
<1>6. TypeOK'
  <2>1. starts' \in 0..MaxStarts
    <3>1. starts \in 0..MaxStarts /\ MaxStarts \in Nat
      BY <1>0 DEF TypeOK, TrendAssumption
    <3>2. QED
      BY <1>1, <3>1
  <2>2. startedAt' \in 0..Len(days') /\ fedFrom' \in 0..Len(days')
    BY <1>1, <1>2
  <2>3. window' \in Seq(DaySeen) /\ Len(window') <= (2 * PivotN + 1)'
    BY <1>2, <1>3, <1>a DEF PivotN
  <2>4. journal' \subseteq Swing /\ IsFiniteSet(journal')
    BY <1>1, <1>4
  <2>5. QED
    BY <1>0, <1>1, <2>1, <2>2, <2>3, <2>4 DEF TypeOK
<1>7. PlacesFit'
  <2>1. SwingEvents' = SwingEvents
    BY <1>1, SameDays
  <2>2. QED
    BY <1>1, <2>1 DEF PlacesFit
<1>8. WindowFits'
  BY <1>1, <1>3, <1>a DEF WindowFits
<1>9. WindowTrue'
  <2>1. Len(window') = IF Len(days') - fedFrom' < 5 THEN Len(days') - fedFrom' ELSE 5
    BY <1>1, <1>2, <1>3
  <2>2. (2 * PivotN + 1)' = 5
    BY DEF PivotN
  <2>3. ASSUME NEW k \in DOMAIN window', NEW kind \in Kinds
        PROVE  EndOf(kind, window[k])' = PriceOf(kind, window[k].day)'
    <3>1. EndOf(kind, window'[k]) = PriceOf(kind, window'[k].day)
      BY <1>3, <1>a
    <3>2. EndOf(kind, window[k])' = EndOf(kind, window'[k])
      BY DEF EndOf
    <3>3. PriceOf(kind, window[k].day)' = PriceOf(kind, window'[k].day)
      BY <1>1 DEF PriceOf, EndOf, D
    <3>4. QED
      BY <3>1, <3>2, <3>3
  <2>4. QED
    BY <2>1, <2>2, <2>3 DEF WindowTrue
<1>10. OneRange'
  <2>1. \A e \in journal' : e.day < Len(days')
    <3>1. \A e \in SwingEvents : e.day \in Nat
      BY <1>4 DEF Swing
    <3>2. QED
      BY <1>1, <1>2, <1>4, <3>1
  <2>2. \A k \in DOMAIN window' : window'[k].day < Len(days')
    <3>1. ASSUME NEW k \in 1..Len(window') PROVE Len(days) - Len(window') + k - 1 < Len(days)
      BY <1>2, <1>a
    <3>2. QED
      BY <1>1, <1>3, <1>a, <3>1
  <2>3. \A e, o \in journal' : e.kind = o.kind /\ e.day = o.day => e = o
    <3>1. SUFFICES ASSUME NEW e \in SwingEvents, NEW o \in SwingEvents, e.kind = o.kind, e.day = o.day
                   PROVE  e = o
      BY <1>1
    <3>2. e \in Swing /\ o \in Swing /\ e.price = o.price
      BY <1>4, <3>1
    <3>3. QED
      BY <3>1, <3>2 DEF Swing
  <2>4. \A k, l \in DOMAIN window' : window'[k].day = window'[l].day => window'[k] = window'[l]
    <3>1. SUFFICES ASSUME NEW k \in 1..Len(window'), NEW l \in 1..Len(window'),
                          window'[k].day = window'[l].day
                   PROVE  k = l
      BY <1>a
    <3>2. Len(days) - Len(window') + k - 1 = Len(days) - Len(window') + l - 1
      BY <1>3, <3>1
    <3>3. QED
      BY <1>2, <1>a, <3>2
  <2>5. ASSUME NEW e \in journal', NEW k \in DOMAIN window', e.day = window'[k].day
        PROVE  e.price = EndOf(e.kind, window[k])'
    <3>1. e.kind \in Kinds /\ e.price = PriceOf(e.kind, e.day)
      BY <1>1, <1>4 DEF Swing
    <3>2. EndOf(e.kind, window'[k]) = PriceOf(e.kind, window'[k].day)
      BY <1>3, <1>a, <3>1
    <3>3. EndOf(e.kind, window[k])' = EndOf(e.kind, window'[k])
      BY DEF EndOf
    <3>4. QED
      BY <2>5, <3>1, <3>2, <3>3
  <2>6. QED
    BY <2>1, <2>2, <2>3, <2>4, <2>5 DEF OneRange
<1>11. JournalFits'
  <2>1. ASSUME NEW e \in SwingEvents PROVE e.day + 2 + 0 < Len(days)
    <3>1. e.day \in Nat /\ e.day + 2 < Len(days)
      BY <1>4 DEF Swing
    <3>2. QED
      BY <1>2, <3>1
  <2>2. PivotN' = 2
    BY DEF PivotN
  <2>3. QED
    BY <1>1, <2>1, <2>2 DEF JournalFits
<1>12. GateFits' /\ GateJournaled'
  BY <1>1 DEF GateFits, GateJournaled
<1>13. QED
  BY <1>6, <1>7, <1>8, <1>9, <1>10, <1>11, <1>12 DEF IndInv

----------------------------------------------------------------------------
\* What feeding a day does to the window and to the lists of the gate.
LEMMA PushDay ==
  ASSUME TrendAssumption, TypeOK, NEW d \in Nat, NEW r, r.high \in Int, r.low \in Int,
         OnDayClosed(d, r)
  PROVE  LET x == [day |-> d, high |-> r.high, low |-> r.low]
         IN  /\ x \in DaySeen
             /\ window' \in Seq(DaySeen)
             /\ Pushed(window, window', x)
             /\ gateHighs' \in Seq(Int) /\ gateLows' \in Seq(Int)
             /\ \A kind \in Kinds :
                  /\ GateOf(kind) \in Seq(Int)
                  /\ Confirms(kind, window') =>
                       /\ Len(window') = 5 /\ EndOf(kind, window'[3]) \in Int
                       /\ GateOf(kind)' = Append(GateOf(kind), EndOf(kind, window'[3]))
                  /\ ~Confirms(kind, window') => GateOf(kind)' = GateOf(kind)
<1> DEFINE x == [day |-> d, high |-> r.high, low |-> r.low]
<1>1. x \in DaySeen
  BY DEF DaySeen
<1>2. /\ window \in Seq(DaySeen) /\ Len(window) <= 5 /\ PivotN + 1 = 3 /\ 2 * PivotN + 1 = 5
      /\ gateHighs \in Seq(Int) /\ gateLows \in Seq(Int)
  BY DEF TypeOK, PivotN
<1>3. window' = Push(window, x)
  BY DEF OnDayClosed
<1>4. /\ gateHighs' = IF IsTop(window') THEN Append(gateHighs, window'[3].high) ELSE gateHighs
      /\ gateLows' = IF IsBottom(window') THEN Append(gateLows, window'[3].low) ELSE gateLows
  BY <1>2, <1>3 DEF OnDayClosed
<1> HIDE DEF x
<1>5. window' \in Seq(DaySeen) /\ Pushed(window, window', x)
  BY <1>1, <1>2, <1>3, PushIs
<1>6. ASSUME Len(window') = 5
      PROVE  window'[3] \in DaySeen /\ window'[3].high \in Int /\ window'[3].low \in Int
  <2>a. window' \in Seq(DaySeen)
    BY <1>5
  <2>c. window' \in [1..Len(window') -> DaySeen]
    BY <2>a, LenProperties
  <2>b. window' \in [1..5 -> DaySeen] /\ 3 \in 1..5
    BY <2>c, <1>6
  <2>1. window'[3] \in DaySeen
    BY <2>b
  <2>2. QED
    BY <2>1 DEF DaySeen
<1>7. /\ IsTop(window') => Len(window') = 5
      /\ IsBottom(window') => Len(window') = 5
  BY <1>2 DEF IsTop, IsBottom
<1>8. gateHighs' \in Seq(Int) /\ gateLows' \in Seq(Int)
  <2>1. \A q \in Seq(Int), a \in Int : Append(q, a) \in Seq(Int)
    OBVIOUS
  <2>2. gateHighs' \in Seq(Int)
    <3>1. CASE IsTop(window')
      <4>1. window'[3].high \in Int /\ gateHighs' = Append(gateHighs, window'[3].high)
        BY <1>4, <1>6, <1>7, <3>1
      <4>2. QED
        BY <1>2, <2>1, <4>1
    <3>2. QED
      BY <1>2, <1>4, <3>1
  <2>3. gateLows' \in Seq(Int)
    <3>1. CASE IsBottom(window')
      <4>1. window'[3].low \in Int /\ gateLows' = Append(gateLows, window'[3].low)
        BY <1>4, <1>6, <1>7, <3>1
      <4>2. QED
        BY <1>2, <2>1, <4>1
    <3>2. QED
      BY <1>2, <1>4, <3>1
  <2>4. QED
    BY <2>2, <2>3
<1>9. ASSUME NEW kind \in Kinds
      PROVE  /\ GateOf(kind) \in Seq(Int)
             /\ Confirms(kind, window') =>
                  /\ Len(window') = 5 /\ EndOf(kind, window'[3]) \in Int
                  /\ GateOf(kind)' = Append(GateOf(kind), EndOf(kind, window'[3]))
             /\ ~Confirms(kind, window') => GateOf(kind)' = GateOf(kind)
  <2>1. CASE kind = "high"
    BY <1>2, <1>4, <1>6, <1>7, <2>1 DEF GateOf, Confirms, EndOf
  <2>2. CASE kind = "low"
    BY <1>2, <1>4, <1>6, <1>7, <2>2 DEF GateOf, Confirms, EndOf
  <2>3. QED
    BY <2>1, <2>2 DEF Kinds
<1>10. QED
  BY <1>1, <1>5, <1>8, <1>9 DEF x

\* Every day in the window after a push is the new one or was there.
LEMMA PushedFrom ==
  ASSUME NEW S, NEW w \in Seq(S), NEW v \in Seq(S), NEW x \in S, Len(w) <= 5, Pushed(w, v, x)
  PROVE  /\ Len(v) >= 1 /\ Len(v) <= 5
         /\ \A k \in DOMAIN v :
              \/ k = Len(v) /\ v[k] = x
              \/ \E l \in DOMAIN w : v[k] = w[l] /\ l = k - Len(v) + Len(w) + 1
<1>1. Len(w) \in Nat /\ Len(v) \in Nat /\ DOMAIN v = 1..Len(v) /\ DOMAIN w = 1..Len(w)
  BY LenProperties
<1>a. /\ Len(v) = (IF Len(w) < 5 THEN Len(w) + 1 ELSE 5)
      /\ v[Len(v)] = x
      /\ Len(w) < 5 => \A k \in 1..Len(w) : v[k] = w[k]
      /\ Len(w) = 5 => \A k \in 1..4 : v[k] = w[k + 1]
  BY DEF Pushed
<1>2. Len(v) >= 1 /\ Len(v) <= 5
  BY <1>1, <1>a
<1>3. SUFFICES ASSUME NEW k \in 1..Len(v), k # Len(v)
               PROVE  \E l \in 1..Len(w) : v[k] = w[l] /\ l = k - Len(v) + Len(w) + 1
  BY <1>1, <1>2, <1>a
<1>4. CASE Len(w) < 5
  <2>1. k \in 1..Len(w) /\ k = k - Len(v) + Len(w) + 1
    BY <1>1, <1>3, <1>4, <1>a
  <2>2. v[k] = w[k]
    BY <1>4, <1>a, <2>1
  <2>3. QED
    BY <2>1, <2>2
<1>5. CASE Len(w) = 5
  <2>1. k \in 1..4 /\ k + 1 \in 1..Len(w) /\ k + 1 = k - Len(v) + Len(w) + 1
    BY <1>1, <1>3, <1>5, <1>a
  <2>2. v[k] = w[k + 1]
    BY <1>5, <1>a, <2>1
  <2>3. QED
    BY <2>1, <2>2
<1>6. QED
  BY <1>1, <1>4, <1>5

\* A failed write feeds the last day once more: the invariant then only keeps the ranges.
LEMMA WriteFailsKeeps ==
  ASSUME TrendAssumption, IndInv, WriteFails
  PROVE  IndInv'
<1>0. TypeOK /\ PlacesFit /\ OneRange
  BY DEF IndInv
<1>1. /\ pc = "ending" /\ lost < MaxLost /\ lost' = lost + 1 /\ clean' = FALSE
      /\ days' = days /\ journal' = journal /\ marker' = marker /\ pc' = pc
      /\ startedAt' = startedAt /\ starts' = starts /\ fedFrom' = fedFrom
  BY DEF WriteFails
<1>2. PICK last : last = window[Len(window)]
  OBVIOUS
<1>3. OnDayClosed(last.day, last)
  BY <1>2 DEF WriteFails
<1>4. /\ window \in Seq(DaySeen) /\ window # <<>> /\ Len(window) <= 5
      /\ DOMAIN window = 1..Len(window) /\ Len(window) \in Nat
  <2>1. window \in Seq(DaySeen) /\ Len(window) <= 2 * PivotN + 1 /\ 2 * PivotN + 1 = 5
    BY <1>0 DEF TypeOK, PivotN
  <2>2. DOMAIN window = 1..Len(window) /\ Len(window) \in Nat
    BY <2>1, LenProperties
  <2>3. window # <<>>
    BY <1>0, <1>1 DEF PlacesFit
  <2>4. QED
    BY <2>1, <2>2, <2>3
<1>5. Len(window) \in DOMAIN window
  <2>1. Len(window) # 0
    BY <1>4, EmptySeq
  <2>2. QED
    BY <1>4, <2>1
<1>6. last \in DaySeen /\ last.day \in Nat /\ last.high \in Int /\ last.low \in Int
  <2>1. last \in DaySeen
    BY <1>2, <1>4, <1>5
  <2>2. QED
    BY <2>1 DEF DaySeen
<1>7. [day |-> last.day, high |-> last.high, low |-> last.low] = last
  BY <1>6 DEF DaySeen
<1>8. /\ window' \in Seq(DaySeen) /\ Pushed(window, window', last)
      /\ gateHighs' \in Seq(Int) /\ gateLows' \in Seq(Int)
  BY <1>0, <1>3, <1>6, <1>7, PushDay
<1>9. /\ Len(window') >= 1 /\ Len(window') <= 5
      /\ \A k \in DOMAIN window' : \E l \in DOMAIN window : window'[k] = window[l]
  <2>1. /\ Len(window') >= 1 /\ Len(window') <= 5
        /\ \A k \in DOMAIN window' :
             \/ k = Len(window') /\ window'[k] = last
             \/ \E l \in DOMAIN window : window'[k] = window[l] /\ l = k - Len(window') + Len(window) + 1
    BY <1>4, <1>6, <1>8, PushedFrom
  <2>2. QED
    BY <1>2, <1>5, <2>1
<1>10. TypeOK'
  <2>1. lost' \in 0..MaxLost
    <3>1. lost \in 0..MaxLost /\ MaxLost \in Nat
      BY <1>0 DEF TypeOK, TrendAssumption
    <3>2. QED
      BY <1>1, <3>1
  <2>2. Len(window') <= (2 * PivotN + 1)'
    BY <1>9 DEF PivotN
  <2>3. clean' \in BOOLEAN
    BY <1>1
  <2>4. QED
    BY <1>0, <1>1, <1>8, <2>1, <2>2, <2>3 DEF TypeOK
<1>11. PlacesFit'
  <2>1. window' # <<>>
    <3>1. Len(<<>>) = 0
      OBVIOUS
    <3>2. QED
      BY <1>8, <1>9, <3>1, EmptySeq
  <2>2. QED
    BY <1>1, <2>1 DEF PlacesFit
<1>12. OneRange'
  <2>1. \A k \in DOMAIN window' : window'[k].day < Len(days)
    BY <1>0, <1>9 DEF OneRange
  <2>2. \A k, l \in DOMAIN window' : window'[k].day = window'[l].day => window'[k] = window'[l]
    BY <1>0, <1>9 DEF OneRange
  <2>3. \A e \in journal, k \in DOMAIN window' : e.day = window'[k].day =>
           e.price = EndOf(e.kind, window'[k])
    BY <1>0, <1>9 DEF OneRange
  <2>4. QED
    BY <1>0, <1>1, <2>1, <2>2, <2>3 DEF OneRange, EndOf
<1>13. ~clean' /\ ~(lost' = 0)
  <2>1. lost \in Nat
    BY <1>0 DEF TypeOK
  <2>2. QED
    BY <1>1, <2>1
<1>14. WindowFits' /\ WindowTrue' /\ GateFits' /\ JournalFits' /\ GateJournaled'
  BY <1>13 DEF WindowFits, WindowTrue, GateFits, JournalFits, GateJournaled
<1>15. QED
  BY <1>10, <1>11, <1>12, <1>14 DEF IndInv

\* What a window confirms are swings of its third day.
LEMMA ConfirmedFit ==
  ASSUME NEW w \in Seq(DaySeen)
  PROVE  /\ IsFiniteSet(Confirmed(w)) /\ Confirmed(w) \subseteq Swing
         /\ \A e \in Confirmed(w) :
              /\ Len(w) = 5 /\ e.kind \in Kinds /\ e.day = w[3].day /\ e.price = EndOf(e.kind, w[3])
              /\ e = [kind |-> e.kind, day |-> e.day, price |-> e.price]
<1> DEFINE H == [kind |-> "high", day |-> w[3].day, price |-> w[3].high]
           L == [kind |-> "low", day |-> w[3].day, price |-> w[3].low]
<1>1. Confirmed(w) = (IF IsTop(w) THEN {H} ELSE {}) \cup (IF IsBottom(w) THEN {L} ELSE {})
  <2>1. PivotN + 1 = 3
    BY DEF PivotN
  <2>2. QED
    BY <2>1 DEF Confirmed
<1>2. H.kind = "high" /\ H.day = w[3].day /\ H.price = EndOf("high", w[3]) /\ H = [kind |-> H.kind, day |-> H.day, price |-> H.price]
  BY DEF EndOf
<1>3. L.kind = "low" /\ L.day = w[3].day /\ L.price = EndOf("low", w[3]) /\ L = [kind |-> L.kind, day |-> L.day, price |-> L.price]
  BY DEF EndOf
<1>4. ASSUME Len(w) = 5 PROVE H \in Swing /\ L \in Swing
  <2>1. w \in [1..Len(w) -> DaySeen]
    BY LenProperties
  <2>2. w \in [1..5 -> DaySeen] /\ 3 \in 1..5
    BY <1>4, <2>1
  <2>3. w[3] \in DaySeen
    BY <2>2
  <2>4. w[3].day \in Nat /\ w[3].high \in Int /\ w[3].low \in Int
    BY <2>3 DEF DaySeen
  <2>5. QED
    BY <2>4 DEF Swing, Kinds
<1>5. (IsTop(w) => Len(w) = 5) /\ (IsBottom(w) => Len(w) = 5)
  <2>1. 2 * PivotN + 1 = 5
    BY DEF PivotN
  <2>2. QED
    BY <2>1 DEF IsTop, IsBottom
<1> HIDE DEF H, L
<1>6. IsFiniteSet(Confirmed(w))
  <2>1. IsFiniteSet({}) /\ IsFiniteSet({H}) /\ IsFiniteSet({L})
    BY FS_EmptySet, FS_Singleton
  <2>2. \A A, B : IsFiniteSet(A) /\ IsFiniteSet(B) => IsFiniteSet(A \cup B)
    BY FS_Union
  <2>3. QED
    BY <1>1, <2>1, <2>2
<1>7. ASSUME NEW e \in Confirmed(w) PROVE (e = H \/ e = L) /\ Len(w) = 5
  BY <1>1, <1>5
<1>8. "high" \in Kinds /\ "low" \in Kinds
  BY DEF Kinds
<1>9. Confirmed(w) \subseteq Swing
  BY <1>4, <1>7
<1>10. \A e \in Confirmed(w) :
         /\ Len(w) = 5 /\ e.kind \in Kinds /\ e.day = w[3].day /\ e.price = EndOf(e.kind, w[3])
         /\ e = [kind |-> e.kind, day |-> e.day, price |-> e.price]
  <2>1. SUFFICES ASSUME NEW e \in Confirmed(w)
                 PROVE  /\ Len(w) = 5 /\ e.kind \in Kinds /\ e.day = w[3].day
                        /\ e.price = EndOf(e.kind, w[3])
                        /\ e = [kind |-> e.kind, day |-> e.day, price |-> e.price]
    OBVIOUS
  <2>2. CASE e = H
    BY <1>2, <1>7, <1>8, <2>2
  <2>3. CASE e = L
    BY <1>3, <1>7, <1>8, <2>3
  <2>4. QED
    BY <1>7, <2>2, <2>3
<1>11. QED
  BY <1>6, <1>9, <1>10

\* What was confirmed reaches the journal.
LEMMA WriteSwingsKeeps ==
  ASSUME TrendAssumption, IndInv, WriteSwings
  PROVE  IndInv'
<1>0. /\ TypeOK /\ PlacesFit /\ WindowFits /\ WindowTrue /\ OneRange
      /\ GateFits /\ JournalFits /\ GateJournaled
  BY DEF IndInv
<1>1. /\ pc = "ending" /\ pc' = "up" /\ journal' = journal \cup Confirmed(window)
      /\ days' = days /\ window' = window /\ gateHighs' = gateHighs /\ gateLows' = gateLows
      /\ marker' = marker /\ startedAt' = startedAt /\ starts' = starts /\ lost' = lost
      /\ fedFrom' = fedFrom /\ clean' = clean
  BY DEF WriteSwings
<1>2. window \in Seq(DaySeen) /\ Len(days) \in Nat /\ PivotN = 2 /\ PivotN' = 2
  BY <1>0 DEF TypeOK, PivotN
<1>3. /\ IsFiniteSet(Confirmed(window)) /\ Confirmed(window) \subseteq Swing
      /\ \A e \in Confirmed(window) :
           /\ Len(window) = 5 /\ e.kind \in Kinds /\ e.day = window[3].day
           /\ e.price = EndOf(e.kind, window[3])
           /\ e = [kind |-> e.kind, day |-> e.day, price |-> e.price]
  BY <1>2, ConfirmedFit
<1>a. \A e \in Confirmed(window) : 3 \in DOMAIN window /\ DOMAIN window = 1..Len(window)
  <2>1. DOMAIN window = 1..Len(window)
    BY <1>2, LenProperties
  <2>2. 3 \in 1..5
    OBVIOUS
  <2>3. QED
    BY <1>3, <2>1, <2>2
<1>4. TypeOK'
  <2>1. journal' \subseteq Swing /\ IsFiniteSet(journal')
    BY <1>0, <1>1, <1>3, FS_Union DEF TypeOK
  <2>2. QED
    BY <1>0, <1>1, <2>1 DEF TypeOK
<1>5. PlacesFit'
  BY <1>1 DEF PlacesFit
<1>6. WindowFits'
  BY <1>0, <1>1 DEF WindowFits
<1>7. WindowTrue'
  BY <1>0, <1>1, SameDays DEF WindowTrue, EndOf
<1>8. OneRange'
  <2> DEFINE C == Confirmed(window)
  <2>1. \A e \in C : e.day < Len(days)
    BY <1>0, <1>3, <1>a DEF OneRange
  <2>2. \A e \in C, k \in DOMAIN window : e.day = window[k].day => e.price = EndOf(e.kind, window[k])
    BY <1>0, <1>3, <1>a DEF OneRange
  <2>3. ASSUME NEW e \in C, NEW o \in journal, e.kind = o.kind, e.day = o.day PROVE e = o
    <3>1. o.price = EndOf(o.kind, window[3])
      BY <1>0, <1>3, <1>a, <2>3 DEF OneRange
    <3>2. e.price = o.price
      BY <1>3, <2>3, <3>1
    <3>3. o \in Swing
      BY <1>0 DEF TypeOK
    <3>4. o = [kind |-> o.kind, day |-> o.day, price |-> o.price]
      BY <3>3 DEF Swing
    <3>5. e = [kind |-> e.kind, day |-> e.day, price |-> e.price]
      BY <1>3
    <3>6. QED
      BY <2>3, <3>2, <3>4, <3>5
  <2>4. ASSUME NEW e \in C, NEW o \in C, e.kind = o.kind PROVE e = o
    <3>1. /\ e = [kind |-> e.kind, day |-> window[3].day, price |-> EndOf(e.kind, window[3])]
          /\ o = [kind |-> o.kind, day |-> window[3].day, price |-> EndOf(o.kind, window[3])]
      BY <1>3
    <3>2. QED
      BY <2>4, <3>1
  <2> HIDE DEF C
  <2>5. journal' = journal \cup C
    BY <1>1 DEF C
  <2>6. \A e, o \in journal' : e.kind = o.kind /\ e.day = o.day => e = o
    <3>1. SUFFICES ASSUME NEW e \in journal', NEW o \in journal', e.kind = o.kind, e.day = o.day
                   PROVE  e = o
      OBVIOUS
    <3>2. CASE e \in journal /\ o \in journal
      BY <1>0, <3>1, <3>2 DEF OneRange
    <3>3. CASE e \in C /\ o \in journal
      BY <2>3, <3>1, <3>3
    <3>4. CASE e \in journal /\ o \in C
      BY <2>3, <3>1, <3>4
    <3>5. CASE e \in C /\ o \in C
      BY <2>4, <3>1, <3>5
    <3>6. QED
      BY <2>5, <3>1, <3>2, <3>3, <3>4, <3>5
  <2>7. QED
    BY <1>0, <1>1, <2>1, <2>2, <2>5, <2>6 DEF OneRange, EndOf
<1>9. GateFits'
  <2>1. \A kind \in Kinds : /\ FedSwings(kind)' = FedSwings(kind)
                            /\ GateOf(kind)' = GateOf(kind)
                            /\ \A i : PriceOf(kind, i)' = PriceOf(kind, i)
    BY <1>1, SameDays DEF FedSwings, PivotN, GateOf
  <2>2. ASSUME clean, NEW kind \in Kinds PROVE Ends(GateOf(kind), kind, FedSwings(kind))'
    <3>1. Ends(GateOf(kind), kind, FedSwings(kind))
      BY <1>0, <1>1, <2>2 DEF GateFits
    <3>2. QED
      BY <2>1, <3>1 DEF Ends, Top
  <2>3. QED
    BY <1>1, <2>2 DEF GateFits
<1>10. JournalFits'
  <2>1. ASSUME lost = 0, NEW e \in journal PROVE e.day + 2 + 0 < Len(days)
    <3>1. e.day + 2 + 1 < Len(days)
      BY <1>0, <1>1, <1>2, <2>1 DEF JournalFits
    <3>2. e.day \in Nat
      BY <1>0 DEF TypeOK, Swing
    <3>3. QED
      BY <1>2, <3>1, <3>2
  <2>2. ASSUME lost = 0, NEW e \in Confirmed(window) PROVE e.day + 2 + 0 < Len(days)
    <3>1. e.day = Len(days) - 5 + 3 - 1
      <4>1. window[3].day = Len(days) - Len(window) + 3 - 1
        BY <1>0, <1>1, <1>a, <2>2 DEF WindowFits
      <4>2. QED
        BY <1>3, <4>1
    <3>2. QED
      BY <1>2, <3>1
  <2>3. QED
    BY <1>1, <1>2, <2>1, <2>2 DEF JournalFits
<1>11. GateJournaled'
  <2>1. (journal \cup Unwritten)' = journal \cup Unwritten
    BY <1>1 DEF Unwritten
  <2>2. ASSUME lost = 0, NEW kind \in Kinds
        PROVE  LastOf(GateOf(kind), 2)' = PricesOf(OfKind(journal \cup Unwritten, kind))'
    <3>1. LastOf(GateOf(kind), 2) = PricesOf(OfKind(journal \cup Unwritten, kind))
      BY <1>0, <1>1, <2>2 DEF GateJournaled
    <3>2. GateOf(kind)' = GateOf(kind)
      BY <1>1 DEF GateOf
    <3>3. PricesOf(OfKind(journal \cup Unwritten, kind))' = PricesOf(OfKind(journal \cup Unwritten, kind))
      BY <2>1
    <3>4. LastOf(GateOf(kind), 2)' = LastOf(GateOf(kind), 2)
      BY <3>2
    <3>5. QED
      BY <3>1, <3>3, <3>4
  <2>3. QED
    BY <1>1, <2>2 DEF GateJournaled
<1>12. QED
  BY <1>4, <1>5, <1>6, <1>7, <1>8, <1>9, <1>10, <1>11 DEF IndInv

\* Arithmetic of the window.
LEMMA Below ==
  ASSUME NEW n \in Nat, NEW p \in Int, p = n - 2
  PROVE  \A i \in 0..(n - 3) : i \in Int /\ i < p /\ i \in 0..(n - 1)
  OBVIOUS

LEMMA Shifted ==
  ASSUME NEW n \in Int, NEW a \in Int, NEW b \in Int, NEW k \in Int, NEW l \in Int,
         l = k - b + a + 1
  PROVE  n - a + l - 1 = n + 1 - b + (k - 1)
  OBVIOUS

LEMMA Grown ==
  ASSUME NEW n \in Int, NEW f \in Int, NEW a \in Int, NEW b \in Int, f <= n,
         b = (IF a < 5 THEN a + 1 ELSE 5), a = (IF n - f < 5 THEN n - f ELSE 5)
  PROVE  b = IF n + 1 - f < 5 THEN n + 1 - f ELSE 5
  OBVIOUS

\* A new last swing at the end of the list.
LEMMA EndsGrow ==
  ASSUME TrendAssumption, days \in Seq(Ranges), NEW r \in Ranges, days' = Append(days, r),
         NEW kind \in Kinds, NEW gate \in Seq(Int), NEW price \in Int,
         NEW S \in SUBSET (0..(Len(days) - 3)), Ends(gate, kind, S),
         NEW p \in Int, p = Len(days) - 2, PriceOf(kind, p)' = price
  PROVE  Ends(Append(gate, price), kind, S \cup {p})'
<1> DEFINE g == Append(gate, price)
           T == S \cup {p}
<1>1. Len(days) \in Nat /\ Len(gate) \in Nat
  OBVIOUS
<1>2. \A i \in S : i \in Int /\ i < p /\ i \in 0..(Len(days) - 1)
  <2>1. \A i \in 0..(Len(days) - 3) : i \in Int /\ i < p /\ i \in 0..(Len(days) - 1)
    BY <1>1, Below
  <2>2. QED
    BY <2>1
<1>3. Len(g) = Len(gate) + 1 /\ g[Len(gate) + 1] = price
      /\ \A k \in 1..Len(gate) : g[k] = gate[k]
  OBVIOUS
<1>4. \A i \in S : PriceOf(kind, i)' = PriceOf(kind, i)
  BY <1>2, SwingsGrow
<1> HIDE DEF g, T
<1>5. ASSUME NEW i \in T, Top(i, T) PROVE i = p
  <2>1. p \in T /\ p <= i
    BY <1>5 DEF T, Top
  <2>2. i \in S => i < p /\ i \in Int
    BY <1>2
  <2>3. i \in S \/ i = p
    BY DEF T
  <2>4. QED
    BY <2>1, <2>2, <2>3
<1>6. T \ {p} = S
  BY <1>2 DEF T
<1>7. Len(g) >= 1 /\ g[Len(g)] = price
  BY <1>1, <1>3
<1>8. ASSUME NEW j \in S, Top(j, S) PROVE Len(g) >= 2 /\ g[Len(g) - 1] = PriceOf(kind, j)'
  <2>1. Len(gate) >= 1 /\ gate[Len(gate)] = PriceOf(kind, j)
    BY <1>8 DEF Ends
  <2>2. Len(gate) \in 1..Len(gate) /\ Len(g) - 1 = Len(gate) /\ Len(g) >= 2
    BY <1>1, <1>3, <2>1
  <2>3. g[Len(g) - 1] = gate[Len(gate)]
    BY <1>3, <2>2
  <2>4. QED
    BY <1>4, <2>1, <2>2, <2>3
<1>9. ASSUME NEW i \in T, Top(i, T)
      PROVE  /\ Len(g) >= 1 /\ g[Len(g)] = PriceOf(kind, i)'
             /\ \A j \in T : Top(j, T \ {i}) => Len(g) >= 2 /\ g[Len(g) - 1] = PriceOf(kind, j)'
  <2>1. i = p
    BY <1>5, <1>9
  <2>2. g[Len(g)] = PriceOf(kind, i)'
    BY <1>7, <2>1
  <2>3. ASSUME NEW j \in T, Top(j, T \ {i}) PROVE j \in S /\ Top(j, S)
    BY <1>6, <2>1, <2>3 DEF Top
  <2>4. QED
    BY <1>7, <1>8, <2>2, <2>3
<1>10. Ends(g, kind, T)'
  <2>1. g' = g /\ T' = T
    BY DEF g, T
  <2>2. QED
    BY <1>9, <2>1 DEF Ends, Top
<1>11. QED
  BY <1>10 DEF g, T

\* A day is fed: the middle of the window is the one day about which something new is decided.
LEMMA DayClosesKeeps ==
  ASSUME TrendAssumption, IndInv, DayCloses
  PROVE  IndInv'
<1>0. /\ TypeOK /\ PlacesFit /\ WindowFits /\ WindowTrue /\ OneRange
      /\ GateFits /\ JournalFits /\ GateJournaled
  BY DEF IndInv
<1>1. /\ pc = "up" /\ Len(days) < MaxDays /\ pc' = "ending"
      /\ journal' = journal /\ marker' = marker /\ startedAt' = startedAt
      /\ starts' = starts /\ lost' = lost /\ fedFrom' = fedFrom
  BY DEF DayCloses
<1>2. PICK r \in Ranges : \E o \in Seen(r) :
        days' = Append(days, r) /\ OnDayClosed(Len(days), o) /\ clean' = (clean /\ o = r)
  BY DEF DayCloses
<1>3. PICK o \in Seen(r) :
        days' = Append(days, r) /\ OnDayClosed(Len(days), o) /\ clean' = (clean /\ o = r)
  BY <1>2
<1>n. PICK n \in Nat : n = Len(days)
  BY <1>0 DEF TypeOK
<1> DEFINE x == [day |-> n, high |-> o.high, low |-> o.low]
<1>4. /\ days \in Seq(Ranges) /\ n \in Nat /\ days' \in Seq(Ranges) /\ Len(days') = n + 1
      /\ fedFrom \in Int /\ 0 <= fedFrom /\ fedFrom <= n
  <2>1. days \in Seq(Ranges) /\ fedFrom \in 0..Len(days)
    BY <1>0 DEF TypeOK
  <2>2. QED
    BY <1>3, <1>n, <2>1
<1>5. o.high \in Int /\ o.low \in Int
  <2>1. r.high \in Int /\ r.low \in Int
    BY DEF TrendAssumption
  <2>2. o = r \/ o = [high |-> r.low, low |-> r.low]
    BY DEF Seen
  <2>3. QED
    BY <2>1, <2>2
<1>6. /\ window \in Seq(DaySeen) /\ Len(window) <= 5 /\ Len(window) \in Nat
      /\ DOMAIN window = 1..Len(window)
  <2>1. window \in Seq(DaySeen) /\ Len(window) <= 2 * PivotN + 1 /\ 2 * PivotN + 1 = 5
    BY <1>0 DEF TypeOK, PivotN
  <2>2. Len(window) \in Nat /\ DOMAIN window = 1..Len(window)
    BY <2>1, LenProperties
  <2>3. QED
    BY <2>1, <2>2
<1>7. /\ x \in DaySeen /\ window' \in Seq(DaySeen) /\ Pushed(window, window', x)
      /\ gateHighs' \in Seq(Int) /\ gateLows' \in Seq(Int)
      /\ \A kind \in Kinds :
           /\ GateOf(kind) \in Seq(Int)
           /\ Confirms(kind, window') =>
                /\ Len(window') = 5 /\ EndOf(kind, window'[3]) \in Int
                /\ GateOf(kind)' = Append(GateOf(kind), EndOf(kind, window'[3]))
           /\ ~Confirms(kind, window') => GateOf(kind)' = GateOf(kind)
  BY <1>0, <1>3, <1>n, <1>5, PushDay
<1>x. x.day = n /\ x.high = o.high /\ x.low = o.low
  OBVIOUS
<1> HIDE DEF x
<1>8. /\ Len(window') >= 1 /\ Len(window') <= 5
      /\ \A k \in DOMAIN window' :
           \/ k = Len(window') /\ window'[k] = x
           \/ \E l \in DOMAIN window : window'[k] = window[l] /\ l = k - Len(window') + Len(window) + 1
  BY <1>6, <1>7, PushedFrom
<1>9. /\ Len(window') = (IF Len(window) < 5 THEN Len(window) + 1 ELSE 5)
      /\ Len(window') \in Nat /\ DOMAIN window' = 1..Len(window')
  <2>1. Len(window') \in Nat /\ DOMAIN window' = 1..Len(window')
    BY <1>7, LenProperties
  <2>2. QED
    BY <1>7, <2>1 DEF Pushed
<1>10. PICK w \in Seq(DaySeen) : w = window'
  BY <1>7
<1>11. \A l \in DOMAIN window : window[l].day < n /\ window[l].day \in Nat
  <2>1. window \in [1..Len(window) -> DaySeen]
    BY <1>6, LenProperties
  <2>2. \A l \in DOMAIN window : window[l] \in DaySeen
    BY <1>6, <2>1
  <2>3. \A l \in DOMAIN window : window[l].day < n
    BY <1>0, <1>n DEF OneRange
  <2>4. QED
    BY <2>2, <2>3 DEF DaySeen
<1>12. TypeOK'
  <2>1. Len(days') <= MaxDays /\ fedFrom' \in 0..Len(days') /\ startedAt' \in 0..Len(days')
    <3>1. startedAt \in 0..n /\ MaxDays \in Nat
      BY <1>0, <1>n DEF TypeOK, TrendAssumption
    <3>2. n < MaxDays
      BY <1>1, <1>n
    <3>3. QED
      BY <1>1, <1>4, <3>1, <3>2
  <2>2. Len(window') <= (2 * PivotN + 1)'
    BY <1>8 DEF PivotN
  <2>3. clean' \in BOOLEAN
    BY <1>3
  <2>4. pc' \in {"down", "marking", "seeding", "up", "ending"}
    BY <1>1
  <2>5. QED
    BY <1>0, <1>1, <1>4, <1>7, <2>1, <2>2, <2>3, <2>4 DEF TypeOK
<1>13. PlacesFit'
  <2>1. window' # <<>>
    <3>1. Len(<<>>) = 0
      OBVIOUS
    <3>2. QED
      BY <1>7, <1>8, <3>1, EmptySeq
  <2>2. QED
    BY <1>1, <2>1 DEF PlacesFit
<1>14. ASSUME clean \/ lost = 0, NEW k \in DOMAIN w
       PROVE  w[k].day = n + 1 - Len(w) + (k - 1)
  <2>1. CASE k = Len(w) /\ w[k] = x
    <3>1. n = n + 1 - Len(w) + (Len(w) - 1)
      BY <1>4, <1>9, <1>10
    <3>2. QED
      BY <1>x, <2>1, <3>1
  <2>2. CASE \E l \in DOMAIN window : w[k] = window[l] /\ l = k - Len(w) + Len(window) + 1
    <3>1. PICK l \in DOMAIN window : w[k] = window[l] /\ l = k - Len(w) + Len(window) + 1
      BY <2>2
    <3>2. window[l].day = n - Len(window) + l - 1
      BY <1>0, <1>1, <1>n, <1>14 DEF WindowFits
    <3>3. k \in Int /\ Len(w) \in Int /\ Len(window) \in Int /\ l \in Int /\ n \in Int
      BY <1>4, <1>6, <1>9, <1>10
    <3>4. n - Len(window) + l - 1 = n + 1 - Len(w) + (k - 1)
      <4>1. PICK a \in Int : a = Len(window)
        BY <3>3
      <4>2. PICK b \in Int : b = Len(w)
        BY <3>3
      <4>3. PICK i \in Int : i = k
        BY <3>3
      <4>4. PICK j \in Int : j = l
        BY <3>3
      <4>5. j = i - b + a + 1
        BY <3>1, <4>1, <4>2, <4>3, <4>4, Zenon
      <4>6. n - a + j - 1 = n + 1 - b + (i - 1)
        BY <4>5, Shifted
      <4>7. QED
        BY <4>1, <4>2, <4>3, <4>4, <4>6, Zenon
    <3>5. QED
      BY <3>1, <3>2, <3>4
  <2>3. QED
    BY <1>8, <1>10, <2>1, <2>2
<1>15. WindowFits'
  <2>1. SUFFICES ASSUME clean' \/ lost = 0, NEW k \in DOMAIN w
                 PROVE  w[k].day = Len(days') - Len(w) + k - 1
    BY <1>1, <1>10 DEF WindowFits
  <2>2. w[k].day = n + 1 - Len(w) + (k - 1)
    BY <1>3, <1>14, <2>1
  <2>3. n + 1 - Len(w) + (k - 1) = n + 1 - Len(w) + k - 1
    BY <1>4, <1>9, <1>10
  <2>4. QED
    BY <1>4, <2>2, <2>3
<1>16. ASSUME clean', NEW k \in DOMAIN w, NEW kind \in Kinds
       PROVE  EndOf(kind, w[k]) = PriceOf(kind, w[k].day)'
  <2>0. clean /\ o = r
    BY <1>3, <1>16
  <2>1. CASE w[k] = x
    <3>1. D(n)' = r
      <4>1. days'[n + 1] = r
        BY <1>3, <1>4, <1>n
      <4>2. QED
        BY <4>1 DEF D
    <3>2. QED
      BY <2>0, <2>1, <3>1, <1>x DEF PriceOf, EndOf
  <2>2. CASE \E l \in DOMAIN window : w[k] = window[l]
    <3>1. PICK l \in DOMAIN window : w[k] = window[l]
      BY <2>2
    <3>2. EndOf(kind, window[l]) = PriceOf(kind, window[l].day)
      BY <1>0, <1>1, <2>0 DEF WindowTrue
    <3>3. PICK d : d = window[l].day
      OBVIOUS
    <3>4. d \in 0..(Len(days) - 1)
      BY <1>4, <1>11, <1>n, <3>3
    <3>5. PriceOf(kind, d)' = PriceOf(kind, d)
      BY <1>3, <1>4, <3>4, SwingsGrow
    <3>6. w[k].day = d /\ EndOf(kind, w[k]) = PriceOf(kind, d)
      BY <3>1, <3>2, <3>3
    <3>7. EndOf(kind, w[k]) = PriceOf(kind, d)'
      BY <3>5, <3>6
    <3>8. QED
      BY <3>6, <3>7 DEF PriceOf, D
  <2>3. QED
    BY <1>8, <1>10, <2>1, <2>2
<1>17. clean' => Len(w) = IF n + 1 - fedFrom < 5 THEN n + 1 - fedFrom ELSE 5
  <2>1. SUFFICES ASSUME clean PROVE Len(w) = IF n + 1 - fedFrom < 5 THEN n + 1 - fedFrom ELSE 5
    BY <1>3
  <2>2. Len(window) = IF n - fedFrom < 5 THEN n - fedFrom ELSE 5
    <3>1. 2 * PivotN + 1 = 5
      BY DEF PivotN
    <3>2. QED
      BY <1>0, <1>1, <1>n, <2>1, <3>1 DEF WindowTrue
  <2>3. Len(w) = (IF Len(window) < 5 THEN Len(window) + 1 ELSE 5) /\ Len(w) \in Int /\ Len(window) \in Int
    BY <1>6, <1>9, <1>10
  <2>4. QED
    BY <1>4, <2>2, <2>3, Grown
<1>18. WindowTrue'
  <2>1. (2 * PivotN + 1)' = 5
    BY DEF PivotN
  <2>2. clean' => Len(window') = IF Len(days') - fedFrom' < 5 THEN Len(days') - fedFrom' ELSE 5
    BY <1>1, <1>4, <1>10, <1>17
  <2>3. ASSUME clean', NEW k \in DOMAIN window', NEW kind \in Kinds
        PROVE  EndOf(kind, window[k])' = PriceOf(kind, window[k].day)'
    <3>1. EndOf(kind, w[k]) = PriceOf(kind, w[k].day)'
      BY <1>10, <1>16, <2>3
    <3>2. EndOf(kind, window[k])' = EndOf(kind, w[k])
      BY <1>10 DEF EndOf
    <3>3. PriceOf(kind, window[k].day)' = PriceOf(kind, w[k].day)'
      BY <1>10 DEF PriceOf, EndOf, D
    <3>4. QED
      BY <3>1, <3>2, <3>3
  <2>4. QED
    BY <2>1, <2>2, <2>3 DEF WindowTrue
<1>19. OneRange'
  <2>1. ASSUME NEW e \in journal PROVE e.day < n /\ e.day \in Nat /\ e.day < n + 1
    <3>1. e.day \in Nat /\ e.day < n
      BY <1>0, <1>n DEF OneRange, TypeOK, Swing
    <3>2. QED
      BY <1>4, <3>1
  <2>2. ASSUME NEW k \in DOMAIN w
        PROVE  w[k].day < n + 1 /\ (w[k] = x \/ \E l \in DOMAIN window : w[k] = window[l])
    <3>1. w[k] = x \/ \E l \in DOMAIN window : w[k] = window[l]
      BY <1>8, <1>10
    <3>2. w[k].day = n \/ (w[k].day < n /\ w[k].day \in Nat)
      BY <1>11, <1>x, <3>1
    <3>3. QED
      BY <1>4, <3>1, <3>2
  <2>3. ASSUME NEW k \in DOMAIN w, NEW l \in DOMAIN w, w[k].day = w[l].day PROVE w[k] = w[l]
    <3>1. CASE w[k] = x /\ w[l] = x
      BY <3>1
    <3>2. CASE (\E a \in DOMAIN window : w[k] = window[a]) /\ (\E b \in DOMAIN window : w[l] = window[b])
      BY <1>0, <2>3, <3>2 DEF OneRange
    <3>3. CASE w[k] = x /\ (\E b \in DOMAIN window : w[l] = window[b])
      <4>1. w[l].day < n /\ w[k].day = n
        BY <1>11, <1>x, <3>3
      <4>2. QED
        BY <1>4, <2>3, <4>1
    <3>4. CASE (\E a \in DOMAIN window : w[k] = window[a]) /\ w[l] = x
      <4>1. w[k].day < n /\ w[l].day = n
        BY <1>11, <1>x, <3>4
      <4>2. QED
        BY <1>4, <2>3, <4>1
    <3>5. QED
      BY <2>2, <3>1, <3>2, <3>3, <3>4
  <2>4. ASSUME NEW e \in journal, NEW k \in DOMAIN w, e.day = w[k].day PROVE e.price = EndOf(e.kind, w[k])
    <3>1. w[k] # x
      <4>1. e.day < n /\ e.day \in Nat
        BY <2>1
      <4>2. QED
        BY <1>4, <1>x, <2>4, <4>1
    <3>2. PICK l \in DOMAIN window : w[k] = window[l]
      BY <2>2, <3>1
    <3>3. QED
      BY <1>0, <2>4, <3>2 DEF OneRange
  <2>5. /\ \A e \in journal : e.day < Len(days')
        /\ \A k \in DOMAIN window' : window'[k].day < Len(days')
    BY <1>4, <1>10, <2>1, <2>2
  <2>6. /\ \A k, l \in DOMAIN window' : window'[k].day = window'[l].day => window'[k] = window'[l]
        /\ \A e \in journal, k \in DOMAIN window' : e.day = window'[k].day =>
             e.price = EndOf(e.kind, window'[k])
    BY <1>10, <2>3, <2>4
  <2>7. \A e, q \in journal : e.kind = q.kind /\ e.day = q.day => e = q
    BY <1>0 DEF OneRange
  <2>8. QED
    BY <1>1, <2>5, <2>6, <2>7 DEF OneRange, EndOf
<1>20. JournalFits'
  <2>1. SUFFICES ASSUME lost = 0, NEW e \in journal PROVE e.day + 2 + 1 < Len(days')
    BY <1>1 DEF JournalFits, PivotN
  <2>2. e.day + 2 + 0 < n
    BY <1>0, <1>1, <1>n, <2>1 DEF JournalFits, PivotN
  <2>3. e.day \in Nat
    BY <1>0 DEF TypeOK, Swing
  <2>4. QED
    BY <1>4, <2>2, <2>3
<1>p. PICK p \in Int : p = n - 2
  BY <1>4
<1>21. ASSUME clean', NEW kind \in Kinds PROVE Ends(GateOf(kind), kind, FedSwings(kind))'
  <2> DEFINE S == FedSwings(kind)
             gate == GateOf(kind)
             T == {i \in SwingsOf(kind)' : i - 2 >= fedFrom}
  <2>a. PICK first \in Int : first = fedFrom
    BY <1>4
  <2>b. PICK old : old = S
    OBVIOUS
  <2>c. PICK list \in Seq(Int) : list = gate
    BY <1>7
  <2>1. Ends(list, kind, old)
    <3>1. clean
      BY <1>3, <1>21
    <3>2. QED
      BY <1>0, <1>1, <2>b, <2>c, <3>1 DEF GateFits
  <2>2. /\ \A i \in 0..(n - 1) : PriceOf(kind, i)' = PriceOf(kind, i)
        /\ SwingsOf(kind) \subseteq 0..(n - 3)
        /\ SwingsOf(kind)' \subseteq SwingsOf(kind) \cup {p}
        /\ SwingsOf(kind) \subseteq SwingsOf(kind)'
    <3>1. /\ \A i \in 0..(Len(days) - 1) : PriceOf(kind, i)' = PriceOf(kind, i)
          /\ SwingsOf(kind) \subseteq 0..(Len(days) - 3)
          /\ SwingsOf(kind)' \subseteq SwingsOf(kind) \cup {Len(days) - 2}
          /\ SwingsOf(kind) \subseteq SwingsOf(kind)'
      BY <1>3, <1>4, SwingsGrow
    <3>2. QED
      BY <1>n, <1>p, <3>1
  <2>3. old \in SUBSET (0..(n - 3)) /\ old = {i \in SwingsOf(kind) : i - 2 >= first}
    BY <2>a, <2>b, <2>2 DEF FedSwings, PivotN
  <2>4. FedSwings(kind)' = {i \in SwingsOf(kind)' : i - 2 >= first}
    BY <1>1, <2>a DEF FedSwings, PivotN
  <2> HIDE DEF S, gate, T
  <2>5. CASE ~(p \in SwingsOf(kind)' /\ p - 2 >= first)
    <3>1. FedSwings(kind)' = old
      BY <2>2, <2>3, <2>4, <2>5
    <3>2. GateOf(kind)' = list
      <4>1. ~Confirms(kind, w)
        <5>1. SUFFICES ASSUME Confirms(kind, w) PROVE FALSE
          OBVIOUS
        <5>2. Len(w) = 5
          BY <1>7, <1>10, <5>1
        <5>3. n + 1 - first >= 5 /\ p >= 2 /\ p - 2 >= first /\ n + 1 = p + 3 /\ p \in Nat
          <6>1. n + 1 - first >= 5
            BY <1>4, <1>17, <1>21, <2>a, <5>2
          <6>2. QED
            BY <1>4, <1>p, <2>a, <6>1
        <5>4. \A k \in DOMAIN w : w[k].day = p - 3 + k
          <6>1. SUFFICES ASSUME NEW k \in DOMAIN w PROVE w[k].day = p - 3 + k
            OBVIOUS
          <6>2. w[k].day = n + 1 - 5 + (k - 1)
            BY <1>3, <1>14, <1>21, <5>2
          <6>3. k \in Int
            BY <1>9, <1>10
          <6>4. n + 1 - 5 + (k - 1) = p - 3 + k
            BY <1>4, <1>p, <6>3
          <6>5. QED
            BY <6>2, <6>4
        <5>5. Len(days') = p + 3
          BY <1>4, <5>3
        <5>6. \A k \in DOMAIN w, z \in Kinds : EndOf(z, w[k]) = PriceOf(z, w[k].day)'
          BY <1>16, <1>21
        <5>7. p \in SwingsOf(kind)' <=> Confirms(kind, w)
          BY <1>4, <5>2, <5>3, <5>4, <5>5, <5>6, MiddleDay
        <5>8. QED
          BY <2>5, <5>1, <5>3, <5>7
      <4>2. QED
        BY <1>7, <1>10, <2>c, <4>1 DEF gate
    <3>3. \A i \in old : PriceOf(kind, i)' = PriceOf(kind, i)
      <4>1. \A i \in 0..(n - 3) : i \in 0..(n - 1)
        BY <1>4
      <4>2. QED
        BY <2>2, <2>3, <4>1
    <3>4. Ends(list, kind, old)'
      BY <2>1, <3>3 DEF Ends, Top
    <3>5. QED
      BY <3>1, <3>2, <3>4 DEF Ends, Top
  <2>6. CASE p \in SwingsOf(kind)' /\ p - 2 >= first
    <3>1. FedSwings(kind)' = old \cup {p}
      BY <2>2, <2>3, <2>4, <2>6
    <3>2. n + 1 - first >= 5 /\ p >= 2 /\ n + 1 = p + 3 /\ p \in Nat
      BY <1>4, <1>p, <2>6, <2>a
    <3>3. Len(w) = 5
      BY <1>4, <1>17, <1>21, <2>a, <3>2
    <3>4. \A k \in DOMAIN w : w[k].day = p - 3 + k
      <4>1. SUFFICES ASSUME NEW k \in DOMAIN w PROVE w[k].day = p - 3 + k
        OBVIOUS
      <4>2. w[k].day = n + 1 - 5 + (k - 1)
        BY <1>3, <1>14, <1>21, <3>3
      <4>3. k \in Int
        BY <1>9, <1>10
      <4>4. n + 1 - 5 + (k - 1) = p - 3 + k
        BY <1>4, <1>p, <4>3
      <4>5. QED
        BY <4>2, <4>4
    <3>5. Len(days') = p + 3
      BY <1>4, <3>2
    <3>6. \A k \in DOMAIN w, z \in Kinds : EndOf(z, w[k]) = PriceOf(z, w[k].day)'
      BY <1>16, <1>21
    <3>7. /\ p \in SwingsOf(kind)' <=> Confirms(kind, w)
          /\ EndOf(kind, w[3]) = PriceOf(kind, p)'
      BY <1>4, <3>2, <3>3, <3>4, <3>5, <3>6, MiddleDay
    <3>8. PICK price \in Int : price = EndOf(kind, w[3])
      BY <1>7, <1>10, <2>6, <3>7
    <3>9. GateOf(kind)' = Append(list, price)
      BY <1>7, <1>10, <2>6, <2>c, <3>7, <3>8 DEF gate
    <3>10. old \in SUBSET (0..(Len(days) - 3)) /\ p = Len(days) - 2 /\ PriceOf(kind, p)' = price
      BY <1>n, <1>p, <2>3, <3>7, <3>8
    <3>11. Ends(Append(list, price), kind, old \cup {p})'
      BY <1>3, <1>4, <2>1, <3>10, EndsGrow
    <3>12. QED
      BY <3>1, <3>9, <3>11 DEF Ends, Top
  <2>7. QED
    BY <2>5, <2>6
<1>22. GateFits'
  BY <1>21 DEF GateFits
<1>23. ASSUME lost = 0, NEW kind \in Kinds
       PROVE  LastOf(GateOf(kind)', 2) = PricesOf(OfKind(journal \cup Confirmed(w), kind))
  <2> DEFINE E == OfKind(journal, kind)
             gate == GateOf(kind)
  <2>1. LastOf(gate, 2) = PricesOf(E)
    <3>1. journal \cup Unwritten = journal
      BY <1>1 DEF Unwritten
    <3>2. QED
      BY <1>0, <1>1, <1>23, <3>1 DEF GateJournaled
  <2>2. OfKind(journal \cup Confirmed(w), kind) = E \cup OfKind(Confirmed(w), kind)
    BY OfKinds
  <2>3. CASE ~Confirms(kind, w)
    <3>1. OfKind(Confirmed(w), kind) = {}
      BY <2>3, ConfirmedOf
    <3>2. E \cup {} = E
      OBVIOUS
    <3>3. GateOf(kind)' = gate
      BY <1>7, <1>10, <2>3
    <3>4. QED
      BY <2>1, <2>2, <3>1, <3>2, <3>3
  <2>4. CASE Confirms(kind, w)
    <3> DEFINE ev == [kind |-> kind, day |-> w[3].day, price |-> EndOf(kind, w[3])]
    <3>1. OfKind(Confirmed(w), kind) = {ev}
      BY <2>4, ConfirmedOf
    <3>2. Len(w) = 5 /\ EndOf(kind, w[3]) \in Int /\ GateOf(kind)' = Append(gate, EndOf(kind, w[3]))
          /\ gate \in Seq(Int)
      BY <1>7, <1>10, <2>4
    <3>3. ev.price = EndOf(kind, w[3]) /\ ev.day = w[3].day
      OBVIOUS
    <3>4. w[3].day = n - 2 /\ n - 2 \in Nat
      <4>1. 3 \in DOMAIN w /\ w[3] \in DaySeen
        <5>1. w \in [1..Len(w) -> DaySeen] /\ DOMAIN w = 1..Len(w)
          BY LenProperties
        <5>2. w \in [1..5 -> DaySeen] /\ DOMAIN w = 1..5 /\ 3 \in 1..5
          BY <3>2, <5>1
        <5>3. QED
          BY <5>2
      <4>2. w[3].day = n + 1 - 5 + (3 - 1) /\ w[3].day \in Nat
        BY <1>14, <1>23, <3>2, <4>1 DEF DaySeen
      <4>3. n + 1 - 5 + (3 - 1) = n - 2
        BY <1>4
      <4>4. QED
        BY <4>2, <4>3
    <3>5. /\ IsFiniteSet(E) /\ \A q \in E : q.day \in Nat /\ q.price \in Int
          /\ \A q, z \in E : q.day = z.day => q = z
      BY <1>0, JournalOfKind
    <3>6. \A q \in E : q.day < n - 2
      <4>1. SUFFICES ASSUME NEW q \in E PROVE q.day < n - 2
        OBVIOUS
      <4>2. q \in journal
        BY DEF OfKind
      <4>3. q.day + 2 + 0 < n
        BY <1>0, <1>1, <1>n, <1>23, <4>2 DEF JournalFits, PivotN
      <4>4. QED
        BY <1>4, <3>5, <4>3
    <3> HIDE DEF E, gate, ev
    <3>7. ev.day \in Nat /\ ev.price \in Int /\ \A q \in E : q.day < ev.day
      BY <3>2, <3>3, <3>4, <3>6
    <3>8. PricesOf(E \cup {ev}) = LastOf(Append(PricesOf(E), ev.price), 2)
      BY <3>5, <3>7, PricesGrow
    <3>9. LastOf(Append(gate, ev.price), 2) = LastOf(Append(LastOf(gate, 2), ev.price), 2)
      BY <3>2, <3>7, LastAppend
    <3>10. GateOf(kind)' = Append(gate, ev.price)
      BY <3>2, <3>3
    <3>11. QED
      BY <2>1, <2>2, <3>1, <3>8, <3>9, <3>10
  <2>5. QED
    BY <2>3, <2>4
<1>24. GateJournaled'
  <2>1. (journal \cup Unwritten)' = journal \cup Confirmed(w)
    BY <1>1, <1>10 DEF Unwritten
  <2>2. ASSUME lost = 0, NEW kind \in Kinds
        PROVE  LastOf(GateOf(kind), 2)' = PricesOf(OfKind(journal \cup Unwritten, kind))'
    <3>1. PricesOf(OfKind(journal \cup Unwritten, kind))' = PricesOf(OfKind(journal \cup Confirmed(w), kind))
      BY <2>1
    <3>2. QED
      BY <1>23, <2>2, <3>1
  <2>3. QED
    BY <1>1, <2>2 DEF GateJournaled
<1>25. QED
  BY <1>12, <1>13, <1>15, <1>18, <1>19, <1>20, <1>22, <1>24 DEF IndInv

----------------------------------------------------------------------------
\* Every step keeps the inductive invariant.
LEMMA NextKeeps ==
  ASSUME TrendAssumption, IndInv, [Next]_vars
  PROVE  IndInv'
<1>1. CASE Crash
  BY <1>1, CrashKeeps
<1>2. CASE Bootstrap
  BY <1>2, BootstrapKeeps
<1>3. CASE MarkBootstrapped
  BY <1>3, MarkBootstrappedKeeps
<1>4. CASE SkipBootstrap
  BY <1>4, SkipBootstrapKeeps
<1>5. CASE SeedTrendHistory
  BY <1>5, SeedTrendHistoryKeeps
<1>6. CASE DayCloses
  BY <1>6, DayClosesKeeps
<1>7. CASE WriteSwings
  BY <1>7, WriteSwingsKeeps
<1>8. CASE WriteFails
  BY <1>8, WriteFailsKeeps
<1>9. CASE DayMissed
  BY <1>9, DayMissedKeeps
<1>10. CASE UNCHANGED vars
  <2>1. /\ days' = days /\ window' = window /\ gateHighs' = gateHighs /\ gateLows' = gateLows
        /\ journal' = journal /\ marker' = marker /\ pc' = pc /\ startedAt' = startedAt
        /\ starts' = starts /\ lost' = lost /\ fedFrom' = fedFrom /\ clean' = clean
    BY <1>10 DEF vars
  <2>2. TypeOK'
    BY <2>1 DEF IndInv, TypeOK
  <2>3. /\ SwingEvents' = SwingEvents
        /\ \A kind \in Kinds : SwingsOf(kind)' = SwingsOf(kind)
        /\ \A kind \in Kinds : \A i : PriceOf(kind, i)' = PriceOf(kind, i)
    BY <2>1, SameDays
  <2>4. PlacesFit' /\ WindowFits' /\ OneRange' /\ JournalFits'
    BY <2>1, <2>3 DEF IndInv, PlacesFit, WindowFits, OneRange, JournalFits, EndOf
  <2>5. WindowTrue'
    BY <2>1, <2>3 DEF IndInv, WindowTrue, EndOf
  <2>6. GateFits'
    <3>1. \A kind \in Kinds : FedSwings(kind)' = FedSwings(kind) /\ GateOf(kind)' = GateOf(kind)
      BY <2>1, <2>3 DEF FedSwings, PivotN, GateOf
    <3>2. ASSUME clean /\ pc \in {"up", "ending"}, NEW kind \in Kinds
          PROVE  Ends(GateOf(kind), kind, FedSwings(kind))'
      <4>1. Ends(GateOf(kind), kind, FedSwings(kind))
        BY <3>2 DEF IndInv, GateFits
      <4>2. QED
        BY <2>3, <3>1, <4>1 DEF Ends, Top
    <3>3. QED
      BY <2>1, <3>2 DEF GateFits
  <2>7. GateJournaled'
    <3>1. Unwritten' = Unwritten
      BY <2>1 DEF Unwritten
    <3>2. \A kind \in Kinds : GateOf(kind)' = GateOf(kind)
      BY <2>1 DEF GateOf
    <3>3. QED
      BY <2>1, <3>1, <3>2 DEF IndInv, GateJournaled
  <2>8. QED
    BY <2>2, <2>4, <2>5, <2>6, <2>7 DEF IndInv
<1>11. QED
  BY <1>1, <1>2, <1>3, <1>4, <1>5, <1>6, <1>7, <1>8, <1>9, <1>10 DEF Next

\* The inductive invariant holds of every reachable state of the runner's trend history:
\* Bootstrap, seeding, feeding, journaling, failed writes, missed days and crashes keep it.
THEOREM IndInvHolds == Spec => []IndInv
<1>1. Init => IndInv
  BY TrendAssumption, InitIndInv
<1>2. IndInv /\ [Next]_vars => IndInv'
  BY TrendAssumption, NextKeeps
<1>3. QED
  BY <1>1, <1>2, PTL DEF Spec

\* Every variable keeps its type: the window never holds more than its five days, and the
\* lists that get_recent_swing_history fills hold prices.
THEOREM TypeCorrect == Spec => []TypeOK
<1>1. IndInv => TypeOK
  BY DEF IndInv
<1>2. QED
  BY <1>1, IndInvHolds, PTL

\* As long as no write of _finalize_day failed, the gate in memory and the journal agree on
\* the last two swings of both kinds, through crashes, seeding and missed days.
THEOREM GateRestsOnJournalHolds == Spec => []GateRestsOnJournal
<1>1. ASSUME IndInv PROVE GateRestsOnJournal
  <2>1. SUFFICES ASSUME pc = "up", lost = 0
                 PROVE  /\ LastOf(gateHighs, 2) = Prices("high")
                        /\ LastOf(gateLows, 2) = Prices("low")
    BY DEF GateRestsOnJournal
  <2>2. journal \cup Unwritten = journal
    BY <2>1 DEF Unwritten
  <2>3. \A kind \in Kinds : LastOf(GateOf(kind), 2) = PricesOf(OfKind(journal, kind))
    BY <1>1, <2>1, <2>2 DEF IndInv, GateJournaled
  <2>4. "high" \in Kinds /\ "low" \in Kinds
    BY DEF Kinds
  <2>5. GateOf("high") = gateHighs /\ GateOf("low") = gateLows
    BY DEF GateOf
  <2>6. QED
    BY <2>3, <2>4, <2>5 DEF Prices
<1>2. QED
  BY <1>1, IndInvHolds, PTL

----------------------------------------------------------------------------
\* Max of a nonempty finite set of numbers is its greatest element.
LEMMA MaxIs ==
  ASSUME NEW n \in Nat, NEW S \in SUBSET (0..n), S # {}
  PROVE  Top(Max(S), S)
<1>1. \E x \in S : \A y \in S : y <= x
  BY TopExists DEF Top
<1>2. QED
  BY <1>1 DEF Max, Top

\* More than one swing: the last two are the last and the last of the others.
LEMMA LastTwoIs ==
  ASSUME NEW n \in Nat, NEW S \in SUBSET (0..n), Cardinality(S) >= 2
  PROVE  /\ Top(LastTwo(S)[2], S) /\ Top(LastTwo(S)[1], S \ {LastTwo(S)[2]})
         /\ LastTwo(S)[1] \in S /\ LastTwo(S)[2] \in S /\ LastTwo(S)[1] <= LastTwo(S)[2]
<1> DEFINE last == Max(S)
           other == Max(S \ {last})
<1>1. LastTwo(S) = <<other, last>>
  BY DEF LastTwo
<1>2. S # {}
  <2>1. Cardinality({}) = 0
    BY FS_EmptySet
  <2>2. QED
    BY <2>1
<1>3. Top(last, S)
  BY <1>2, MaxIs
<1>4. S \ {last} # {}
  <2>1. SUFFICES ASSUME S \ {last} = {} PROVE FALSE
    OBVIOUS
  <2>2. last \in S
    BY <1>3 DEF Top
  <2> HIDE DEF last
  <2>3. S = {last}
    BY <2>1, <2>2
  <2>4. Cardinality({last}) = 1
    BY FS_Singleton
  <2>5. QED
    BY <2>3, <2>4
<1> HIDE DEF last
<1>5. Top(other, S \ {last})
  <2>1. S \ {last} \in SUBSET (0..n)
    OBVIOUS
  <2>2. QED
    BY <1>4, <2>1, MaxIs
<1> HIDE DEF other
<1>6. LastTwo(S)[1] = other /\ LastTwo(S)[2] = last
  BY <1>1
<1>7. other \in S /\ last \in S /\ other <= last
  BY <1>3, <1>5 DEF Top
<1>8. QED
  BY <1>3, <1>5, <1>6, <1>7

\* The list of a kind ends with the prices of its last two swings once they were fed.
LEMMA Heals ==
  ASSUME TrendAssumption, IndInv, pc = "up", clean, NEW kind \in Kinds,
         Cardinality(SwingsOf(kind)) >= 2,
         LastTwo(SwingsOf(kind))[1] - PivotN >= fedFrom
  PROVE  LET g == GateOf(kind)
             two == LastTwo(SwingsOf(kind))
         IN  /\ g \in Seq(Int) /\ Len(g) >= 2
             /\ g[Len(g) - 1] = PriceOf(kind, two[1]) /\ g[Len(g)] = PriceOf(kind, two[2])
             /\ two[1] \in SwingsOf(kind) /\ two[2] \in SwingsOf(kind)
             /\ PriceOf(kind, two[1]) \in Int /\ PriceOf(kind, two[2]) \in Int
<1> DEFINE g == GateOf(kind)
           S == SwingsOf(kind)
           F == FedSwings(kind)
           i == LastTwo(S)[2]
           j == LastTwo(S)[1]
<1>1. /\ days \in Seq(Ranges) /\ Len(days) \in Nat /\ fedFrom \in Int
      /\ gateHighs \in Seq(Int) /\ gateLows \in Seq(Int)
  BY DEF IndInv, TypeOK
<1>2. g \in Seq(Int)
  BY <1>1 DEF GateOf
<1>3. S \in SUBSET (0..Len(days)) /\ \A k \in S : k \in Nat /\ PriceOf(kind, k) \in Int
  BY <1>1, PricesAreInt
<1>4. Ends(g, kind, F)
  BY DEF IndInv, GateFits
<1>5. F = {k \in S : k - 2 >= fedFrom}
  BY DEF FedSwings, PivotN
<1>a. Cardinality(S) >= 2 /\ j - 2 >= fedFrom
  BY DEF PivotN
<1> HIDE DEF g, S, F
<1>6. Top(i, S) /\ Top(j, S \ {i}) /\ j \in S /\ i \in S /\ j <= i
  BY <1>1, <1>3, <1>a, LastTwoIs
<1> HIDE DEF i, j
<1>7. i \in F /\ j \in F
  <2>1. i \in Nat /\ j \in Nat
    BY <1>3, <1>6
  <2>2. i - 2 >= fedFrom
    BY <1>1, <1>6, <1>a, <2>1
  <2>3. QED
    BY <1>5, <1>6, <1>a, <2>2
<1>8. Top(i, F) /\ Top(j, F \ {i})
  BY <1>5, <1>6, <1>7 DEF Top
<1>9. /\ Len(g) >= 1 /\ g[Len(g)] = PriceOf(kind, i)
      /\ Len(g) >= 2 /\ g[Len(g) - 1] = PriceOf(kind, j)
  BY <1>4, <1>7, <1>8 DEF Ends
<1>10. QED
  BY <1>2, <1>3, <1>6, <1>9 DEF g, S, i, j

\* A list that ends with two prices, read by LastOf and by SubSeq.
LEMMA EndsWith ==
  ASSUME NEW g \in Seq(Int), NEW a \in Int, NEW b \in Int,
         Len(g) >= 2, g[Len(g) - 1] = a, g[Len(g)] = b
  PROVE  /\ LastOf(g, 2) = <<a, b>>
         /\ SubSeq(g, Len(g) - 1, Len(g))[1] = a /\ SubSeq(g, Len(g) - 1, Len(g))[2] = b
<1>1. Len(g) \in Nat /\ g \in [1..Len(g) -> Int]
  BY LenProperties
<1>2. CASE Len(g) = 2
  <2>1. LastOf(g, 2) = g
    BY <1>2, LastTwoOf
  <2>2. g \in [1..2 -> Int]
    BY <1>1, <1>2
  <2>3. 2 - 1 = 1
    OBVIOUS
  <2>4. g[1] = a /\ g[2] = b
    BY <1>2, <2>3
  <2>5. g = <<a, b>>
    BY <2>2, <2>4, ShortSeqs
  <2>6. QED
    BY <2>1, <2>5
<1>3. CASE Len(g) > 2
  BY <1>3, LastTwoOf
<1>4. Len(g) = 2 \/ Len(g) > 2
  BY <1>1
<1>5. SubSeq(g, Len(g) - 1, Len(g))[1] = a /\ SubSeq(g, Len(g) - 1, Len(g))[2] = b
  <2>1. Len(g) - 1 \in 1..Len(g) /\ Len(g) \in 1..Len(g)
    BY <1>1
  <2>2. 1 \in 1..(Len(g) - (Len(g) - 1) + 1) /\ 2 \in 1..(Len(g) - (Len(g) - 1) + 1)
    BY <1>1
  <2>3. Len(g) - 1 + 1 - 1 = Len(g) - 1 /\ Len(g) - 1 + 2 - 1 = Len(g)
    BY <1>1
  <2>4. SubSeq(g, Len(g) - 1, Len(g))[1] = g[Len(g) - 1 + 1 - 1]
    BY <1>1, <2>1, <2>2
  <2>5. SubSeq(g, Len(g) - 1, Len(g))[2] = g[Len(g) - 1 + 2 - 1]
    BY <1>1, <2>1, <2>2
  <2>6. QED
    BY <2>3, <2>4, <2>5
<1>6. QED
  BY <1>2, <1>3, <1>4, <1>5

\* After a restart, a seeding or missed days the gate has the last two swings that
\* daily_trend_as_of() uses, as soon as both were confirmed from days fed whole.
THEOREM SwingsHealHolds == Spec => []SwingsHeal
<1>1. ASSUME IndInv PROVE SwingsHeal
  <2>1. /\ "high" \in Kinds /\ "low" \in Kinds
        /\ SwingsOf("high") = SwingHighs /\ SwingsOf("low") = SwingLows
        /\ GateOf("high") = gateHighs /\ GateOf("low") = gateLows
    BY DEF Kinds, SwingsOf, GateOf
  <2>2. \A i : PriceOf("high", i) = D(i).high /\ PriceOf("low", i) = D(i).low
    BY DEF PriceOf, EndOf
  <2>3. ASSUME Warm(SwingHighs)
        PROVE  LastOf(gateHighs, 2) = [k \in 1..2 |-> D(LastTwo(SwingHighs)[k]).high]
    <3> DEFINE two == LastTwo(SwingHighs)
               f == [k \in 1..2 |-> D(two[k]).high]
    <3>1. /\ gateHighs \in Seq(Int) /\ Len(gateHighs) >= 2
          /\ gateHighs[Len(gateHighs) - 1] = D(two[1]).high /\ gateHighs[Len(gateHighs)] = D(two[2]).high
          /\ D(two[1]).high \in Int /\ D(two[2]).high \in Int
      BY <1>1, <2>1, <2>2, <2>3, TrendAssumption, Heals DEF Warm
    <3> HIDE DEF two
    <3>2. LastOf(gateHighs, 2) = <<D(two[1]).high, D(two[2]).high>>
      BY <3>1, EndsWith
    <3>3. f \in [1..2 -> Int] /\ f[1] = D(two[1]).high /\ f[2] = D(two[2]).high
      <4>1. 1..2 = {1, 2}
        OBVIOUS
      <4>2. QED
        BY <3>1, <4>1
    <3> HIDE DEF f
    <3>4. f = <<D(two[1]).high, D(two[2]).high>>
      BY <3>1, <3>3, ShortSeqs
    <3>5. QED
      BY <3>2, <3>4 DEF f, two
  <2>4. ASSUME Warm(SwingLows)
        PROVE  LastOf(gateLows, 2) = [k \in 1..2 |-> D(LastTwo(SwingLows)[k]).low]
    <3> DEFINE two == LastTwo(SwingLows)
               f == [k \in 1..2 |-> D(two[k]).low]
    <3>1. /\ gateLows \in Seq(Int) /\ Len(gateLows) >= 2
          /\ gateLows[Len(gateLows) - 1] = D(two[1]).low /\ gateLows[Len(gateLows)] = D(two[2]).low
          /\ D(two[1]).low \in Int /\ D(two[2]).low \in Int
      BY <1>1, <2>1, <2>2, <2>4, TrendAssumption, Heals DEF Warm
    <3> HIDE DEF two
    <3>2. LastOf(gateLows, 2) = <<D(two[1]).low, D(two[2]).low>>
      BY <3>1, EndsWith
    <3>3. f \in [1..2 -> Int] /\ f[1] = D(two[1]).low /\ f[2] = D(two[2]).low
      <4>1. 1..2 = {1, 2}
        OBVIOUS
      <4>2. QED
        BY <3>1, <4>1
    <3> HIDE DEF f
    <3>4. f = <<D(two[1]).low, D(two[2]).low>>
      BY <3>1, <3>3, ShortSeqs
    <3>5. QED
      BY <3>2, <3>4 DEF f, two
  <2>5. QED
    BY <2>3, <2>4 DEF SwingsHeal
<1>2. QED
  BY <1>1, IndInvHolds, PTL

\* The two gates agree on a day that the live one lets trade.
LEMMA SameVerdict ==
  ASSUME NEW date \in Calendar, NEW t, NEW c \in Counts, GateForDay(date, t, c).tradeable
  PROVE  BatchDay(date, t, c) = GateForDay(date, t, c)
<1>1. c.before \in {0, 3, 11} /\ c.session \in {0, 1, 8} /\ c.after \in {0, 1, 9}
  BY DEF Counts
<1>2. \A reason : ~ Skip(reason).tradeable
  BY DEF Skip
<1>3. c.after # 0
  BY <1>2 DEF GateForDay
<1> DEFINE seen == c.before + c.session + 1
           all == c.before + c.session + c.after
<1>4. GateForDay(date, t, c) = Judge(date # "ordinary", t, c, seen)
  BY <1>3 DEF GateForDay
<1>5. seen # c.before /\ all # c.before /\ seen \in Int /\ all \in Int /\ seen <= all
  BY <1>1, <1>3
<1>6. BatchDay(date, t, c) = Judge(date = "fomc", t, c, all)
  BY DEF BatchDay
<1> HIDE DEF seen, all
<1>7. date = "ordinary"
  <2>1. SUFFICES ASSUME date # "ordinary" PROVE FALSE
    OBVIOUS
  <2>2. Judge(date # "ordinary", t, c, seen) = Skip("fomc")
    BY <2>1 DEF Judge
  <2>3. QED
    BY <1>2, <1>4, <2>2
<1>8. t # "none"
  <2>1. SUFFICES ASSUME t = "none" PROVE FALSE
    OBVIOUS
  <2>2. Judge(date # "ordinary", t, c, seen) = Skip("no_trend")
    BY <1>7, <2>1 DEF Judge
  <2>3. QED
    BY <1>2, <1>4, <2>2
<1>9. seen >= MinSessionBars
  <2>1. SUFFICES ASSUME seen < MinSessionBars PROVE FALSE
    BY <1>5 DEF MinSessionBars
  <2>2. Judge(date # "ordinary", t, c, seen) = Skip("insufficient_bars")
    BY <1>5, <1>7, <1>8, <2>1 DEF Judge, MinSessionBars
  <2>3. QED
    BY <1>2, <1>4, <2>2
<1>10. all >= MinSessionBars /\ ~(all < MinSessionBars) /\ ~(seen < MinSessionBars)
  BY <1>5, <1>9 DEF MinSessionBars
<1>11. Judge(date # "ordinary", t, c, seen) = Trade(t, c.before, c.before + c.session)
  BY <1>5, <1>7, <1>8, <1>9, <1>10 DEF Judge
<1>12. Judge(date = "fomc", t, c, all) = Trade(t, c.before, c.before + c.session)
  BY <1>5, <1>7, <1>8, <1>10 DEF Judge
<1>13. QED
  BY <1>4, <1>6, <1>11, <1>12

\* A day that gate_for_day lets trade at 10:00 is a day the batch loop trades, with the same
\* trend and the same session, once the gate has warmed up.
THEOREM LiveDaysAreBatchDaysHolds == Spec => []LiveDaysAreBatchDays
<1>1. ASSUME IndInv PROVE LiveDaysAreBatchDays
  <2>1. /\ "high" \in Kinds /\ "low" \in Kinds
        /\ SwingsOf("high") = SwingHighs /\ SwingsOf("low") = SwingLows
        /\ GateOf("high") = gateHighs /\ GateOf("low") = gateLows
    BY DEF Kinds, SwingsOf, GateOf
  <2>2. \A i : PriceOf("high", i) = D(i).high /\ PriceOf("low", i) = D(i).low
    BY DEF PriceOf, EndOf
  <2>3. SUFFICES ASSUME Warm(SwingHighs), Warm(SwingLows)
                 PROVE  TrendForToday = DailyTrendAsOf
    BY SameVerdict DEF LiveDaysAreBatchDays
  <2> DEFINE h == LastTwo(SwingHighs)
             l == LastTwo(SwingLows)
             gh == SubSeq(gateHighs, Len(gateHighs) - 1, Len(gateHighs))
             gl == SubSeq(gateLows, Len(gateLows) - 1, Len(gateLows))
             bh == <<D(h[1]).high, D(h[2]).high>>
             bl == <<D(l[1]).low, D(l[2]).low>>
  <2>4. /\ gateHighs \in Seq(Int) /\ Len(gateHighs) >= 2
        /\ gateHighs[Len(gateHighs) - 1] = D(h[1]).high /\ gateHighs[Len(gateHighs)] = D(h[2]).high
        /\ D(h[1]).high \in Int /\ D(h[2]).high \in Int
    BY <1>1, <2>1, <2>2, <2>3, TrendAssumption, Heals DEF Warm
  <2>5. /\ gateLows \in Seq(Int) /\ Len(gateLows) >= 2
        /\ gateLows[Len(gateLows) - 1] = D(l[1]).low /\ gateLows[Len(gateLows)] = D(l[2]).low
        /\ D(l[1]).low \in Int /\ D(l[2]).low \in Int
    BY <1>1, <2>1, <2>2, <2>3, TrendAssumption, Heals DEF Warm
  <2>6. Cardinality(SwingHighs) >= 2 /\ Cardinality(SwingLows) >= 2
    BY <2>3 DEF Warm
  <2>7. gh[1] = bh[1] /\ gh[2] = bh[2]
    BY <2>4, EndsWith
  <2>8. gl[1] = bl[1] /\ gl[2] = bl[2]
    BY <2>5, EndsWith
  <2>9. TrendForToday = Direction(gh, gl)
    <3>1. ~(Len(gateHighs) < 2) /\ ~(Len(gateLows) < 2)
      BY <2>4, <2>5
    <3>2. QED
      BY <3>1 DEF TrendForToday
  <2>10. DailyTrendAsOf = Direction(bh, bl)
    <3>1. /\ Cardinality(SwingHighs) \in Nat /\ Cardinality(SwingLows) \in Nat
      <4>1. days \in Seq(Ranges) /\ Len(days) \in Nat
        BY <1>1 DEF IndInv, TypeOK
      <4>2. SwingHighs \subseteq 0..Len(days) /\ SwingLows \subseteq 0..Len(days)
        BY <2>1, <4>1, TrendAssumption, PricesAreInt
      <4>3. IsFiniteSet(0..Len(days))
        BY <4>1, FS_Interval
      <4>4. QED
        BY <4>2, <4>3, FS_Subset, FS_CardinalityType
    <3>2. ~(Cardinality(SwingHighs) < 2) /\ ~(Cardinality(SwingLows) < 2)
      BY <2>6, <3>1
    <3>3. QED
      BY <3>2 DEF DailyTrendAsOf
  <2> HIDE DEF gh, gl, bh, bl
  <2>11. Direction(gh, gl) = Direction(bh, bl)
    BY <2>7, <2>8, Zenon DEF Direction
  <2>12. QED
    BY <2>9, <2>10, <2>11
<1>2. QED
  BY <1>1, IndInvHolds, PTL
=============================================================================
