---------------------------- MODULE CatalogueProofs ----------------------------
(* Proofs about Catalogue: what a build publishes depends on the documents     *)
(* and never on the order they are read in, and what it links to is there.     *)
EXTENDS Catalogue, FiniteSetTheorems, SequenceTheorems, TLAPS

-------------------------------------------------------------------------------
(* Numbers. *)

(* Induction over the numbers, from the pigeonhole principle: were n the one    *)
(* left out, 0..n would be sent into 1..n with no two to the same.              *)
LEMMA SetInduction ==
  ASSUME NEW S, 0 \in S, \A n \in Nat : n \in S => n + 1 \in S
  PROVE  Nat \subseteq S
<1> SUFFICES ASSUME NEW n \in Nat, n \notin S PROVE FALSE
  OBVIOUS
<1> DEFINE from == 0..n
           to == 1..n
           f == [i \in from |-> IF i \in S THEN i + 1 ELSE i]
<1>1. \A i \in from : f[i] \in to
  OBVIOUS
<1>2. f \in [from -> to]
  BY <1>1
<1>3. IsFiniteSet(from) /\ Cardinality(from) = n + 1
  <2>1. 0 \in Int /\ n \in Int /\ n - 0 + 1 = n + 1 /\ ~(0 > n)
    OBVIOUS
  <2> QED
    BY <2>1, FS_Interval
<1>4. IsFiniteSet(to) /\ Cardinality(to) = n
  <2>1. 1 \in Int /\ n \in Int /\ n - 1 + 1 = n /\ (1 > n => n = 0)
    OBVIOUS
  <2> QED
    BY <2>1, FS_Interval
<1>5. Cardinality(to) < Cardinality(from)
  BY <1>3, <1>4
<1> HIDE DEF f, from, to
<1>6. PICK i \in from, j \in from : i # j /\ f[i] = f[j]
  BY <1>2, <1>3, <1>4, <1>5, FS_PigeonHole
<1> USE DEF f, from, to
<1>7. f[i] = (IF i \in S THEN i + 1 ELSE i) /\ f[j] = (IF j \in S THEN j + 1 ELSE j)
  OBVIOUS
<1> QED
  BY <1>6, <1>7

(* Every set of numbers that is not empty has a least one. *)
LEMMA LeastNumber ==
  ASSUME NEW T \in SUBSET Nat, T # {}
  PROVE  \E x \in T : \A y \in T : x <= y
<1> SUFFICES ASSUME \A x \in T : \E y \in T : ~(x <= y)
             PROVE  FALSE
  OBVIOUS
<1> DEFINE S == {n \in Nat : \A y \in T : ~(y <= n)}
<1>1. 0 \in S
  OBVIOUS
<1>2. ASSUME NEW n \in Nat, n \in S PROVE n + 1 \in S
  <2>1. \A y \in T : ~(y <= n)
    BY <1>2
  <2>2. n + 1 \notin T
    BY <2>1
  <2> QED
    BY <2>1, <2>2
<1> HIDE DEF S
<1>3. Nat \subseteq S
  BY <1>1, <1>2, SetInduction
<1>4. PICK x \in T : TRUE
  OBVIOUS
<1>5. x \in Nat /\ x \in S
  BY <1>3
<1>6. ~(x <= x)
  BY <1>5 DEF S
<1> QED
  BY <1>5, <1>6

LEMMA MinIsLeast ==
  ASSUME NEW T \in SUBSET Nat, T # {}
  PROVE  Min(T) \in T /\ \A y \in T : Min(T) <= y
  BY LeastNumber DEF Min

(* A finite set of numbers has a greatest one: the least that is over none of   *)
(* them is in it.                                                               *)
LEMMA FiniteIsBounded ==
  ASSUME NEW T, IsFiniteSet(T), T \subseteq Nat
  PROVE  \E b \in Nat : \A y \in T : y <= b
<1> DEFINE S == {n \in Nat : \A U \in SUBSET Nat :
                   IsFiniteSet(U) /\ Cardinality(U) = n => \E b \in Nat : \A y \in U : y <= b}
<1>1. 0 \in S
  <2> SUFFICES ASSUME NEW U \in SUBSET Nat, IsFiniteSet(U), Cardinality(U) = 0
               PROVE  \E b \in Nat : \A y \in U : y <= b
    OBVIOUS
  <2>1. U = {}
    BY FS_EmptySet
  <2>2. 0 \in Nat /\ \A y \in U : y <= 0
    BY <2>1
  <2> QED
    BY <2>2
<1>2. ASSUME NEW n \in Nat, n \in S PROVE n + 1 \in S
  <2> SUFFICES ASSUME NEW U \in SUBSET Nat, IsFiniteSet(U), Cardinality(U) = n + 1
               PROVE  \E b \in Nat : \A y \in U : y <= b
    OBVIOUS
  <2>1. PICK x \in U : TRUE
    <3>1. U # {}
      BY FS_EmptySet
    <3> QED
      BY <3>1
  <2>2. IsFiniteSet(U \ {x}) /\ Cardinality(U \ {x}) = n
    <3>1. IsFiniteSet(U \ {x}) /\ Cardinality(U \ {x}) = Cardinality(U) - 1
      BY FS_RemoveElement
    <3> QED
      BY <3>1
  <2>3. PICK b \in Nat : \A y \in U \ {x} : y <= b
    BY <1>2, <2>2
  <2>4. x \in Nat /\ x + b \in Nat /\ \A y \in U : y <= x + b
    <3>1. x \in Nat
      OBVIOUS
    <3>2. ASSUME NEW y \in U PROVE y <= x + b
      <4>1. CASE y = x
        BY <3>1, <4>1
      <4>2. CASE y # x
        <5>1. y <= b /\ y \in Nat
          BY <2>3, <4>2
        <5> QED
          BY <3>1, <5>1
      <4> QED
        BY <4>1, <4>2
    <3> QED
      BY <3>1, <3>2
  <2> QED
    BY <2>4
<1> HIDE DEF S
<1>3. Nat \subseteq S
  BY <1>1, <1>2, SetInduction
<1>4. Cardinality(T) \in Nat
  BY FS_CardinalityType
<1> QED
  BY <1>3, <1>4 DEF S

LEMMA MaxIsGreatest ==
  ASSUME NEW T, IsFiniteSet(T), T \subseteq Nat, T # {}
  PROVE  Max(T) \in T /\ \A y \in T : Max(T) >= y
<1>1. PICK b \in Nat : \A y \in T : y <= b
  BY FiniteIsBounded
<1> DEFINE over == {n \in Nat : \A y \in T : y <= n}
<1>2. PICK m \in over : \A n \in over : m <= n
  <2>1. over \in SUBSET Nat /\ over # {}
    BY <1>1
  <2> HIDE DEF over
  <2> QED
    BY <2>1, LeastNumber
<1>3. m \in T
  <2> SUFFICES ASSUME m \notin T PROVE FALSE
    OBVIOUS
  <2>1. PICK y \in T : TRUE
    OBVIOUS
  <2>2. m \in Nat /\ y \in Nat /\ y <= m /\ y # m
    BY <1>2, <2>1
  <2>3. m - 1 \in Nat /\ \A z \in T : z <= m - 1
    <3>1. m - 1 \in Nat
      BY <2>2
    <3>2. ASSUME NEW z \in T PROVE z <= m - 1
      <4>1. z \in Nat /\ z <= m /\ z # m
        BY <1>2
      <4> QED
        BY <2>2, <4>1
    <3> QED
      BY <3>1, <3>2
  <2>4. m <= m - 1
    BY <1>2, <2>3
  <2> QED
    BY <2>2, <2>4
<1>4. \A y \in T : m >= y
  BY <1>2
<1> QED
  BY <1>3, <1>4 DEF Max
-------------------------------------------------------------------------------
(* Documents. *)

LEMMA RangeIsFinite ==
  ASSUME NEW f, IsFiniteSet(DOMAIN f), f = [x \in DOMAIN f |-> f[x]]
  PROVE  IsFiniteSet(Range(f))
<1>1. f \in Surjection(DOMAIN f, Range(f))
  <2>1. f \in [DOMAIN f -> Range(f)]
    BY DEF Range
  <2>2. \A t \in Range(f) : \E s \in DOMAIN f : f[s] = t
    BY DEF Range
  <2> QED
    BY <2>1, <2>2 DEF Surjection
<1> QED
  BY <1>1, FS_Surjection

LEMMA SymbolsAreFinite ==
  ASSUME NEW doc \in Document
  PROVE  IsFiniteSet(Range(doc.symbols)) /\ Range(doc.symbols) \subseteq Symbol
<1> DEFINE s == doc.symbols
<1>1. s \in Seq(Symbol)
  BY DEF Document
<1>2. Len(s) \in Nat /\ DOMAIN s = 1..Len(s) /\ s = [i \in 1..Len(s) |-> s[i]]
      /\ \A i \in 1..Len(s) : s[i] \in Symbol
  BY <1>1, LenProperties, ElementOfSeq
<1>3. IsFiniteSet(1..Len(s))
  BY <1>2, FS_Interval
<1>4. IsFiniteSet(Range(s))
  BY <1>2, <1>3, RangeIsFinite
<1> HIDE DEF s
<1>5. Range(s) \subseteq Symbol
  BY <1>2 DEF Range
<1> QED
  BY <1>4, <1>5 DEF s

LEMMA IdentityIsFinite ==
  ASSUME NEW doc \in Document
  PROVE  IsFiniteSet(IdentityOf(doc)) /\ IdentityOf(doc) \subseteq Symbol
<1>1. IdentityOf(doc) \subseteq Range(doc.symbols)
  BY DEF IdentityOf, OfClass
<1> QED
  BY <1>1, SymbolsAreFinite, FS_Subset

LEMMA LatestIsNumber ==
  ASSUME NEW T, IsFiniteSet(T), T \subseteq Nat
  PROVE  Max({0} \cup T) \in Nat
<1>1. IsFiniteSet(T \cup {0})
  BY FS_AddElement
<1>2. {0} \cup T = T \cup {0} /\ {0} \cup T \subseteq Nat /\ {0} \cup T # {}
  OBVIOUS
<1>3. IsFiniteSet({0} \cup T)
  BY <1>1, <1>2
<1> QED
  BY <1>2, <1>3, MaxIsGreatest

LEMMA RevisionIsNumber ==
  ASSUME NEW doc \in Document
  PROVE  NewestRevision(doc) \in Nat
<1> DEFINE I == IdentityOf(doc)
           f == [s \in I |-> s.stamps]
           dates == UNION {s.stamps : s \in I}
<1>1. IsFiniteSet(I) /\ I \subseteq Symbol
  BY IdentityIsFinite
<1> HIDE DEF I
<1>2. IsFiniteSet(Range(f))
  <2>1. DOMAIN f = I /\ f = [x \in DOMAIN f |-> f[x]]
    OBVIOUS
  <2> HIDE DEF f
  <2> QED
    BY <1>1, <2>1, RangeIsFinite
<1>3. {s.stamps : s \in I} = Range(f)
  BY DEF Range
<1>4. \A T \in {s.stamps : s \in I} : IsFiniteSet(T) /\ T \subseteq Nat
  BY <1>1 DEF Symbol
<1>5. IsFiniteSet(dates) /\ dates \subseteq Nat
  BY <1>2, <1>3, <1>4, FS_UNION
<1> HIDE DEF dates
<1>6. Max({0} \cup dates) \in Nat
  BY <1>5, LatestIsNumber
<1> QED
  BY <1>6 DEF NewestRevision, dates, I

LEMMA UpdatedIsNumber ==
  ASSUME NEW doc \in Document
  PROVE  LastUpdated(doc) \in Nat
<1> DEFINE I == IdentityOf(doc)
           f == [s \in I |-> s.updated]
           dates == {s.updated : s \in I}
<1>1. IsFiniteSet(I) /\ I \subseteq Symbol
  BY IdentityIsFinite
<1> HIDE DEF I
<1>2. IsFiniteSet(Range(f))
  <2>1. DOMAIN f = I /\ f = [x \in DOMAIN f |-> f[x]]
    OBVIOUS
  <2> HIDE DEF f
  <2> QED
    BY <1>1, <2>1, RangeIsFinite
<1>3. dates = Range(f)
  BY DEF Range
<1>4. IsFiniteSet(dates) /\ dates \subseteq Nat
  BY <1>1, <1>2, <1>3 DEF Symbol
<1> HIDE DEF dates
<1>5. Max({0} \cup dates) \in Nat
  BY <1>4, LatestIsNumber
<1> QED
  BY <1>5 DEF LastUpdated, dates, I

LEMMA ClaimsOfOids ==
  ASSUME NEW doc \in Document, NEW c \in OidsOf(doc)
  PROVE  c.oid \in Seq(Nat) /\ c.oid # <<>> /\ c.anchor \in {0, 1, 2}
<1>1. Range(doc.symbols) \subseteq Symbol
  BY SymbolsAreFinite
<1>2. ASSUME NEW s \in OfClass(doc, DOMAIN AnchorRank)
      PROVE  AnchorRank[s.class] \in {0, 1, 2} /\ s \in Range(doc.symbols)
  BY <1>2 DEF OfClass, AnchorRank
<1>3. \E s \in Range(doc.symbols) :
         s.oid # <<>> /\ c.oid = s.oid /\ c.anchor \in {0, 1, 2}
  <2>1. CASE {s \in OfClass(doc, DOMAIN AnchorRank) : s.oid # <<>>} # {}
    BY <1>2, <2>1 DEF OidsOf
  <2>2. CASE {s \in OfClass(doc, DOMAIN AnchorRank) : s.oid # <<>>} = {}
    BY <2>2 DEF OidsOf, AnchorRankFallback
  <2> QED
    BY <2>1, <2>2
<1> QED
  BY <1>1, <1>3 DEF Symbol
-------------------------------------------------------------------------------
(* Ranks: compared place by place, they are a total order of the modules. *)

Lex(a, b) ==
  \/ a[1] < b[1]
  \/ a[1] = b[1] /\
     (\/ a[2] < b[2]
      \/ a[2] = b[2] /\
         (\/ a[3] < b[3]
          \/ a[3] = b[3] /\
             (\/ a[4] < b[4]
              \/ a[4] = b[4] /\
                 (\/ a[5] < b[5]
                  \/ a[5] = b[5] /\ a[6] < b[6]))))

LEMMA RankLessIsLex ==
  ASSUME NEW a, NEW b
  PROVE  RankLess(a, b) <=> Lex(a, b)
<1>1. ASSUME RankLess(a, b) PROVE Lex(a, b)
  <2>1. PICK i \in 1..6 : a[i] < b[i] /\ \A j \in 1..(i - 1) : a[j] = b[j]
    BY <1>1 DEF RankLess
  <2>2. i = 1 \/ i = 2 \/ i = 3 \/ i = 4 \/ i = 5 \/ i = 6
    OBVIOUS
  <2>3. /\ i > 1 => a[1] = b[1]
        /\ i > 2 => a[2] = b[2]
        /\ i > 3 => a[3] = b[3]
        /\ i > 4 => a[4] = b[4]
        /\ i > 5 => a[5] = b[5]
    BY <2>1
  <2> QED
    BY <2>1, <2>2, <2>3 DEF Lex
<1>2. ASSUME Lex(a, b) PROVE RankLess(a, b)
  <2>1. ASSUME a[1] < b[1] PROVE RankLess(a, b)
    <3>1. 1 \in 1..6 /\ \A j \in 1..(1 - 1) : a[j] = b[j]
      OBVIOUS
    <3> QED
      BY <2>1, <3>1 DEF RankLess
  <2>2. ASSUME a[1] = b[1], a[2] < b[2] PROVE RankLess(a, b)
    <3>1. 2 \in 1..6 /\ \A j \in 1..(2 - 1) : j = 1
      OBVIOUS
    <3> QED
      BY <2>2, <3>1 DEF RankLess
  <2>3. ASSUME a[1] = b[1], a[2] = b[2], a[3] < b[3] PROVE RankLess(a, b)
    <3>1. 3 \in 1..6 /\ \A j \in 1..(3 - 1) : j = 1 \/ j = 2
      OBVIOUS
    <3> QED
      BY <2>3, <3>1 DEF RankLess
  <2>4. ASSUME a[1] = b[1], a[2] = b[2], a[3] = b[3], a[4] < b[4] PROVE RankLess(a, b)
    <3>1. 4 \in 1..6 /\ \A j \in 1..(4 - 1) : j = 1 \/ j = 2 \/ j = 3
      OBVIOUS
    <3> QED
      BY <2>4, <3>1 DEF RankLess
  <2>5. ASSUME a[1] = b[1], a[2] = b[2], a[3] = b[3], a[4] = b[4], a[5] < b[5] PROVE RankLess(a, b)
    <3>1. 5 \in 1..6 /\ \A j \in 1..(5 - 1) : j = 1 \/ j = 2 \/ j = 3 \/ j = 4
      OBVIOUS
    <3> QED
      BY <2>5, <3>1 DEF RankLess
  <2>6. ASSUME a[1] = b[1], a[2] = b[2], a[3] = b[3], a[4] = b[4], a[5] = b[5], a[6] < b[6]
        PROVE  RankLess(a, b)
    <3>1. 6 \in 1..6 /\ \A j \in 1..(6 - 1) : j = 1 \/ j = 2 \/ j = 3 \/ j = 4 \/ j = 5
      OBVIOUS
    <3> QED
      BY <2>6, <3>1 DEF RankLess
  <2> QED
    BY <1>2, <2>1, <2>2, <2>3, <2>4, <2>5, <2>6 DEF Lex
<1> QED
  BY <1>1, <1>2

Ranked(a) == a[1] \in Int /\ a[2] \in Int /\ a[3] \in Int /\ a[4] \in Int /\ a[5] \in Int /\ a[6] \in Int

LEMMA RanksAreOrdered ==
  ASSUME NEW a, NEW b, NEW c, Ranked(a), Ranked(b), Ranked(c)
  PROVE  /\ RankLess(a, b) /\ RankLess(b, c) => RankLess(a, c)
         /\ a[6] # b[6] => RankLess(a, b) \/ RankLess(b, a)
         /\ ~RankLess(a, a)
<1>1. Lex(a, b) /\ Lex(b, c) => Lex(a, c)
  BY DEF Lex, Ranked
<1>2. a[6] # b[6] => Lex(a, b) \/ Lex(b, a)
  BY DEF Lex, Ranked
<1>3. ~Lex(a, a)
  BY DEF Lex, Ranked
<1> QED
  BY <1>1, <1>2, <1>3, RankLessIsLex

LEMMA RankPlaces ==
  ASSUME NEW m \in Module, NEW doc \in Document, NEW x \in {0, 1, 2}
  PROVE  /\ Ranked(Rank(m, doc, x))
         /\ Rank(m, doc, x)[1] = (IF Obsolete(doc) THEN 1 ELSE 0)
         /\ Rank(m, doc, x)[2] = Tier[m]
         /\ Rank(m, doc, x)[3] = x
         /\ Rank(m, doc, x)[4] = -NewestRevision(doc)
         /\ Rank(m, doc, x)[5] = -Rfc[m]
         /\ Rank(m, doc, x)[6] = m
<1>1. NewestRevision(doc) \in Nat /\ Tier[m] \in Nat /\ Rfc[m] \in Nat /\ m \in Nat
  BY RevisionIsNumber, IndexAssumption
<1>2. /\ Rank(m, doc, x)[1] = (IF Obsolete(doc) THEN 1 ELSE 0)
      /\ Rank(m, doc, x)[2] = Tier[m]
      /\ Rank(m, doc, x)[3] = x
      /\ Rank(m, doc, x)[4] = -NewestRevision(doc)
      /\ Rank(m, doc, x)[5] = -Rfc[m]
      /\ Rank(m, doc, x)[6] = m
  BY DEF Rank
<1>3. Ranked(Rank(m, doc, x))
  BY <1>1, <1>2 DEF Ranked
<1> QED
  BY <1>2, <1>3

(* Of the claims of one module the strongest is the least. *)
AnchorsOf(doc, oid) == {c.anchor : c \in {c \in OidsOf(doc) : c.oid = oid}}

LEMMA StrongestAnchor ==
  ASSUME NEW doc \in Document, NEW oid, \E c \in OidsOf(doc) : c.oid = oid
  PROVE  /\ Min(AnchorsOf(doc, oid)) \in AnchorsOf(doc, oid)
         /\ Min(AnchorsOf(doc, oid)) \in {0, 1, 2}
         /\ \A x \in AnchorsOf(doc, oid) : x \in {0, 1, 2} /\ Min(AnchorsOf(doc, oid)) <= x
<1>1. AnchorsOf(doc, oid) \subseteq {0, 1, 2} /\ AnchorsOf(doc, oid) # {}
  BY ClaimsOfOids DEF AnchorsOf
<1>2. AnchorsOf(doc, oid) \in SUBSET Nat
  BY <1>1
<1>3. /\ Min(AnchorsOf(doc, oid)) \in AnchorsOf(doc, oid)
      /\ \A x \in AnchorsOf(doc, oid) : Min(AnchorsOf(doc, oid)) <= x
  BY <1>1, <1>2, MinIsLeast
<1> QED
  BY <1>1, <1>3

LEMMA SameModuleRanks ==
  ASSUME NEW m \in Module, NEW doc \in Document, NEW x \in {0, 1, 2}, NEW y \in {0, 1, 2}
  PROVE  RankLess(Rank(m, doc, x), Rank(m, doc, y)) <=> x < y
<1> DEFINE a == Rank(m, doc, x)
           b == Rank(m, doc, y)
<1>1. /\ a[1] = b[1] /\ a[1] \in Int /\ a[2] = b[2] /\ a[2] \in Int /\ a[3] = x /\ b[3] = y
      /\ a[4] = b[4] /\ a[4] \in Int /\ a[5] = b[5] /\ a[5] \in Int /\ a[6] = b[6] /\ a[6] \in Int
  BY RankPlaces DEF Ranked
<1> HIDE DEF a, b
<1>2. Lex(a, b) <=> x < y
  BY <1>1 DEF Lex
<1> QED
  BY <1>2, RankLessIsLex DEF a, b

LEMMA LeastClaim ==
  ASSUME NEW m \in Module, NEW doc \in Document, NEW oid, \E c \in OidsOf(doc) : c.oid = oid
  PROVE  (CHOOSE r \in Claims(m, doc, oid) : \A other \in Claims(m, doc, oid) : ~RankLess(other, r))
           = Rank(m, doc, Min(AnchorsOf(doc, oid)))
<1> DEFINE A == AnchorsOf(doc, oid)
           least == Min(A)
           C == Claims(m, doc, oid)
<1>1. C = {Rank(m, doc, x) : x \in A}
  BY DEF Claims, AnchorsOf
<1>2. least \in A /\ least \in {0, 1, 2} /\ \A x \in A : x \in {0, 1, 2} /\ least <= x
  BY StrongestAnchor
<1> HIDE DEF A, least, C
<1>3. Rank(m, doc, least) \in C
  BY <1>1, <1>2
<1>4. ASSUME NEW other \in C PROVE ~RankLess(other, Rank(m, doc, least))
  <2>1. PICK x \in A : other = Rank(m, doc, x)
    BY <1>1
  <2>2. x \in {0, 1, 2} /\ ~(x < least)
    BY <1>2
  <2> QED
    BY <1>2, <2>1, <2>2, SameModuleRanks
<1>5. ASSUME NEW r \in C, \A other \in C : ~RankLess(other, r)
      PROVE  r = Rank(m, doc, least)
  <2>1. PICK x \in A : r = Rank(m, doc, x)
    BY <1>1
  <2>2. ~RankLess(Rank(m, doc, least), Rank(m, doc, x))
    BY <1>3, <1>5, <2>1
  <2>3. x \in {0, 1, 2} /\ ~(least < x) /\ least <= x
    BY <1>2, <2>2, SameModuleRanks
  <2>4. x = least
    BY <1>2, <2>3
  <2> QED
    BY <2>1, <2>4
<1>6. (CHOOSE r \in C : \A other \in C : ~RankLess(other, r)) = Rank(m, doc, least)
  BY <1>3, <1>4, <1>5
<1> QED
  BY <1>6 DEF C, least, A
-------------------------------------------------------------------------------
(* What the folds have after the documents of R were read, in any order. *)

DocsOK(D) ==
  /\ DOMAIN D \subseteq Module /\ IsFiniteSet(DOMAIN D)
  /\ \A m \in DOMAIN D : D[m] \in Document

Claimed(doc, oid) == \E c \in OidsOf(doc) : c.oid = oid
RankOf(D, m, oid) == Rank(m, D[m], Min(AnchorsOf(D[m], oid)))

OwnersOK(D, R, B) ==
  /\ \A oid \in DOMAIN B :
       /\ B[oid].module \in R /\ Claimed(D[B[oid].module], oid)
       /\ B[oid].rank = RankOf(D, B[oid].module, oid)
       /\ \A n \in R \ {B[oid].module} :
            Claimed(D[n], oid) => RankLess(B[oid].rank, RankOf(D, n, oid))
  /\ \A m \in R : \A c \in OidsOf(D[m]) : c.oid \in DOMAIN B

LEMMA RanksOfClaims ==
  ASSUME NEW D, DocsOK(D), NEW m \in DOMAIN D, NEW oid, Claimed(D[m], oid)
  PROVE  Ranked(RankOf(D, m, oid)) /\ RankOf(D, m, oid)[6] = m
<1>1. m \in Module /\ D[m] \in Document
  BY DEF DocsOK
<1>2. Min(AnchorsOf(D[m], oid)) \in {0, 1, 2}
  BY <1>1, StrongestAnchor DEF Claimed
<1> QED
  BY <1>1, <1>2, RankPlaces DEF RankOf

LEMMA OwnersGoOn ==
  ASSUME DocsOK(docs), NEW R \in SUBSET DOMAIN docs, OwnersOK(docs, R, best),
         NEW m \in DOMAIN docs \ R
  PROVE  OwnersOK(docs, R \cup {m}, Owners(m, docs[m]))
<1> DEFINE doc == docs[m]
           next == Owners(m, doc)
           mine(oid) == RankOf(docs, m, oid)
           better(oid) == oid \notin DOMAIN best \/ RankLess(mine(oid), best[oid].rank)
           claimed == {c.oid : c \in OidsOf(doc)}
<1>1. m \in Module /\ doc \in Document
  BY DEF DocsOK
<1>2. \A oid \in claimed :
        (CHOOSE r \in Claims(m, doc, oid) : \A other \in Claims(m, doc, oid) : ~RankLess(other, r)) = mine(oid)
  BY <1>1, LeastClaim DEF RankOf
<1>3. next = [oid \in DOMAIN best \cup claimed |->
                IF oid \in claimed /\ better(oid) THEN [rank |-> mine(oid), module |-> m] ELSE best[oid]]
  BY <1>2 DEF Owners
<1>4. \A oid : oid \in claimed <=> Claimed(doc, oid)
  BY DEF Claimed
<1> HIDE DEF next, mine, claimed, doc
<1>5. ASSUME NEW n \in R \cup {m}, NEW oid, Claimed(docs[n], oid)
      PROVE  Ranked(RankOf(docs, n, oid)) /\ RankOf(docs, n, oid)[6] = n
  BY <1>5, RanksOfClaims
<1>6. ASSUME NEW oid \in DOMAIN next
      PROVE  /\ next[oid].module \in R \cup {m} /\ Claimed(docs[next[oid].module], oid)
             /\ next[oid].rank = RankOf(docs, next[oid].module, oid)
             /\ \A n \in (R \cup {m}) \ {next[oid].module} :
                  Claimed(docs[n], oid) => RankLess(next[oid].rank, RankOf(docs, n, oid))
  <2>1. CASE oid \in claimed /\ better(oid)
    <3>1. next[oid].module = m /\ next[oid].rank = mine(oid)
      BY <1>3, <1>6, <2>1
    <3>2. Claimed(docs[m], oid) /\ mine(oid) = RankOf(docs, m, oid)
      BY <1>4, <2>1 DEF doc, mine
    <3>3. ASSUME NEW n \in R, Claimed(docs[n], oid)
          PROVE  RankLess(mine(oid), RankOf(docs, n, oid))
      <4>1. oid \in DOMAIN best
        BY <3>3 DEF OwnersOK, Claimed
      <4>2. RankLess(mine(oid), best[oid].rank)
        BY <2>1, <4>1
      <4> DEFINE h == best[oid].module
      <4>3. h \in R /\ Claimed(docs[h], oid) /\ best[oid].rank = RankOf(docs, h, oid)
        BY <4>1 DEF OwnersOK
      <4>4. CASE n = h
        BY <4>2, <4>3, <4>4
      <4>5. CASE n # h
        <5>1. RankLess(best[oid].rank, RankOf(docs, n, oid))
          BY <3>3, <4>1, <4>5 DEF OwnersOK
        <5>2. Ranked(mine(oid)) /\ Ranked(best[oid].rank) /\ Ranked(RankOf(docs, n, oid))
          BY <1>5, <3>2, <3>3, <4>3
        <5> QED
          BY <4>2, <5>1, <5>2, RanksAreOrdered
      <4> QED
        BY <4>4, <4>5
    <3> QED
      BY <3>1, <3>2, <3>3
  <2>2. CASE ~(oid \in claimed /\ better(oid))
    <3>1. oid \in DOMAIN best /\ next[oid] = best[oid]
      BY <1>3, <1>6, <2>2
    <3> DEFINE h == best[oid].module
    <3>2. h \in R /\ h # m /\ Claimed(docs[h], oid) /\ best[oid].rank = RankOf(docs, h, oid)
      BY <3>1 DEF OwnersOK
    <3>3. ASSUME Claimed(docs[m], oid)
          PROVE  RankLess(best[oid].rank, RankOf(docs, m, oid))
      <4>1. ~RankLess(RankOf(docs, m, oid), best[oid].rank)
        BY <1>4, <2>2, <3>1, <3>3 DEF doc, mine
      <4>2. /\ Ranked(RankOf(docs, m, oid)) /\ RankOf(docs, m, oid)[6] = m
            /\ Ranked(best[oid].rank) /\ best[oid].rank[6] = h
        BY <1>5, <3>2, <3>3
      <4> QED
        BY <3>2, <4>1, <4>2, RanksAreOrdered
    <3>4. \A n \in R \ {h} : Claimed(docs[n], oid) => RankLess(best[oid].rank, RankOf(docs, n, oid))
      BY <3>1 DEF OwnersOK
    <3> QED
      BY <3>1, <3>2, <3>3, <3>4
  <2> QED
    BY <2>1, <2>2
<1>7. ASSUME NEW n \in R \cup {m}, NEW c \in OidsOf(docs[n])
      PROVE  c.oid \in DOMAIN next
  <2>1. DOMAIN next = DOMAIN best \cup claimed
    BY <1>3
  <2>2. CASE n = m
    BY <1>7, <2>1, <2>2 DEF claimed, doc
  <2>3. CASE n \in R
    BY <1>7, <2>1, <2>3 DEF OwnersOK
  <2> QED
    BY <2>2, <2>3
<1> QED
  BY <1>6, <1>7 DEF OwnersOK, next, doc

InRegister(D, m, n) == n \in Numbers(D[m])
Contact(D, m) == [updated |-> LastUpdated(D[m]), module |-> m]

RegistersOK(D, R, G, S) ==
  /\ \A n \in DOMAIN G : G[n] # {} /\ G[n] = {m \in R : n \in Numbers(D[m])}
  /\ \A m \in R : Numbers(D[m]) \subseteq DOMAIN G
  /\ DOMAIN S \subseteq DOMAIN G
  /\ \A m \in R : \A n \in Numbers(D[m]) : Speaks(D[m]) => n \in DOMAIN S
  /\ \A n \in DOMAIN S :
       /\ S[n].module \in R /\ n \in Numbers(D[S[n].module]) /\ Speaks(D[S[n].module])
       /\ S[n] = Contact(D, S[n].module)
       /\ \A m \in R \ {S[n].module} :
            n \in Numbers(D[m]) /\ Speaks(D[m]) => Later(S[n], Contact(D, m))

LEMMA LaterIsAnOrder ==
  ASSUME NEW D, DocsOK(D), NEW a \in DOMAIN D, NEW b \in DOMAIN D, NEW c \in DOMAIN D
  PROVE  /\ Later(Contact(D, a), Contact(D, b)) /\ Later(Contact(D, b), Contact(D, c)) =>
              Later(Contact(D, a), Contact(D, c))
         /\ a # b => Later(Contact(D, a), Contact(D, b)) \/ Later(Contact(D, b), Contact(D, a))
<1>1. \A m \in {a, b, c} : m \in Nat /\ LastUpdated(D[m]) \in Nat
  BY UpdatedIsNumber, IndexAssumption DEF DocsOK
<1> QED
  BY <1>1 DEF Later, Contact

LEMMA RegistersGoOn ==
  ASSUME DocsOK(docs), NEW R \in SUBSET DOMAIN docs, RegistersOK(docs, R, registered, speaking),
         NEW m \in DOMAIN docs \ R
  PROVE  RegistersOK(docs, R \cup {m}, Under(m, docs[m]), Contacts(m, docs[m]))
<1> DEFINE doc == docs[m]
           mine == Contact(docs, m)
           heard == IF Speaks(doc) THEN Numbers(doc) ELSE {}
           G == Under(m, doc)
           S == Contacts(m, doc)
<1>1. G = [n \in DOMAIN registered \cup Numbers(doc) |->
             (IF n \in DOMAIN registered THEN registered[n] ELSE {})
             \cup (IF n \in Numbers(doc) THEN {m} ELSE {})]
  BY DEF Under
<1>2. S = [n \in DOMAIN speaking \cup heard |->
             IF n \in heard /\ (n \notin DOMAIN speaking \/ Later(mine, speaking[n]))
             THEN mine ELSE speaking[n]]
  BY DEF Contacts, Contact
<1> HIDE DEF G, S
<1>3. ASSUME NEW n \in DOMAIN G
      PROVE  G[n] # {} /\ G[n] = {k \in R \cup {m} : n \in Numbers(docs[k])}
  <2>1. CASE n \in DOMAIN registered
    <3>1. registered[n] # {} /\ registered[n] = {k \in R : n \in Numbers(docs[k])}
      BY <2>1 DEF RegistersOK
    <3>2. G[n] = registered[n] \cup (IF n \in Numbers(doc) THEN {m} ELSE {})
      BY <1>1, <1>3, <2>1
    <3> QED
      BY <3>1, <3>2
  <2>2. CASE n \notin DOMAIN registered
    <3>1. n \in Numbers(doc) /\ G[n] = {m}
      BY <1>1, <1>3, <2>2
    <3>2. \A k \in R : n \notin Numbers(docs[k])
      BY <2>2 DEF RegistersOK
    <3> QED
      BY <3>1, <3>2
  <2> QED
    BY <2>1, <2>2
<1>4. \A k \in R \cup {m} : Numbers(docs[k]) \subseteq DOMAIN G
  BY <1>1 DEF RegistersOK
<1>5. DOMAIN S \subseteq DOMAIN G
  BY <1>1, <1>2 DEF RegistersOK
<1>6. \A k \in R \cup {m} : \A n \in Numbers(docs[k]) : Speaks(docs[k]) => n \in DOMAIN S
  BY <1>2 DEF RegistersOK
<1>7. ASSUME NEW n \in DOMAIN S
      PROVE  /\ S[n].module \in R \cup {m} /\ n \in Numbers(docs[S[n].module])
             /\ Speaks(docs[S[n].module])
             /\ S[n] = Contact(docs, S[n].module)
             /\ \A k \in (R \cup {m}) \ {S[n].module} :
                  n \in Numbers(docs[k]) /\ Speaks(docs[k]) => Later(S[n], Contact(docs, k))
  <2>1. mine.module = m
    BY DEF Contact
  <2>2. CASE n \in heard /\ (n \notin DOMAIN speaking \/ Later(mine, speaking[n]))
    <3>1. S[n] = mine /\ n \in Numbers(doc) /\ Speaks(doc)
      BY <1>2, <1>7, <2>2
    <3>2. ASSUME NEW k \in R, n \in Numbers(docs[k]), Speaks(docs[k])
          PROVE  Later(mine, Contact(docs, k))
      <4>1. n \in DOMAIN speaking
        BY <3>2 DEF RegistersOK
      <4> DEFINE h == speaking[n].module
      <4>2. h \in R /\ speaking[n] = Contact(docs, h)
        BY <4>1 DEF RegistersOK
      <4>3. Later(mine, Contact(docs, h))
        BY <2>2, <4>1, <4>2
      <4>4. CASE k = h
        BY <4>3, <4>4
      <4>5. CASE k # h
        <5>1. Later(Contact(docs, h), Contact(docs, k))
          BY <3>2, <4>1, <4>2, <4>5 DEF RegistersOK
        <5>2. h \in DOMAIN docs /\ k \in DOMAIN docs /\ m \in DOMAIN docs
          BY <4>2
        <5> HIDE DEF h
        <5> QED
          BY <4>3, <5>1, <5>2, LaterIsAnOrder
      <4> QED
        BY <4>4, <4>5
    <3> QED
      BY <2>1, <3>1, <3>2
  <2>3. CASE ~(n \in heard /\ (n \notin DOMAIN speaking \/ Later(mine, speaking[n])))
    <3>1. n \in DOMAIN speaking /\ S[n] = speaking[n]
      BY <1>2, <1>7, <2>3
    <3> DEFINE h == speaking[n].module
    <3>2. h \in R /\ n \in Numbers(docs[h]) /\ Speaks(docs[h]) /\ speaking[n] = Contact(docs, h)
      BY <3>1 DEF RegistersOK
    <3>3. ASSUME n \in Numbers(docs[m]), Speaks(docs[m])
          PROVE  Later(Contact(docs, h), Contact(docs, m))
      <4>1. ~Later(mine, Contact(docs, h))
        BY <2>3, <3>1, <3>2, <3>3
      <4>2. h \in DOMAIN docs /\ h # m
        BY <3>2
      <4> HIDE DEF h
      <4> QED
        BY <4>1, <4>2, LaterIsAnOrder
    <3>4. \A k \in R \ {h} :
            n \in Numbers(docs[k]) /\ Speaks(docs[k]) => Later(speaking[n], Contact(docs, k))
      BY <3>1 DEF RegistersOK
    <3> QED
      BY <3>1, <3>2, <3>3, <3>4
  <2> QED
    BY <2>2, <2>3
<1> QED
  BY <1>3, <1>4, <1>5, <1>6, <1>7 DEF RegistersOK, G, S
-------------------------------------------------------------------------------
(* The build as a whole. *)

(* Documents are of one corpus, and the folds have what those read gave them,   *)
(* in whatever order: also after a build that was killed.                       *)
FoldInv ==
  /\ docs \in Corpora \cup {Nothing} /\ unread \subseteq DOMAIN docs
  /\ OwnersOK(docs, HasRead, best)
  /\ RegistersOK(docs, HasRead, registered, speaking)

LEMMA CorporaAreDocuments ==
  ASSUME NEW D \in Corpora \cup {Nothing}
  PROVE  DocsOK(D)
<1>1. CASE D \in Corpora
  <2>1. D \in [DOMAIN D -> Document] /\ DOMAIN D \in SUBSET Module
    BY <1>1, CorporaAssumption
  <2>2. IsFiniteSet(DOMAIN D)
    BY <2>1, IndexAssumption, FS_Subset
  <2> QED
    BY <2>1, <2>2 DEF DocsOK
<1>2. CASE D = Nothing
  <2>1. DOMAIN D = {}
    BY <1>2 DEF Nothing
  <2> QED
    BY <2>1, FS_EmptySet DEF DocsOK
<1> QED
  BY <1>1, <1>2

LEMMA NothingIsRead ==
  ASSUME NEW D
  PROVE  OwnersOK(D, {}, Nothing) /\ RegistersOK(D, {}, Nothing, Nothing)
<1>1. DOMAIN Nothing = {}
  BY DEF Nothing
<1> HIDE DEF Nothing
<1> QED
  BY <1>1 DEF OwnersOK, RegistersOK

LEMMA FoldsBegin == Init => FoldInv
<1> SUFFICES ASSUME Init PROVE FoldInv
  OBVIOUS
<1>1. docs = Nothing /\ unread = {} /\ best = Nothing /\ registered = Nothing /\ speaking = Nothing
  BY DEF Init
<1>2. DOMAIN Nothing = {}
  BY DEF Nothing
<1>3. HasRead = {}
  BY <1>1, <1>2 DEF HasRead
<1> QED
  BY <1>1, <1>3, NothingIsRead DEF FoldInv

LEMMA FoldsGoOn ==
  ASSUME FoldInv, [Next]_vars
  PROVE  FoldInv'
<1>1. ASSUME UNCHANGED docs, UNCHANGED folds
      PROVE  FoldInv'
  <2>1. /\ docs' = docs /\ unread' = unread /\ best' = best
        /\ registered' = registered /\ speaking' = speaking
    BY <1>1 DEF folds
  <2> QED
    BY <2>1 DEF FoldInv, HasRead
<1>2. CASE Build
  <2>1. /\ docs' \in Corpora /\ unread' = DOMAIN docs' /\ best' = Nothing
        /\ registered' = Nothing /\ speaking' = Nothing
    BY <1>2 DEF Build
  <2>2. HasRead' = {}
    BY <2>1 DEF HasRead
  <2>3. OwnersOK(docs', HasRead', best') /\ RegistersOK(docs', HasRead', registered', speaking')
    BY <2>1, <2>2, NothingIsRead
  <2>4. docs' \in Corpora \cup {Nothing} /\ unread' \subseteq DOMAIN docs'
    BY <2>1
  <2> QED
    BY <2>3, <2>4 DEF FoldInv
<1>3. ASSUME NEW m \in Module, Read(m)
      PROVE  FoldInv'
  <2>1. /\ m \in unread /\ unread' = unread \ {m} /\ docs' = docs
        /\ best' = Owners(m, docs[m])
        /\ registered' = Under(m, docs[m]) /\ speaking' = Contacts(m, docs[m])
    BY <1>3 DEF Read
  <2>2. HasRead' = HasRead \cup {m} /\ HasRead \in SUBSET DOMAIN docs /\ m \in DOMAIN docs \ HasRead
    BY <2>1 DEF HasRead, FoldInv
  <2>3. DocsOK(docs)
    BY CorporaAreDocuments DEF FoldInv
  <2>4. OwnersOK(docs, HasRead, best) /\ RegistersOK(docs, HasRead, registered, speaking)
    BY DEF FoldInv
  <2>5. /\ OwnersOK(docs, HasRead \cup {m}, Owners(m, docs[m]))
        /\ RegistersOK(docs, HasRead \cup {m}, Under(m, docs[m]), Contacts(m, docs[m]))
    BY <2>2, <2>3, <2>4, OwnersGoOn, RegistersGoOn
  <2>6. /\ OwnersOK(docs', HasRead', best')
        /\ RegistersOK(docs', HasRead', registered', speaking')
    BY <2>1, <2>2, <2>5
  <2>7. docs' \in Corpora \cup {Nothing} /\ unread' \subseteq DOMAIN docs'
    BY <2>1 DEF FoldInv
  <2> QED
    BY <2>6, <2>7 DEF FoldInv
<1>4. CASE ReadAll \/ WriteIndex \/ Freeze \/ Connect \/ Commit \/ CommitFails \/ Vacuum \/ Tear
           \/ WriteSite \/ Kill
  BY <1>1, <1>4 DEF ReadAll, WriteIndex, Freeze, Connect, Commit, CommitFails, Vacuum, Tear,
                    WriteSite, Kill
<1>5. CASE UNCHANGED vars
  BY <1>1, <1>5 DEF vars, folds
<1> QED
  BY <1>2, <1>3, <1>4, <1>5 DEF Next

(* A read module stands by its claim to an OID at its anchor. *)
LEMMA RankOutranks ==
  ASSUME DocsOK(docs), NEW m \in DOMAIN docs, NEW n \in DOMAIN docs, NEW oid,
         Claimed(docs[m], oid), Claimed(docs[n], oid),
         RankLess(RankOf(docs, m, oid), RankOf(docs, n, oid))
  PROVE  Outranks(m, n, oid)
<1> DEFINE a == RankOf(docs, m, oid)
           b == RankOf(docs, n, oid)
<1>1. /\ AnchorOf(m, oid) = Min(AnchorsOf(docs[m], oid)) /\ AnchorOf(m, oid) \in {0, 1, 2}
      /\ AnchorOf(n, oid) = Min(AnchorsOf(docs[n], oid)) /\ AnchorOf(n, oid) \in {0, 1, 2}
  <2>1. \A k \in DOMAIN docs : AnchorOf(k, oid) = Min(AnchorsOf(docs[k], oid))
    BY DEF AnchorOf, AnchorsOf
  <2>2. docs[m] \in Document /\ docs[n] \in Document
    BY DEF DocsOK
  <2>3. /\ Min(AnchorsOf(docs[m], oid)) \in {0, 1, 2}
        /\ Min(AnchorsOf(docs[n], oid)) \in {0, 1, 2}
    BY <2>2, StrongestAnchor DEF Claimed
  <2> QED
    BY <2>1, <2>3
<1>2. /\ m \in Module /\ n \in Module /\ docs[m] \in Document /\ docs[n] \in Document
      /\ a = Rank(m, docs[m], AnchorOf(m, oid)) /\ b = Rank(n, docs[n], AnchorOf(n, oid))
  BY <1>1 DEF DocsOK, RankOf
<1> DEFINE x == AnchorOf(m, oid)
           y == AnchorOf(n, oid)
<1>3. /\ NewestRevision(docs[m]) \in Nat /\ Tier[m] \in Nat /\ Rfc[m] \in Nat /\ m \in Nat
      /\ NewestRevision(docs[n]) \in Nat /\ Tier[n] \in Nat /\ Rfc[n] \in Nat /\ n \in Nat
      /\ x \in Nat /\ y \in Nat
  BY <1>1, <1>2, RevisionIsNumber, IndexAssumption
<1>4. Lex(a, b)
  BY RankLessIsLex
<1> HIDE DEF a, b, x, y
<1>5. /\ a[1] = (IF Obsolete(docs[m]) THEN 1 ELSE 0) /\ a[2] = Tier[m] /\ a[3] = x
      /\ a[4] = -NewestRevision(docs[m]) /\ a[5] = -Rfc[m] /\ a[6] = m
      /\ b[1] = (IF Obsolete(docs[n]) THEN 1 ELSE 0) /\ b[2] = Tier[n] /\ b[3] = y
      /\ b[4] = -NewestRevision(docs[n]) /\ b[5] = -Rfc[n] /\ b[6] = n
  BY <1>1, <1>2, RankPlaces DEF x, y
<1>6. /\ a[1] < b[1] => ~Obsolete(docs[m]) /\ Obsolete(docs[n])
      /\ a[1] = b[1] => (Obsolete(docs[m]) <=> Obsolete(docs[n]))
      /\ a[2] < b[2] <=> Tier[m] < Tier[n]
      /\ a[2] = b[2] <=> Tier[m] = Tier[n]
      /\ a[3] < b[3] <=> x < y
      /\ a[3] = b[3] <=> x = y
      /\ a[4] < b[4] <=> NewestRevision(docs[m]) > NewestRevision(docs[n])
      /\ a[4] = b[4] <=> NewestRevision(docs[m]) = NewestRevision(docs[n])
      /\ a[5] < b[5] <=> Rfc[m] > Rfc[n]
      /\ a[5] = b[5] <=> Rfc[m] = Rfc[n]
      /\ a[6] < b[6] <=> m < n
  BY <1>3, <1>5
<1> QED
  BY <1>4, <1>6 DEF Lex, Outranks, x, y

(* However many documents there are and in whatever order they are read, the    *)
(* owner of an OID outranks every other module that claims it.                  *)
THEOREM OwnersAreBest == Spec => []OwnerIsBest
<1>1. FoldInv => OwnerIsBest
  <2> SUFFICES ASSUME FoldInv PROVE OwnerIsBest
    OBVIOUS
  <2>1. DocsOK(docs) /\ HasRead \subseteq DOMAIN docs /\ OwnersOK(docs, HasRead, best)
    BY CorporaAreDocuments DEF FoldInv, HasRead
  <2>2. ASSUME NEW oid \in DOMAIN best, NEW m \in ClaimantsOf(oid) \ {best[oid].module}
        PROVE  Outranks(best[oid].module, m, oid)
    <3> DEFINE h == best[oid].module
    <3>1. /\ h \in HasRead /\ Claimed(docs[h], oid) /\ best[oid].rank = RankOf(docs, h, oid)
          /\ m \in HasRead /\ m # h /\ Claimed(docs[m], oid)
      BY <2>1 DEF OwnersOK, ClaimantsOf, Claimed
    <3>2. RankLess(RankOf(docs, h, oid), RankOf(docs, m, oid))
      BY <2>1, <3>1 DEF OwnersOK
    <3> HIDE DEF h
    <3>3. h \in DOMAIN docs /\ m \in DOMAIN docs
      BY <2>1, <3>1
    <3>4. Outranks(h, m, oid)
      BY <2>1, <3>1, <3>2, <3>3, RankOutranks
    <3> QED
      BY <3>4 DEF h
  <2>3. \A m \in HasRead : \A c \in OidsOf(docs[m]) : c.oid \in DOMAIN best
    BY <2>1 DEF OwnersOK
  <2> QED
    BY <2>2, <2>3 DEF OwnerIsBest
<1>2. FoldInv /\ [Next]_vars => FoldInv'
  BY FoldsGoOn
<1> QED
  BY <1>1, <1>2, FoldsBegin, PTL DEF Spec

(* In whatever order the documents are read, a registrant speaks through the    *)
(* module of its latest LAST-UPDATED that has a contact.                        *)
THEOREM SpeakersAreLatest == Spec => []SpeakerIsLatest
<1>1. FoldInv => SpeakerIsLatest
  <2> SUFFICES ASSUME FoldInv, NEW n \in DOMAIN registered
               PROVE  LET mayspeak == {m \in registered[n] : Speaks(docs[m])} IN
                      /\ n \in DOMAIN speaking <=> mayspeak # {}
                      /\ n \in DOMAIN speaking =>
                           /\ speaking[n].module \in mayspeak
                           /\ \A m \in mayspeak \ {speaking[n].module} :
                                Later(speaking[n], [updated |-> LastUpdated(docs[m]), module |-> m])
    BY DEF SpeakerIsLatest
  <2> DEFINE mayspeak == {m \in registered[n] : Speaks(docs[m])}
  <2>1. RegistersOK(docs, HasRead, registered, speaking)
    BY DEF FoldInv
  <2>2. registered[n] = {m \in HasRead : n \in Numbers(docs[m])}
    BY <2>1 DEF RegistersOK
  <2>3. ASSUME n \in DOMAIN speaking
        PROVE  /\ speaking[n].module \in mayspeak
               /\ \A m \in mayspeak \ {speaking[n].module} : Later(speaking[n], Contact(docs, m))
    BY <2>1, <2>2, <2>3 DEF RegistersOK
  <2>4. ASSUME NEW m \in mayspeak PROVE n \in DOMAIN speaking
    BY <2>1, <2>2 DEF RegistersOK
  <2> QED
    BY <2>3, <2>4 DEF Contact
<1>2. FoldInv /\ [Next]_vars => FoldInv'
  BY FoldsGoOn
<1> QED
  BY <1>1, <1>2, FoldsBegin, PTL DEF Spec

(* What somebody froze of a published index stands while its module is compiled, *)
(* and no row of the next one names a module that build did not compile.         *)
THEOREM FrozenRowsStand == Spec => FrozenStays
<1> DEFINE Stands ==
      WriteIndex =>
        /\ \A oid \in DOMAIN frozen : frozen[oid] \in DOMAIN docs => legacy'[oid] = frozen[oid]
        /\ \A oid \in DOMAIN legacy' : legacy'[oid] \in DOMAIN docs
        /\ DOMAIN Owner \subseteq DOMAIN legacy'
<1>1. FoldInv /\ [Next]_vars => Stands
  <2> SUFFICES ASSUME FoldInv, WriteIndex
               PROVE  /\ \A oid \in DOMAIN frozen : frozen[oid] \in DOMAIN docs => legacy'[oid] = frozen[oid]
                      /\ \A oid \in DOMAIN legacy' : legacy'[oid] \in DOMAIN docs
                      /\ DOMAIN Owner \subseteq DOMAIN legacy'
    OBVIOUS
  <2> DEFINE kept == {oid \in DOMAIN frozen : frozen[oid] \in DOMAIN docs}
  <2>1. legacy' = [oid \in kept \cup DOMAIN Owner |-> IF oid \in kept THEN frozen[oid] ELSE Owner[oid]]
    BY DEF WriteIndex, MergeFrozen
  <2>2. DOMAIN Owner = DOMAIN best /\ \A oid \in DOMAIN Owner : Owner[oid] \in DOMAIN docs
    BY DEF Owner, FoldInv, OwnersOK, HasRead
  <2> HIDE DEF Owner
  <2> QED
    BY <2>1, <2>2
<1>2. FoldInv /\ [Next]_vars => [Stands]_vars
  BY <1>1
<1>3. FoldInv /\ [Next]_vars => FoldInv'
  BY FoldsGoOn
<1> QED
  BY <1>2, <1>3, FoldsBegin, PTL DEF Spec, FrozenStays
-------------------------------------------------------------------------------
(* Paths. *)

LEMMA OfAPath ==
  ASSUME NEW oid \in Seq(Nat), NEW p \in PathTo(oid)
  PROVE  /\ p \in Seq(Nat) /\ Len(p) \in 1..Len(oid) /\ p # <<>>
         /\ p = SubSeq(oid, 1, Len(p))
<1>1. PICK n \in 1..Len(oid) : p = SubSeq(oid, 1, n)
  BY DEF PathTo
<1>2. Len(oid) \in Nat /\ \A i \in 1..Len(oid) : oid[i] \in Nat
  BY LenProperties, ElementOfSeq
<1>3. 1 \in Int /\ n \in Int /\ 1 <= n /\ n - 1 + 1 = n /\ \A i \in 1..n : oid[i] \in Nat
  BY <1>2
<1>4. SubSeq(oid, 1, n) \in Seq(Nat) /\ Len(SubSeq(oid, 1, n)) = n
  BY <1>3, SubSeqProperties
<1>5. p # <<>>
  BY <1>1, <1>3, <1>4, EmptySeq
<1> QED
  BY <1>1, <1>4, <1>5

LEMMA OnItsPath ==
  ASSUME NEW oid \in Seq(Nat), oid # <<>>
  PROVE  oid \in PathTo(oid)
<1>1. Len(oid) \in Nat \ {0}
  BY EmptySeq
<1>2. Len(oid) \in 1..Len(oid) /\ oid = SubSeq(oid, 1, Len(oid))
  BY <1>1, SubSeqFull
<1> QED
  BY <1>2 DEF PathTo

LEMMA PathsNest ==
  ASSUME NEW oid \in Seq(Nat), NEW p \in PathTo(oid), NEW q \in PathTo(p)
  PROVE  q \in PathTo(oid) /\ Len(q) <= Len(p)
<1>1. p \in Seq(Nat) /\ Len(p) \in 1..Len(oid) /\ p = SubSeq(oid, 1, Len(p)) /\ Len(oid) \in Nat
  BY OfAPath, LenProperties
<1>2. Len(q) \in 1..Len(p) /\ q = SubSeq(p, 1, Len(q))
  BY <1>1, OfAPath
<1>3. /\ 1 \in 1..Len(oid) /\ Len(p) \in 1..Len(oid)
      /\ 1 \in 1..(Len(p) - 1 + 1) /\ Len(q) \in 1..(Len(p) - 1 + 1)
      /\ 1 + 1 - 1 = 1 /\ 1 + Len(q) - 1 = Len(q) /\ Len(q) \in 1..Len(oid) /\ Len(q) <= Len(p)
  BY <1>1, <1>2
<1>4. SubSeq(SubSeq(oid, 1, Len(p)), 1, Len(q)) = SubSeq(oid, 1 + 1 - 1, 1 + Len(q) - 1)
  BY <1>1, <1>3, SubSeqOfSubSeq
<1>5. q = SubSeq(oid, 1, Len(q))
  BY <1>1, <1>2, <1>3, <1>4
<1> QED
  BY <1>3, <1>5 DEF PathTo

LEMMA LongestThereIs ==
  ASSUME NEW oid \in Seq(Nat), NEW held \in SUBSET PathTo(oid), held # {}
  PROVE  \E p \in held : \A q \in held : Len(q) <= Len(p)
<1> DEFINE lengths == {Len(p) : p \in held}
<1>1. Len(oid) \in Nat /\ \A p \in held : Len(p) \in Nat /\ Len(p) <= Len(oid)
  <2>1. Len(oid) \in Nat
    BY LenProperties
  <2>2. ASSUME NEW p \in held PROVE Len(p) \in Nat /\ Len(p) <= Len(oid)
    <3>1. Len(p) \in 1..Len(oid)
      BY OfAPath
    <3> QED
      BY <2>1, <3>1
  <2> QED
    BY <2>1, <2>2
<1>2. lengths \in SUBSET Nat /\ lengths # {} /\ \A n \in lengths : n <= Len(oid)
  BY <1>1
<1> HIDE DEF lengths
<1>3. IsFiniteSet(lengths)
  BY <1>1, <1>2, FS_BoundedSetOfNaturals
<1>4. Max(lengths) \in lengths /\ \A n \in lengths : Max(lengths) >= n
  BY <1>2, <1>3, MaxIsGreatest
<1>5. PICK p \in held : Len(p) = Max(lengths)
  BY <1>4 DEF lengths
<1>6. \A q \in held : Len(q) \in lengths /\ Len(q) \in Nat
  BY <1>1 DEF lengths
<1>7. \A q \in held : Len(q) <= Len(p)
  BY <1>4, <1>5, <1>6
<1> QED
  BY <1>7

LEMMA ShortestThereIs ==
  ASSUME NEW oid \in Seq(Nat), NEW held \in SUBSET PathTo(oid), held # {}
  PROVE  \E p \in held : \A q \in held : Len(p) <= Len(q)
<1> DEFINE lengths == {Len(p) : p \in held}
<1>1. Len(oid) \in Nat /\ \A p \in held : Len(p) \in Nat /\ Len(p) <= Len(oid)
  <2>1. Len(oid) \in Nat
    BY LenProperties
  <2>2. ASSUME NEW p \in held PROVE Len(p) \in Nat /\ Len(p) <= Len(oid)
    <3>1. Len(p) \in 1..Len(oid)
      BY OfAPath
    <3> QED
      BY <2>1, <3>1
  <2> QED
    BY <2>1, <2>2
<1>2. lengths \in SUBSET Nat /\ lengths # {}
  BY <1>1
<1> HIDE DEF lengths
<1>3. PICK n \in lengths : \A k \in lengths : n <= k
  BY <1>2, LeastNumber
<1>4. PICK p \in held : Len(p) = n
  BY <1>3 DEF lengths
<1>5. \A q \in held : Len(q) \in lengths
  BY DEF lengths
<1>6. \A q \in held : Len(p) <= Len(q)
  BY <1>3, <1>4, <1>5
<1> QED
  BY <1>6

(* The longest arc of the short index above an OID that the whole index has. *)
LEMMA AnchorsCover ==
  ASSUME NEW W, DOMAIN W \subseteq Seq(Nat) \ {<<>>}, NEW oid \in DOMAIN W,
         NEW A, A = DOMAIN AnchorIndex(W), NEW at, at = LongestPrefix(oid, A)
  PROVE  /\ at \in A /\ at \in DOMAIN W /\ at \in PathTo(oid)
         /\ AnchorIndex(W)[at] = W[at]
         /\ W[at] # W[oid] =>
              \E p \in Above(oid) : p \in DOMAIN W /\ W[p] = W[oid] /\ Len(p) < Len(at)
<1> DEFINE mine == {p \in PathTo(oid) : p \in DOMAIN W /\ W[p] = W[oid]}
           held == PathTo(oid) \cap A
<1>0. A = {x \in DOMAIN W : \A p \in Above(x) \cap DOMAIN W : W[p] # W[x]}
  BY DEF AnchorIndex
<1>1. oid \in Seq(Nat) /\ oid # <<>> /\ oid \in mine
  BY OnItsPath
<1>2. PICK low \in mine : \A q \in mine : Len(low) <= Len(q)
  BY <1>1, ShortestThereIs
<1>3. low \in A
  <2> SUFFICES ASSUME NEW p \in Above(low) \cap DOMAIN W, W[p] = W[low]
               PROVE  FALSE
    BY <1>0, <1>2
  <2>1. p \in PathTo(low) /\ p # low /\ low \in PathTo(oid)
    BY <1>2 DEF Above
  <2>2. p \in PathTo(oid) /\ Len(p) <= Len(low)
    BY <1>1, <2>1, PathsNest
  <2>3. p \in mine
    BY <1>2, <2>2
  <2>4. Len(low) <= Len(p)
    BY <1>2, <2>3
  <2>5. low = SubSeq(oid, 1, Len(low)) /\ p = SubSeq(oid, 1, Len(p)) /\ Len(p) \in Nat /\ Len(low) \in Nat
    BY <1>1, <2>1, <2>2, OfAPath
  <2>6. Len(p) = Len(low)
    <3>1. Len(p) \in Nat /\ Len(low) \in Nat
      BY <2>5
    <3> QED
      BY <2>2, <2>4, <3>1
  <2> QED
    BY <2>1, <2>5, <2>6
<1>4. low \in held /\ held \in SUBSET PathTo(oid)
  BY <1>2, <1>3
<1>5. at \in held /\ \A q \in held : Len(q) <= Len(at)
  <2>1. held # {}
    BY <1>4
  <2>2. at = CHOOSE p \in held : \A q \in held : Len(q) <= Len(p)
    BY <2>1 DEF LongestPrefix
  <2>3. \E p \in held : \A q \in held : Len(q) <= Len(p)
    BY <1>1, <1>4, <2>1, LongestThereIs
  <2> HIDE DEF held
  <2> QED
    BY <2>2, <2>3
<1>6. at \in A /\ at \in DOMAIN W /\ at \in PathTo(oid)
  BY <1>0, <1>5
<1>7. AnchorIndex(W)[at] = W[at]
  BY <1>0, <1>6 DEF AnchorIndex
<1>8. ASSUME W[at] # W[oid]
      PROVE  low \in Above(oid) /\ low \in DOMAIN W /\ W[low] = W[oid] /\ Len(low) < Len(at)
  <2>1. low \in PathTo(oid) /\ low \in DOMAIN W /\ W[low] = W[oid] /\ Len(low) <= Len(at) /\ low # at
    BY <1>2, <1>4, <1>5, <1>8
  <2>2. /\ low = SubSeq(oid, 1, Len(low)) /\ at = SubSeq(oid, 1, Len(at))
        /\ Len(low) \in Nat /\ Len(at) \in 1..Len(oid) /\ Len(oid) \in Nat
    BY <1>1, <1>6, <2>1, OfAPath, LenProperties
  <2>3. Len(low) # Len(at)
    BY <2>1, <2>2
  <2>4. Len(low) < Len(at)
    BY <2>1, <2>2, <2>3
  <2>5. low # oid
    BY <2>2, <2>4
  <2> QED
    BY <2>1, <2>4, <2>5 DEF Above
<1> QED
  BY <1>6, <1>7, <1>8

LEMMA OwnedAreOids ==
  ASSUME FoldInv
  PROVE  /\ DOMAIN best \subseteq Seq(Nat) \ {<<>>}
         /\ \A oid \in DOMAIN best : best[oid].module \in DOMAIN docs
<1>1. DocsOK(docs) /\ HasRead \subseteq DOMAIN docs /\ OwnersOK(docs, HasRead, best)
  BY CorporaAreDocuments DEF FoldInv, HasRead
<1>2. ASSUME NEW oid \in DOMAIN best
      PROVE  oid \in Seq(Nat) /\ oid # <<>> /\ best[oid].module \in DOMAIN docs
  <2>1. best[oid].module \in HasRead /\ Claimed(docs[best[oid].module], oid)
    BY <1>1 DEF OwnersOK
  <2>2. docs[best[oid].module] \in Document /\ best[oid].module \in DOMAIN docs
    BY <1>1, <2>1 DEF DocsOK
  <2> QED
    BY <2>1, <2>2, ClaimsOfOids DEF Claimed
<1> QED
  BY <1>2

(* Whatever the documents, the short index of anchors answers as the whole index *)
(* does, for an OID with no other's arc between it and its owner's.              *)
THEOREM AnchorsAnswerForAll == Spec => []AnchorsAnswer
<1>1. FoldInv => AnchorsAnswer
  <2> SUFFICES ASSUME FoldInv, NEW oid \in DOMAIN Owner
               PROVE  LET at == LongestPrefix(oid, DOMAIN Anchors) IN
                      /\ Owner[at] # Owner[oid] =>
                           \E p \in Above(oid) :
                             p \in DOMAIN Owner /\ Owner[p] = Owner[oid] /\ Len(p) < Len(at)
                      /\ Resolve(oid, Anchors, named).module = Owner[at]
    BY DEF AnchorsAnswer
  <2> DEFINE at == LongestPrefix(oid, DOMAIN Anchors)
  <2>1. DOMAIN Owner \subseteq Seq(Nat) \ {<<>>}
    BY OwnedAreOids DEF Owner
  <2>2. /\ at \in DOMAIN Owner /\ at \in PathTo(oid) /\ Anchors[at] = Owner[at]
        /\ Owner[at] # Owner[oid] =>
             \E p \in Above(oid) : p \in DOMAIN Owner /\ Owner[p] = Owner[oid] /\ Len(p) < Len(at)
    BY <2>1, AnchorsCover DEF Anchors
  <2>3. at # Refused
    BY <2>1, <2>2 DEF Refused
  <2>4. Resolve(oid, Anchors, named).module = Anchors[at]
    <3> HIDE DEF at
    <3>1. ~(LongestPrefix(oid, DOMAIN Anchors) = Refused)
      BY <2>3 DEF at
    <3> QED
      BY <3>1 DEF Resolve, at
  <2> HIDE DEF at
  <2> QED
    BY <2>2, <2>4 DEF at
<1>2. FoldInv /\ [Next]_vars => FoldInv'
  BY FoldsGoOn
<1> QED
  BY <1>1, <1>2, FoldsBegin, PTL DEF Spec
-------------------------------------------------------------------------------
(* The site. *)

LEMMA SomePage ==
  ASSUME NEW n \in Nat \ {0}
  PROVE  (n + PageSize - 1) \div PageSize >= 1
<1> DEFINE a == n + PageSize - 1
<1>1. PageSize \in Nat /\ PageSize >= 1 /\ a \in Int /\ a >= PageSize
  BY ListAssumption
<1> HIDE DEF a
<1> DEFINE q == a \div PageSize
<1>2. q \in Int /\ a < PageSize * q + PageSize
  BY <1>1
<1> HIDE DEF q
<1>3. q >= 1
  <2> SUFFICES ASSUME q <= 0 PROVE FALSE
    BY <1>2
  <2>1. PageSize * q <= 0
    BY <1>1, <1>2
  <2>2. PageSize * q \in Int
    BY <1>1, <1>2
  <2> QED
    BY <1>1, <1>2, <2>1, <2>2
<1> QED
  BY <1>3 DEF q, a

LEMMA ListIsServed ==
  ASSUME NEW names, IsFiniteSet(names), names # {}, NEW base
  PROVE  base \in ListPaths(base, Lists(names))
<1> DEFINE count == (Cardinality(names) + PageSize - 1) \div PageSize
           found == Buckets(names)
<1>1. Cardinality(names) \in Nat \ {0}
  BY FS_CardinalityType, FS_EmptySet
<1>2. count \in Int /\ count >= 1
  BY <1>1, SomePage, ListAssumption
<1>3. CASE count = 1
  <2>1. found = << Bucket(<<>>, <<>>, Range(Sorted(names))) >>
    BY <1>3 DEF Buckets
  <2> HIDE DEF found
  <2>2. DOMAIN found = {1} /\ KeyOf(found[1]) = NoKey
    BY <2>1 DEF Bucket, KeyOf, NoKey
  <2>3. PartPage(base, found[1]) = base
    BY <2>2 DEF PartPage
  <2>4. base \in PartPages(base, found)
    BY <2>2, <2>3 DEF PartPages
  <2> QED
    BY <2>4 DEF ListPaths, Lists, found
<1>4. CASE count # 1
  <2> HIDE DEF count
  <2>1. DOMAIN found = 1..count
    BY <1>4 DEF Buckets, count
  <2> HIDE DEF found
  <2>2. Len(found) = count
    BY <1>2, <2>1
  <2> QED
    BY <1>2, <1>4, <2>2 DEF ListPaths, Lists, found
<1> QED
  BY <1>3, <1>4

LEMMA NamesAreFinite ==
  ASSUME NEW modules, IsFiniteSet(modules)
  PROVE  IsFiniteSet(Names(modules)) /\ IsFiniteSet(Numerals(modules))
<1>1. IsFiniteSet(Names(modules))
  <2> DEFINE f == [m \in modules |-> Spelling[m]]
             names == Names(modules)
  <2>1. f \in Surjection(modules, names)
    BY DEF Surjection, Names
  <2> HIDE DEF f, names
  <2>2. IsFiniteSet(names)
    BY <2>1, FS_Surjection
  <2> QED
    BY <2>2 DEF names
<1>2. IsFiniteSet(Numerals(modules))
  <2> DEFINE f == [n \in modules |-> <<n>>]
             names == Numerals(modules)
  <2>1. f \in Surjection(modules, names)
    BY DEF Surjection, Numerals
  <2> HIDE DEF f, names
  <2>2. IsFiniteSet(names)
    BY <2>1, FS_Surjection
  <2> QED
    BY <2>2 DEF names
<1> QED
  BY <1>1, <1>2

(* All that the links of a corpus need to know of it. *)
Consistent(c) ==
  /\ IsFiniteSet(DOMAIN c.docs) /\ IsFiniteSet(DOMAIN c.registered)
  /\ \A oid \in DOMAIN c.anchors :
       oid \in Seq(Nat) /\ oid # <<>> /\ c.anchors[oid] \in DOMAIN c.docs
  /\ DOMAIN c.arcs = UNION {PathTo(oid) : oid \in DOMAIN c.anchors}
  /\ \A n \in DOMAIN c.registered : c.registered[n] # {} /\ c.registered[n] \subseteq DOMAIN c.docs

(* The other parts of a list have pages wherever the list is served. *)
LEMMA PartsAreServed ==
  ASSUME NEW base, NEW found
  PROVE  KeyStrip(base, found) \subseteq ListPaths(base, found)
<1> SUFFICES ASSUME NEW i \in DOMAIN found, KeyOf(found[i]) # NoKey
             PROVE  Append(base, KeyOf(found[i])) \in PartPages(base, found)
  BY DEF KeyStrip, KeysOf, ListPaths
<1>1. PartPage(base, found[i]) = Append(base, KeyOf(found[i]))
  BY DEF PartPage
<1> QED
  BY <1>1 DEF PartPages

(* A registrant has its own page, whatever it holds. *)
LEMMA RegistrantIsServed ==
  ASSUME NEW c, Consistent(c), NEW n \in DOMAIN c.registered
  PROVE  Entity(n) \in ListPaths(Entity(n), HeldBy(c, n))
<1>1. CASE c.registered[n] = {}
  <2> DEFINE found == HeldBy(c, n)
  <2>1. found = << Bucket(<<>>, <<>>, {}) >>
    BY <1>1 DEF HeldBy
  <2> HIDE DEF found
  <2>2. DOMAIN found = {1} /\ KeyOf(found[1]) = NoKey
    BY <2>1 DEF Bucket, KeyOf, NoKey
  <2>3. PartPage(Entity(n), found[1]) = Entity(n)
    BY <2>2 DEF PartPage
  <2>4. Entity(n) \in PartPages(Entity(n), found)
    BY <2>2, <2>3 DEF PartPages
  <2> QED
    BY <2>4 DEF ListPaths, found
<1>2. CASE c.registered[n] # {}
  <2>1. IsFiniteSet(c.registered[n])
    BY FS_Subset DEF Consistent
  <2>2. IsFiniteSet(Names(c.registered[n])) /\ Names(c.registered[n]) # {}
    BY <1>2, <2>1, NamesAreFinite DEF Names
  <2> QED
    BY <1>2, <2>2, ListIsServed DEF HeldBy
<1> QED
  BY <1>1, <1>2

LEMMA ArcLeads ==
  ASSUME NEW c, Consistent(c), NEW arc \in Arcs(c)
  PROVE  ArcLink(c, arc) \in Pages(c)
<1>1. PICK oid \in DOMAIN c.anchors : arc \in PathTo(oid)
  BY DEF Consistent, Arcs
<1>2. CASE arc \in DOMAIN c.anchors
  <2>1. ArcLink(c, arc) = Mib(c.anchors[arc]) /\ c.anchors[arc] \in DOMAIN c.docs
    BY <1>2 DEF ArcLink, Consistent
  <2> QED
    BY <2>1 DEF Pages, ModulePages
<1>3. CASE arc \notin DOMAIN c.anchors
  <2>1. arc \in Above(oid)
    BY <1>1, <1>3 DEF Above
  <2>2. arc \in StructuralArcs(DOMAIN c.anchors)
    <3> DEFINE arcs == UNION {Above(o) : o \in DOMAIN c.anchors}
    <3>1. Above(oid) \in {Above(o) : o \in DOMAIN c.anchors}
      BY <1>1
    <3>2. arc \in arcs
      BY <2>1, <3>1
    <3> HIDE DEF arcs
    <3>3. arc \in arcs \ DOMAIN c.anchors
      BY <1>3, <3>2
    <3> QED
      BY <3>3 DEF arcs, StructuralArcs
  <2>3. Arc(arc) \in TreePages(c)
    BY <1>1, <2>2 DEF TreePages
  <2> QED
    BY <1>3, <2>3 DEF Pages, ArcLink
<1> QED
  BY <1>2, <1>3

LEMMA LinksLead ==
  ASSUME NEW c, Consistent(c)
  PROVE  Links(c) \subseteq Pages(c)
<1>1. ASSUME NEW m \in DOMAIN c.docs
      PROVE  Mib(m) \in Pages(c) /\ Browse \in Pages(c)
  <2>1. Mib(m) \in ModulePages(c)
    BY DEF ModulePages
  <2>2. IsFiniteSet(Names(DOMAIN c.docs)) /\ Names(DOMAIN c.docs) # {}
    BY <1>1, NamesAreFinite DEF Names, Consistent
  <2>3. Browse \in BrowsePages(c)
    BY <2>2, ListIsServed DEF BrowsePages, ModuleList
  <2> QED
    BY <2>1, <2>3 DEF Pages
<1>2. ASSUME NEW oid
      PROVE  \A child \in ChildrenOf(Arcs(c), oid) : ArcLink(c, child) \in Pages(c)
  BY ArcLeads DEF ChildrenOf
<1>3. ASSUME NEW n \in DOMAIN c.registered
      PROVE  /\ Registrants \in Pages(c) /\ Entity(n) \in Pages(c)
             /\ KeyStrip(Entity(n), HeldBy(c, n)) \subseteq Pages(c)
  <2>1. IsFiniteSet(Numerals(DOMAIN c.registered)) /\ Numerals(DOMAIN c.registered) # {}
    BY <1>3, NamesAreFinite DEF Numerals, Consistent
  <2>2. Registrants \in RegistrantPages(c)
    BY <2>1, ListIsServed DEF RegistrantPages, RegistrantList
  <2>3. ListPaths(Entity(n), HeldBy(c, n)) \subseteq EntityPages(c)
    BY DEF EntityPages
  <2>4. Entity(n) \in EntityPages(c) /\ KeyStrip(Entity(n), HeldBy(c, n)) \subseteq EntityPages(c)
    BY <2>3, RegistrantIsServed, PartsAreServed
  <2> QED
    BY <2>2, <2>4 DEF Pages, EntityPages
<1>4. ASSUME NEW m \in DOMAIN c.docs
      PROVE  ModuleLinks(c, m) \subseteq Pages(c)
  <2>1. ImportLinks(c, m) \subseteq Pages(c)
    BY <1>1 DEF ImportLinks
  <2>2. {Mib(i) : i \in {i \in DOMAIN c.docs : m \in c.docs[i].imports}} \subseteq Pages(c)
    BY <1>1
  <2>3. UNION {{ArcLink(c, child) : child \in ChildrenOf(Arcs(c), oid)} :
                 oid \in {oid \in DOMAIN c.anchors : c.anchors[oid] = m}} \subseteq Pages(c)
    BY <1>2
  <2> QED
    BY <2>1, <2>2, <2>3 DEF ModuleLinks
<1>5. ASSUME NEW n \in DOMAIN c.registered
      PROVE  EntityLinks(c, n) \subseteq Pages(c)
  <2>1. \A m \in c.registered[n] : Mib(m) \in Pages(c)
    BY <1>1 DEF Consistent
  <2> QED
    BY <1>3, <2>1 DEF EntityLinks
<1>6. ASSUME NEW oid \in StructuralArcs(DOMAIN c.anchors), Tree \in TreePages(c)
      PROVE  ArcLinks(c, oid) \subseteq Pages(c)
  BY <1>2, <1>6 DEF ArcLinks, Pages
<1>7. ListLinks(c) \subseteq Pages(c)
  <2>1. KeyStrip(Browse, ModuleList(c)) \subseteq Pages(c)
    BY PartsAreServed DEF Pages, BrowsePages
  <2>2. KeyStrip(Registrants, RegistrantList(c)) \subseteq Pages(c)
    BY PartsAreServed DEF Pages, EntityPages, RegistrantPages
  <2>3. ASSUME Tree \in TreePages(c), NEW oid \in Top(c)
        PROVE  Arc(oid) \in Pages(c)
    <3>1. oid \in StructuralArcs(DOMAIN c.anchors)
      BY DEF Top
    <3>2. Arc(oid) \in TreePages(c)
      BY <2>3, <3>1 DEF TreePages
    <3> QED
      BY <3>2 DEF Pages
  <2> QED
    BY <1>1, <1>3, <2>1, <2>2, <2>3 DEF ListLinks
<1>8. ASSUME Pages(c) # {} PROVE Browse \in Pages(c)
  <2>1. CASE DOMAIN c.docs # {}
    BY <1>1, <2>1
  <2>2. CASE DOMAIN c.docs = {} /\ DOMAIN c.registered = {}
    <3>1. DOMAIN c.anchors = {}
      BY <2>2 DEF Consistent
    <3>2. TreePages(c) = {} /\ ModulePages(c) = {}
      BY <2>2, <3>1 DEF TreePages, ModulePages
    <3>3. \A base : ListPaths(base, Lists({})) = {}
      <4> DEFINE found == Lists({})
      <4>1. found = <<>>
        BY DEF Lists
      <4> HIDE DEF found
      <4>2. DOMAIN found = {} /\ Len(found) = 0
        BY <4>1
      <4> QED
        BY <4>2 DEF ListPaths, PartPages, found
    <3>4. Names(DOMAIN c.docs) = {} /\ Numerals(DOMAIN c.registered) = {}
      BY <2>2 DEF Names, Numerals
    <3>5. BrowsePages(c) = {} /\ RegistrantPages(c) = {}
      BY <3>3, <3>4 DEF BrowsePages, ModuleList, RegistrantPages, RegistrantList
    <3>6. EntityPages(c) = {}
      BY <2>2, <3>5 DEF EntityPages
    <3> QED
      BY <1>8, <3>2, <3>5, <3>6 DEF Pages
  <2>3. CASE DOMAIN c.docs = {} /\ DOMAIN c.registered # {}
    <3>1. FALSE
      BY <2>3 DEF Consistent
    <3> QED
      BY <3>1
  <2> QED
    BY <2>1, <2>2, <2>3
<1>9. UNION {ModuleLinks(c, m) : m \in DOMAIN c.docs} \subseteq Pages(c)
  BY <1>4
<1>10. UNION {EntityLinks(c, n) : n \in DOMAIN c.registered} \subseteq Pages(c)
  BY <1>5
<1>11. Tree \in TreePages(c) =>
         UNION {ArcLinks(c, oid) : oid \in StructuralArcs(DOMAIN c.anchors)} \subseteq Pages(c)
  BY <1>6
<1> QED
  BY <1>7, <1>8, <1>9, <1>10, <1>11 DEF Links

LEMMA NumbersAreNumbers ==
  ASSUME NEW doc \in Document, NEW n \in Numbers(doc)
  PROVE  n \in Nat
<1>1. PICK c \in OidsOf(doc) : n = EnterpriseOf(c.oid) /\ n # -1
  BY DEF Numbers
<1> DEFINE oid == c.oid
<1>2. oid \in Seq(Nat)
  BY ClaimsOfOids
<1> HIDE DEF oid
<1>3. IsStrictPrefix(Enterprises, oid) /\ n = oid[Len(Enterprises) + 1]
  BY <1>1 DEF EnterpriseOf, oid
<1>4. Enterprises \in Seq(Nat) /\ Len(Enterprises) \in Nat
  BY IndexAssumption, LenProperties
<1>5. Len(Enterprises) + 1 \in 1..Len(oid)
  BY <1>2, <1>3, <1>4 DEF IsStrictPrefix, IsPrefix
<1> QED
  BY <1>2, <1>3, <1>5

LEMMA OidsAreFinite ==
  ASSUME NEW doc \in Document
  PROVE  IsFiniteSet(OidsOf(doc))
<1> DEFINE strong == {s \in OfClass(doc, DOMAIN AnchorRank) : s.oid # <<>>}
           having == {s \in Range(doc.symbols) : s.oid # <<>>}
           f == [s \in strong |-> [oid |-> s.oid, anchor |-> AnchorRank[s.class]]]
           g == [s \in having |-> [oid |-> s.oid, anchor |-> AnchorRankFallback]]
<1>1. IsFiniteSet(strong) /\ IsFiniteSet(having)
  BY SymbolsAreFinite, FS_Subset DEF OfClass
<1>2. OidsOf(doc) = Range(f) \/ OidsOf(doc) = Range(g)
  BY DEF OidsOf, Range
<1>3. DOMAIN f = strong /\ DOMAIN g = having
      /\ f = [x \in DOMAIN f |-> f[x]] /\ g = [x \in DOMAIN g |-> g[x]]
  OBVIOUS
<1> HIDE DEF f, g, strong, having
<1> QED
  BY <1>1, <1>2, <1>3, RangeIsFinite

(* Few registrants: each is of an OID of a document. *)
LEMMA RegistrantsAreFinite ==
  ASSUME FoldInv
  PROVE  IsFiniteSet(DOMAIN registered) /\ DOMAIN registered \subseteq Nat
<1>1. RegistersOK(docs, HasRead, registered, speaking) /\ HasRead \subseteq DOMAIN docs /\ DocsOK(docs)
  BY CorporaAreDocuments DEF FoldInv, HasRead
<1>2. ASSUME NEW m \in HasRead
      PROVE  IsFiniteSet(Numbers(docs[m])) /\ Numbers(docs[m]) \subseteq Nat
  <2>1. docs[m] \in Document
    BY <1>1 DEF DocsOK
  <2> DEFINE doc == docs[m]
             of == [c \in OidsOf(doc) |-> EnterpriseOf(c.oid)]
  <2>2. doc \in Document
    BY <2>1
  <2> HIDE DEF doc
  <2>3. IsFiniteSet(OidsOf(doc))
    BY <2>2, OidsAreFinite
  <2>4. IsFiniteSet(Range(of))
    <3>1. DOMAIN of = OidsOf(doc) /\ of = [x \in DOMAIN of |-> of[x]]
      OBVIOUS
    <3> HIDE DEF of
    <3> QED
      BY <2>3, <3>1, RangeIsFinite
  <2>5. Numbers(doc) \subseteq Range(of)
    BY DEF Numbers, Range
  <2>6. Numbers(doc) \subseteq Nat
    BY <2>2, NumbersAreNumbers
  <2> HIDE DEF of
  <2> QED
    BY <2>4, <2>5, <2>6, FS_Subset DEF doc
<1> DEFINE f == [m \in HasRead |-> Numbers(docs[m])]
<1>3. IsFiniteSet(HasRead)
  BY <1>1, FS_Subset DEF DocsOK
<1>4. IsFiniteSet(Range(f)) /\ \A T \in Range(f) : IsFiniteSet(T)
  <2>1. DOMAIN f = HasRead /\ f = [x \in DOMAIN f |-> f[x]]
    OBVIOUS
  <2>2. \A T \in Range(f) : IsFiniteSet(T)
    BY <1>2 DEF Range
  <2> HIDE DEF f
  <2> QED
    BY <1>3, <2>1, <2>2, RangeIsFinite
<1>5. IsFiniteSet(UNION Range(f))
  <2> HIDE DEF f
  <2> QED
    BY <1>4, FS_UNION
<1>6. ASSUME NEW n \in DOMAIN registered
      PROVE  \E m \in HasRead : n \in Numbers(docs[m])
  BY <1>1 DEF RegistersOK
<1>7. DOMAIN registered \subseteq UNION Range(f)
  BY <1>6 DEF Range
<1>8. DOMAIN registered \subseteq Nat
  BY <1>2, <1>6
<1> HIDE DEF f
<1> QED
  BY <1>5, <1>7, <1>8, FS_Subset

(* No page a build writes, whatever its documents and however long its lists,    *)
(* has a link that leads nowhere.                                                *)
THEOREM EveryLinkResolves == Spec => []LinksResolve
<1>1. FoldInv => LinksResolve
  <2> SUFFICES ASSUME FoldInv, unread = {}
               PROVE  Links(Corpus) \subseteq Pages(Corpus)
    BY DEF LinksResolve
  <2> DEFINE c == Corpus
  <2>1. c.docs = docs /\ c.anchors = Anchors /\ c.registered = registered
        /\ c.arcs = ArcNames(DOMAIN Anchors, named)
    BY DEF Corpus
  <2> HIDE DEF c
  <2>2. IsFiniteSet(DOMAIN docs) /\ HasRead = DOMAIN docs
    BY CorporaAreDocuments DEF FoldInv, HasRead, DocsOK
  <2>3. ASSUME NEW oid \in DOMAIN Anchors
        PROVE  oid \in Seq(Nat) /\ oid # <<>> /\ Anchors[oid] \in DOMAIN docs
    <3>1. oid \in DOMAIN best /\ Anchors[oid] = best[oid].module
      BY <2>3 DEF Anchors, AnchorIndex, Owner
    <3> QED
      BY <3>1, OwnedAreOids
  <2>4. DOMAIN c.arcs = UNION {PathTo(oid) : oid \in DOMAIN Anchors}
    <3>1. \A A, N : DOMAIN ArcNames(A, N) = UNION {PathTo(oid) : oid \in A}
      BY Zenon DEF ArcNames
    <3> QED
      BY <2>1, <3>1
  <2>5. ASSUME NEW n \in DOMAIN registered
        PROVE  registered[n] # {} /\ registered[n] \subseteq DOMAIN docs
    BY <2>2 DEF FoldInv, RegistersOK
  <2>6. Consistent(c)
    BY <2>1, <2>2, <2>3, <2>4, <2>5, RegistrantsAreFinite DEF Consistent
  <2>7. Links(c) \subseteq Pages(c)
    BY <2>6, LinksLead
  <2> QED
    BY <2>7 DEF c
<1>2. FoldInv /\ [Next]_vars => FoldInv'
  BY FoldsGoOn
<1> QED
  BY <1>1, <1>2, FoldsBegin, PTL DEF Spec
-------------------------------------------------------------------------------
(* The order of names. *)

(* Two names part where the first ends or has the smaller character. *)
PartAt(s, t, n) ==
  /\ n \in 1..Len(t) /\ n - 1 <= Len(s)
  /\ \A i \in 1..(n - 1) : s[i] = t[i]
  /\ n <= Len(s) => s[n] < t[n]

LEMMA StartsAgree ==
  ASSUME NEW s \in Seq(Nat), NEW t \in Seq(Nat), NEW n \in Nat, n <= Len(s), n <= Len(t)
  PROVE  SubSeq(s, 1, n) = SubSeq(t, 1, n) <=> \A i \in 1..n : s[i] = t[i]
<1>1. /\ SubSeq(s, 1, n) \in Seq(Nat) /\ Len(SubSeq(s, 1, n)) = n
      /\ \A i \in 1..n : SubSeq(s, 1, n)[i] = s[i]
  BY SubSeqProperties
<1>2. /\ SubSeq(t, 1, n) \in Seq(Nat) /\ Len(SubSeq(t, 1, n)) = n
      /\ \A i \in 1..n : SubSeq(t, 1, n)[i] = t[i]
  BY SubSeqProperties
<1>3. ASSUME \A i \in 1..n : s[i] = t[i]
      PROVE  SubSeq(s, 1, n) = SubSeq(t, 1, n)
  BY <1>1, <1>2, <1>3, SeqEqual
<1> QED
  BY <1>1, <1>2, <1>3

LEMMA BeforeParts ==
  ASSUME NEW s \in Seq(Nat), NEW t \in Seq(Nat)
  PROVE  Before(s, t) <=> \E n \in Nat : PartAt(s, t, n)
<1>0. /\ Len(s) \in Nat /\ Len(t) \in Nat
      /\ DOMAIN s = 1..Len(s) /\ DOMAIN t = 1..Len(t)
  BY LenProperties
<1>1. ASSUME IsStrictPrefix(s, t)
      PROVE  \E n \in Nat : PartAt(s, t, n)
  <2>1. Len(s) <= Len(t) /\ SubSeq(s, 1, Len(s)) = SubSeq(t, 1, Len(s)) /\ s # t
    BY <1>1 DEF IsStrictPrefix, IsPrefix
  <2>2. \A i \in 1..Len(s) : s[i] = t[i]
    BY <1>0, <2>1, StartsAgree
  <2>3. Len(s) # Len(t)
    BY <1>0, <2>1, <2>2, SeqEqual
  <2>4. /\ Len(s) + 1 \in 1..Len(t) /\ (Len(s) + 1) - 1 = Len(s) /\ ~(Len(s) + 1 <= Len(s))
        /\ Len(s) <= Len(s)
    <3>1. \A a, b \in Nat :
            a <= b /\ a # b =>
              a + 1 \in 1..b /\ (a + 1) - 1 = a /\ ~(a + 1 <= a) /\ a <= a
      OBVIOUS
    <3>2. Len(s) \in Nat /\ Len(t) \in Nat /\ Len(s) <= Len(t) /\ Len(s) # Len(t)
      BY <1>0, <2>1, <2>3
    <3> QED
      BY <3>1, <3>2
  <2>5. PartAt(s, t, Len(s) + 1)
    BY <2>2, <2>4 DEF PartAt
  <2> QED
    BY <1>0, <2>5
<1>2. ASSUME NEW n \in DOMAIN s \cap DOMAIN t,
             SubSeq(s, 1, n - 1) = SubSeq(t, 1, n - 1), s[n] < t[n]
      PROVE  \E k \in Nat : PartAt(s, t, k)
  <2>1. n \in Nat /\ n - 1 \in Nat /\ n - 1 <= Len(s) /\ n - 1 <= Len(t) /\ n \in 1..Len(t)
    BY <1>0
  <2>2. \A i \in 1..(n - 1) : s[i] = t[i]
    BY <1>2, <2>1, StartsAgree
  <2>3. PartAt(s, t, n)
    BY <1>2, <2>1, <2>2 DEF PartAt
  <2> QED
    BY <2>1, <2>3
<1>3. ASSUME NEW n \in Nat, PartAt(s, t, n)
      PROVE  Before(s, t)
  <2>1. /\ n \in 1..Len(t) /\ n - 1 <= Len(s) /\ n - 1 \in Nat /\ n - 1 <= Len(t)
        /\ \A i \in 1..(n - 1) : s[i] = t[i]
        /\ n <= Len(s) => s[n] < t[n]
    BY <1>0, <1>3 DEF PartAt
  <2>2. SubSeq(s, 1, n - 1) = SubSeq(t, 1, n - 1)
    BY <2>1, StartsAgree
  <2>3. CASE n <= Len(s)
    <3>1. n \in DOMAIN s \cap DOMAIN t
      BY <1>0, <2>1, <2>3
    <3> QED
      BY <2>1, <2>2, <2>3, <3>1 DEF Before
  <2>4. CASE n > Len(s)
    <3>1. n - 1 = Len(s) /\ Len(s) < Len(t)
      BY <1>0, <2>1, <2>4
    <3>2. IsStrictPrefix(s, t)
      BY <1>0, <2>2, <3>1 DEF IsStrictPrefix, IsPrefix
    <3> QED
      BY <3>2 DEF Before
  <2> QED
    BY <1>0, <2>1, <2>3, <2>4
<1> QED
  BY <1>1, <1>2, <1>3 DEF Before

LEMMA BeforeIsTransitive ==
  ASSUME NEW s \in Seq(Nat), NEW t \in Seq(Nat), NEW u \in Seq(Nat), Before(s, t), Before(t, u)
  PROVE  Before(s, u)
<1>0. Len(s) \in Nat /\ Len(t) \in Nat /\ Len(u) \in Nat
  BY LenProperties
<1>1. PICK n \in Nat : PartAt(s, t, n)
  BY BeforeParts
<1>2. PICK k \in Nat : PartAt(t, u, k)
  BY BeforeParts
<1>3. /\ n \in 1..Len(t) /\ n - 1 <= Len(s)
      /\ \A i \in 1..(n - 1) : s[i] = t[i]
      /\ n <= Len(s) => s[n] < t[n]
  BY <1>1 DEF PartAt
<1>4. /\ k \in 1..Len(u) /\ k - 1 <= Len(t)
      /\ \A i \in 1..(k - 1) : t[i] = u[i]
      /\ k <= Len(t) => t[k] < u[k]
  BY <1>2 DEF PartAt
<1>t. \A i \in 1..Len(s) : s[i] \in Nat
  BY ElementOfSeq
<1>u. (\A i \in 1..Len(t) : t[i] \in Nat) /\ (\A i \in 1..Len(u) : u[i] \in Nat)
  BY ElementOfSeq
<1>5. CASE n < k
  <2>1. n \in 1..(k - 1) /\ t[n] = u[n] /\ n \in 1..Len(u)
    BY <1>0, <1>3, <1>4, <1>5
  <2>2. \A i \in 1..(n - 1) : s[i] = u[i]
    BY <1>3, <1>4, <1>5
  <2>3. PartAt(s, u, n)
    BY <1>3, <2>1, <2>2 DEF PartAt
  <2> QED
    BY <2>3, BeforeParts
<1>6. CASE n = k
  <2>1. \A i \in 1..(n - 1) : s[i] = u[i]
    BY <1>3, <1>4, <1>6
  <2>2. n <= Len(s) => s[n] < u[n]
    <3> SUFFICES ASSUME n <= Len(s) PROVE s[n] < u[n]
      OBVIOUS
    <3>1. n \in 1..Len(s) /\ n \in 1..Len(t) /\ n \in 1..Len(u)
      BY <1>0, <1>3, <1>4, <1>6
    <3>2. s[n] \in Nat /\ t[n] \in Nat /\ u[n] \in Nat
      BY <1>t, <1>u, <3>1
    <3>3. s[n] < t[n] /\ t[n] < u[n]
      BY <1>3, <1>4, <1>6, <3>1
    <3> QED
      BY <3>2, <3>3, SMTT(30)
  <2>3. PartAt(s, u, n)
    BY <1>3, <1>4, <1>6, <2>1, <2>2 DEF PartAt
  <2> QED
    BY <2>3, BeforeParts
<1>7. CASE k < n
  <2>1. k \in 1..(n - 1) /\ s[k] = t[k] /\ k \in 1..Len(s) /\ k <= Len(t)
    BY <1>0, <1>3, <1>4, <1>7, SMTT(30)
  <2>2. \A i \in 1..(k - 1) : s[i] = u[i]
    BY <1>3, <1>4, <1>7
  <2>3. s[k] < u[k]
    BY <1>4, <2>1
  <2>4. PartAt(s, u, k)
    BY <1>0, <1>4, <2>1, <2>2, <2>3 DEF PartAt
  <2> QED
    BY <2>4, BeforeParts
<1> QED
  BY <1>5, <1>6, <1>7

LEMMA BeforeIsStrict ==
  ASSUME NEW s \in Seq(Nat)
  PROVE  ~Before(s, s)
<1> SUFFICES ASSUME NEW n \in Nat, PartAt(s, s, n) PROVE FALSE
  BY BeforeParts
<1>1. n \in 1..Len(s) /\ s[n] < s[n] /\ Len(s) \in Nat
  BY LenProperties DEF PartAt
<1>2. s[n] \in Nat
  BY <1>1, ElementOfSeq
<1> QED
  BY <1>1, <1>2

(* Of two names one comes first: they part at the first place that tells them    *)
(* apart.                                                                        *)
LEMMA BeforeIsTotal ==
  ASSUME NEW s \in Seq(Nat), NEW t \in Seq(Nat), s # t
  PROVE  Before(s, t) \/ Before(t, s)
<1>0. Len(s) \in Nat /\ Len(t) \in Nat
  BY LenProperties
<1> DEFINE both == {i \in Nat : i >= 1 /\ (i > Len(s) \/ i > Len(t) \/ s[i] # t[i])}
<1>1. both # {}
  <2>1. Len(s) + 1 \in both
    BY <1>0
  <2> QED
    BY <2>1
<1>2. PICK n \in both : \A k \in both : n <= k
  <2>1. both \in SUBSET Nat
    OBVIOUS
  <2> HIDE DEF both
  <2> QED
    BY <1>1, <2>1, LeastNumber
<1>3. n \in Nat /\ n >= 1 /\ (n > Len(s) \/ n > Len(t) \/ s[n] # t[n])
  OBVIOUS
<1>4. \A i \in 1..(n - 1) : i <= Len(s) /\ i <= Len(t) /\ s[i] = t[i]
  <2> SUFFICES ASSUME NEW i \in 1..(n - 1), ~(i <= Len(s) /\ i <= Len(t) /\ s[i] = t[i])
               PROVE  FALSE
    OBVIOUS
  <2>1. i \in Nat /\ i >= 1 /\ ~(n <= i)
    BY <1>3
  <2>2. i \in both
    BY <1>0, <2>1
  <2> QED
    BY <1>2, <2>1, <2>2
<1> HIDE DEF both
<1>5. n - 1 <= Len(s) /\ n - 1 <= Len(t)
  <2>1. CASE n = 1
    BY <1>0, <2>1
  <2>2. CASE n > 1
    <3>1. n - 1 \in 1..(n - 1)
      BY <1>3, <2>2
    <3> QED
      BY <1>4, <3>1
  <2> QED
    BY <1>3, <2>1, <2>2
<1>6. CASE n > Len(s)
  <2>1. Len(s) = n - 1
    BY <1>0, <1>3, <1>5, <1>6
  <2>2. Len(t) # n - 1
    BY <1>0, <1>4, <2>1, SeqEqual
  <2>3. PartAt(s, t, n)
    BY <1>0, <1>3, <1>4, <1>5, <2>1, <2>2 DEF PartAt
  <2> QED
    BY <1>3, <2>3, BeforeParts
<1>7. CASE n > Len(t)
  <2>1. Len(t) = n - 1
    BY <1>0, <1>3, <1>5, <1>7
  <2>2. Len(s) # n - 1
    BY <1>0, <1>4, <2>1, SeqEqual
  <2>3. PartAt(t, s, n)
    BY <1>0, <1>3, <1>4, <1>5, <2>1, <2>2 DEF PartAt
  <2> QED
    BY <1>3, <2>3, BeforeParts
<1>8. CASE n <= Len(s) /\ n <= Len(t)
  <2>1. n \in 1..Len(s) /\ n \in 1..Len(t) /\ s[n] # t[n]
    BY <1>0, <1>3, <1>8
  <2>2. s[n] \in Nat /\ t[n] \in Nat
    BY <2>1, ElementOfSeq
  <2>3. s[n] < t[n] \/ t[n] < s[n]
    BY <2>1, <2>2
  <2>4. PartAt(s, t, n) \/ PartAt(t, s, n)
    BY <1>4, <1>5, <2>1, <2>3 DEF PartAt
  <2> QED
    BY <1>3, <2>4, BeforeParts
<1> QED
  BY <1>0, <1>3, <1>6, <1>7, <1>8
-------------------------------------------------------------------------------
(* Sorted lists. *)

Below(names, name) == {x \in names : Before(x, name)}
RankIn(names, name) == Cardinality(Below(names, name))

LEMMA RanksAscend ==
  ASSUME NEW names \in SUBSET Seq(Nat), IsFiniteSet(names),
         NEW s \in names, NEW t \in names, Before(s, t)
  PROVE  RankIn(names, s) + 1 <= RankIn(names, t)
<1>1. IsFiniteSet(Below(names, s)) /\ IsFiniteSet(Below(names, t))
  BY FS_Subset DEF Below
<1>2. s \notin Below(names, s)
  BY BeforeIsStrict DEF Below
<1>3. Below(names, s) \cup {s} \subseteq Below(names, t)
  BY BeforeIsTransitive DEF Below
<1>4. Cardinality(Below(names, s) \cup {s}) = Cardinality(Below(names, s)) + 1
  BY <1>1, <1>2, FS_AddElement
<1>5. Cardinality(Below(names, s) \cup {s}) <= Cardinality(Below(names, t))
  BY <1>1, <1>3, FS_Subset
<1> QED
  BY <1>4, <1>5 DEF RankIn

LEMMA RanksAreApart ==
  ASSUME NEW names \in SUBSET Seq(Nat), IsFiniteSet(names)
  PROVE  /\ \A s \in names : RankIn(names, s) \in 0..(Cardinality(names) - 1)
         /\ \A s, t \in names : RankIn(names, s) = RankIn(names, t) => s = t
<1>0. Cardinality(names) \in Nat
  BY FS_CardinalityType
<1>1. ASSUME NEW s \in names
      PROVE  RankIn(names, s) \in Nat /\ RankIn(names, s) <= Cardinality(names) - 1
  <2>1. IsFiniteSet(names \ {s}) /\ Cardinality(names \ {s}) = Cardinality(names) - 1
    BY FS_RemoveElement
  <2>2. Below(names, s) \subseteq names \ {s}
    BY BeforeIsStrict DEF Below
  <2>3. IsFiniteSet(Below(names, s)) /\ Cardinality(Below(names, s)) <= Cardinality(names \ {s})
    BY <2>1, <2>2, FS_Subset
  <2>4. Cardinality(Below(names, s)) \in Nat
    BY <2>3, FS_CardinalityType
  <2> QED
    BY <2>1, <2>3, <2>4 DEF RankIn
<1>2. ASSUME NEW s \in names, NEW t \in names, RankIn(names, s) = RankIn(names, t)
      PROVE  s = t
  <2>1. \A n \in Nat : ~(n + 1 <= n)
    OBVIOUS
  <2> QED
    BY <1>1, <1>2, <2>1, RanksAscend, BeforeIsTotal
<1>3. ASSUME NEW s \in names
      PROVE  RankIn(names, s) \in 0..(Cardinality(names) - 1)
  BY <1>0, <1>1
<1> QED
  BY <1>2, <1>3

(* As many places as names, and no two names of one rank: each place is taken.   *)
LEMMA RanksAreTaken ==
  ASSUME NEW names \in SUBSET Seq(Nat), IsFiniteSet(names),
         NEW k \in 0..(Cardinality(names) - 1)
  PROVE  \E s \in names : RankIn(names, s) = k
<1> DEFINE places == 0..(Cardinality(names) - 1)
           f == [s \in names |-> RankIn(names, s)]
<1>0. Cardinality(names) \in Nat
  BY FS_CardinalityType
<1>1. IsFiniteSet(places) /\ Cardinality(places) = Cardinality(names)
  <2>1. /\ 0 \in Int /\ Cardinality(names) - 1 \in Int
        /\ (Cardinality(names) - 1) - 0 + 1 = Cardinality(names)
        /\ (0 > Cardinality(names) - 1 => Cardinality(names) = 0)
    BY <1>0
  <2> QED
    BY <2>1, FS_Interval
<1>2. f \in Injection(names, places)
  <2>1. f \in [names -> places]
    BY RanksAreApart
  <2>2. \A s, t \in names : f[s] = f[t] => s = t
    BY RanksAreApart
  <2> HIDE DEF f, places
  <2> QED
    BY <2>1, <2>2 DEF Injection, IsInjective
<1>3. f \in Surjection(names, places)
  <2> HIDE DEF f, places
  <2> QED
    BY <1>1, <1>2, FS_Injection
<1>4. k \in places
  OBVIOUS
<1>5. \E s \in names : f[s] = k
  <2> HIDE DEF f, places
  <2> QED
    BY <1>3, <1>4 DEF Surjection
<1> QED
  BY <1>5

(* A sorted list has every name once, each before those that follow.            *)
LEMMA SortedAscends ==
  ASSUME NEW names \in SUBSET Seq(Nat), IsFiniteSet(names)
  PROVE  /\ Sorted(names) \in [1..Cardinality(names) -> names]
         /\ \A i, j \in 1..Cardinality(names) :
              i < j => Before(Sorted(names)[i], Sorted(names)[j])
         /\ \A s \in names : \E i \in 1..Cardinality(names) : Sorted(names)[i] = s
<1> DEFINE N == Cardinality(names)
           o == Sorted(names)
<1>0. N \in Nat
  BY FS_CardinalityType
<1>1. o = [i \in 1..N |-> CHOOSE s \in names : RankIn(names, s) = i - 1]
  BY DEF Sorted, RankIn, Below
<1>2. ASSUME NEW i \in 1..N
      PROVE  o[i] \in names /\ RankIn(names, o[i]) = i - 1
  <2>1. i - 1 \in 0..(Cardinality(names) - 1)
    BY <1>0
  <2>2. \E s \in names : RankIn(names, s) = i - 1
    BY <2>1, RanksAreTaken
  <2>3. o[i] = CHOOSE s \in names : RankIn(names, s) = i - 1
    BY <1>1
  <2> HIDE DEF o, N
  <2> QED
    BY <2>2, <2>3
<1> HIDE DEF o, N
<1>3. o \in [1..N -> names]
  BY <1>1, <1>2
<1>4. ASSUME NEW i \in 1..N, NEW j \in 1..N, i < j
      PROVE  Before(o[i], o[j])
  <2>1. o[i] \in names /\ o[j] \in names /\ RankIn(names, o[i]) = i - 1 /\ RankIn(names, o[j]) = j - 1
    BY <1>2
  <2>2. o[i] # o[j] /\ ~((j - 1) + 1 <= i - 1)
    BY <1>0, <1>4, <2>1
  <2>3. ~Before(o[j], o[i])
    BY <2>1, <2>2, RanksAscend
  <2> QED
    BY <2>1, <2>2, <2>3, BeforeIsTotal
<1>5. ASSUME NEW s \in names
      PROVE  \E i \in 1..N : o[i] = s
  <2>1. RankIn(names, s) \in 0..(N - 1)
    BY RanksAreApart DEF N
  <2>2. /\ RankIn(names, s) + 1 \in 1..N /\ (RankIn(names, s) + 1) - 1 = RankIn(names, s)
    BY <1>0, <2>1
  <2>3. /\ o[RankIn(names, s) + 1] \in names
        /\ RankIn(names, o[RankIn(names, s) + 1]) = RankIn(names, s)
    BY <1>2, <2>2
  <2>4. o[RankIn(names, s) + 1] = s
    BY <2>3, RanksAreApart
  <2> QED
    BY <2>2, <2>4
<1> QED
  BY <1>3, <1>4, <1>5 DEF o, N
-------------------------------------------------------------------------------
(* Labels. *)

LEMMA StartIsPrefix ==
  ASSUME NEW s \in Seq(Nat), NEW n \in 0..Len(s)
  PROVE  /\ SubSeq(s, 1, n) \in Seq(Nat) /\ Len(SubSeq(s, 1, n)) = n
         /\ \A i \in 1..n : SubSeq(s, 1, n)[i] = s[i]
<1>1. Len(s) \in Nat /\ n \in Nat /\ n <= Len(s)
  BY LenProperties
<1>2. \A i \in 1..n : s[i] \in Nat
  BY <1>1, ElementOfSeq
<1>3. /\ SubSeq(s, 1, n) \in Seq(Nat) /\ Len(SubSeq(s, 1, n)) = (IF 1 <= n THEN n - 1 + 1 ELSE 0)
      /\ \A i \in 1..(n - 1 + 1) : SubSeq(s, 1, n)[i] = s[1 + i - 1]
  BY <1>1, <1>2, SubSeqProperties
<1>4. n - 1 + 1 = n /\ \A i \in 1..n : 1 + i - 1 = i
  BY <1>1
<1> QED
  BY <1>1, <1>3, <1>4

LEMMA CommonStart ==
  ASSUME NEW s \in Seq(Nat), NEW t \in Seq(Nat), NEW n \in Nat, n <= Len(s), n <= Len(t),
         \A i \in 1..n : s[i] = t[i]
  PROVE  Common(s, t) \in Nat /\ n <= Common(s, t)
<1> DEFINE shared == CommonPrefixes({s, t})
           lengths == {Len(p) : p \in shared}
<1>0. Len(s) \in Nat
  BY LenProperties
<1>1. ASSUME NEW p \in shared
      PROVE  Len(p) \in Nat /\ Len(p) <= Len(s)
  <2>1. p \in Prefixes(s) \cup Prefixes(t) /\ IsPrefix(p, s)
    BY DEF CommonPrefixes
  <2>2. \A u \in {s, t} : p \in Prefixes(u) => Len(p) \in Nat
    <3> SUFFICES ASSUME NEW u \in {s, t}, p \in Prefixes(u) PROVE Len(p) \in Nat
      OBVIOUS
    <3>1. u \in Seq(Nat)
      OBVIOUS
    <3>2. PICK k \in 0..Len(u) : p = SubSeq(u, 1, k)
      BY DEF Prefixes
    <3>3. k \in Nat
      BY <3>1, LenProperties
    <3> QED
      BY <3>1, <3>2, <3>3, StartIsPrefix
  <2> QED
    BY <2>1, <2>2 DEF IsPrefix
<1>2. SubSeq(s, 1, n) \in shared /\ Len(SubSeq(s, 1, n)) = n
  <2>1. n \in 0..Len(s) /\ n \in 0..Len(t)
    BY <1>0, LenProperties
  <2>2. Len(SubSeq(s, 1, n)) = n
    BY <2>1, StartIsPrefix
  <2>3. SubSeq(s, 1, n) = SubSeq(t, 1, n)
    BY StartsAgree
  <2>4. SubSeq(SubSeq(s, 1, n), 1, n) = SubSeq(s, 1, n)
    <3>1. SubSeq(s, 1, n) \in Seq(Nat)
      BY <2>1, StartIsPrefix
    <3> QED
      BY <2>2, <3>1, SubSeqFull
  <2>5. IsPrefix(SubSeq(s, 1, n), s) /\ IsPrefix(SubSeq(s, 1, n), t)
    BY <2>2, <2>3, <2>4 DEF IsPrefix
  <2>6. SubSeq(s, 1, n) \in Prefixes(s)
    BY <2>1 DEF Prefixes
  <2> QED
    BY <2>2, <2>5, <2>6 DEF CommonPrefixes
<1> HIDE DEF shared
<1>3. lengths \in SUBSET Nat /\ lengths # {} /\ IsFiniteSet(lengths)
  <2>1. lengths \in SUBSET Nat /\ lengths # {} /\ \A k \in lengths : k <= Len(s)
    BY <1>1, <1>2
  <2> HIDE DEF lengths
  <2> QED
    BY <1>0, <2>1, FS_BoundedSetOfNaturals
<1>4. Max(lengths) \in lengths /\ \A k \in lengths : Max(lengths) >= k
  <2> HIDE DEF lengths
  <2> QED
    BY <1>3, MaxIsGreatest
<1>5. \E p \in shared : \A q \in shared : Len(q) <= Len(p)
  <2>1. PICK p \in shared : Len(p) = Max(lengths)
    BY <1>4
  <2>2. \A q \in shared : Len(q) <= Len(p)
    BY <1>1, <1>4, <2>1
  <2> QED
    BY <2>2
<1>6. LongestCommonPrefix({s, t}) \in shared
      /\ \A q \in shared : Len(q) <= Len(LongestCommonPrefix({s, t}))
  BY <1>5 DEF LongestCommonPrefix, shared
<1> QED
  BY <1>1, <1>2, <1>6 DEF Common

(* A label is the start of its entry, and not empty. It comes after the entry    *)
(* before.                                                                       *)
LEMMA LabelsLeadIn ==
  ASSUME NEW entry \in Seq(Nat), entry # <<>>, NEW neighbour \in Seq(Nat), NEW within \in Seq(Nat)
  PROVE  \E k \in 1..Len(entry) :
           /\ Label(entry, neighbour, within) = SubSeq(entry, 1, k)
           /\ \A n \in 1..Len(entry) :
                n - 1 <= Len(neighbour) /\ (\A i \in 1..(n - 1) : neighbour[i] = entry[i]) => n <= k
<1>0. Len(entry) \in Nat /\ Len(entry) # 0 /\ Len(neighbour) \in Nat /\ Len(within) \in Nat
  BY LenProperties, EmptySeq
<1>1. Common(entry, neighbour) \in Nat /\ Common(entry, within) \in Nat
  <2>1. \A u \in Seq(Nat) : Common(entry, u) \in Nat
    <3> SUFFICES ASSUME NEW u \in Seq(Nat) PROVE Common(entry, u) \in Nat
      OBVIOUS
    <3>1. 0 \in Nat /\ 0 <= Len(entry) /\ 0 <= Len(u) /\ \A i \in 1..0 : entry[i] = u[i]
      BY <1>0, LenProperties
    <3> QED
      BY <3>1, CommonStart
  <2> QED
    BY <2>1
<1> DEFINE lengths == {Minimum, Common(entry, neighbour) + 1} \cup
                      IF within = <<>> THEN {} ELSE {Common(entry, within) + 1}
           wanted == Max(lengths)
           k == Min({wanted, Len(entry)})
<1>2. /\ lengths \subseteq Nat /\ IsFiniteSet(lengths) /\ lengths # {}
      /\ Common(entry, neighbour) + 1 \in lengths
  <2>1. lengths \subseteq {Minimum, Common(entry, neighbour) + 1, Common(entry, within) + 1}
    OBVIOUS
  <2>2. IsFiniteSet({Minimum, Common(entry, neighbour) + 1, Common(entry, within) + 1})
    <3>1. {Minimum, Common(entry, neighbour) + 1, Common(entry, within) + 1}
            = ({Minimum} \cup {Common(entry, neighbour) + 1}) \cup {Common(entry, within) + 1}
      OBVIOUS
    <3>2. IsFiniteSet({Minimum}) /\ IsFiniteSet({Common(entry, neighbour) + 1})
          /\ IsFiniteSet({Common(entry, within) + 1})
      BY FS_Singleton
    <3> DEFINE a == {Minimum}
               b == {Common(entry, neighbour) + 1}
               c == {Common(entry, within) + 1}
    <3> HIDE DEF a, b, c
    <3>3. IsFiniteSet(a \cup b)
      BY <3>2, FS_Union DEF a, b
    <3>4. IsFiniteSet((a \cup b) \cup c)
      BY <3>2, <3>3, FS_Union DEF c
    <3> QED
      BY <3>1, <3>4 DEF a, b, c
  <2>3. IsFiniteSet(lengths)
    BY <2>1, <2>2, FS_Subset
  <2> QED
    BY <1>1, <2>3, ListAssumption
<1>3. wanted \in Nat /\ wanted >= Common(entry, neighbour) + 1
  <2> HIDE DEF lengths
  <2> QED
    BY <1>2, MaxIsGreatest
<1> HIDE DEF wanted
<1>4. k \in 1..Len(entry) /\ (k = wanted \/ k = Len(entry))
  <2>1. {wanted, Len(entry)} \in SUBSET Nat /\ {wanted, Len(entry)} # {}
    BY <1>0, <1>3
  <2>2. k \in {wanted, Len(entry)} /\ k <= wanted /\ k <= Len(entry)
    BY <2>1, MinIsLeast
  <2> HIDE DEF k
  <2> QED
    BY <1>0, <1>1, <1>3, <2>2
<1>5. Label(entry, neighbour, within) = SubSeq(entry, 1, k)
  BY DEF Label, wanted
<1> HIDE DEF k
<1>6. ASSUME NEW n \in 1..Len(entry), n - 1 <= Len(neighbour),
             \A i \in 1..(n - 1) : neighbour[i] = entry[i]
      PROVE  n <= k
  <2>1. n - 1 \in Nat /\ n - 1 <= Len(entry)
    BY <1>0
  <2>2. n - 1 <= Common(entry, neighbour)
    BY <1>6, <2>1, CommonStart
  <2> QED
    BY <1>0, <1>1, <1>3, <1>4, <2>1, <2>2
<1> QED
  BY <1>4, <1>5, <1>6

LEMMA LabelsArePlaced ==
  ASSUME NEW entry \in Seq(Nat), entry # <<>>, NEW neighbour \in Seq(Nat), NEW within \in Seq(Nat)
  PROVE  LET label == Label(entry, neighbour, within) IN
         /\ label \in Seq(Nat) /\ label # <<>>
         /\ label = entry \/ Before(label, entry)
         /\ Before(neighbour, entry) => Before(neighbour, label)
<1>1. PICK k \in 1..Len(entry) :
           /\ Label(entry, neighbour, within) = SubSeq(entry, 1, k)
           /\ \A n \in 1..Len(entry) :
                n - 1 <= Len(neighbour) /\ (\A i \in 1..(n - 1) : neighbour[i] = entry[i]) => n <= k
  BY LabelsLeadIn
<1>0. Len(entry) \in Nat /\ k \in 0..Len(entry) /\ k >= 1
  BY LenProperties
<1> DEFINE label == SubSeq(entry, 1, k)
<1>2. label \in Seq(Nat) /\ Len(label) = k /\ \A i \in 1..k : label[i] = entry[i]
  BY <1>0, StartIsPrefix
<1> HIDE DEF label
<1>3. label # <<>>
  BY <1>0, <1>2, EmptySeq
<1>4. label = entry \/ Before(label, entry)
  <2>1. CASE k = Len(entry)
    BY <1>2, <2>1, SeqEqual
  <2>2. CASE k # Len(entry)
    <3>1. k + 1 \in 1..Len(entry) /\ k + 1 \in Nat /\ (k + 1) - 1 = k /\ k <= k /\ ~(k + 1 <= k)
      BY <1>0, <2>2
    <3>2. PartAt(label, entry, k + 1)
      BY <1>2, <3>1 DEF PartAt
    <3> QED
      BY <1>2, <3>1, <3>2, BeforeParts
  <2> QED
    BY <2>1, <2>2
<1>5. ASSUME Before(neighbour, entry)
      PROVE  Before(neighbour, label)
  <2>1. PICK n \in Nat : PartAt(neighbour, entry, n)
    BY <1>5, BeforeParts
  <2>2. /\ n \in 1..Len(entry) /\ n - 1 <= Len(neighbour)
        /\ \A i \in 1..(n - 1) : neighbour[i] = entry[i]
        /\ n <= Len(neighbour) => neighbour[n] < entry[n]
    BY <2>1 DEF PartAt
  <2>3. n <= k
    BY <1>1, <2>2
  <2>4. n \in 1..Len(label) /\ label[n] = entry[n] /\ \A i \in 1..(n - 1) : label[i] = entry[i]
    <3>1. k \in Nat /\ n \in Nat /\ n \in 1..k /\ \A i \in 1..(n - 1) : i \in 1..k
      BY <1>0, <2>2, <2>3
    <3> QED
      BY <1>2, <3>1
  <2>5. PartAt(neighbour, label, n)
    BY <2>2, <2>4 DEF PartAt
  <2> QED
    BY <1>2, <2>5, BeforeParts
<1> QED
  BY <1>1, <1>2, <1>3, <1>4, <1>5 DEF label
-------------------------------------------------------------------------------
(* Runs of a sorted list. *)

LEMMA Quotient ==
  ASSUME NEW m \in Nat, NEW p \in Nat \ {0}
  PROVE  m \div p \in Nat /\ (m \div p) * p <= m /\ m < (m \div p) * p + p
  OBVIOUS

RunsIn(n) == (n + PageSize - 1) \div PageSize
FirstOf(i) == (i - 1) * PageSize + 1
LastOf(i, n) == Min({i * PageSize, n})

LEMMA RunsFollow ==
  ASSUME NEW n \in Nat \ {0}
  PROVE  /\ RunsIn(n) \in Nat \ {0}
         /\ \A i \in 1..RunsIn(n) :
              /\ FirstOf(i) \in 1..n /\ LastOf(i, n) \in 1..n /\ FirstOf(i) <= LastOf(i, n)
              /\ i + 1 \in 1..RunsIn(n) => FirstOf(i + 1) = LastOf(i, n) + 1
              /\ i = RunsIn(n) => LastOf(i, n) = n
         /\ FirstOf(1) = 1
<1>0. PageSize \in Nat /\ PageSize >= 1
  BY ListAssumption
<1> DEFINE c == RunsIn(n)
<1>1. c \in Nat /\ c * PageSize <= n + PageSize - 1 /\ n + PageSize - 1 < c * PageSize + PageSize
  <2>1. n + PageSize - 1 \in Nat /\ PageSize \in Nat \ {0}
    BY <1>0
  <2> QED
    BY <2>1, Quotient DEF RunsIn
<1> HIDE DEF c
<1>2. c * PageSize \in Nat /\ n <= c * PageSize /\ c * PageSize <= n + PageSize - 1
  BY <1>0, <1>1
<1>3. c # 0
  <2> SUFFICES ASSUME c = 0 PROVE FALSE
    OBVIOUS
  <2>1. c * PageSize = 0
    BY <1>0
  <2> QED
    BY <1>2, <2>1
<1>4. ASSUME NEW a \in Nat, NEW b \in Nat
      PROVE  (a + 1) * b = a * b + b /\ a * b \in Nat
  OBVIOUS
<1>5. ASSUME NEW a \in Nat, NEW b \in Nat, a <= b
      PROVE  a * PageSize <= b * PageSize
  BY <1>0, <1>5
<1>6. ASSUME NEW i \in 1..c
      PROVE  /\ i * PageSize \in Nat /\ (i - 1) * PageSize \in Nat
             /\ i * PageSize = (i - 1) * PageSize + PageSize
             /\ (i - 1) * PageSize < n
             /\ i < c => i * PageSize < n
  <2>1. i \in Nat /\ i - 1 \in Nat /\ i = (i - 1) + 1 /\ c - 1 \in Nat /\ c = (c - 1) + 1
        /\ i - 1 <= c - 1 /\ (i < c => i <= c - 1)
    BY <1>1, <1>3
  <2>2. i * PageSize \in Nat /\ (i - 1) * PageSize \in Nat
        /\ i * PageSize = (i - 1) * PageSize + PageSize
    BY <1>0, <1>4, <2>1
  <2>3. c * PageSize = (c - 1) * PageSize + PageSize /\ (c - 1) * PageSize \in Nat
    BY <1>0, <1>4, <2>1
  <2>4. (c - 1) * PageSize < n
    BY <1>0, <1>2, <2>3
  <2>5. (i - 1) * PageSize <= (c - 1) * PageSize
    BY <1>5, <2>1
  <2>6. i < c => i * PageSize <= (c - 1) * PageSize
    BY <1>5, <2>1
  <2> QED
    BY <2>2, <2>3, <2>4, <2>5, <2>6
<1>7. ASSUME NEW i \in 1..c
      PROVE  /\ LastOf(i, n) \in {i * PageSize, n}
             /\ LastOf(i, n) <= i * PageSize /\ LastOf(i, n) <= n
  <2>1. {i * PageSize, n} \in SUBSET Nat /\ {i * PageSize, n} # {}
    BY <1>6
  <2> QED
    BY <2>1, MinIsLeast DEF LastOf
<1>8. ASSUME NEW i \in 1..c
      PROVE  /\ FirstOf(i) \in 1..n /\ LastOf(i, n) \in 1..n /\ FirstOf(i) <= LastOf(i, n)
             /\ i < c => LastOf(i, n) = i * PageSize
             /\ i = c => LastOf(i, n) = n
  <2> DEFINE before == (i - 1) * PageSize
             upto == i * PageSize
  <2>1. before \in Nat /\ upto \in Nat /\ upto = before + PageSize /\ before < n
        /\ (i < c => upto < n)
    BY <1>6
  <2>2. FirstOf(i) = before + 1
    BY DEF FirstOf
  <2>3. LastOf(i, n) \in {upto, n} /\ LastOf(i, n) <= upto /\ LastOf(i, n) <= n
    BY <1>7
  <2>4. i = c => n <= upto
    BY <1>2
  <2> HIDE DEF before, upto
  <2>5. i < c => LastOf(i, n) = upto
    BY <2>1, <2>3
  <2>6. i = c => LastOf(i, n) = n
    BY <2>1, <2>3, <2>4
  <2>7. FirstOf(i) \in 1..n /\ LastOf(i, n) \in 1..n /\ FirstOf(i) <= LastOf(i, n)
    BY <1>0, <2>1, <2>2, <2>3
  <2> QED
    BY <2>5, <2>6, <2>7 DEF upto
<1>9. ASSUME NEW i \in 1..c, i + 1 \in 1..c
      PROVE  FirstOf(i + 1) = LastOf(i, n) + 1
  <2>1. i < c /\ (i + 1) - 1 = i
    BY <1>1, <1>9
  <2> QED
    BY <1>8, <2>1 DEF FirstOf
<1>10. FirstOf(1) = 1
  BY <1>0 DEF FirstOf
<1> QED
  BY <1>1, <1>3, <1>8, <1>9, <1>10 DEF c

(* Runs are in the order of the list, and cover it.                              *)
LEMMA RunsAreApart ==
  ASSUME NEW n \in Nat \ {0}, NEW i \in 1..RunsIn(n), NEW j \in 1..RunsIn(n), i < j
  PROVE  LastOf(i, n) <= LastOf(j - 1, n) /\ FirstOf(i) <= FirstOf(j)
<1> DEFINE c == RunsIn(n)
           S == {k \in Nat : i + k \in 1..c =>
                   LastOf(i, n) <= LastOf(i + k, n) /\ FirstOf(i) <= FirstOf(i + k)}
<1>0. /\ c \in Nat \ {0}
      /\ \A k \in 1..c : FirstOf(k) \in 1..n /\ LastOf(k, n) \in 1..n /\ FirstOf(k) <= LastOf(k, n)
      /\ \A k \in 1..c : k + 1 \in 1..c => FirstOf(k + 1) = LastOf(k, n) + 1
  BY RunsFollow
<1> HIDE DEF c
<1>1. 0 \in S
  <2>1. i + 0 = i /\ i \in 1..c
    BY DEF c
  <2>2. LastOf(i, n) <= LastOf(i, n) /\ FirstOf(i) <= FirstOf(i)
    BY <1>0, <2>1
  <2> QED
    BY <2>1, <2>2
<1>2. ASSUME NEW k \in Nat, k \in S PROVE k + 1 \in S
  <2> SUFFICES ASSUME i + (k + 1) \in 1..c
               PROVE  /\ LastOf(i, n) <= LastOf(i + (k + 1), n)
                      /\ FirstOf(i) <= FirstOf(i + (k + 1))
    OBVIOUS
  <2>1. i + (k + 1) = (i + k) + 1 /\ i + k \in 1..c
    BY <1>0 DEF c
  <2>2. LastOf(i, n) <= LastOf(i + k, n) /\ FirstOf(i) <= FirstOf(i + k)
    BY <1>2, <2>1
  <2>3. FirstOf((i + k) + 1) = LastOf(i + k, n) + 1 /\ (i + k) + 1 \in 1..c /\ i \in 1..c
    BY <1>0, <2>1 DEF c
  <2>4. /\ FirstOf((i + k) + 1) \in 1..n /\ LastOf((i + k) + 1, n) \in 1..n
        /\ FirstOf((i + k) + 1) <= LastOf((i + k) + 1, n)
        /\ FirstOf(i + k) \in 1..n /\ LastOf(i + k, n) \in 1..n
        /\ FirstOf(i + k) <= LastOf(i + k, n)
        /\ FirstOf(i) \in 1..n /\ LastOf(i, n) \in 1..n
    BY <1>0, <2>1, <2>3
  <2> QED
    BY <2>1, <2>2, <2>3, <2>4
<1> HIDE DEF S
<1>3. Nat \subseteq S
  BY <1>1, <1>2, SetInduction
<1>4. /\ (j - 1) - i \in Nat /\ i + ((j - 1) - i) = j - 1 /\ j - 1 \in 1..c
      /\ j - i \in Nat /\ i + (j - i) = j /\ j \in 1..c
  BY <1>0 DEF c
<1>5. LastOf(i, n) <= LastOf(j - 1, n)
  BY <1>3, <1>4 DEF S
<1>6. FirstOf(i) <= FirstOf(j)
  BY <1>3, <1>4 DEF S
<1> QED
  BY <1>5, <1>6

LEMMA RunsCover ==
  ASSUME NEW n \in Nat \ {0}, NEW k \in 1..n
  PROVE  \E i \in 1..RunsIn(n) : FirstOf(i) <= k /\ k <= LastOf(i, n)
<1> DEFINE c == RunsIn(n)
           over == {i \in 1..c : k <= LastOf(i, n)}
<1>0. /\ c \in Nat \ {0} /\ FirstOf(1) = 1
      /\ \A i \in 1..c : FirstOf(i) \in 1..n /\ LastOf(i, n) \in 1..n
      /\ \A i \in 1..c : i + 1 \in 1..c => FirstOf(i + 1) = LastOf(i, n) + 1
      /\ LastOf(c, n) = n
  BY RunsFollow
<1> HIDE DEF c
<1>1. over \in SUBSET Nat /\ over # {}
  <2>1. c \in over
    BY <1>0
  <2> QED
    BY <2>1
<1>2. PICK i \in over : \A x \in over : i <= x
  <2> HIDE DEF over
  <2> QED
    BY <1>1, LeastNumber
<1>3. i \in 1..c /\ k <= LastOf(i, n)
  OBVIOUS
<1>4. FirstOf(i) <= k
  <2>1. CASE i = 1
    BY <1>0, <2>1
  <2>2. CASE i # 1
    <3>1. i - 1 \in 1..c /\ (i - 1) + 1 = i /\ ~(i <= i - 1)
      BY <1>0, <1>3, <2>2
    <3>2. ~(k <= LastOf(i - 1, n))
      BY <1>2, <3>1
    <3>3. FirstOf(i) = LastOf(i - 1, n) + 1 /\ LastOf(i - 1, n) \in 1..n
      BY <1>0, <1>3, <3>1
    <3> QED
      BY <3>2, <3>3
  <2> QED
    BY <2>1, <2>2
<1> QED
  BY <1>3, <1>4 DEF c
-------------------------------------------------------------------------------
(* Buckets. *)

(* The buckets of a list that is split: each begins with the entry its low label *)
(* starts, after all entries of the buckets before it.                           *)
BucketAt(names, i) ==
  LET N == Cardinality(names) IN
  {Sorted(names)[k] : k \in FirstOf(i)..LastOf(i, N)}

LEMMA RunOfList ==
  ASSUME NEW names \in SUBSET Seq(Nat), IsFiniteSet(names), names # {},
         NEW i \in 1..RunsIn(Cardinality(names))
  PROVE  LET o == Sorted(names)
             N == Cardinality(names)
             run == SubSeq(o, (i - 1) * PageSize + 1, Min({i * PageSize, N}))
         IN /\ Range(run) = BucketAt(names, i)
            /\ run[1] = o[FirstOf(i)] /\ Last(run) = o[LastOf(i, N)]
<1> DEFINE N == Cardinality(names)
           o == Sorted(names)
           a == FirstOf(i)
           b == LastOf(i, N)
           run == SubSeq(o, a, b)
<1>0. N \in Nat \ {0}
  BY FS_CardinalityType, FS_EmptySet
<1>1. a \in 1..N /\ b \in 1..N /\ a <= b
  BY <1>0, RunsFollow
<1>2. o \in [1..N -> names]
  BY SortedAscends
<1>3. run = SubSeq(o, (i - 1) * PageSize + 1, Min({i * PageSize, N}))
  BY DEF FirstOf, LastOf
<1>r. BucketAt(names, i) = {o[k] : k \in a..b}
  BY DEF BucketAt
<1> HIDE DEF N, o, a, b
<1>4. /\ run \in Seq(names) /\ Len(run) = b - a + 1
      /\ \A k \in 1..(b - a + 1) : run[k] = o[a + k - 1]
  <2>1. a \in Int /\ b \in Int /\ \A k \in a..b : o[k] \in names
    BY <1>0, <1>1, <1>2
  <2>2. /\ SubSeq(o, a, b) \in Seq(names)
        /\ Len(SubSeq(o, a, b)) = (IF a <= b THEN b - a + 1 ELSE 0)
        /\ \A k \in 1..(b - a + 1) : SubSeq(o, a, b)[k] = o[a + k - 1]
    BY <2>1, SubSeqProperties
  <2> QED
    BY <1>1, <2>2
<1> HIDE DEF run
<1>5. DOMAIN run = 1..(b - a + 1)
  BY <1>4, LenProperties
<1>6. run[1] = o[a] /\ run[Len(run)] = o[b]
  <2>1. 1 \in 1..(b - a + 1) /\ b - a + 1 \in 1..(b - a + 1) /\ a + 1 - 1 = a
        /\ a + (b - a + 1) - 1 = b
    BY <1>0, <1>1
  <2> QED
    BY <1>4, <2>1
<1>7. Range(run) = {o[k] : k \in a..b}
  <2>1. Range(run) = {run[k] : k \in 1..(b - a + 1)}
    BY <1>5 DEF Range
  <2>2. ASSUME NEW k \in 1..(b - a + 1)
        PROVE  a + k - 1 \in a..b /\ run[k] = o[a + k - 1]
    BY <1>0, <1>1, <1>4
  <2>3. ASSUME NEW k \in a..b
        PROVE  (k - a) + 1 \in 1..(b - a + 1) /\ run[(k - a) + 1] = o[k]
    <3>1. (k - a) + 1 \in 1..(b - a + 1) /\ a + ((k - a) + 1) - 1 = k
      BY <1>0, <1>1
    <3>2. run[(k - a) + 1] = o[a + ((k - a) + 1) - 1]
      BY <1>4, <3>1
    <3> QED
      BY <3>1, <3>2
  <2> QED
    BY <2>1, <2>2, <2>3
<1> QED
  BY <1>3, <1>6, <1>7, <1>r DEF Last, N, o, a, b

LEMMA BucketsAscend ==
  ASSUME NEW names \in SUBSET (Seq(Nat) \ {<<>>}), IsFiniteSet(names), names # {},
         RunsIn(Cardinality(names)) # 1
  PROVE  LET found == Buckets(names)
             N == Cardinality(names)
             o == Sorted(names)
             c == RunsIn(N)
         IN /\ DOMAIN found = 1..c
            /\ \A i \in 1..c :
                 /\ found[i].low \in Seq(Nat) /\ found[i].low # <<>>
                 /\ found[i].entries = BucketAt(names, i)
                 /\ found[i].low = o[FirstOf(i)] \/ Before(found[i].low, o[FirstOf(i)])
                 /\ i # 1 => Before(o[LastOf(i - 1, N)], found[i].low)
<1> DEFINE N == Cardinality(names)
           o == Sorted(names)
           c == RunsIn(N)
           run == [i \in 1..c |-> SubSeq(o, (i - 1) * PageSize + 1, Min({i * PageSize, N}))]
           before(i) == IF i = 1 THEN <<>> ELSE Last(run[i - 1])
           after(i) == IF i = c THEN <<>> ELSE run[i + 1][1]
           found == [i \in 1..c |->
                       Bucket(Label(run[i][1], before(i), <<>>),
                              Label(Last(run[i]), after(i), run[i][1]), Range(run[i]))]
<1>0. N \in Nat \ {0} /\ c \in Nat \ {0}
  <2>1. N \in Nat \ {0}
    BY FS_CardinalityType, FS_EmptySet
  <2> HIDE DEF N
  <2> QED
    BY <2>1, RunsFollow
<1>1. Buckets(names) = found
  <2>1. (Cardinality(names) + PageSize - 1) \div PageSize # 1
    BY DEF RunsIn
  <2> QED
    BY <2>1 DEF Buckets, RunsIn
<1>2. o \in [1..N -> names] /\ \A i, j \in 1..N : i < j => Before(o[i], o[j])
  BY SortedAscends
<1>3. ASSUME NEW i \in 1..c
      PROVE  Range(run[i]) = BucketAt(names, i) /\ run[i][1] = o[FirstOf(i)]
             /\ Last(run[i]) = o[LastOf(i, N)]
  <2>1. run[i] = SubSeq(o, (i - 1) * PageSize + 1, Min({i * PageSize, N}))
    OBVIOUS
  <2> QED
    BY <2>1, RunOfList
<1>4. ASSUME NEW i \in 1..c
      PROVE  /\ found[i].low \in Seq(Nat) /\ found[i].low # <<>>
             /\ found[i].entries = BucketAt(names, i)
             /\ found[i].low = o[FirstOf(i)] \/ Before(found[i].low, o[FirstOf(i)])
             /\ i # 1 => Before(o[LastOf(i - 1, N)], found[i].low)
  <2>1. found[i].low = Label(run[i][1], before(i), <<>>) /\ found[i].entries = Range(run[i])
    BY DEF Bucket
  <2>2. FirstOf(i) \in 1..N /\ o[FirstOf(i)] \in names
    BY <1>0, <1>2, RunsFollow
  <2>3. i # 1 => /\ i - 1 \in 1..c /\ LastOf(i - 1, N) \in 1..N
                 /\ FirstOf(i) = LastOf(i - 1, N) + 1
    <3> SUFFICES ASSUME i # 1
                 PROVE  /\ i - 1 \in 1..c /\ LastOf(i - 1, N) \in 1..N
                        /\ FirstOf(i) = LastOf(i - 1, N) + 1
      OBVIOUS
    <3>1. i - 1 \in 1..c /\ (i - 1) + 1 = i
      BY <1>0
    <3> HIDE DEF N
    <3> QED
      BY <1>0, <3>1, RunsFollow
  <2>4. i # 1 => /\ before(i) = o[LastOf(i - 1, N)] /\ o[LastOf(i - 1, N)] \in names
                 /\ Before(o[LastOf(i - 1, N)], o[FirstOf(i)])
    <3> SUFFICES ASSUME i # 1
                 PROVE  /\ before(i) = o[LastOf(i - 1, N)] /\ o[LastOf(i - 1, N)] \in names
                        /\ Before(o[LastOf(i - 1, N)], o[FirstOf(i)])
      OBVIOUS
    <3>1. LastOf(i - 1, N) < FirstOf(i)
      BY <1>0, <2>2, <2>3
    <3>2. before(i) = o[LastOf(i - 1, N)]
      BY <1>3, <2>3
    <3> HIDE DEF before, o, N
    <3> QED
      BY <1>2, <2>2, <2>3, <3>1, <3>2
  <2>5. before(i) \in Seq(Nat)
    <3>1. i = 1 => before(i) = <<>>
      OBVIOUS
    <3>2. <<>> \in Seq(Nat)
      OBVIOUS
    <3> HIDE DEF before
    <3> QED
      BY <2>4, <3>1, <3>2
  <2>6. run[i][1] = o[FirstOf(i)] /\ Range(run[i]) = BucketAt(names, i)
    BY <1>3
  <2> DEFINE entry == o[FirstOf(i)]
             prior == before(i)
             low == Label(entry, prior, <<>>)
  <2>7. entry \in Seq(Nat) /\ entry # <<>> /\ prior \in Seq(Nat) /\ <<>> \in Seq(Nat)
    BY <2>2, <2>5
  <2>8. found[i].low = low
    BY <2>1, <2>6
  <2>9. i # 1 => prior = o[LastOf(i - 1, N)] /\ Before(prior, entry)
    BY <2>4
  <2>10. found[i].entries = BucketAt(names, i)
    BY <2>1, <2>6
  <2> HIDE DEF entry, prior, found
  <2>11. /\ low \in Seq(Nat) /\ low # <<>>
         /\ low = entry \/ Before(low, entry)
         /\ Before(prior, entry) => Before(prior, low)
    BY <2>7, LabelsArePlaced
  <2> HIDE DEF low
  <2> QED
    BY <2>8, <2>9, <2>10, <2>11 DEF entry
<1>5. DOMAIN found = 1..c
  OBVIOUS
<1> HIDE DEF found, before, after, run
<1> QED
  BY <1>1, <1>4, <1>5


(* Each bucket's label comes after the labels before it, and a name of the list   *)
(* is not before the label of its bucket and before all later ones.              *)
LEMMA BucketsLead ==
  ASSUME NEW names \in SUBSET (Seq(Nat) \ {<<>>}), IsFiniteSet(names), names # {}
  PROVE  LET found == Buckets(names) IN
         /\ \A i, j \in DOMAIN found : KeyOf(found[i]) = KeyOf(found[j]) => i = j
         /\ \A name \in names :
              Locate(name, found) # 0 /\ name \in found[Locate(name, found)].entries
<1> DEFINE found == Buckets(names)
           N == Cardinality(names)
           o == Sorted(names)
           c == RunsIn(N)
<1>0. N \in Nat \ {0}
  BY FS_CardinalityType, FS_EmptySet
<1>s. names \in SUBSET Seq(Nat)
  OBVIOUS
<1>o. /\ o \in [1..N -> names]
      /\ \A i, j \in 1..N : i < j => Before(o[i], o[j])
      /\ \A s \in names : \E i \in 1..N : o[i] = s
  BY <1>s, SortedAscends
<1>1. CASE c = 1
  <2>1. (Cardinality(names) + PageSize - 1) \div PageSize = 1
    BY <1>1 DEF RunsIn
  <2>2. found = << Bucket(<<>>, <<>>, Range(o)) >>
    BY <2>1 DEF Buckets
  <2> HIDE DEF found
  <2>3. DOMAIN found = {1} /\ found # <<>> /\ found[1] = Bucket(<<>>, <<>>, Range(o))
    BY <2>2
  <2>4. KeyOf(found[1]) = NoKey /\ found[1].entries = Range(o)
    BY <2>3 DEF Bucket, KeyOf, NoKey
  <2>5. \A name \in names : Locate(name, found) = 1
    BY <2>3, <2>4 DEF Locate
  <2>6. names \subseteq Range(o)
    <3>1. Range(o) = {o[i] : i \in 1..N}
      <4> HIDE DEF o, N
      <4> QED
        BY <1>o DEF Range
    <3> HIDE DEF o, N
    <3> QED
      BY <1>o, <3>1
  <2> QED
    BY <2>3, <2>4, <2>5, <2>6 DEF found
<1>2. CASE c # 1
  <2>1. /\ DOMAIN found = 1..c
        /\ \A i \in 1..c :
             /\ found[i].low \in Seq(Nat) /\ found[i].low # <<>>
             /\ found[i].entries = BucketAt(names, i)
             /\ found[i].low = o[FirstOf(i)] \/ Before(found[i].low, o[FirstOf(i)])
             /\ i # 1 => Before(o[LastOf(i - 1, N)], found[i].low)
    BY <1>2, BucketsAscend
  <2>2. /\ c \in Nat \ {0}
        /\ \A i \in 1..c : FirstOf(i) \in 1..N /\ LastOf(i, N) \in 1..N /\ FirstOf(i) <= LastOf(i, N)
    <3> HIDE DEF N
    <3> QED
      BY <1>0, RunsFollow
  <2>b. \A i \in 1..c : BucketAt(names, i) = {o[k] : k \in FirstOf(i)..LastOf(i, N)}
    BY DEF BucketAt
  <2>c. \A i, j \in 1..c : i < j => LastOf(i, N) <= LastOf(j - 1, N) /\ FirstOf(i) <= FirstOf(j)
    <3> HIDE DEF N
    <3> QED
      BY <1>0, RunsAreApart
  <2>d. \A k \in 1..N : \E i \in 1..c : FirstOf(i) <= k /\ k <= LastOf(i, N)
    <3> HIDE DEF N
    <3> QED
      BY <1>0, RunsCover
  <2> HIDE DEF found, N, o, c
  (* what lies at k comes before every later label, and before no earlier one *)
  <2>3. ASSUME NEW k \in 1..N, NEW j \in 1..c, NEW i \in 1..c,
               FirstOf(i) <= k, k <= LastOf(i, N)
        PROVE  /\ i < j => Before(o[k], found[j].low)
               /\ j <= i => ~Before(o[k], found[j].low)
    <3>0. o[k] \in Seq(Nat)
      BY <1>o
    <3>1. CASE i < j
      <4>1. j # 1 /\ j - 1 \in 1..c /\ LastOf(j - 1, N) \in 1..N
        BY <2>2, <3>1
      <4>2. k <= LastOf(j - 1, N)
        <5>1. LastOf(i, N) <= LastOf(j - 1, N) /\ LastOf(i, N) \in 1..N
          BY <2>2, <2>c, <3>1
        <5> QED
          BY <1>0, <2>3, <4>1, <5>1
      <4>3. Before(o[LastOf(j - 1, N)], found[j].low)
        BY <2>1, <4>1
      <4>4. CASE k = LastOf(j - 1, N)
        BY <3>1, <4>3, <4>4, <2>2
      <4>5. CASE k < LastOf(j - 1, N)
        <5>1. Before(o[k], o[LastOf(j - 1, N)]) /\ o[LastOf(j - 1, N)] \in Seq(Nat)
          BY <1>o, <4>1, <4>5
        <5>2. Before(o[k], found[j].low)
          BY <2>1, <3>0, <4>3, <5>1, BeforeIsTransitive
        <5> QED
          BY <2>2, <3>1, <5>2
      <4> QED
        BY <1>0, <4>1, <4>2, <4>4, <4>5
    <3>2. CASE j <= i
      <4>1. FirstOf(j) <= k /\ FirstOf(j) \in 1..N
        <5>1. FirstOf(j) <= FirstOf(i) /\ FirstOf(j) \in 1..N /\ FirstOf(i) \in 1..N
          BY <2>2, <2>c, <3>2
        <5> QED
          BY <1>0, <2>3, <5>1
      <4>2. o[FirstOf(j)] \in Seq(Nat) /\ (o[FirstOf(j)] = o[k] \/ Before(o[FirstOf(j)], o[k]))
        BY <1>0, <1>o, <4>1
      <4>3. found[j].low \in Seq(Nat)
            /\ (found[j].low = o[FirstOf(j)] \/ Before(found[j].low, o[FirstOf(j)]))
        BY <2>1
      <4>4. found[j].low = o[k] \/ Before(found[j].low, o[k])
        BY <3>0, <4>2, <4>3, BeforeIsTransitive
      <4>5. ~Before(o[k], found[j].low)
        BY <3>0, <4>3, <4>4, BeforeIsTransitive, BeforeIsStrict
      <4> QED
        BY <2>2, <3>2, <4>5
    <3> QED
      BY <2>2, <3>1, <3>2
  <2>4. ASSUME NEW i \in 1..c, NEW j \in 1..c, i < j
        PROVE  found[i].low # found[j].low
    <3>1. FirstOf(i) \in 1..N /\ FirstOf(i) <= FirstOf(i) /\ FirstOf(i) <= LastOf(i, N)
      BY <2>2
    <3>2. Before(o[FirstOf(i)], found[j].low) /\ ~Before(o[FirstOf(i)], found[i].low)
      BY <2>2, <2>3, <2>4, <3>1
    <3> QED
      BY <3>2
  <2>5. \A i, j \in DOMAIN found : KeyOf(found[i]) = KeyOf(found[j]) => i = j
    <3> SUFFICES ASSUME NEW i \in 1..c, NEW j \in 1..c, KeyOf(found[i]) = KeyOf(found[j]), i # j
                 PROVE  FALSE
      BY <2>1
    <3>1. found[i].low = found[j].low
      BY DEF KeyOf
    <3>2. i < j \/ j < i
      BY <2>2
    <3> QED
      BY <2>4, <3>1, <3>2
  <2>6. ASSUME NEW name \in names
        PROVE  Locate(name, found) # 0 /\ name \in found[Locate(name, found)].entries
    <3>1. PICK k \in 1..N : o[k] = name
      BY <1>o
    <3>2. PICK i \in 1..c : FirstOf(i) <= k /\ k <= LastOf(i, N)
      BY <2>d
    <3> DEFINE held == {x \in DOMAIN found : \A j \in 1..x : ~Before(name, found[j].low)}
    <3>3. held = 1..i
      <4>1. ASSUME NEW x \in 1..c
            PROVE  (\A j \in 1..x : ~Before(name, found[j].low)) <=> x <= i
        <5>1. CASE x <= i
          <6>1. \A j \in 1..x : j \in 1..c /\ j <= i
            BY <2>2, <5>1
          <6>2. \A j \in 1..x : ~Before(name, found[j].low)
            BY <2>3, <3>1, <3>2, <6>1
          <6> QED
            BY <5>1, <6>2
        <5>2. CASE i < x
          <6>1. x \in 1..x /\ ~(x <= i)
            BY <2>2, <5>2
          <6>2. Before(name, found[x].low)
            BY <2>3, <3>1, <3>2, <5>2
          <6> QED
            BY <6>1, <6>2
        <5> QED
          BY <2>2, <5>1, <5>2
      <4>2. held = {x \in 1..c : x <= i}
        BY <2>1, <4>1
      <4> HIDE DEF held
      <4> QED
        BY <2>2, <4>2
    <3>4. Max({0} \cup held) = i
      <4>1. \A x \in {0} \cup held : i >= x
        BY <2>2, <3>3, SMTT(30)
      <4>2. i \in {0} \cup held
        <5>1. i \in Nat /\ i >= 1
          BY <2>2
        <5>2. i \in 1..i
          BY <5>1
        <5> HIDE DEF held
        <5> QED
          BY <3>3, <5>2
      <4>3. \A x \in {0} \cup held : (\A y \in {0} \cup held : x >= y) => x = i
        BY <2>2, <3>3, <4>1, <4>2
      <4> HIDE DEF held
      <4> QED
        BY <4>1, <4>2, <4>3 DEF Max
    <3>5. KeyOf(found[1]) # NoKey
      <4>1. found[1].low # <<>>
        BY <2>1, <2>2
      <4> QED
        BY <4>1 DEF KeyOf, NoKey
    <3>6. Locate(name, found) = i
      BY <3>4, <3>5 DEF Locate
    <3>7. name \in BucketAt(names, i)
      <4>1. k \in FirstOf(i)..LastOf(i, N)
        BY <1>0, <2>2, <3>2
      <4> QED
        BY <2>b, <3>1, <4>1
    <3> QED
      BY <2>1, <2>2, <3>6, <3>7
  <2> QED
    BY <2>5, <2>6 DEF found
<1> QED
  BY <1>1, <1>2

(* However long the list of modules or of registrants is, no two of its parts     *)
(* have one address, and an entry is looked for in the part that lists it.       *)
THEOREM EntriesAreFound == Spec => []BucketsPlace
<1>1. FoldInv => BucketsPlace
  <2> SUFFICES ASSUME FoldInv, NEW names \in {Names(DOMAIN docs), Numerals(DOMAIN registered)}
               PROVE  LET found == Lists(names) IN
                      /\ \A i, k \in DOMAIN found : KeyOf(found[i]) = KeyOf(found[k]) => i = k
                      /\ \A name \in names :
                           Locate(name, found) # 0 /\ name \in found[Locate(name, found)].entries
    BY DEF BucketsPlace
  <2>1. IsFiniteSet(DOMAIN docs) /\ DOMAIN docs \subseteq Module
    BY CorporaAreDocuments DEF FoldInv, DocsOK
  <2>2. names \in SUBSET (Seq(Nat) \ {<<>>})
    <3>1. Names(DOMAIN docs) \subseteq Seq(Nat) \ {<<>>}
      BY <2>1, SpellingAssumption DEF Names
    <3>2. ASSUME NEW n \in DOMAIN registered
          PROVE  <<n>> \in Seq(Nat) \ {<<>>}
      BY RegistrantsAreFinite
    <3>3. Numerals(DOMAIN registered) \subseteq Seq(Nat) \ {<<>>}
      BY <3>2 DEF Numerals
    <3> QED
      BY <3>1, <3>3
  <2>3. IsFiniteSet(names)
    BY <2>1, NamesAreFinite, RegistrantsAreFinite
  <2>4. CASE names = {}
    <3> DEFINE found == Lists(names)
    <3>1. found = <<>>
      BY <2>4 DEF Lists
    <3> HIDE DEF found
    <3>2. DOMAIN found = {}
      BY <3>1
    <3> QED
      BY <2>4, <3>2 DEF found
  <2>5. CASE names # {}
    <3>1. Lists(names) = Buckets(names)
      BY <2>5 DEF Lists
    <3> QED
      BY <2>2, <2>3, <2>5, <3>1, BucketsLead
  <2> QED
    BY <2>4, <2>5
<1>2. FoldInv /\ [Next]_vars => FoldInv'
  BY FoldsGoOn
<1> QED
  BY <1>1, <1>2, FoldsBegin, PTL DEF Spec
-------------------------------------------------------------------------------
(* Closures. *)

(* The list after each step is the function its definition describes. *)
Walks(start, edges, n, f) ==
  f = [i \in 0..n |-> IF i = 0 THEN [files |-> {}, missing |-> {}, pending |-> {start}]
                      ELSE Settle(f[i - 1], edges)]

LEMMA WalkExists ==
  ASSUME NEW start, NEW edges
  PROVE  \A n \in Nat : \E f : Walks(start, edges, n, f)
<1> DEFINE S == {n \in Nat : \E f : Walks(start, edges, n, f)}
           s == [files |-> {}, missing |-> {}, pending |-> {start}]
<1> HIDE DEF s
<1>0. \A n \in Nat : \A f : Walks(start, edges, n, f) <=>
         (f = [i \in 0..n |-> IF i = 0 THEN s ELSE Settle(f[i - 1], edges)])
  BY DEF Walks, s
<1>1. 0 \in S
  <2> DEFINE f == [i \in 0..0 |-> s]
  <2>1. f = [i \in 0..0 |-> IF i = 0 THEN s ELSE Settle(f[i - 1], edges)]
    OBVIOUS
  <2> QED
    BY <1>0, <2>1
<1>2. ASSUME NEW n \in Nat, n \in S PROVE n + 1 \in S
  <2>1. PICK f : Walks(start, edges, n, f)
    BY <1>2
  <2> DEFINE g == [i \in 0..(n + 1) |-> IF i <= n THEN f[i] ELSE Settle(f[n], edges)]
  <2>2. \A i \in 0..n : f[i] = IF i = 0 THEN s ELSE Settle(f[i - 1], edges)
    BY <1>0, <2>1
  <2>3. \A i \in 0..(n + 1) : g[i] = IF i = 0 THEN s ELSE Settle(g[i - 1], edges)
    <3> SUFFICES ASSUME NEW i \in 0..(n + 1)
                 PROVE  g[i] = IF i = 0 THEN s ELSE Settle(g[i - 1], edges)
      OBVIOUS
    <3>1. CASE i = 0
      BY <2>2, <3>1
    <3>2. CASE i \in 1..n
      <4>1. g[i] = f[i] /\ g[i - 1] = f[i - 1] /\ i \in 0..n /\ i # 0
        BY <3>2
      <4> HIDE DEF g
      <4>2. f[i] = Settle(f[i - 1], edges)
        BY <2>2, <4>1
      <4> QED
        BY <4>1, <4>2
    <3>3. CASE i = n + 1
      <4>1. g[i] = Settle(f[n], edges) /\ g[i - 1] = f[n] /\ i # 0
        BY <3>3
      <4> HIDE DEF g
      <4> QED
        BY <3>3, <4>1
    <3> QED
      BY <3>1, <3>2, <3>3
  <2>4. g = [i \in 0..(n + 1) |-> g[i]]
    OBVIOUS
  <2> HIDE DEF g
  <2>5. g = [i \in 0..(n + 1) |-> IF i = 0 THEN s ELSE Settle(g[i - 1], edges)]
    BY <2>3, <2>4
  <2> QED
    BY <1>0, <2>5
<1> HIDE DEF S
<1>3. Nat \subseteq S
  BY <1>1, <1>2, SetInduction
<1> QED
  BY <1>3 DEF S

LEMMA WalkWalks ==
  ASSUME NEW start, NEW edges
  PROVE  Walks(start, edges, Cardinality(Module), Walk(start, edges))
<1>1. Cardinality(Module) \in Nat
  BY IndexAssumption, FS_CardinalityType
<1>2. \E f : f = [i \in 0..Cardinality(Module) |->
                    IF i = 0 THEN [files |-> {}, missing |-> {}, pending |-> {start}]
                    ELSE Settle(f[i - 1], edges)]
  <2>1. \E f : Walks(start, edges, Cardinality(Module), f)
    BY <1>1, WalkExists
  <2> QED
    BY <2>1 DEF Walks
<1>3. Walk(start, edges) =
        CHOOSE f : f = [i \in 0..Cardinality(Module) |->
                    IF i = 0 THEN [files |-> {}, missing |-> {}, pending |-> {start}]
                    ELSE Settle(f[i - 1], edges)]
  BY DEF Walk
<1> QED
  BY <1>2, <1>3 DEF Walks

(* What holds of a list after n steps: what is settled leads to what is settled *)
(* or waits, nothing is there that the start does not lead to, and every step   *)
(* settles a name.                                                              *)
Needs(edges, m) == IF m \in DOMAIN edges THEN edges[m] ELSE {}
Leads(start, edges, S) == start \in S /\ \A m \in S : Needs(edges, m) \subseteq S
Settled(w) == w.files \cup w.missing

Walking(start, edges, n, w) ==
  /\ w.files \subseteq DOMAIN edges /\ w.missing \subseteq Module \ DOMAIN edges
  /\ w.pending \subseteq Module \ Settled(w)
  /\ start \in Settled(w) \cup w.pending
  /\ \A m \in w.files : edges[m] \subseteq Settled(w) \cup w.pending
  /\ \A S \in SUBSET Module : Leads(start, edges, S) => Settled(w) \cup w.pending \subseteq S
  /\ \A m \in (Settled(w) \cup w.pending) \ {start} : \E f \in w.files : m \in edges[f]
  /\ w.pending = {} \/ Cardinality(Settled(w)) = n

LEMMA WalkGoesOn ==
  ASSUME NEW start \in Module, NEW edges, DOMAIN edges \subseteq Module,
         \A m \in DOMAIN edges : edges[m] \subseteq Module,
         NEW n \in Nat, NEW w, Walking(start, edges, n, w)
  PROVE  Walking(start, edges, n + 1, Settle(w, edges))
<1>1. CASE w.pending = {}
  <2>1. Settle(w, edges) = w
    BY <1>1 DEF Settle
  <2> QED
    BY <1>1, <2>1 DEF Walking
<1>2. CASE w.pending # {}
  <2> DEFINE m == CHOOSE k \in w.pending : TRUE
             there == {m} \cap DOMAIN edges
             files == w.files \cup there
             missing == w.missing \cup ({m} \ there)
             more == Needs(edges, m)
             pending == (w.pending \cup more) \ (files \cup missing)
             x == Settle(w, edges)
  <2>1. m \in w.pending
    BY <1>2
  <2>2. x = [files |-> files, missing |-> missing, pending |-> pending]
    BY <1>2 DEF Settle, Needs
  <2> HIDE DEF m
  <2>3. x.files = files /\ x.missing = missing /\ x.pending = pending
    BY <2>2
  <2> HIDE DEF x
  <2>4. m \in Module /\ m \notin Settled(w) /\ more \subseteq Module
    BY <2>1 DEF Walking, Needs
  <2>5. Settled(x) = Settled(w) \cup {m}
    BY <2>3 DEF Settled
  <2>6. Settled(x) \cup x.pending = Settled(w) \cup w.pending \cup more
    BY <2>1, <2>3, <2>5 DEF Settled
  <2>7. x.files \subseteq DOMAIN edges /\ x.missing \subseteq Module \ DOMAIN edges
    BY <2>3, <2>4 DEF Walking
  <2>8. x.pending \subseteq Module \ Settled(x)
    BY <2>3, <2>4 DEF Walking, Settled
  <2>9. start \in Settled(x) \cup x.pending
    BY <2>6 DEF Walking
  <2>10. \A f \in x.files : edges[f] \subseteq Settled(x) \cup x.pending
    <3> SUFFICES ASSUME NEW f \in x.files PROVE edges[f] \subseteq Settled(x) \cup x.pending
      OBVIOUS
    <3>1. CASE f \in w.files
      BY <2>6, <3>1 DEF Walking
    <3>2. CASE f = m /\ m \in DOMAIN edges
      BY <2>6, <3>2 DEF Needs
    <3> QED
      BY <2>3, <3>1, <3>2
  <2>11. ASSUME NEW S \in SUBSET Module, Leads(start, edges, S)
         PROVE  Settled(x) \cup x.pending \subseteq S
    <3>1. Settled(w) \cup w.pending \subseteq S
      BY <2>11 DEF Walking
    <3>2. more \subseteq S
      BY <2>1, <2>11, <3>1 DEF Leads
    <3> QED
      BY <2>6, <3>1, <3>2
  <2>12. ASSUME NEW k \in (Settled(x) \cup x.pending) \ {start}
         PROVE  \E f \in x.files : k \in edges[f]
    <3>1. CASE k \in Settled(w) \cup w.pending
      BY <2>3, <2>12, <3>1 DEF Walking
    <3>2. CASE k \in more
      <4>1. m \in DOMAIN edges /\ k \in edges[m]
        BY <3>2 DEF Needs
      <4> QED
        BY <2>3, <4>1
    <3> QED
      BY <2>6, <2>12, <3>1, <3>2
  <2>13. Cardinality(Settled(x)) = n + 1
    <3>1. IsFiniteSet(Settled(w))
      <4>1. Settled(w) \in SUBSET Module
        BY DEF Settled, Walking
      <4> QED
        BY <4>1, IndexAssumption, FS_Subset
    <3>2. Cardinality(Settled(w)) = n
      BY <1>2 DEF Walking
    <3> QED
      BY <2>4, <2>5, <3>1, <3>2, FS_AddElement
  <2>14. Walking(start, edges, n + 1, x)
    BY <2>7, <2>8, <2>9, <2>10, <2>11, <2>12, <2>13 DEF Walking
  <2> QED
    BY <2>14 DEF x
<1> QED
  BY <1>1, <1>2

LEMMA WalkEnds ==
  ASSUME NEW start \in Module, NEW edges, DOMAIN edges \subseteq Module,
         \A m \in DOMAIN edges : edges[m] \subseteq Module
  PROVE  LET w == Walk(start, edges)[Cardinality(Module)] IN
         w.pending = {} /\ Walking(start, edges, Cardinality(Module), w)
<1> DEFINE N == Cardinality(Module)
           f == Walk(start, edges)
           S == {n \in Nat : n \in 0..N => Walking(start, edges, n, f[n])}
<1>1. N \in Nat /\ IsFiniteSet(Module)
  BY IndexAssumption, FS_CardinalityType
<1>2. Walks(start, edges, N, f)
  BY WalkWalks
<1> HIDE DEF N, f
<1>3. f[0] = [files |-> {}, missing |-> {}, pending |-> {start}]
      /\ \A i \in 1..N : f[i] = Settle(f[i - 1], edges)
  <2> DEFINE first == [files |-> {}, missing |-> {}, pending |-> {start}]
  <2>1. f = [i \in 0..N |-> IF i = 0 THEN first ELSE Settle(f[i - 1], edges)]
    BY <1>2 DEF Walks
  <2> HIDE DEF first
  <2>2. \A i \in 0..N : f[i] = IF i = 0 THEN first ELSE Settle(f[i - 1], edges)
    BY <2>1
  <2>3. 0 \in 0..N /\ \A i \in 1..N : i \in 0..N /\ i # 0
    BY <1>1
  <2>4. f[0] = first /\ \A i \in 1..N : f[i] = Settle(f[i - 1], edges)
    BY <2>2, <2>3
  <2> QED
    BY <2>4 DEF first
<1>4. 0 \in S
  <2> DEFINE w == f[0]
  <2>1. w.files = {} /\ w.missing = {} /\ w.pending = {start}
    BY <1>3
  <2> HIDE DEF w
  <2>2. Settled(w) = {} /\ Cardinality(Settled(w)) = 0
    BY <2>1, FS_EmptySet DEF Settled
  <2>3. Walking(start, edges, 0, w)
    BY <2>1, <2>2 DEF Walking, Leads
  <2> QED
    BY <2>3 DEF w
<1>5. ASSUME NEW n \in Nat, n \in S PROVE n + 1 \in S
  <2> SUFFICES ASSUME n + 1 \in 0..N PROVE Walking(start, edges, n + 1, f[n + 1])
    OBVIOUS
  <2>1. n \in 0..N /\ n + 1 \in 1..N /\ (n + 1) - 1 = n
    BY <1>1
  <2>2. Walking(start, edges, n, f[n])
    BY <1>5, <2>1
  <2>3. f[n + 1] = Settle(f[n], edges)
    BY <1>3, <2>1
  <2> QED
    BY <2>2, <2>3, WalkGoesOn
<1> HIDE DEF S
<1>6. Nat \subseteq S
  BY <1>4, <1>5, SetInduction
<1> DEFINE w == f[N]
<1>7. Walking(start, edges, N, w)
  BY <1>1, <1>6 DEF S
<1> HIDE DEF w
<1>8. w.pending = {}
  <2> SUFFICES ASSUME w.pending # {} PROVE FALSE
    OBVIOUS
  <2>1. Cardinality(Settled(w)) = N /\ Settled(w) \in SUBSET Module
    BY <1>7 DEF Walking, Settled
  <2>2. Settled(w) = Module
    BY <1>1, <2>1, FS_Subset DEF N
  <2> QED
    BY <1>7, <2>2 DEF Walking
<1> QED
  BY <1>7, <1>8 DEF w, f, N

(* Whatever imports what, in circles or out of the corpus, a closure is the     *)
(* least set with its module and all that they import.                          *)
THEOREM ClosuresAreLeast == Spec => []ClosureIsLeast
<1>1. FoldInv => ClosureIsLeast
  <2> SUFFICES ASSUME FoldInv, NEW m \in DOMAIN docs
               PROVE  LET c == Closure(m, ImportsOf) IN
                 /\ m \in c.files /\ c.files \subseteq DOMAIN docs /\ c.missing \cap DOMAIN docs = {}
                 /\ \A f \in c.files : docs[f].imports \subseteq c.files \cup c.missing
                 /\ c.missing \subseteq UNION {docs[f].imports : f \in c.files}
                 /\ \A S \in SUBSET c.files :
                      m \in S /\ (\A f \in S : docs[f].imports \cap c.files \subseteq S) => S = c.files
    BY DEF ClosureIsLeast
  <2> DEFINE edges == ImportsOf
             w == Walk(m, edges)[Cardinality(Module)]
             c == Closure(m, ImportsOf)
  <2>1. DocsOK(docs)
    BY CorporaAreDocuments DEF FoldInv
  <2>2. /\ DOMAIN edges = DOMAIN docs /\ DOMAIN docs \subseteq Module
        /\ \A f \in DOMAIN docs : edges[f] = docs[f].imports /\ edges[f] \subseteq Module
    BY <2>1 DEF ImportsOf, DocsOK, Document
  <2>3. c.files = w.files /\ c.missing = w.missing
    BY DEF Closure
  <2> HIDE DEF edges
  <2>4. w.pending = {} /\ Walking(m, edges, Cardinality(Module), w)
    BY <2>2, WalkEnds
  <2> HIDE DEF w, c
  <2>5. /\ w.files \subseteq DOMAIN docs /\ w.missing \cap DOMAIN docs = {}
        /\ m \in w.files \cup w.missing
        /\ \A f \in w.files : edges[f] \subseteq w.files \cup w.missing
        /\ w.missing \subseteq Module
        /\ \A S \in SUBSET Module : Leads(m, edges, S) => w.files \cup w.missing \subseteq S
        /\ \A k \in (w.files \cup w.missing) \ {m} : \E f \in w.files : k \in edges[f]
    BY <2>2, <2>4 DEF Walking, Settled
  <2>6. m \in w.files
    BY <2>5
  <2>7. w.missing \subseteq UNION {docs[f].imports : f \in w.files}
    <3> SUFFICES ASSUME NEW k \in w.missing
                 PROVE  \E f \in w.files : k \in docs[f].imports
      OBVIOUS
    <3>1. PICK f \in w.files : k \in edges[f]
      BY <2>5
    <3> QED
      BY <2>2, <2>5, <3>1
  <2>8. ASSUME NEW S \in SUBSET w.files, m \in S,
               \A f \in S : docs[f].imports \cap w.files \subseteq S
        PROVE  S = w.files
    <3> DEFINE T == S \cup w.missing
    <3>1. T \in SUBSET Module
      BY <2>2, <2>5
    <3>2. ASSUME NEW f \in T PROVE Needs(edges, f) \subseteq T
      <4>1. CASE f \in S
        <5>1. edges[f] = docs[f].imports /\ edges[f] \subseteq w.files \cup w.missing
          BY <2>2, <2>5, <4>1
        <5>2. edges[f] \subseteq T
          BY <2>8, <4>1, <5>1
        <5> QED
          BY <2>2, <2>5, <4>1, <5>2 DEF Needs
      <4>2. CASE f \in w.missing
        BY <2>2, <2>5, <4>2 DEF Needs
      <4> QED
        BY <4>1, <4>2
    <3>3. Leads(m, edges, T)
      BY <2>8, <3>2 DEF Leads
    <3>4. w.files \subseteq T
      BY <2>5, <3>1, <3>3
    <3> QED
      BY <2>5, <3>4
  <2>9. \A f \in w.files : docs[f].imports \subseteq w.files \cup w.missing
    BY <2>2, <2>5
  <2>10. /\ m \in c.files /\ c.files \subseteq DOMAIN docs /\ c.missing \cap DOMAIN docs = {}
         /\ \A f \in c.files : docs[f].imports \subseteq c.files \cup c.missing
         /\ c.missing \subseteq UNION {docs[f].imports : f \in c.files}
         /\ \A S \in SUBSET c.files :
              m \in S /\ (\A f \in S : docs[f].imports \cap c.files \subseteq S) => S = c.files
    BY <2>3, <2>5, <2>6, <2>7, <2>8, <2>9
  <2> QED
    BY <2>10 DEF c
<1>2. FoldInv /\ [Next]_vars => FoldInv'
  BY FoldsGoOn
<1> QED
  BY <1>1, <1>2, FoldsBegin, PTL DEF Spec
-------------------------------------------------------------------------------
(* Powers and quotients. *)

PowersTo(n, f) == f = [w \in 0..n |-> IF w = 0 THEN 1 ELSE Base * f[w - 1]]

LEMMA PowersExist == \A n \in Nat : \E f : PowersTo(n, f)
<1> DEFINE S == {n \in Nat : \E f : PowersTo(n, f)}
<1>1. 0 \in S
  <2> DEFINE f == [w \in 0..0 |-> 1]
  <2>1. PowersTo(0, f)
    BY DEF PowersTo
  <2> QED
    BY <2>1
<1>2. ASSUME NEW n \in Nat, n \in S PROVE n + 1 \in S
  <2>1. PICK f : PowersTo(n, f)
    BY <1>2
  <2> DEFINE g == [w \in 0..(n + 1) |-> IF w <= n THEN f[w] ELSE Base * f[n]]
  <2>2. \A w \in 0..n : f[w] = IF w = 0 THEN 1 ELSE Base * f[w - 1]
    BY <2>1 DEF PowersTo
  <2>3. \A w \in 0..(n + 1) : g[w] = IF w = 0 THEN 1 ELSE Base * g[w - 1]
    <3> SUFFICES ASSUME NEW w \in 0..(n + 1)
                 PROVE  g[w] = IF w = 0 THEN 1 ELSE Base * g[w - 1]
      OBVIOUS
    <3>1. CASE w = 0
      BY <2>2, <3>1
    <3>2. CASE w \in 1..n
      <4>1. g[w] = f[w] /\ g[w - 1] = f[w - 1] /\ w \in 0..n /\ w # 0
        BY <3>2
      <4> HIDE DEF g
      <4> QED
        BY <2>2, <4>1
    <3>3. CASE w = n + 1
      <4>1. g[w] = Base * f[n] /\ g[w - 1] = f[n] /\ w # 0
        BY <3>3
      <4> HIDE DEF g
      <4> QED
        BY <3>3, <4>1
    <3> QED
      BY <3>1, <3>2, <3>3
  <2>4. g = [w \in 0..(n + 1) |-> g[w]]
    OBVIOUS
  <2> HIDE DEF g
  <2>5. PowersTo(n + 1, g)
    BY <2>3, <2>4 DEF PowersTo
  <2> QED
    BY <2>5
<1> HIDE DEF S
<1>3. Nat \subseteq S
  BY <1>1, <1>2, SetInduction
<1> QED
  BY <1>3 DEF S

LEMMA PowersGrow ==
  /\ Base \in Nat /\ Base >= 3 /\ MaxWidth \in Nat /\ MaxWidth >= 1 /\ MaxWidth <= Base - 2
  /\ Powers[0] = 1
  /\ \A w \in 1..MaxWidth : Powers[w] = Base * Powers[w - 1]
  /\ \A w \in 0..MaxWidth : Powers[w] \in Nat /\ Powers[w] >= 1
<1>0. Base \in Nat /\ Base >= 3 /\ MaxWidth \in Nat /\ MaxWidth >= 1 /\ MaxWidth <= Base - 2
  BY OidAssumption
<1>1. \E f : f = [w \in 0..MaxWidth |-> IF w = 0 THEN 1 ELSE Base * f[w - 1]]
  BY <1>0, PowersExist DEF PowersTo
<1>2. Powers = [w \in 0..MaxWidth |-> IF w = 0 THEN 1 ELSE Base * Powers[w - 1]]
  BY <1>1 DEF Powers
<1>3. \A w \in 0..MaxWidth : Powers[w] = IF w = 0 THEN 1 ELSE Base * Powers[w - 1]
  BY <1>2
<1> DEFINE S == {w \in Nat : w <= MaxWidth => Powers[w] \in Nat /\ Powers[w] >= 1}
<1>4. 0 \in S
  BY <1>0, <1>3
<1>5. ASSUME NEW w \in Nat, w \in S PROVE w + 1 \in S
  <2> SUFFICES ASSUME w + 1 <= MaxWidth
               PROVE  Powers[w + 1] \in Nat /\ Powers[w + 1] >= 1
    OBVIOUS
  <2>1. w <= MaxWidth /\ w + 1 \in 0..MaxWidth /\ w + 1 # 0 /\ (w + 1) - 1 = w
    BY <1>0
  <2>2. Powers[w + 1] = Base * Powers[w] /\ Powers[w] \in Nat /\ Powers[w] >= 1
    BY <1>3, <1>5, <2>1
  <2>3. \A p, b \in Nat : p >= 1 /\ b >= 1 => b * p \in Nat /\ b * p >= 1
    OBVIOUS
  <2> QED
    BY <1>0, <2>2, <2>3
<1> HIDE DEF S
<1>6. Nat \subseteq S
  BY <1>4, <1>5, SetInduction
<1>7. \A w \in 0..MaxWidth : Powers[w] \in Nat /\ Powers[w] >= 1
  BY <1>0, <1>6 DEF S
<1>8. Powers[0] = 1 /\ \A w \in 1..MaxWidth : Powers[w] = Base * Powers[w - 1]
  BY <1>0, <1>3
<1> QED
  BY <1>0, <1>7, <1>8

LEMMA QuotientIs ==
  ASSUME NEW a \in Nat, NEW m \in Nat, m >= 1
  PROVE  /\ a \div m \in Nat /\ a % m \in Nat /\ a % m < m
         /\ a = m * (a \div m) + (a % m)
<1>1. a \div m \in Nat
  OBVIOUS
<1>2. a % m \in Nat /\ a % m < m
  OBVIOUS
<1>3. a = m * (a \div m) + (a % m)
  OBVIOUS
<1> QED
  BY <1>1, <1>2, <1>3

LEMMA QuotientOnly ==
  ASSUME NEW a \in Nat, NEW m \in Nat, m >= 1, NEW q \in Nat, NEW r \in Nat, r < m, a = m * q + r
  PROVE  a \div m = q
<1> DEFINE s == a \div m
           t == a % m
<1>1. s \in Nat /\ t \in Nat /\ t < m /\ a = m * s + t
  BY QuotientIs
<1> HIDE DEF s, t
<1>2. ~(s < q)
  <2> SUFFICES ASSUME s < q PROVE FALSE
    OBVIOUS
  <2>1. PICK d \in Nat : q = s + 1 + d
    <3>1. q - s - 1 \in Nat /\ q = s + 1 + (q - s - 1)
      BY <1>1
    <3> QED
      BY <3>1
  <2>2. m * q = m * s + m + m * d /\ m * d \in Nat /\ m * s \in Nat /\ m * q \in Nat
    BY <1>1, <2>1
  <2> QED
    BY <1>1, <2>2
<1>3. ~(q < s)
  <2> SUFFICES ASSUME q < s PROVE FALSE
    OBVIOUS
  <2>1. PICK d \in Nat : s = q + 1 + d
    <3>1. s - q - 1 \in Nat /\ s = q + 1 + (s - q - 1)
      BY <1>1
    <3> QED
      BY <3>1
  <2>2. m * s = m * q + m + m * d /\ m * d \in Nat /\ m * s \in Nat /\ m * q \in Nat
    BY <1>1, <2>1
  <2> QED
    BY <1>1, <2>2
<1>4. s = q
  BY <1>1, <1>2, <1>3
<1> QED
  BY <1>4 DEF s

LEMMA QuotientTwice ==
  ASSUME NEW a \in Nat, NEW m \in Nat, m >= 1, NEW b \in Nat, b >= 1
  PROVE  a \div (b * m) = (a \div m) \div b
<1> DEFINE q == a \div m
           r == a % m
           s == q \div b
           t == q % b
<1>1. q \in Nat /\ r \in Nat /\ r < m /\ a = m * q + r
  BY QuotientIs
<1> HIDE DEF q, r
<1>2. s \in Nat /\ t \in Nat /\ t < b /\ q = b * s + t
  BY <1>1, QuotientIs
<1> HIDE DEF s, t
<1>3. m * q = (b * m) * s + m * t
  BY <1>1, <1>2
<1>4. m * t + r \in Nat /\ b * m \in Nat /\ b * m >= 1 /\ m * t + r < b * m
  <2>1. PICK d \in Nat : b = t + 1 + d
    <3>1. b - t - 1 \in Nat /\ b = t + 1 + (b - t - 1)
      BY <1>2
    <3> QED
      BY <3>1
  <2>2. b * m = m * t + m + m * d /\ m * d \in Nat /\ m * t \in Nat
    BY <1>2, <2>1
  <2> QED
    BY <1>1, <2>2
<1>5. a = (b * m) * s + (m * t + r)
  <2> DEFINE x == m * q
             y == (b * m) * s
             z == m * t
  <2>1. x \in Nat /\ y \in Nat /\ z \in Nat
    BY <1>1, <1>2
  <2>2. x = y + z /\ a = x + r
    BY <1>1, <1>3
  <2> HIDE DEF x, y, z
  <2>3. a = y + (z + r)
    BY <1>1, <2>1, <2>2
  <2> QED
    BY <2>3 DEF y, z
<1>6. a \div (b * m) = s
  <2> DEFINE u == m * t + r
             k == b * m
  <2>1. u \in Nat /\ k \in Nat /\ k >= 1 /\ u < k /\ a = k * s + u
    BY <1>4, <1>5
  <2> HIDE DEF u, k
  <2>2. a \div k = s
    BY <1>2, <2>1, QuotientOnly
  <2> QED
    BY <2>2 DEF k
<1> QED
  BY <1>6 DEF s, q

LEMMA QuotientKeepsOrder ==
  ASSUME NEW a \in Nat, NEW b \in Nat, a <= b, NEW m \in Nat, m >= 1
  PROVE  a \div m <= b \div m
<1> DEFINE s == a \div m
           q == b \div m
<1>1. /\ s \in Nat /\ a % m \in Nat /\ a % m < m /\ a = m * s + (a % m)
      /\ q \in Nat /\ b % m \in Nat /\ b % m < m /\ b = m * q + (b % m)
  BY QuotientIs
<1> HIDE DEF s, q
<1>2. ~(q < s)
  <2> SUFFICES ASSUME q < s PROVE FALSE
    OBVIOUS
  <2>1. PICK d \in Nat : s = q + 1 + d
    <3>1. s - q - 1 \in Nat /\ s = q + 1 + (s - q - 1)
      BY <1>1
    <3> QED
      BY <3>1
  <2>2. m * s = m * q + m + m * d /\ m * d \in Nat /\ m * s \in Nat /\ m * q \in Nat
    BY <1>1, <2>1
  <2>3. \A x, y, z, u, v \in Nat : x = y + m + z /\ u < m /\ v < m => ~(x + u <= y + v)
    OBVIOUS
  <2>4. m * s + (a % m) <= m * q + (b % m)
    BY <1>1
  <2> QED
    BY <1>1, <2>2, <2>3, <2>4
<1>3. s <= q
  BY <1>1, <1>2
<1> QED
  BY <1>3 DEF s, q
-------------------------------------------------------------------------------
(* The bytes of a sub-identifier. *)

Byte == 0..(Base - 1)
Coded(arc) == <<Width(arc)>> \o Bytes(arc, Width(arc))

LEMMA WidthFits ==
  ASSUME NEW arc \in 0..MaxArc
  PROVE  /\ Width(arc) \in 1..MaxWidth /\ arc < Powers[Width(arc)]
         /\ \A v \in 1..(Width(arc) - 1) : arc >= Powers[v]
<1> DEFINE fits == {w \in 1..MaxWidth : arc < Powers[w]}
<1>0. MaxWidth \in Nat /\ MaxWidth >= 1 /\ \A w \in 0..MaxWidth : Powers[w] \in Nat
  BY PowersGrow
<1>1. arc \in Nat /\ arc < Powers[MaxWidth]
  BY <1>0 DEF MaxArc
<1>2. fits \in SUBSET Nat /\ fits # {}
  <2>1. MaxWidth \in fits
    BY <1>0, <1>1
  <2> QED
    BY <1>0, <2>1
<1>3. PICK w \in fits : \A v \in fits : w <= v
  <2> HIDE DEF fits
  <2> QED
    BY <1>2, LeastNumber
<1>4. \A v \in 1..(w - 1) : arc >= Powers[v]
  <2> SUFFICES ASSUME NEW v \in 1..(w - 1), ~(arc >= Powers[v])
               PROVE  FALSE
    OBVIOUS
  <2>1. v \in 1..MaxWidth /\ ~(w <= v) /\ Powers[v] \in Nat
    BY <1>0, <1>3
  <2>2. v \in fits
    BY <1>1, <2>1
  <2> QED
    BY <1>3, <2>1, <2>2
<1>5. w \in 1..MaxWidth /\ arc < Powers[w]
  BY <1>3
<1> HIDE DEF fits
<1> QED
  BY <1>4, <1>5 DEF Width

LEMMA CodedBytes ==
  ASSUME NEW arc \in 0..MaxArc
  PROVE  /\ Coded(arc) \in Seq(Byte) /\ Len(Coded(arc)) = Width(arc) + 1
         /\ Coded(arc)[1] = Width(arc) /\ Width(arc) < Base - 1
         /\ \A i \in 1..Width(arc) :
              Coded(arc)[i + 1] = (arc \div Powers[Width(arc) - i]) % Base
<1> DEFINE w == Width(arc)
           bytes == Bytes(arc, w)
<1>0. /\ w \in 1..MaxWidth /\ Base \in Nat /\ Base >= 3 /\ MaxWidth \in Nat
      /\ MaxWidth <= Base - 2 /\ arc \in Nat
      /\ \A v \in 0..MaxWidth : Powers[v] \in Nat /\ Powers[v] >= 1
  <2>1. arc \in Nat
    BY PowersGrow DEF MaxArc
  <2> HIDE DEF w
  <2> QED
    BY <2>1, WidthFits, PowersGrow DEF w
<1>1. bytes = [i \in 1..w |-> (arc \div Powers[w - i]) % Base]
  BY DEF Bytes
<1> HIDE DEF w, bytes
<1>2. ASSUME NEW i \in 1..w
      PROVE  (arc \div Powers[w - i]) % Base \in Byte
  <2>1. w - i \in 0..MaxWidth
    BY <1>0
  <2>2. arc \div Powers[w - i] \in Nat
    BY <1>0, <2>1, QuotientIs
  <2> QED
    BY <1>0, <2>2, QuotientIs DEF Byte
<1>3. bytes \in Seq(Byte) /\ Len(bytes) = w /\ \A i \in 1..w : bytes[i] = (arc \div Powers[w - i]) % Base
  <2>1. w \in Nat
    BY <1>0
  <2> QED
    BY <1>1, <1>2, <2>1
<1>4. <<w>> \in Seq(Byte) /\ Len(<<w>>) = 1 /\ <<w>>[1] = w /\ w < Base - 1
  BY <1>0 DEF Byte
<1>5. /\ <<w>> \o bytes \in Seq(Byte) /\ Len(<<w>> \o bytes) = Len(<<w>>) + Len(bytes)
      /\ \A i \in 1..(Len(<<w>>) + Len(bytes)) :
           (<<w>> \o bytes)[i] = IF i <= Len(<<w>>) THEN <<w>>[i] ELSE bytes[i - Len(<<w>>)]
  BY <1>3, <1>4, ConcatProperties
<1>6. Coded(arc) = <<w>> \o bytes
  BY DEF Coded, w, bytes
<1>7. /\ Coded(arc) \in Seq(Byte) /\ Len(Coded(arc)) = w + 1
      /\ \A i \in 1..(w + 1) : Coded(arc)[i] = IF i <= 1 THEN <<w>>[i] ELSE bytes[i - 1]
  <2>1. Len(<<w>>) + Len(bytes) = w + 1
    BY <1>0, <1>3, <1>4
  <2> QED
    BY <1>4, <1>5, <1>6, <2>1
<1>8. Coded(arc)[1] = w
  <2>1. 1 \in 1..(w + 1)
    BY <1>0
  <2> QED
    BY <1>4, <1>7, <2>1
<1>9. ASSUME NEW i \in 1..w
      PROVE  Coded(arc)[i + 1] = (arc \div Powers[w - i]) % Base
  <2>1. i + 1 \in 1..(w + 1) /\ ~(i + 1 <= 1) /\ (i + 1) - 1 = i
    BY <1>0
  <2> QED
    BY <1>3, <1>7, <2>1
<1> QED
  BY <1>4, <1>7, <1>8, <1>9 DEF w

(* Of two sub-identifiers the smaller has the smaller byte where their codes     *)
(* first differ, and neither code ends before that.                              *)
LEMMA CodesPart ==
  ASSUME NEW a \in 0..MaxArc, NEW b \in 0..MaxArc, a < b
  PROVE  \E p \in 1..Len(Coded(b)) : p <= Len(Coded(a)) /\ PartAt(Coded(a), Coded(b), p)
<1> DEFINE v == Width(a)
           w == Width(b)
<1>0. /\ v \in 1..MaxWidth /\ a < Powers[v] /\ w \in 1..MaxWidth /\ b < Powers[w]
      /\ \A x \in 1..(v - 1) : a >= Powers[x]
  BY WidthFits
<1>1. /\ Base \in Nat /\ Base >= 3 /\ MaxWidth \in Nat /\ a \in Nat /\ b \in Nat
      /\ \A x \in 0..MaxWidth : Powers[x] \in Nat /\ Powers[x] >= 1
      /\ \A x \in 1..MaxWidth : Powers[x] = Base * Powers[x - 1]
      /\ Powers[0] = 1
  <2>1. a \in Nat /\ b \in Nat
    BY PowersGrow DEF MaxArc
  <2> QED
    BY <2>1, PowersGrow
<1>a. /\ Len(Coded(a)) = v + 1 /\ Coded(a)[1] = v
      /\ \A i \in 1..v : Coded(a)[i + 1] = (a \div Powers[v - i]) % Base
  BY CodedBytes
<1>b. /\ Len(Coded(b)) = w + 1 /\ Coded(b)[1] = w
      /\ \A i \in 1..w : Coded(b)[i + 1] = (b \div Powers[w - i]) % Base
  BY CodedBytes
<1> HIDE DEF v, w
<1>2. v <= w
  <2> SUFFICES ASSUME w < v PROVE FALSE
    BY <1>0, <1>1
  <2>1. w \in 1..(v - 1) /\ Powers[w] \in Nat
    BY <1>0, <1>1
  <2>2. a >= Powers[w] /\ b < Powers[w]
    BY <1>0, <2>1
  <2> QED
    BY <1>1, <2>1, <2>2
<1>3. CASE v < w
  <2>1. 1 \in 1..Len(Coded(b)) /\ 1 <= Len(Coded(a)) /\ 1 - 1 <= Len(Coded(a))
    BY <1>0, <1>1, <1>a, <1>b
  <2>2. PartAt(Coded(a), Coded(b), 1)
    BY <1>3, <1>a, <1>b, <2>1 DEF PartAt
  <2> QED
    BY <2>1, <2>2
<1>4. CASE v = w
  <2> DEFINE A(i) == a \div Powers[w - i]
             B(i) == b \div Powers[w - i]
             apart == {i \in Nat : i <= w /\ A(i) # B(i)}
  <2>0. w \in Nat /\ w >= 1 /\ \A i \in 0..w : w - i \in 0..MaxWidth
    BY <1>0, <1>1
  <2>1. \A i \in 0..w : A(i) \in Nat /\ B(i) \in Nat /\ A(i) <= B(i)
    <3> SUFFICES ASSUME NEW i \in 0..w PROVE A(i) \in Nat /\ B(i) \in Nat /\ A(i) <= B(i)
      OBVIOUS
    <3>1. Powers[w - i] \in Nat /\ Powers[w - i] >= 1 /\ a <= b
      BY <1>1, <2>0
    <3> QED
      BY <1>1, <3>1, QuotientIs, QuotientKeepsOrder
  <2>2. \A i \in 1..w : A(i - 1) = A(i) \div Base /\ B(i - 1) = B(i) \div Base
    <3> SUFFICES ASSUME NEW i \in 1..w
                 PROVE  A(i - 1) = A(i) \div Base /\ B(i - 1) = B(i) \div Base
      OBVIOUS
    <3>1. /\ w - i \in 0..MaxWidth /\ w - (i - 1) \in 1..MaxWidth /\ (w - (i - 1)) - 1 = w - i
      BY <1>0, <1>1, <2>0
    <3>2. Powers[w - (i - 1)] = Base * Powers[w - i]
      BY <1>1, <3>1
    <3>3. Powers[w - i] \in Nat /\ Powers[w - i] >= 1 /\ Base >= 1
      BY <1>1, <3>1
    <3> QED
      BY <1>1, <3>2, <3>3, QuotientTwice
  <2>3. A(0) = 0 /\ B(0) = 0
    <3>1. /\ Powers[w] \in Nat /\ Powers[w] >= 1 /\ a < Powers[w] /\ b < Powers[w]
          /\ w - 0 = w /\ a = Powers[w] * 0 + a /\ b = Powers[w] * 0 + b
      BY <1>0, <1>1, <1>4
    <3> QED
      BY <1>1, <3>1, QuotientOnly
  <2>4. A(w) # B(w)
    <3>1. w - w = 0 /\ Powers[w - w] = 1
      BY <1>1, <2>0
    <3>2. a \div 1 = a /\ b \div 1 = b
      <4>1. a = 1 * a + 0 /\ b = 1 * b + 0
        BY <1>1
      <4> QED
        BY <1>1, <4>1, QuotientOnly
    <3> QED
      BY <1>1, <3>1, <3>2
  <2>c. /\ \A i \in 1..w : Coded(a)[i + 1] = A(i) % Base
        /\ \A i \in 1..w : Coded(b)[i + 1] = B(i) % Base
    BY <1>4, <1>a, <1>b
  <2> HIDE DEF A, B
  <2>5. apart \in SUBSET Nat /\ apart # {}
    <3>1. w \in apart
      BY <2>0, <2>4
    <3> QED
      BY <3>1
  <2>6. PICK i \in apart : \A j \in apart : i <= j
    <3> HIDE DEF apart
    <3> QED
      BY <2>5, LeastNumber
  <2>7. i \in Nat /\ i <= w /\ A(i) # B(i) /\ i # 0
    BY <2>3, <2>6
  <2>8. \A j \in 0..(i - 1) : A(j) = B(j)
    <3> SUFFICES ASSUME NEW j \in 0..(i - 1), A(j) # B(j) PROVE FALSE
      OBVIOUS
    <3>1. j \in Nat /\ j <= w /\ ~(i <= j)
      BY <2>0, <2>7
    <3>2. j \in apart
      BY <3>1
    <3> QED
      BY <2>6, <3>1, <3>2
  <2> HIDE DEF apart
  <2>9. i \in 1..w /\ i \in 0..w /\ i - 1 \in 0..(i - 1)
    BY <2>0, <2>7
  <2>10. A(i) % Base < B(i) % Base
    <3> DEFINE q == A(i) \div Base
    <3>1. /\ A(i) \in Nat /\ B(i) \in Nat /\ A(i) <= B(i) /\ A(i) # B(i)
          /\ B(i) \div Base = q
      BY <2>1, <2>2, <2>7, <2>8, <2>9
    <3>2. /\ A(i) = Base * q + (A(i) % Base) /\ A(i) % Base \in Nat /\ q \in Nat
          /\ B(i) = Base * q + (B(i) % Base) /\ B(i) % Base \in Nat
      <4>1. \A x \in Nat : x = Base * (x \div Base) + (x % Base) /\ x % Base \in Nat
                           /\ x \div Base \in Nat
        <5>1. Base >= 1
          BY <1>1
        <5> QED
          BY <1>1, <5>1, QuotientIs
      <4>2. A(i) = Base * (A(i) \div Base) + (A(i) % Base) /\ A(i) % Base \in Nat
            /\ A(i) \div Base \in Nat
        BY <3>1, <4>1
      <4>3. B(i) = Base * (B(i) \div Base) + (B(i) % Base) /\ B(i) % Base \in Nat
        BY <3>1, <4>1
      <4> QED
        BY <3>1, <4>2, <4>3
    <3> HIDE DEF q
    <3>3. Base * q \in Nat
      BY <1>1, <3>2
    <3> QED
      BY <3>1, <3>2, <3>3
  <2>11. /\ i + 1 \in 1..Len(Coded(b)) /\ i + 1 <= Len(Coded(a)) /\ (i + 1) - 1 = i
         /\ i <= Len(Coded(a))
    BY <1>4, <1>a, <1>b, <2>0, <2>9
  <2>12. \A j \in 1..i : Coded(a)[j] = Coded(b)[j]
    <3> SUFFICES ASSUME NEW j \in 1..i PROVE Coded(a)[j] = Coded(b)[j]
      OBVIOUS
    <3>1. CASE j = 1
      BY <1>4, <1>a, <1>b, <3>1
    <3>2. CASE j # 1
      <4>1. j - 1 \in 1..w /\ (j - 1) + 1 = j /\ j - 1 \in 0..(i - 1)
        BY <2>0, <2>9, <3>2
      <4>2. Coded(a)[(j - 1) + 1] = A(j - 1) % Base /\ Coded(b)[(j - 1) + 1] = B(j - 1) % Base
        BY <2>c, <4>1
      <4>3. A(j - 1) = B(j - 1)
        BY <2>8, <4>1
      <4> QED
        BY <4>1, <4>2, <4>3
    <3> QED
      BY <3>1, <3>2
  <2>13. Coded(a)[i + 1] < Coded(b)[i + 1]
    BY <2>c, <2>9, <2>10
  <2>14. PartAt(Coded(a), Coded(b), i + 1)
    BY <2>11, <2>12, <2>13 DEF PartAt
  <2> QED
    BY <2>11, <2>14
<1> QED
  BY <1>0, <1>1, <1>2, <1>3, <1>4
-------------------------------------------------------------------------------
(* Keys. *)

HasKey(oid) == oid \in Seq(Nat) /\ oid # <<>> /\ \A i \in 1..Len(oid) : oid[i] \in 0..MaxArc

(* A key grows by one sub-identifier after the other. *)
Stages(oid, stage) ==
  /\ stage \in [0..Len(oid) -> Seq(Byte)] /\ stage[0] = <<>>
  /\ \A i \in 1..Len(oid) : stage[i] = stage[i - 1] \o Coded(oid[i])
  /\ OidKey(oid) = stage[Len(oid)]

JoinedTo(seqs, n, f) == f = [i \in 1..n |-> IF i = 1 THEN seqs[i] ELSE f[i - 1] \o seqs[i]]

LEMMA JoinsExist ==
  ASSUME NEW seqs
  PROVE  \A n \in Nat : \E f : JoinedTo(seqs, n, f)
<1> DEFINE S == {n \in Nat : \E f : JoinedTo(seqs, n, f)}
<1>1. 0 \in S
  <2> DEFINE f == [i \in 1..0 |-> 0]
  <2>1. f = [i \in 1..0 |-> IF i = 1 THEN seqs[i] ELSE f[i - 1] \o seqs[i]]
    OBVIOUS
  <2> HIDE DEF f
  <2>2. JoinedTo(seqs, 0, f)
    BY <2>1 DEF JoinedTo
  <2> QED
    BY <2>2
<1>2. ASSUME NEW n \in Nat, n \in S PROVE n + 1 \in S
  <2>1. PICK f : JoinedTo(seqs, n, f)
    BY <1>2
  <2> DEFINE g == [i \in 1..(n + 1) |->
                     IF i <= n THEN f[i] ELSE IF i = 1 THEN seqs[i] ELSE f[n] \o seqs[i]]
  <2>2. \A i \in 1..n : f[i] = IF i = 1 THEN seqs[i] ELSE f[i - 1] \o seqs[i]
    BY <2>1 DEF JoinedTo
  <2>3. \A i \in 1..(n + 1) : g[i] = IF i = 1 THEN seqs[i] ELSE g[i - 1] \o seqs[i]
    <3> SUFFICES ASSUME NEW i \in 1..(n + 1)
                 PROVE  g[i] = IF i = 1 THEN seqs[i] ELSE g[i - 1] \o seqs[i]
      OBVIOUS
    <3>1. CASE i \in 1..n
      <4>1. g[i] = f[i] /\ (i # 1 => g[i - 1] = f[i - 1])
        BY <3>1
      <4> HIDE DEF g
      <4> QED
        BY <2>2, <3>1, <4>1
    <3>2. CASE i = n + 1 /\ i = 1
      BY <3>2
    <3>3. CASE i = n + 1 /\ i # 1
      <4>0. i - 1 = n /\ n \in 1..(n + 1) /\ n <= n /\ ~(i <= n)
        BY <3>3
      <4>1. g[i] = f[n] \o seqs[i] /\ g[n] = f[n]
        BY <3>3, <4>0
      <4> HIDE DEF g
      <4> QED
        BY <3>3, <4>0, <4>1
    <3> QED
      BY <3>1, <3>2, <3>3
  <2>4. g = [i \in 1..(n + 1) |-> g[i]]
    OBVIOUS
  <2> HIDE DEF g
  <2>5. JoinedTo(seqs, n + 1, g)
    BY <2>3, <2>4 DEF JoinedTo
  <2> QED
    BY <2>5
<1> HIDE DEF S
<1>3. Nat \subseteq S
  BY <1>1, <1>2, SetInduction
<1> QED
  BY <1>3 DEF S

LEMMA KeysHaveStages ==
  ASSUME NEW oid, HasKey(oid)
  PROVE  \E stage : Stages(oid, stage)
<1> DEFINE n == Len(oid)
           seqs == [i \in DOMAIN oid |-> <<Width(oid[i])>> \o Bytes(oid[i], Width(oid[i]))]
<1>0. /\ oid \in Seq(Nat) /\ DOMAIN oid = 1..n /\ n \in Nat /\ n >= 1
      /\ \A i \in 1..n : oid[i] \in 0..MaxArc
  BY LenProperties, EmptySeq DEF HasKey
<1>1. OidKey(oid) = FlattenSeq(seqs)
  BY <1>0 DEF OidKey, HasKey
<1>2. seqs = [i \in 1..n |-> Coded(oid[i])]
  BY <1>0 DEF Coded
<1> HIDE DEF n, seqs
<1>3. \A i \in 1..n : Coded(oid[i]) \in Seq(Byte)
  BY <1>0, CodedBytes
<1>4. Len(seqs) = n /\ \A i \in 1..n : seqs[i] = Coded(oid[i])
  BY <1>0, <1>2
<1>5. \E f : f = [i \in 1..Len(seqs) |-> IF i = 1 THEN seqs[i] ELSE f[i - 1] \o seqs[i]]
  BY <1>0, <1>4, JoinsExist DEF JoinedTo
<1>6. PICK f : /\ f = [i \in 1..Len(seqs) |-> IF i = 1 THEN seqs[i] ELSE f[i - 1] \o seqs[i]]
               /\ FlattenSeq(seqs) = f[Len(seqs)]
  <2>1. Len(seqs) # 0
    BY <1>0, <1>4
  <2> QED
    BY <1>5, <2>1 DEF FlattenSeq
<1>7. \A i \in 1..n : f[i] = IF i = 1 THEN Coded(oid[i]) ELSE f[i - 1] \o Coded(oid[i])
  BY <1>4, <1>6
<1> DEFINE S == {i \in Nat : i \in 1..n => f[i] \in Seq(Byte)}
<1>8. 0 \in S
  OBVIOUS
<1>9. ASSUME NEW i \in Nat, i \in S PROVE i + 1 \in S
  <2> SUFFICES ASSUME i + 1 \in 1..n PROVE f[i + 1] \in Seq(Byte)
    OBVIOUS
  <2>1. CASE i = 0
    BY <1>3, <1>7, <2>1
  <2>2. CASE i # 0
    <3>1. i \in 1..n /\ i + 1 # 1 /\ (i + 1) - 1 = i
      BY <1>0, <2>2
    <3>2. f[i + 1] = f[i] \o Coded(oid[i + 1]) /\ f[i] \in Seq(Byte)
      BY <1>7, <1>9, <3>1
    <3>3. Coded(oid[i + 1]) \in Seq(Byte)
      BY <1>3
    <3> QED
      BY <3>2, <3>3, ConcatProperties
  <2> QED
    BY <2>1, <2>2
<1> HIDE DEF S
<1>10. Nat \subseteq S
  BY <1>8, <1>9, SetInduction
<1>11. \A i \in 1..n : f[i] \in Seq(Byte)
  BY <1>0, <1>10 DEF S
<1> DEFINE stage == [i \in 0..n |-> IF i = 0 THEN <<>> ELSE f[i]]
<1>12. stage[0] = <<>> /\ \A i \in 1..n : stage[i] = f[i]
  BY <1>0
<1>13. stage \in [0..n -> Seq(Byte)]
  <2>1. <<>> \in Seq(Byte)
    OBVIOUS
  <2> QED
    BY <1>0, <1>11, <2>1
<1> HIDE DEF stage
<1>14. ASSUME NEW i \in 1..n
       PROVE  stage[i] = stage[i - 1] \o Coded(oid[i])
  <2>1. CASE i = 1
    <3>1. stage[i - 1] = <<>> /\ stage[i] = Coded(oid[i])
      BY <1>7, <1>12, <2>1
    <3>2. <<>> \o Coded(oid[i]) = Coded(oid[i])
      BY <1>3, ConcatEmptySeq
    <3> QED
      BY <3>1, <3>2
  <2>2. CASE i # 1
    <3>1. i - 1 \in 1..n
      BY <1>0, <2>2
    <3>2. stage[i - 1] = f[i - 1] /\ stage[i] = f[i - 1] \o Coded(oid[i])
      BY <1>7, <1>12, <2>2, <3>1
    <3> QED
      BY <3>2
  <2> QED
    BY <2>1, <2>2
<1>15. OidKey(oid) = stage[n]
  BY <1>0, <1>1, <1>4, <1>6, <1>12
<1> QED
  BY <1>12, <1>13, <1>14, <1>15 DEF Stages, n

LEMMA StagesNest ==
  ASSUME NEW oid \in Seq(Nat), NEW stage, Stages(oid, stage), HasKey(oid),
         NEW i \in 0..Len(oid), NEW k \in 0..Len(oid), i <= k
  PROVE  /\ Len(stage[i]) <= Len(stage[k]) /\ (i < k => Len(stage[i]) < Len(stage[k]))
         /\ \A p \in 1..Len(stage[i]) : stage[k][p] = stage[i][p]
<1> DEFINE n == Len(oid)
           Nests(a, b) == /\ Len(a) <= Len(b)
                          /\ \A p \in 1..Len(a) : b[p] = a[p]
           S == {d \in Nat : i + d <= n =>
                   Nests(stage[i], stage[i + d]) /\ (d # 0 => Len(stage[i]) < Len(stage[i + d]))}
<1>0. /\ n \in Nat /\ i \in Nat /\ k \in Nat
      /\ \A j \in 0..n : stage[j] \in Seq(Byte) /\ Len(stage[j]) \in Nat
      /\ \A j \in 1..n : stage[j] = stage[j - 1] \o Coded(oid[j])
      /\ \A j \in 1..n : Coded(oid[j]) \in Seq(Byte) /\ Len(Coded(oid[j])) \in Nat \ {0}
  <2>1. n \in Nat
    BY LenProperties
  <2>2. \A j \in 0..n : stage[j] \in Seq(Byte)
    BY DEF Stages
  <2>3. \A j \in 0..n : Len(stage[j]) \in Nat
    BY <2>2, LenProperties
  <2>4. ASSUME NEW j \in 1..n
        PROVE  Coded(oid[j]) \in Seq(Byte) /\ Len(Coded(oid[j])) \in Nat \ {0}
    <3>1. oid[j] \in 0..MaxArc
      BY DEF HasKey
    <3>2. Width(oid[j]) \in 1..MaxWidth /\ MaxWidth \in Nat
      BY <3>1, WidthFits, PowersGrow
    <3> QED
      BY <3>1, <3>2, CodedBytes
  <2>5. i \in Nat /\ k \in Nat
    BY <2>1
  <2>6. \A j \in 1..n : stage[j] = stage[j - 1] \o Coded(oid[j])
    BY DEF Stages
  <2> HIDE DEF n
  <2> QED
    BY <2>1, <2>2, <2>3, <2>4, <2>5, <2>6
<1> HIDE DEF n
<1>1. 0 \in S
  <2>1. i + 0 = i /\ stage[i] \in Seq(Byte) /\ Len(stage[i]) \in Nat
    BY <1>0 DEF n
  <2> QED
    BY <2>1
<1>2. ASSUME NEW d \in Nat, d \in S PROVE d + 1 \in S
  <2> SUFFICES ASSUME i + (d + 1) <= n
               PROVE  /\ Nests(stage[i], stage[i + (d + 1)])
                      /\ Len(stage[i]) < Len(stage[i + (d + 1)])
    OBVIOUS
  <2> DEFINE j == i + (d + 1)
             a == stage[i]
             b == stage[i + d]
             c == Coded(oid[j])
  <2>1. j \in 1..n /\ j - 1 = i + d /\ i + d \in 0..n /\ i + d <= n /\ i \in 0..n
    BY <1>0
  <2>2. stage[j] = b \o c
    BY <1>0, <2>1
  <2>3. a \in Seq(Byte) /\ b \in Seq(Byte) /\ c \in Seq(Byte)
        /\ Len(a) \in Nat /\ Len(b) \in Nat /\ Len(c) \in Nat \ {0}
    BY <1>0, <2>1
  <2>4. Len(a) <= Len(b) /\ \A p \in 1..Len(a) : b[p] = a[p]
    BY <1>2, <2>1
  <2> HIDE DEF a, b, c, j
  <2>5. /\ Len(b \o c) = Len(b) + Len(c)
        /\ \A p \in 1..(Len(b) + Len(c)) : (b \o c)[p] = IF p <= Len(b) THEN b[p] ELSE c[p - Len(b)]
    BY <2>3, ConcatProperties
  <2>6. \A p \in 1..Len(a) : (b \o c)[p] = a[p]
    <3> SUFFICES ASSUME NEW p \in 1..Len(a) PROVE (b \o c)[p] = a[p]
      OBVIOUS
    <3>1. p \in 1..(Len(b) + Len(c)) /\ p <= Len(b)
      BY <2>3, <2>4
    <3> QED
      BY <2>4, <2>5, <3>1
  <2>7. Len(a) < Len(b \o c)
    BY <2>3, <2>4, <2>5
  <2>8. Nests(a, b \o c)
    BY <2>3, <2>5, <2>6, <2>7
  <2> QED
    BY <2>2, <2>7, <2>8 DEF a, j
<1> HIDE DEF S
<1>3. Nat \subseteq S
  BY <1>1, <1>2, SetInduction
<1>4. k - i \in Nat /\ i + (k - i) = k /\ k <= n /\ (i < k => k - i # 0)
  BY <1>0 DEF n
<1>5. Nests(stage[i], stage[k]) /\ (i < k => Len(stage[i]) < Len(stage[k]))
  BY <1>3, <1>4 DEF S
<1> QED
  BY <1>5

LEMMA StagesAgree ==
  ASSUME NEW x, NEW y, HasKey(x), HasKey(y), NEW f, NEW g, Stages(x, f), Stages(y, g),
         NEW i \in Nat, i <= Len(x), i <= Len(y), \A j \in 1..i : x[j] = y[j]
  PROVE  f[i] = g[i]
<1> DEFINE S == {k \in Nat : k <= i => f[k] = g[k]}
<1>0. Len(x) \in Nat /\ Len(y) \in Nat
  BY LenProperties DEF HasKey
<1>1. 0 \in S
  BY DEF Stages
<1>2. ASSUME NEW k \in Nat, k \in S PROVE k + 1 \in S
  <2> SUFFICES ASSUME k + 1 <= i PROVE f[k + 1] = g[k + 1]
    OBVIOUS
  <2>1. k <= i /\ k + 1 \in 1..Len(x) /\ k + 1 \in 1..Len(y) /\ (k + 1) - 1 = k /\ k + 1 \in 1..i
    BY <1>0
  <2>2. f[k + 1] = f[k] \o Coded(x[k + 1]) /\ g[k + 1] = g[k] \o Coded(y[k + 1])
    BY <2>1 DEF Stages
  <2>3. f[k] = g[k] /\ x[k + 1] = y[k + 1]
    BY <1>2, <2>1
  <2> QED
    BY <2>2, <2>3
<1> HIDE DEF S
<1>3. Nat \subseteq S
  BY <1>1, <1>2, SetInduction
<1> QED
  BY <1>3 DEF S

LEMMA KeysAreBytes ==
  ASSUME NEW oid, HasKey(oid)
  PROVE  /\ OidKey(oid) \in Seq(Byte) /\ OidKey(oid) \in Seq(Nat)
         /\ OidKey(oid) # <<>> /\ OidKey(oid)[1] < Base - 1
<1>0. oid \in Seq(Nat) /\ Len(oid) \in Nat /\ Len(oid) >= 1 /\ \A i \in 1..Len(oid) : oid[i] \in 0..MaxArc
  BY LenProperties, EmptySeq DEF HasKey
<1>1. PICK stage : Stages(oid, stage)
  BY KeysHaveStages
<1>2. /\ OidKey(oid) = stage[Len(oid)] /\ stage[Len(oid)] \in Seq(Byte) /\ stage[0] = <<>>
      /\ stage[1] = stage[0] \o Coded(oid[1])
  <2>1. 1 \in 1..Len(oid) /\ 1 - 1 = 0 /\ Len(oid) \in 0..Len(oid)
    BY <1>0
  <2>2. stage[1] = stage[1 - 1] \o Coded(oid[1])
    BY <1>1, <2>1 DEF Stages
  <2>3. stage[Len(oid)] \in Seq(Byte)
    BY <1>1, <2>1 DEF Stages
  <2> QED
    BY <1>1, <2>1, <2>2, <2>3 DEF Stages
<1>3. Coded(oid[1]) \in Seq(Byte) /\ Len(Coded(oid[1])) = Width(oid[1]) + 1
      /\ Coded(oid[1])[1] < Base - 1 /\ Width(oid[1]) \in Nat
  <2>1. oid[1] \in 0..MaxArc
    BY <1>0
  <2>2. Width(oid[1]) \in Nat
    BY <2>1, WidthFits, PowersGrow
  <2> QED
    BY <2>1, <2>2, CodedBytes
<1>4. stage[1] = Coded(oid[1])
  <2>1. <<>> \o Coded(oid[1]) = Coded(oid[1])
    BY <1>3, ConcatEmptySeq
  <2> QED
    BY <1>2, <2>1
<1>5. Len(stage[1]) <= Len(stage[Len(oid)]) /\ \A p \in 1..Len(stage[1]) : stage[Len(oid)][p] = stage[1][p]
  <2>1. 1 \in 0..Len(oid) /\ Len(oid) \in 0..Len(oid) /\ 1 <= Len(oid)
    BY <1>0
  <2> QED
    BY <1>0, <1>1, <2>1, StagesNest
<1>6. stage[Len(oid)][1] = Coded(oid[1])[1] /\ Len(stage[Len(oid)]) # 0
  <2>1. 1 \in 1..Len(stage[1]) /\ Len(stage[1]) \in Nat /\ Len(stage[1]) >= 1
    BY <1>3, <1>4
  <2>2. Len(stage[Len(oid)]) \in Nat
    BY <1>2, LenProperties
  <2> QED
    BY <1>4, <1>5, <2>1, <2>2
<1>7. stage[Len(oid)] \in Seq(Nat)
  <2>1. Byte \subseteq Nat
    BY PowersGrow DEF Byte
  <2>2. /\ Len(stage[Len(oid)]) \in Nat /\ DOMAIN stage[Len(oid)] = 1..Len(stage[Len(oid)])
        /\ stage[Len(oid)] \in [1..Len(stage[Len(oid)]) -> Byte]
    BY <1>2, LenProperties
  <2> DEFINE s == stage[Len(oid)]
  <2> HIDE DEF s
  <2>3. s \in [1..Len(s) -> Nat] /\ Len(s) \in Nat
    BY <2>1, <2>2 DEF s
  <2>4. s \in Seq(Nat)
    BY <2>3
  <2> QED
    BY <2>4 DEF s
<1>8. OidKey(oid) # <<>>
  BY <1>2, <1>6, EmptySeq
<1> QED
  BY <1>2, <1>3, <1>6, <1>7, <1>8

(* The key of what lies below an OID goes on where the OID's own key ends.       *)
LEMMA KeysNest ==
  ASSUME NEW x, NEW y, HasKey(x), HasKey(y), Len(x) < Len(y), \A j \in 1..Len(x) : x[j] = y[j]
  PROVE  /\ Len(OidKey(x)) < Len(OidKey(y))
         /\ \A p \in 1..Len(OidKey(x)) : OidKey(y)[p] = OidKey(x)[p]
<1>0. x \in Seq(Nat) /\ y \in Seq(Nat) /\ Len(x) \in Nat /\ Len(y) \in Nat
  BY LenProperties DEF HasKey
<1>1. PICK f : Stages(x, f)
  BY KeysHaveStages
<1>2. PICK g : Stages(y, g)
  BY KeysHaveStages
<1>3. f[Len(x)] = g[Len(x)]
  BY <1>0, <1>1, <1>2, StagesAgree
<1>4. /\ Len(g[Len(x)]) < Len(g[Len(y)])
      /\ \A p \in 1..Len(g[Len(x)]) : g[Len(y)][p] = g[Len(x)][p]
  <2>1. Len(x) \in 0..Len(y) /\ Len(y) \in 0..Len(y) /\ Len(x) <= Len(y)
    BY <1>0
  <2> QED
    BY <1>0, <1>2, <2>1, StagesNest
<1>5. OidKey(x) = f[Len(x)] /\ OidKey(y) = g[Len(y)]
  BY <1>1, <1>2 DEF Stages
<1> QED
  BY <1>3, <1>4, <1>5

(* Where OIDs part, so do their keys, and neither key ends before that.          *)
LEMMA KeysPart ==
  ASSUME NEW x, NEW y, HasKey(x), HasKey(y), NEW n \in Nat, PartAt(x, y, n), n <= Len(x)
  PROVE  \E p \in Nat : PartAt(OidKey(x), OidKey(y), p) /\ p <= Len(OidKey(x))
<1>0. x \in Seq(Nat) /\ y \in Seq(Nat) /\ Len(x) \in Nat /\ Len(y) \in Nat
  BY LenProperties DEF HasKey
<1>1. PICK f : Stages(x, f)
  BY KeysHaveStages
<1>2. PICK g : Stages(y, g)
  BY KeysHaveStages
<1>3. /\ n \in 1..Len(x) /\ n \in 1..Len(y) /\ n - 1 \in Nat /\ n - 1 <= Len(x) /\ n - 1 <= Len(y)
      /\ \A i \in 1..(n - 1) : x[i] = y[i]
      /\ x[n] < y[n]
  BY <1>0 DEF PartAt
<1>4. f[n - 1] = g[n - 1]
  BY <1>1, <1>2, <1>3, StagesAgree
<1> DEFINE h == f[n - 1]
           a == Coded(x[n])
           b == Coded(y[n])
<1>5. f[n] = h \o a /\ g[n] = h \o b /\ h \in Seq(Byte)
  <2>1. n - 1 \in 0..Len(x)
    BY <1>3
  <2> QED
    BY <1>1, <1>2, <1>3, <1>4, <2>1 DEF Stages
<1>6. x[n] \in 0..MaxArc /\ y[n] \in 0..MaxArc
  BY <1>3 DEF HasKey
<1>7. a \in Seq(Byte) /\ b \in Seq(Byte)
  BY <1>6, CodedBytes
<1>8. PICK p \in 1..Len(b) : p <= Len(a) /\ PartAt(a, b, p)
  BY <1>3, <1>6, CodesPart
<1>k. OidKey(x) = f[Len(x)] /\ OidKey(y) = g[Len(y)]
  BY <1>1, <1>2 DEF Stages
<1>9. /\ Len(f[n]) <= Len(OidKey(x)) /\ (\A q \in 1..Len(f[n]) : OidKey(x)[q] = f[n][q])
      /\ Len(g[n]) <= Len(OidKey(y)) /\ (\A q \in 1..Len(g[n]) : OidKey(y)[q] = g[n][q])
  <2>1. n \in 0..Len(x) /\ Len(x) \in 0..Len(x) /\ n <= Len(x)
    BY <1>0, <1>3
  <2>2. n \in 0..Len(y) /\ Len(y) \in 0..Len(y) /\ n <= Len(y)
    BY <1>0, <1>3
  <2>3. Len(f[n]) <= Len(f[Len(x)]) /\ \A q \in 1..Len(f[n]) : f[Len(x)][q] = f[n][q]
    <3> DEFINE k == Len(x)
    <3>1. Stages(x, f) /\ HasKey(x) /\ x \in Seq(Nat)
      BY <1>0, <1>1
    <3>2. n \in 0..Len(x) /\ k \in 0..Len(x) /\ n <= k
      BY <2>1
    <3> HIDE DEF k
    <3>3. Len(f[n]) <= Len(f[k]) /\ \A q \in 1..Len(f[n]) : f[k][q] = f[n][q]
      BY <3>1, <3>2, StagesNest
    <3> QED
      BY <3>3 DEF k
  <2>4. Len(g[n]) <= Len(g[Len(y)]) /\ \A q \in 1..Len(g[n]) : g[Len(y)][q] = g[n][q]
    BY <1>0, <1>2, <2>2, StagesNest
  <2> QED
    BY <1>k, <2>3, <2>4
<1>t. /\ Len(h) \in Nat /\ Len(a) \in Nat /\ Len(b) \in Nat
      /\ Len(OidKey(x)) \in Nat /\ Len(OidKey(y)) \in Nat
  BY <1>5, <1>7, KeysAreBytes, LenProperties
<1> HIDE DEF h, a, b
<1>10. /\ Len(h \o a) = Len(h) + Len(a)
       /\ \A q \in 1..(Len(h) + Len(a)) : (h \o a)[q] = IF q <= Len(h) THEN h[q] ELSE a[q - Len(h)]
  BY <1>5, <1>7, ConcatProperties
<1>11. /\ Len(h \o b) = Len(h) + Len(b)
       /\ \A q \in 1..(Len(h) + Len(b)) : (h \o b)[q] = IF q <= Len(h) THEN h[q] ELSE b[q - Len(h)]
  BY <1>5, <1>7, ConcatProperties
<1>12. /\ p \in 1..Len(a) /\ p \in 1..Len(b) /\ (\A i \in 1..(p - 1) : a[i] = b[i]) /\ a[p] < b[p]
  BY <1>8, <1>t DEF PartAt
<1> DEFINE q == Len(h) + p
<1>13. /\ q \in Nat /\ q \in 1..(Len(h) + Len(a)) /\ q \in 1..(Len(h) + Len(b))
       /\ ~(q <= Len(h)) /\ q - Len(h) = p
  BY <1>t, <1>12
<1>14. (h \o a)[q] = a[p] /\ (h \o b)[q] = b[p]
  <2> HIDE DEF q
  <2> QED
    BY <1>10, <1>11, <1>13
<1>15. ASSUME NEW i \in 1..(q - 1)
       PROVE  (h \o a)[i] = (h \o b)[i]
  <2>1. i \in 1..(Len(h) + Len(a)) /\ i \in 1..(Len(h) + Len(b))
    BY <1>t, <1>12
  <2>2. CASE i <= Len(h)
    BY <1>10, <1>11, <2>1, <2>2
  <2>3. CASE ~(i <= Len(h))
    <3>1. i - Len(h) \in 1..(p - 1)
      BY <1>t, <1>12, <2>3
    <3>2. a[i - Len(h)] = b[i - Len(h)]
      BY <1>12, <3>1
    <3> HIDE DEF q
    <3> QED
      BY <1>10, <1>11, <2>1, <2>3, <3>2
  <2> QED
    BY <2>2, <2>3
<1>16. /\ q \in 1..Len(OidKey(x)) /\ q \in 1..Len(OidKey(y))
       /\ OidKey(x)[q] = (h \o a)[q] /\ OidKey(y)[q] = (h \o b)[q]
       /\ \A i \in 1..(q - 1) : OidKey(x)[i] = (h \o a)[i] /\ OidKey(y)[i] = (h \o b)[i]
  <2>1. /\ \A i \in 1..q : i \in 1..Len(f[n]) /\ i \in 1..Len(g[n])
        /\ q \in 1..q /\ \A i \in 1..(q - 1) : i \in 1..q
    BY <1>5, <1>10, <1>11, <1>13, <1>t
  <2>2. q \in 1..Len(OidKey(x)) /\ q \in 1..Len(OidKey(y))
    BY <1>5, <1>9, <1>10, <1>11, <1>13, <1>t
  <2> HIDE DEF q
  <2> QED
    BY <1>5, <1>9, <2>1, <2>2
<1> HIDE DEF q
<1>17. PartAt(OidKey(x), OidKey(y), q)
  <2>1. q - 1 <= Len(OidKey(x))
    BY <1>13, <1>16, <1>t
  <2>2. \A i \in 1..(q - 1) : OidKey(x)[i] = OidKey(y)[i]
    BY <1>15, <1>16
  <2>3. OidKey(x)[q] < OidKey(y)[q]
    BY <1>12, <1>14, <1>16
  <2> QED
    BY <1>16, <2>1, <2>2, <2>3 DEF PartAt
<1>18. q <= Len(OidKey(x))
  BY <1>13, <1>16, <1>t
<1> QED
  BY <1>13, <1>17, <1>18

(* Byte order of keys is the order of OIDs.                                      *)
LEMMA KeysKeepOrder ==
  ASSUME NEW x, NEW y, HasKey(x), HasKey(y)
  PROVE  Before(OidKey(x), OidKey(y)) <=> Before(x, y)
<1>0. /\ \A z : HasKey(z) => z \in Seq(Nat) /\ Len(z) \in Nat
      /\ \A z : HasKey(z) => OidKey(z) \in Seq(Nat) /\ Len(OidKey(z)) \in Nat
  BY KeysAreBytes, LenProperties DEF HasKey
<1>1. ASSUME NEW v, NEW w, HasKey(v), HasKey(w), Before(v, w)
      PROVE  Before(OidKey(v), OidKey(w))
  <2>1. PICK n \in Nat : PartAt(v, w, n)
    BY <1>0, <1>1, BeforeParts
  <2>2. CASE n <= Len(v)
    <3>1. \E p \in Nat : PartAt(OidKey(v), OidKey(w), p)
      BY <1>1, <2>1, <2>2, KeysPart
    <3> QED
      BY <1>0, <1>1, <3>1, BeforeParts
  <2>3. CASE ~(n <= Len(v))
    <3>1. n - 1 = Len(v) /\ Len(v) < Len(w) /\ \A j \in 1..Len(v) : v[j] = w[j]
      BY <1>0, <1>1, <2>1, <2>3 DEF PartAt
    <3> DEFINE a == OidKey(v)
               b == OidKey(w)
    <3>2. Len(a) < Len(b) /\ \A p \in 1..Len(a) : b[p] = a[p]
      BY <1>1, <3>1, KeysNest
    <3>3. a \in Seq(Nat) /\ b \in Seq(Nat) /\ Len(a) \in Nat /\ Len(b) \in Nat
      BY <1>0, <1>1
    <3> HIDE DEF a, b
    <3>4. Len(a) + 1 \in Nat /\ Len(a) + 1 \in 1..Len(b) /\ (Len(a) + 1) - 1 = Len(a)
          /\ Len(a) <= Len(a) /\ ~(Len(a) + 1 <= Len(a))
      BY <3>2, <3>3
    <3>5. PartAt(a, b, Len(a) + 1)
      BY <3>2, <3>4 DEF PartAt
    <3>6. Before(a, b)
      BY <3>3, <3>4, <3>5, BeforeParts
    <3> QED
      BY <3>6 DEF a, b
  <2> QED
    BY <2>2, <2>3
<1>2. ASSUME Before(OidKey(x), OidKey(y)) PROVE Before(x, y)
  <2>1. x # y
    BY <1>0, <1>2, BeforeIsStrict
  <2>2. CASE Before(y, x)
    <3>1. Before(OidKey(y), OidKey(x))
      BY <1>1, <2>2
    <3> QED
      BY <1>0, <1>2, <3>1, BeforeIsTransitive, BeforeIsStrict
  <2> QED
    BY <1>0, <2>1, <2>2, BeforeIsTotal
<1> QED
  BY <1>1, <1>2

LEMMA PrefixesStart ==
  ASSUME NEW x \in Seq(Nat), NEW y \in Seq(Nat)
  PROVE  IsPrefix(x, y) <=> (Len(x) <= Len(y) /\ \A j \in 1..Len(x) : x[j] = y[j])
<1>1. Len(x) \in Nat /\ Len(y) \in Nat
  BY LenProperties
<1>2. IsPrefix(x, y) <=> (Len(x) <= Len(y) /\ SubSeq(x, 1, Len(x)) = SubSeq(y, 1, Len(x)))
  BY DEF IsPrefix
<1>3. ASSUME Len(x) <= Len(y)
      PROVE  SubSeq(x, 1, Len(x)) = SubSeq(y, 1, Len(x)) <=> \A j \in 1..Len(x) : x[j] = y[j]
  <2> DEFINE n == Len(x)
  <2>1. n \in Nat /\ n <= Len(x) /\ n <= Len(y)
    BY <1>1, <1>3
  <2> HIDE DEF n
  <2>2. SubSeq(x, 1, n) = SubSeq(y, 1, n) <=> \A j \in 1..n : x[j] = y[j]
    BY <2>1, StartsAgree
  <2> QED
    BY <2>2 DEF n
<1> QED
  BY <1>2, <1>3

(* A bound is over every key that begins as the one it bounds, and under every   *)
(* later key that does not: the bytes it drops are as great as a byte can be.    *)
LEMMA BoundIs ==
  ASSUME NEW low \in Seq(Byte), low # <<>>, low[1] < Base - 1
  PROVE  \E m \in 1..Len(low) :
           /\ SubtreeBound(low) \in Seq(Nat) /\ Len(SubtreeBound(low)) = m
           /\ \A i \in 1..(m - 1) : SubtreeBound(low)[i] = low[i]
           /\ SubtreeBound(low)[m] = low[m] + 1
           /\ \A i \in (m + 1)..Len(low) : low[i] = Base - 1
<1> DEFINE raisable == {i \in DOMAIN low : low[i] < Base - 1}
           m == Max(raisable)
           start == SubSeq(low, 1, m)
           bound == [start EXCEPT ![m] = @ + 1]
<1>0. /\ Base \in Nat /\ Base >= 3
      /\ Len(low) \in Nat /\ Len(low) >= 1 /\ DOMAIN low = 1..Len(low)
      /\ \A i \in 1..Len(low) : low[i] \in 0..(Base - 1)
  BY PowersGrow, LenProperties, EmptySeq, ElementOfSeq DEF Byte
<1>1. 1 \in raisable /\ raisable \subseteq 1..Len(low) /\ raisable \subseteq Nat
  BY <1>0
<1>2. IsFiniteSet(raisable)
  <2> HIDE DEF raisable
  <2>1. IsFiniteSet(1..Len(low))
    BY <1>0, FS_Interval
  <2> QED
    BY <1>1, <2>1, FS_Subset
<1>3. m \in raisable /\ \A y \in raisable : m >= y
  <2> HIDE DEF raisable
  <2> QED
    BY <1>1, <1>2, MaxIsGreatest
<1>4. SubtreeBound(low) = bound
  <2>1. raisable # {}
    BY <1>1
  <2> QED
    BY <2>1 DEF SubtreeBound
<1>5. m \in 1..Len(low) /\ \A i \in (m + 1)..Len(low) : low[i] = Base - 1
  <2>1. m \in 1..Len(low)
    BY <1>1, <1>3
  <2> HIDE DEF m
  <2>2. ASSUME NEW i \in (m + 1)..Len(low) PROVE low[i] = Base - 1
    <3>1. i \in 1..Len(low) /\ ~(m >= i)
      BY <1>0, <2>1
    <3>2. i \notin raisable
      BY <1>3, <3>1
    <3> QED
      BY <1>0, <3>1, <3>2
  <2> QED
    BY <2>1, <2>2
<1> HIDE DEF raisable, m
<1>6. low \in Seq(Nat)
  <2>1. low \in [1..Len(low) -> Nat]
    BY <1>0
  <2> QED
    BY <1>0, <2>1
<1>7. /\ start \in Seq(Nat) /\ Len(start) = m /\ \A i \in 1..m : start[i] = low[i]
  BY <1>0, <1>5, <1>6, SubSeqProperties
<1>8. start[m] \in Nat /\ m \in 1..Len(start) /\ m \in Nat /\ start[m] = low[m]
  BY <1>0, <1>5, <1>7
<1> HIDE DEF start
<1>9. bound \in Seq(Nat) /\ Len(bound) = m /\ bound[m] = low[m] + 1
      /\ \A i \in 1..(m - 1) : bound[i] = low[i]
  BY <1>7, <1>8, ExceptSeq
<1> HIDE DEF bound
<1> QED
  BY <1>4, <1>5, <1>9

LEMMA BoundsPrefixes ==
  ASSUME NEW low \in Seq(Byte), low # <<>>, low[1] < Base - 1, NEW key \in Seq(Byte)
  PROVE  (~Before(key, low) /\ Before(key, SubtreeBound(low))) <=> IsPrefix(low, key)
<1> DEFINE bound == SubtreeBound(low)
<1>0. /\ Base \in Nat /\ Len(low) \in Nat /\ Len(key) \in Nat
      /\ (\A i \in 1..Len(low) : low[i] \in 0..(Base - 1))
      /\ (\A i \in 1..Len(key) : key[i] \in 0..(Base - 1))
  BY PowersGrow, LenProperties, ElementOfSeq DEF Byte
<1>1. low \in Seq(Nat) /\ key \in Seq(Nat)
  <2>1. \A s \in Seq(Byte) : s \in Seq(Nat)
    <3> SUFFICES ASSUME NEW s \in Seq(Byte) PROVE s \in Seq(Nat)
      OBVIOUS
    <3>1. Len(s) \in Nat /\ s \in [1..Len(s) -> Byte]
      BY LenProperties
    <3>2. s \in [1..Len(s) -> Nat]
      BY <1>0, <3>1 DEF Byte
    <3> QED
      BY <3>1, <3>2
  <2> QED
    BY <2>1
<1>2. PICK m \in 1..Len(low) :
         /\ bound \in Seq(Nat) /\ Len(bound) = m
         /\ \A i \in 1..(m - 1) : bound[i] = low[i]
         /\ bound[m] = low[m] + 1
         /\ \A i \in (m + 1)..Len(low) : low[i] = Base - 1
  BY BoundIs
<1> HIDE DEF bound
<1>3. ASSUME IsPrefix(low, key)
      PROVE  ~Before(key, low) /\ Before(key, bound)
  <2>1. Len(low) <= Len(key) /\ \A j \in 1..Len(low) : low[j] = key[j]
    BY <1>1, <1>3, PrefixesStart
  <2>2. ~Before(key, low)
    <3> SUFFICES ASSUME NEW n \in Nat, PartAt(key, low, n) PROVE FALSE
      BY <1>1, BeforeParts
    <3>1. n \in 1..Len(low) /\ n \in 1..Len(key) /\ key[n] < low[n] /\ key[n] = low[n]
      BY <1>0, <2>1 DEF PartAt
    <3>2. key[n] \in Nat
      BY <1>0, <3>1
    <3> QED
      BY <3>1, <3>2
  <2>3. PartAt(key, bound, m)
    <3>1. m \in 1..Len(bound) /\ m - 1 <= Len(key) /\ m <= Len(key)
      BY <1>0, <1>2, <2>1
    <3>2. \A i \in 1..(m - 1) : key[i] = bound[i]
      BY <1>0, <1>2, <2>1
    <3>3. key[m] < bound[m]
      BY <1>0, <1>2, <2>1
    <3> QED
      BY <3>1, <3>2, <3>3 DEF PartAt
  <2>4. Before(key, bound)
    <3>1. m \in Nat
      BY <1>0
    <3> QED
      BY <1>1, <1>2, <2>3, <3>1, BeforeParts
  <2> QED
    BY <2>2, <2>4
<1>4. ASSUME ~Before(key, low), Before(key, bound)
      PROVE  IsPrefix(low, key)
  <2>1. CASE key = low
    BY <1>1, <2>1, PrefixesStart
  <2>2. CASE key # low
    <3>1. Before(low, key)
      BY <1>1, <1>4, <2>2, BeforeIsTotal
    <3>2. PICK p \in Nat : PartAt(low, key, p)
      BY <1>1, <3>1, BeforeParts
    <3>3. PICK q \in Nat : PartAt(key, bound, q)
      BY <1>1, <1>2, <1>4, BeforeParts
    <3>4. CASE p <= Len(low)
      <4>1. /\ p \in 1..Len(low) /\ p \in 1..Len(key) /\ low[p] < key[p]
            /\ \A i \in 1..(p - 1) : low[i] = key[i]
        BY <1>0, <3>2, <3>4 DEF PartAt
      <4>2. p <= m
        <5> SUFFICES ASSUME ~(p <= m) PROVE FALSE
          OBVIOUS
        <5>1. p \in (m + 1)..Len(low)
          BY <1>0, <4>1
        <5>2. low[p] = Base - 1 /\ key[p] \in 0..(Base - 1)
          BY <1>0, <1>2, <4>1, <5>1
        <5> QED
          BY <1>0, <4>1, <5>2
      <4>3. /\ q \in 1..m /\ (\A i \in 1..(q - 1) : key[i] = bound[i])
            /\ (q <= Len(key) => key[q] < bound[q]) /\ q - 1 <= Len(key)
        BY <1>2, <3>3 DEF PartAt
      <4>4. CASE q < p
        <5>1. q \in 1..(p - 1) /\ q \in 1..(m - 1) /\ q <= Len(key) /\ q \in 1..Len(low)
          BY <1>0, <4>1, <4>2, <4>3, <4>4
        <5>2. bound[q] = low[q] /\ low[q] = key[q] /\ key[q] < bound[q] /\ low[q] \in Nat
          BY <1>0, <1>2, <4>1, <4>3, <5>1
        <5> QED
          BY <5>2
      <4>5. CASE p < q
        <5>1. p \in 1..(q - 1) /\ p \in 1..(m - 1)
          BY <1>0, <4>1, <4>3, <4>5
        <5>2. key[p] = bound[p] /\ bound[p] = low[p] /\ low[p] < key[p] /\ low[p] \in Nat
          BY <1>0, <1>2, <4>1, <4>3, <5>1
        <5> QED
          BY <5>2
      <4>6. CASE p = q
        <5>1. q <= Len(key) /\ key[q] < bound[q] /\ low[q] < key[q] /\ low[q] \in Nat /\ key[q] \in Nat
          BY <1>0, <4>1, <4>3, <4>6
        <5>2. CASE q = m
          BY <1>2, <5>1, <5>2
        <5>3. CASE q # m
          <6>1. q \in 1..(m - 1)
            BY <1>0, <4>3, <5>3
          <6>2. bound[q] = low[q]
            BY <1>2, <6>1
          <6> QED
            BY <5>1, <6>2
        <5> QED
          BY <5>2, <5>3
      <4> QED
        BY <3>2, <3>3, <4>4, <4>5, <4>6
    <3>5. CASE ~(p <= Len(low))
      <4>0. Len(low) \in Nat /\ Len(key) \in Nat
        BY <1>0
      <4>1. /\ p \in 1..Len(key) /\ p - 1 <= Len(low)
            /\ \A i \in 1..(p - 1) : low[i] = key[i]
        BY <3>2 DEF PartAt
      <4>2. p - 1 = Len(low) /\ Len(low) <= Len(key)
        BY <3>5, <4>0, <4>1
      <4>3. \A i \in 1..Len(low) : low[i] = key[i]
        BY <4>1, <4>2
      <4> QED
        BY <1>1, <4>2, <4>3, PrefixesStart
    <3> QED
      BY <3>4, <3>5
  <2> QED
    BY <2>1, <2>2
<1> QED
  BY <1>3, <1>4 DEF bound

(* A key begins as another where its OID does.                                   *)
LEMMA KeysKeepPrefixes ==
  ASSUME NEW x, NEW y, HasKey(x), HasKey(y)
  PROVE  IsPrefix(OidKey(x), OidKey(y)) <=> IsPrefix(x, y)
<1> DEFINE a == OidKey(x)
           b == OidKey(y)
<1>0. /\ x \in Seq(Nat) /\ y \in Seq(Nat) /\ a \in Seq(Nat) /\ b \in Seq(Nat)
      /\ Len(x) \in Nat /\ Len(y) \in Nat /\ Len(a) \in Nat /\ Len(b) \in Nat
  BY KeysAreBytes, LenProperties DEF HasKey
<1> HIDE DEF a, b
<1>1. ASSUME IsPrefix(x, y) PROVE IsPrefix(a, b)
  <2>1. Len(x) <= Len(y) /\ \A j \in 1..Len(x) : x[j] = y[j]
    BY <1>0, <1>1, PrefixesStart
  <2>2. CASE Len(x) = Len(y)
    <3>1. x = y
      BY <1>0, <2>1, <2>2, SeqEqual
    <3>2. a = b
      BY <3>1 DEF a, b
    <3> QED
      BY <1>0, <3>2, PrefixesStart
  <2>3. CASE Len(x) < Len(y)
    <3>1. Len(a) < Len(b) /\ \A p \in 1..Len(a) : b[p] = a[p]
      BY <2>1, <2>3, KeysNest DEF a, b
    <3>2. a \in Seq(Nat) /\ b \in Seq(Nat) /\ Len(a) \in Nat /\ Len(b) \in Nat
      BY <1>0
    <3>3. Len(a) <= Len(b) /\ \A p \in 1..Len(a) : a[p] = b[p]
      BY <3>1, <3>2
    <3> QED
      BY <3>2, <3>3, PrefixesStart
  <2> QED
    BY <1>0, <2>1, <2>2, <2>3
<1>2. ASSUME IsPrefix(a, b) PROVE IsPrefix(x, y)
  <2>1. Len(a) <= Len(b) /\ \A j \in 1..Len(a) : a[j] = b[j]
    BY <1>0, <1>2, PrefixesStart
  <2>2. CASE x = y
    BY <1>0, <2>2, PrefixesStart
  <2>3. CASE Before(x, y)
    <3>1. PICK n \in Nat : PartAt(x, y, n)
      BY <1>0, <2>3, BeforeParts
    <3>2. CASE n <= Len(x)
      <4>1. PICK p \in Nat : PartAt(a, b, p) /\ p <= Len(a)
        BY <3>1, <3>2, KeysPart DEF a, b
      <4>2. p \in 1..Len(a) /\ a[p] < b[p] /\ a[p] \in Nat
        BY <1>0, <4>1, ElementOfSeq DEF PartAt
      <4>3. a[p] = b[p]
        BY <2>1, <4>2
      <4> QED
        BY <4>2, <4>3
    <3>3. CASE ~(n <= Len(x))
      <4>1. Len(x) <= Len(y) /\ \A j \in 1..Len(x) : x[j] = y[j]
        BY <1>0, <3>1, <3>3 DEF PartAt
      <4> QED
        BY <1>0, <4>1, PrefixesStart
    <3> QED
      BY <3>2, <3>3
  <2>4. CASE Before(y, x)
    <3>1. Before(b, a)
      BY <2>4, KeysKeepOrder DEF a, b
    <3>2. PICK p \in Nat : PartAt(b, a, p)
      BY <1>0, <3>1, BeforeParts
    <3>3. p \in 1..Len(a) /\ p <= Len(b) /\ b[p] < a[p] /\ a[p] \in Nat
      BY <1>0, <2>1, <3>2, ElementOfSeq DEF PartAt
    <3>4. a[p] = b[p]
      BY <2>1, <3>3
    <3> QED
      BY <3>3, <3>4
  <2> QED
    BY <1>0, <2>2, <2>3, <2>4, BeforeIsTotal
<1> QED
  BY <1>1, <1>2 DEF a, b

Counts(bytes, n, f) == f = [i \in 0..n |-> IF i = 0 THEN 0 ELSE f[i - 1] * Base + bytes[i]]

LEMMA NumbersCount ==
  ASSUME NEW bytes \in Seq(Nat)
  PROVE  \E f : /\ f = [n \in 0..Len(bytes) |-> IF n = 0 THEN 0 ELSE f[n - 1] * Base + bytes[n]]
                /\ Number(bytes) = f[Len(bytes)]
<1> DEFINE S == {n \in Nat : \E f : Counts(bytes, n, f)}
<1>1. 0 \in S
  <2> DEFINE f == [i \in 0..0 |-> 0]
  <2>1. f = [i \in 0..0 |-> IF i = 0 THEN 0 ELSE f[i - 1] * Base + bytes[i]]
    OBVIOUS
  <2> HIDE DEF f
  <2>2. Counts(bytes, 0, f)
    BY <2>1 DEF Counts
  <2> QED
    BY <2>2
<1>2. ASSUME NEW n \in Nat, n \in S PROVE n + 1 \in S
  <2>1. PICK f : Counts(bytes, n, f)
    BY <1>2
  <2> DEFINE g == [i \in 0..(n + 1) |-> IF i <= n THEN f[i] ELSE f[n] * Base + bytes[n + 1]]
  <2>2. \A i \in 0..n : f[i] = IF i = 0 THEN 0 ELSE f[i - 1] * Base + bytes[i]
    BY <2>1 DEF Counts
  <2>3. ASSUME NEW i \in 0..(n + 1)
        PROVE  g[i] = IF i = 0 THEN 0 ELSE g[i - 1] * Base + bytes[i]
    <3>1. CASE i = 0
      BY <2>2, <3>1
    <3>2. CASE i \in 1..n
      <4>1. g[i] = f[i] /\ g[i - 1] = f[i - 1] /\ i \in 0..n /\ i # 0
        BY <3>2
      <4> HIDE DEF g
      <4> QED
        BY <2>2, <4>1
    <3>3. CASE i = n + 1
      <4>1. g[i] = f[n] * Base + bytes[i] /\ g[i - 1] = f[n] /\ i # 0
        BY <3>3
      <4> HIDE DEF g
      <4> QED
        BY <3>3, <4>1
    <3> QED
      BY <3>1, <3>2, <3>3
  <2>4. g = [i \in 0..(n + 1) |-> g[i]]
    OBVIOUS
  <2> HIDE DEF g
  <2>5. Counts(bytes, n + 1, g)
    BY <2>3, <2>4 DEF Counts
  <2> QED
    BY <2>5
<1> HIDE DEF S
<1>3. Nat \subseteq S
  BY <1>1, <1>2, SetInduction
<1>4. Len(bytes) \in Nat
  BY LenProperties
<1>5. \E f : f = [n \in 0..Len(bytes) |-> IF n = 0 THEN 0 ELSE f[n - 1] * Base + bytes[n]]
  BY <1>3, <1>4 DEF S, Counts
<1> QED
  BY <1>5 DEF Number

(* Read back, the bytes of a sub-identifier are that sub-identifier: after so    *)
(* many of them the number read is what is left of it without the rest.          *)
LEMMA BytesCount ==
  ASSUME NEW arc \in 0..MaxArc, NEW bytes \in Seq(Nat), Len(bytes) = Width(arc),
         \A i \in 1..Width(arc) : bytes[i] = (arc \div Powers[Width(arc) - i]) % Base
  PROVE  Number(bytes) = arc
<1> DEFINE w == Width(arc)
<1>0. /\ w \in 1..MaxWidth /\ arc < Powers[w] /\ arc \in Nat
      /\ Base \in Nat /\ Base >= 3 /\ MaxWidth \in Nat /\ Powers[0] = 1
      /\ \A v \in 1..MaxWidth : Powers[v] = Base * Powers[v - 1]
      /\ \A v \in 0..MaxWidth : Powers[v] \in Nat /\ Powers[v] >= 1
  <2>1. arc \in Nat
    BY PowersGrow DEF MaxArc
  <2> HIDE DEF w
  <2> QED
    BY <2>1, WidthFits, PowersGrow DEF w
<1>1. Len(bytes) = w /\ \A i \in 1..w : bytes[i] = (arc \div Powers[w - i]) % Base
  OBVIOUS
<1> HIDE DEF w
<1>2. PICK f : /\ f = [n \in 0..w |-> IF n = 0 THEN 0 ELSE f[n - 1] * Base + bytes[n]]
               /\ Number(bytes) = f[w]
  BY <1>1, NumbersCount
<1>3. \A n \in 0..w : f[n] = IF n = 0 THEN 0 ELSE f[n - 1] * Base + bytes[n]
  BY <1>2
<1> DEFINE A(n) == arc \div Powers[w - n]
           S == {n \in Nat : n <= w => f[n] = A(n)}
<1>4. 0 \in S
  <2>1. /\ w - 0 = w /\ Powers[w] \in Nat /\ Powers[w] >= 1 /\ arc = Powers[w] * 0 + arc
    BY <1>0
  <2>2. A(0) = 0
    BY <1>0, <2>1, QuotientOnly
  <2>3. f[0] = 0
    BY <1>0, <1>3
  <2> QED
    BY <2>2, <2>3
<1>5. ASSUME NEW n \in Nat, n \in S PROVE n + 1 \in S
  <2> SUFFICES ASSUME n + 1 <= w PROVE f[n + 1] = A(n + 1)
    OBVIOUS
  <2> DEFINE r == A(n + 1)
             q == A(n)
  <2>1. /\ n + 1 \in 0..w /\ n + 1 \in 1..w /\ n + 1 # 0 /\ (n + 1) - 1 = n /\ n <= w
        /\ w - (n + 1) \in 0..MaxWidth /\ w - n \in 1..MaxWidth /\ (w - n) - 1 = w - (n + 1)
    BY <1>0
  <2>2. f[n + 1] = q * Base + (r % Base)
    <3>1. f[n] = q
      BY <1>5, <2>1
    <3>2. bytes[n + 1] = r % Base
      BY <1>1, <2>1
    <3> HIDE DEF q, r
    <3> QED
      BY <1>3, <2>1, <3>1, <3>2
  <2>3. Powers[w - n] = Base * Powers[w - (n + 1)] /\ Powers[w - (n + 1)] \in Nat
        /\ Powers[w - (n + 1)] >= 1 /\ Base >= 1
    BY <1>0, <2>1
  <2>4. q = r \div Base /\ r \in Nat
    <3> DEFINE p == Powers[w - (n + 1)]
    <3>1. p \in Nat /\ p >= 1
      BY <2>3
    <3>p. Powers[w - n] = Base * p
      BY <2>3
    <3> HIDE DEF p
    <3>0. arc \in Nat /\ Base \in Nat /\ Base >= 1
      BY <1>0
    <3>2. arc \div (Base * p) = (arc \div p) \div Base
      BY <3>0, <3>1, QuotientTwice, ZenonT(60)
    <3>3. arc \div p \in Nat
      BY <3>0, <3>1, QuotientIs
    <3> QED
      BY <3>p, <3>2, <3>3 DEF p
  <2> HIDE DEF q, r
  <2>5. r = Base * (r \div Base) + (r % Base)
    BY <1>0, <2>4, QuotientIs
  <2>6. q \in Nat
    BY <1>0, <2>3, <2>4, QuotientIs
  <2>7. q * Base = Base * q
    BY <1>0, <2>6
  <2> QED
    BY <2>2, <2>4, <2>5, <2>7 DEF r
<1> HIDE DEF S
<1>6. Nat \subseteq S
  BY <1>4, <1>5, SetInduction
<1>7. f[w] = A(w)
  BY <1>0, <1>6 DEF S
<1>8. A(w) = arc
  <2>1. w - w = 0 /\ Powers[w - w] = 1 /\ arc = 1 * arc + 0
    BY <1>0
  <2> QED
    BY <1>0, <2>1, QuotientOnly
<1> QED
  BY <1>2, <1>7, <1>8

(* What a key spells from one position on. *)
Spelt(key, f, at) ==
  IF at > Len(key) THEN <<<<>>>>
  ELSE LET next == at + 1 + key[at] IN
       IF key[at] < 1 \/ next > Len(key) + 1 \/ f[next] = Refused THEN Refused
       ELSE << <<Number(SubSeq(key, at + 1, next - 1))>> \o f[next][1] >>

SpeltFrom(key, first, f) == f = [at \in first..(Len(key) + 1) |-> Spelt(key, f, at)]

(* That depends on what later positions spell alone. *)
LEMMA SpellingAgrees ==
  ASSUME NEW key \in Seq(Nat), NEW f, NEW g, NEW at \in 1..(Len(key) + 1),
         \A n \in (at + 1)..(Len(key) + 1) : f[n] = g[n]
  PROVE  Spelt(key, f, at) = Spelt(key, g, at)
<1>1. CASE at > Len(key)
  BY <1>1 DEF Spelt
<1>2. CASE ~(at > Len(key))
  <2> DEFINE next == at + 1 + key[at]
  <2>0. Len(key) \in Nat /\ at \in 1..Len(key) /\ key[at] \in Nat
    <3>1. Len(key) \in Nat
      BY LenProperties
    <3>2. at \in 1..Len(key)
      BY <1>2, <3>1
    <3> QED
      BY <3>1, <3>2, ElementOfSeq
  <2>1. CASE key[at] < 1 \/ next > Len(key) + 1
    BY <1>2, <2>1 DEF Spelt
  <2>2. CASE ~(key[at] < 1 \/ next > Len(key) + 1)
    <3>1. next \in (at + 1)..(Len(key) + 1)
      BY <2>0, <2>2
    <3>2. f[next] = g[next]
      BY <3>1
    <3> QED
      BY <1>2, <2>2, <3>2 DEF Spelt
  <2> QED
    BY <2>1, <2>2
<1> QED
  BY <1>1, <1>2

LEMMA SpellingExists ==
  ASSUME NEW key \in Seq(Nat)
  PROVE  \E f : SpeltFrom(key, 1, f)
<1> DEFINE last == Len(key) + 1
           S == {d \in Nat : d < last => \E f : SpeltFrom(key, last - d, f)}
<1>0. Len(key) \in Nat /\ last \in Nat /\ last >= 1
  BY LenProperties
<1>1. 0 \in S
  <2> DEFINE f == [at \in last..last |-> <<<<>>>>]
  <2>1. Spelt(key, f, last) = <<<<>>>>
    BY <1>0 DEF Spelt
  <2>2. f = [at \in last..last |-> Spelt(key, f, at)]
    <3>1. \A at \in last..last : at = last
      BY <1>0
    <3> QED
      BY <2>1, <3>1
  <2>3. last - 0 = last
    BY <1>0
  <2> HIDE DEF f
  <2>4. SpeltFrom(key, last - 0, f)
    BY <2>2, <2>3 DEF SpeltFrom
  <2> QED
    BY <2>4
<1>2. ASSUME NEW d \in Nat, d \in S PROVE d + 1 \in S
  <2> SUFFICES ASSUME d + 1 < last PROVE \E f : SpeltFrom(key, last - (d + 1), f)
    OBVIOUS
  <2> DEFINE a == last - d
             b == last - (d + 1)
  <2>1. a \in 1..last /\ b \in 1..last /\ b + 1 = a
    BY <1>0
  <2>2. PICK f : SpeltFrom(key, a, f)
    BY <1>0, <1>2
  <2> HIDE DEF a, b, last
  <2>3. f = [at \in a..last |-> Spelt(key, f, at)]
    BY <2>2 DEF SpeltFrom, last
  <2>4. \A at \in a..last : f[at] = Spelt(key, f, at)
    BY <2>3
  <2> DEFINE g == [at \in b..last |-> IF at >= a THEN f[at] ELSE Spelt(key, f, b)]
  <2>5. \A at \in a..last : g[at] = f[at]
    BY <1>0, <2>1
  <2>6. g[b] = Spelt(key, f, b)
    BY <1>0, <2>1
  <2>7. g = [at \in b..last |-> g[at]]
    OBVIOUS
  <2> HIDE DEF g
  <2>8. ASSUME NEW at \in b..last
        PROVE  g[at] = Spelt(key, g, at)
    <3>1. at \in 1..last /\ (at = b \/ at \in a..last) /\ \A n \in (at + 1)..last : n \in a..last
      BY <1>0, <2>1
    <3>2. \A n \in (at + 1)..last : f[n] = g[n]
      BY <2>5, <3>1
    <3>3. Spelt(key, f, at) = Spelt(key, g, at)
      BY <3>1, <3>2, SpellingAgrees DEF last
    <3>4. g[at] = Spelt(key, f, at)
      BY <2>4, <2>5, <2>6, <3>1
    <3> QED
      BY <3>3, <3>4
  <2>9. SpeltFrom(key, b, g)
    BY <2>7, <2>8 DEF SpeltFrom, last
  <2> QED
    BY <2>9 DEF b
<1> HIDE DEF S
<1>3. Nat \subseteq S
  BY <1>1, <1>2, SetInduction
<1>4. last - 1 \in Nat /\ last - 1 < last /\ last - (last - 1) = 1
  BY <1>0
<1>5. \E f : SpeltFrom(key, last - (last - 1), f)
  BY <1>3, <1>4 DEF S
<1> QED
  BY <1>4, <1>5

LEMMA BytesOfKey ==
  ASSUME NEW key \in Seq(Nat), NEW at \in Nat, NEW w \in Nat, at + w <= Len(key)
  PROVE  /\ SubSeq(key, at + 1, at + w) \in Seq(Nat) /\ Len(SubSeq(key, at + 1, at + w)) = w
         /\ \A q \in 1..w : SubSeq(key, at + 1, at + w)[q] = key[at + q]
<1> DEFINE m == at + 1
           n == at + w
           s == SubSeq(key, m, n)
<1>0. Len(key) \in Nat
  BY LenProperties
<1>1. /\ m \in Int /\ n \in Int /\ n - m + 1 = w /\ (m <= n <=> w # 0)
      /\ (\A q \in m..n : q \in 1..Len(key)) /\ \A q \in 1..w : m + q - 1 = at + q
  BY <1>0
<1> HIDE DEF m, n
<1>2. \A q \in m..n : key[q] \in Nat
  BY <1>1, ElementOfSeq
<1>3. /\ s \in Seq(Nat) /\ Len(s) = IF m <= n THEN n - m + 1 ELSE 0
      /\ \A q \in 1..(n - m + 1) : s[q] = key[m + q - 1]
  BY <1>1, <1>2, SubSeqProperties
<1> HIDE DEF s
<1>4. Len(s) = w /\ \A q \in 1..w : s[q] = key[at + q]
  BY <1>1, <1>3
<1> QED
  BY <1>3, <1>4 DEF s, m, n

(* Where a sub-identifier's code begins, its width and its number are read.       *)
LEMMA CodesAreRead ==
  ASSUME NEW oid, HasKey(oid), NEW stage, Stages(oid, stage), NEW i \in 1..Len(oid),
         NEW key, key = OidKey(oid), NEW at, at = Len(stage[i - 1]) + 1
  PROVE  /\ at \in 1..Len(key) /\ key[at] \in Nat /\ key[at] >= 1
         /\ at + 1 + key[at] = Len(stage[i]) + 1 /\ Len(stage[i]) <= Len(key)
         /\ Number(SubSeq(key, at + 1, at + 1 + key[at] - 1)) = oid[i]
<1> DEFINE n == Len(oid)
           before == stage[i - 1]
           code == Coded(oid[i])
           upto == stage[i]
           w == Width(oid[i])
<1>0. /\ oid \in Seq(Nat) /\ n \in Nat /\ i - 1 \in 0..n /\ i \in 0..n /\ n \in 0..n /\ i <= n
      /\ oid[i] \in 0..MaxArc
  BY LenProperties DEF HasKey
<1>1. /\ before \in Seq(Byte) /\ upto = before \o code /\ key = stage[n] /\ key \in Seq(Byte)
  <2>1. \A j \in 0..n : stage[j] \in Seq(Byte)
    BY DEF Stages
  <2>2. stage[i] = stage[i - 1] \o Coded(oid[i]) /\ key = stage[n]
    BY DEF Stages
  <2> QED
    BY <1>0, <2>1, <2>2
<1>w. w \in Nat /\ w >= 1
  <2>1. w \in 1..MaxWidth /\ MaxWidth \in Nat
    BY <1>0, WidthFits, PowersGrow
  <2> QED
    BY <2>1
<1>2. code \in Seq(Byte) /\ Len(code) = w + 1 /\ code[1] = w
  BY <1>0, CodedBytes
<1>d. \A q \in 1..w : code[q + 1] = (oid[i] \div Powers[w - q]) % Base
  BY <1>0, CodedBytes
<1>3. Len(upto) <= Len(key) /\ \A p \in 1..Len(upto) : key[p] = upto[p]
  <2> HIDE DEF n
  <2>1. Len(stage[i]) <= Len(stage[n]) /\ \A p \in 1..Len(stage[i]) : stage[n][p] = stage[i][p]
    <3>1. i \in 0..Len(oid) /\ n \in 0..Len(oid)
      BY <1>0 DEF n
    <3> QED
      BY <1>0, <3>1, StagesNest
  <2> QED
    BY <1>1, <2>1
<1> HIDE DEF n, before, code, upto, w
<1>4. Len(before) \in Nat /\ Len(key) \in Nat /\ key \in Seq(Nat)
  BY <1>1, LenProperties, KeysAreBytes
<1> DEFINE b == Len(before)
           l == Len(key)
<1>5. /\ Len(upto) = b + (w + 1)
      /\ \A p \in 1..(b + (w + 1)) : upto[p] = IF p <= b THEN before[p] ELSE code[p - b]
  <2>1. /\ Len(before \o code) = Len(before) + Len(code)
        /\ \A p \in 1..(Len(before) + Len(code)) :
             (before \o code)[p] = IF p <= Len(before) THEN before[p] ELSE code[p - Len(before)]
    BY <1>1, <1>2, ConcatProperties
  <2> QED
    BY <1>1, <1>2, <2>1
<1>6. at = b + 1 /\ b \in Nat /\ l \in Nat /\ b + (w + 1) <= l
  BY <1>3, <1>4, <1>5 DEF before
<1> HIDE DEF b, l
<1>7. ASSUME NEW q \in 1..(w + 1)
      PROVE  key[b + q] = code[q] /\ b + q \in 1..l
  <2>1. b + q \in 1..(b + (w + 1)) /\ ~(b + q <= b) /\ (b + q) - b = q /\ b + q \in 1..l
    BY <1>w, <1>6
  <2>2. upto[b + q] = code[q]
    BY <1>5, <2>1
  <2>3. key[b + q] = upto[b + q]
    BY <1>3, <1>5, <2>1
  <2> QED
    BY <2>1, <2>2, <2>3
<1>8. at \in 1..l /\ key[at] = w /\ at + 1 + w = Len(upto) + 1
  <2>1. 1 \in 1..(w + 1)
    BY <1>w
  <2>2. key[b + 1] = code[1] /\ b + 1 \in 1..l
    BY <1>7, <2>1
  <2>3. at + 1 + w = b + (w + 1) + 1
    BY <1>w, <1>6
  <2> QED
    BY <1>2, <1>5, <1>6, <2>2, <2>3
<1> DEFINE bytes == SubSeq(key, at + 1, at + w)
<1>9. bytes \in Seq(Nat) /\ Len(bytes) = w /\ \A q \in 1..w : bytes[q] = key[at + q]
  <2>1. at \in Nat /\ at + w <= Len(key)
    BY <1>w, <1>6 DEF l
  <2> QED
    BY <1>w, <1>4, <2>1, BytesOfKey
<1> HIDE DEF bytes
<1>10. ASSUME NEW q \in 1..w
       PROVE  bytes[q] = (oid[i] \div Powers[w - q]) % Base
  <2>1. q + 1 \in 1..(w + 1) /\ at + q = b + (q + 1)
    BY <1>w, <1>6
  <2>2. key[b + (q + 1)] = code[q + 1]
    BY <1>7, <2>1
  <2> QED
    BY <1>d, <1>9, <2>1, <2>2
<1>11. Number(bytes) = oid[i]
  BY <1>0, <1>9, <1>10, BytesCount DEF w
<1>12. at + 1 + key[at] - 1 = at + w
  BY <1>w, <1>6, <1>8
<1>13. Number(SubSeq(key, at + 1, at + 1 + key[at] - 1)) = oid[i]
  BY <1>11, <1>12 DEF bytes
<1> QED
  BY <1>w, <1>3, <1>8, <1>13 DEF upto, l

(* A key leads back to the OID it was made of.                                   *)
LEMMA KeysLeadBack ==
  ASSUME NEW oid, HasKey(oid)
  PROVE  OidFromKey(OidKey(oid)) = oid
<1> DEFINE key == OidKey(oid)
           n == Len(oid)
<1>0. oid \in Seq(Nat) /\ n \in Nat /\ n >= 1
  BY LenProperties, EmptySeq DEF HasKey
<1>1. key \in Seq(Nat) /\ key # <<>> /\ Len(key) \in Nat
  BY KeysAreBytes, LenProperties
<1>2. PICK stage : Stages(oid, stage)
  BY KeysHaveStages
<1>3. /\ stage[n] = key /\ stage[0] = <<>>
  BY <1>2 DEF Stages
<1>4. \A i \in 0..n : Len(stage[i]) \in Nat
  <2>1. \A i \in 0..n : stage[i] \in Seq(Byte)
    BY <1>2 DEF Stages
  <2> QED
    BY <2>1, LenProperties
<1>5. PICK f : /\ SpeltFrom(key, 1, f)
               /\ OidFromKey(key) = IF f[1] = Refused THEN Refused ELSE f[1][1]
  <2> HIDE DEF key
  <2>1. \E f : f = [at \in 1..(Len(key) + 1) |-> Spelt(key, f, at)]
    BY <1>1, SpellingExists DEF SpeltFrom
  <2> DEFINE from == CHOOSE f : f = [at \in 1..(Len(key) + 1) |-> Spelt(key, f, at)]
  <2>2. SpeltFrom(key, 1, from)
    BY <2>1 DEF SpeltFrom
  <2>3. OidFromKey(key) = IF key = <<>> \/ from[1] = Refused THEN Refused ELSE from[1][1]
    BY DEF OidFromKey, Spelt
  <2> HIDE DEF from
  <2> QED
    BY <1>1, <2>2, <2>3
<1>6. \A at \in 1..(Len(key) + 1) : f[at] = Spelt(key, f, at)
  BY <1>5 DEF SpeltFrom
<1> HIDE DEF key, n
<1> DEFINE rest(i) == SubSeq(oid, i + 1, n)
           S == {d \in Nat : d <= n => f[Len(stage[n - d]) + 1] = <<rest(n - d)>>}
<1>7. ASSUME NEW i \in 0..n
      PROVE  /\ rest(i) \in Seq(Nat) /\ Len(rest(i)) = n - i
             /\ \A j \in 1..(n - i) : rest(i)[j] = oid[i + j]
  <2>1. i + 1 \in 1..(n + 1) /\ n \in 0..n
    BY <1>0
  <2>2. rest(i) \in Seq(Nat)
    BY <1>0, <2>1, SubSeqProperties DEF n
  <2>3. Len(rest(i)) = IF i + 1 <= n THEN n - (i + 1) + 1 ELSE 0
    BY <1>0, <2>1, SubSeqProperties DEF n
  <2>4. \A j \in 1..(n - (i + 1) + 1) : rest(i)[j] = oid[i + 1 + j - 1]
    BY <1>0, <2>1, SubSeqProperties DEF n
  <2>5. n - (i + 1) + 1 = n - i /\ \A j \in 1..(n - i) : i + 1 + j - 1 = i + j
    BY <1>0
  <2> HIDE DEF rest
  <2>6. Len(rest(i)) = n - i
    BY <1>0, <2>3
  <2> QED
    BY <2>2, <2>4, <2>5, <2>6
<1>8. 0 \in S
  <2>1. n - 0 = n /\ rest(n) = <<>>
    <3>1. n \in 0..n /\ n - n = 0 /\ n - 0 = n
      BY <1>0
    <3>2. rest(n) \in Seq(Nat) /\ Len(rest(n)) = 0
      BY <1>7, <3>1
    <3> HIDE DEF rest
    <3> QED
      BY <3>1, <3>2, EmptySeq
  <2>2. f[Len(key) + 1] = <<<<>>>>
    <3>1. Len(key) + 1 \in 1..(Len(key) + 1) /\ Len(key) + 1 > Len(key)
      BY <1>1
    <3>2. f[Len(key) + 1] = Spelt(key, f, Len(key) + 1)
      BY <1>6, <3>1
    <3> QED
      BY <3>1, <3>2 DEF Spelt
  <2> HIDE DEF rest
  <2> QED
    BY <1>3, <2>1, <2>2
<1>9. ASSUME NEW d \in Nat, d \in S PROVE d + 1 \in S
  <2> SUFFICES ASSUME d + 1 <= n
               PROVE  f[Len(stage[n - (d + 1)]) + 1] = <<rest(n - (d + 1))>>
    OBVIOUS
  <2> DEFINE i == n - d
             at == Len(stage[i - 1]) + 1
             next == at + 1 + key[at]
  <2>1. i \in 1..n /\ i \in 0..n /\ i - 1 \in 0..n /\ n - (d + 1) = i - 1 /\ d <= n
    BY <1>0
  <2>2. f[Len(stage[i]) + 1] = <<rest(i)>>
    BY <1>9, <2>1
  <2> HIDE DEF i, S
  <2>3. /\ at \in 1..Len(key) /\ key[at] \in Nat /\ key[at] >= 1
        /\ next = Len(stage[i]) + 1 /\ Len(stage[i]) <= Len(key)
        /\ Number(SubSeq(key, at + 1, next - 1)) = oid[i]
    <3>1. key = OidKey(oid) /\ i \in 1..Len(oid)
      BY <2>1 DEF key, n
    <3> HIDE DEF at
    <3>2. at = Len(stage[i - 1]) + 1
      BY DEF at
    <3> QED
      BY <1>2, <3>1, <3>2, CodesAreRead, SMTT(30)
  <2> HIDE DEF at, next
  <2>4. f[at] = Spelt(key, f, at) /\ ~(at > Len(key))
    BY <1>1, <1>6, <2>3
  <2>5. ~(key[at] < 1) /\ ~(next > Len(key) + 1)
    BY <1>1, <1>4, <2>1, <2>3, SMTT(30)
  <2>6. f[next] = <<rest(i)>> /\ f[next] # Refused /\ f[next][1] = rest(i)
    <3> DEFINE r == rest(i)
    <3>1. f[next] = <<r>>
      BY <2>2, <2>3
    <3> HIDE DEF r, rest
    <3>2. <<r>> # <<>> /\ <<r>>[1] = r
      OBVIOUS
    <3> QED
      BY <3>1, <3>2 DEF Refused, r
  <2>7. f[at] = << <<Number(SubSeq(key, at + 1, next - 1))>> \o f[next][1] >>
    BY <2>4, <2>5, <2>6 DEF Spelt, next
  <2>8. <<oid[i]>> \o rest(i) = rest(i - 1)
    <3>1. /\ rest(i) \in Seq(Nat) /\ Len(rest(i)) = n - i
          /\ \A j \in 1..(n - i) : rest(i)[j] = oid[i + j]
      BY <1>7, <2>1
    <3>2. /\ rest(i - 1) \in Seq(Nat) /\ Len(rest(i - 1)) = n - (i - 1)
          /\ \A j \in 1..(n - (i - 1)) : rest(i - 1)[j] = oid[(i - 1) + j]
      BY <1>7, <2>1
    <3> DEFINE a == rest(i)
               b == rest(i - 1)
               c == <<oid[i]>>
    <3>3. a \in Seq(Nat) /\ b \in Seq(Nat) /\ Len(a) = n - i /\ Len(b) = n - (i - 1)
      BY <3>1, <3>2
    <3>4. (\A j \in 1..(n - i) : a[j] = oid[i + j]) /\ \A j \in 1..(n - (i - 1)) : b[j] = oid[(i - 1) + j]
      BY <3>1, <3>2
    <3>5. c \in Seq(Nat) /\ Len(c) = 1 /\ c[1] = oid[i]
      <4>1. oid[i] \in Nat
        BY <1>0, <2>1, ElementOfSeq DEF n
      <4> QED
        BY <4>1
    <3> HIDE DEF a, b, c, rest
    <3>6. /\ c \o a \in Seq(Nat) /\ Len(c \o a) = Len(c) + Len(a)
          /\ \A j \in 1..(Len(c) + Len(a)) : (c \o a)[j] = IF j <= Len(c) THEN c[j] ELSE a[j - Len(c)]
      BY <3>3, <3>5, ConcatProperties
    <3>7. Len(c \o a) = Len(b)
      BY <1>0, <2>1, <3>3, <3>5, <3>6
    <3>8. ASSUME NEW j \in 1..Len(b)
          PROVE  (c \o a)[j] = b[j]
      <4>1. j \in 1..(n - (i - 1)) /\ j \in 1..(Len(c) + Len(a)) /\ (i - 1) + j \in 1..n
        BY <1>0, <2>1, <3>3, <3>5
      <4>2. b[j] = oid[(i - 1) + j]
        BY <3>4, <4>1
      <4>3. CASE j = 1
        <5>1. (i - 1) + j = i /\ j <= Len(c)
          BY <2>1, <3>5, <4>3
        <5> QED
          BY <3>5, <3>6, <4>1, <4>2, <4>3, <5>1
      <4>4. CASE j # 1
        <5>1. j - 1 \in 1..(n - i) /\ i + (j - 1) = (i - 1) + j /\ ~(j <= Len(c)) /\ j - Len(c) = j - 1
          BY <1>0, <2>1, <3>5, <4>1, <4>4
        <5>2. a[j - 1] = oid[i + (j - 1)]
          BY <3>4, <5>1
        <5> QED
          BY <3>6, <4>1, <4>2, <5>1, <5>2
      <4> QED
        BY <4>3, <4>4
    <3>9. c \o a = b
      BY <3>3, <3>6, <3>7, <3>8, SeqEqual
    <3> QED
      BY <3>9 DEF a, b, c
  <2> HIDE DEF rest
  <2>9. f[at] = <<rest(i - 1)>>
    BY <2>3, <2>6, <2>7, <2>8
  <2> QED
    BY <2>1, <2>9 DEF at
<1> HIDE DEF S
<1>10. Nat \subseteq S
  BY <1>8, <1>9, SetInduction
<1>11. f[1] = <<rest(0)>>
  <2>1. n <= n /\ n - n = 0 /\ Len(stage[n - n]) + 1 = 1
    BY <1>0, <1>3
  <2>2. f[Len(stage[n - n]) + 1] = <<rest(n - n)>>
    BY <1>0, <1>10, <2>1 DEF S
  <2> QED
    BY <2>1, <2>2
<1>12. rest(0) = oid
  <2>1. 0 \in 0..n /\ n - 0 = n /\ \A j \in 1..n : 0 + j = j
    BY <1>0
  <2>2. /\ rest(0) \in Seq(Nat) /\ Len(rest(0)) = n - 0
        /\ \A j \in 1..(n - 0) : rest(0)[j] = oid[0 + j]
    BY <1>7, <2>1
  <2> DEFINE r == rest(0)
  <2> HIDE DEF r
  <2>3. r \in Seq(Nat) /\ Len(r) = Len(oid) /\ \A j \in 1..Len(r) : r[j] = oid[j]
    BY <2>1, <2>2 DEF r, n
  <2>4. r = oid
    BY <1>0, <2>3, SeqEqual
  <2> QED
    BY <2>4 DEF r
<1> HIDE DEF rest
<1>13. f[1] # Refused /\ f[1][1] = oid
  BY <1>11, <1>12 DEF Refused
<1> QED
  BY <1>5, <1>13 DEF key
-------------------------------------------------------------------------------
(* Databases. *)

LEMMA FirstIsThere ==
  ASSUME NEW names \in SUBSET Seq(Nat), IsFiniteSet(names), names # {}
  PROVE  \E x \in names : \A y \in names : y = x \/ Before(x, y)
<1> DEFINE ranks == {RankIn(names, x) : x \in names}
<1>1. \A x \in names : RankIn(names, x) \in Nat
  <2>1. Cardinality(names) \in Nat
    BY FS_CardinalityType
  <2> QED
    BY <2>1, RanksAreApart
<1>2. ranks \in SUBSET Nat /\ ranks # {}
  BY <1>1
<1>3. PICK r \in ranks : \A other \in ranks : r <= other
  <2> HIDE DEF ranks
  <2> QED
    BY <1>2, LeastNumber
<1>4. PICK x \in names : r = RankIn(names, x)
  BY <1>3
<1>5. ASSUME NEW y \in names, y # x
      PROVE  Before(x, y)
  <2>1. CASE Before(y, x)
    <3>1. RankIn(names, y) + 1 <= RankIn(names, x)
      BY <2>1, RanksAscend
    <3>2. RankIn(names, x) <= RankIn(names, y)
      BY <1>3, <1>4
    <3> QED
      BY <1>1, <3>1, <3>2
  <2> QED
    BY <1>5, <2>1, BeforeIsTotal
<1> QED
  BY <1>5

(* Rows asked for by their keys are the rows asked for by their OIDs.            *)
LEMMA KeysAnswer ==
  ASSUME NEW oids, IsFiniteSet(oids), \A x \in oids : HasKey(x), NEW oid \in oids,
         NEW keys, keys = [x \in oids |-> OidKey(x)]
  PROVE  /\ Subtree(oids, keys, oid) = {x \in oids : IsPrefix(oid, x)}
         /\ \A x \in oids : Before(oid, x) =>
              /\ NextNode(oids, keys, keys[oid]) # Refused
              /\ ~Before(x, NextNode(oids, keys, keys[oid]))
              /\ Before(oid, NextNode(oids, keys, keys[oid]))
<1>0. \A x \in oids : keys[x] = OidKey(x)
  OBVIOUS
<1>1. oids \in SUBSET Seq(Nat) /\ \A x \in oids : x # <<>>
  BY DEF HasKey
<1>2. \A x, y \in oids : Before(keys[x], keys[y]) <=> Before(x, y)
  BY <1>0, KeysKeepOrder
<1>3. ASSUME NEW x \in oids
      PROVE  (~Before(keys[x], OidKey(oid)) /\ Before(keys[x], SubtreeBound(OidKey(oid))))
               <=> IsPrefix(oid, x)
  <2> DEFINE low == OidKey(oid)
             key == OidKey(x)
  <2>1. low \in Seq(Byte) /\ low # <<>> /\ low[1] < Base - 1 /\ key \in Seq(Byte)
    BY KeysAreBytes
  <2>2. IsPrefix(low, key) <=> IsPrefix(oid, x)
    BY KeysKeepPrefixes
  <2> HIDE DEF low, key
  <2>3. (~Before(key, low) /\ Before(key, SubtreeBound(low))) <=> IsPrefix(low, key)
    BY <2>1, BoundsPrefixes
  <2> QED
    BY <1>0, <2>2, <2>3 DEF low, key
<1>4. Subtree(oids, keys, oid) = {x \in oids : IsPrefix(oid, x)}
  BY <1>3 DEF Subtree
<1>5. ASSUME NEW x \in oids, Before(oid, x)
      PROVE  /\ NextNode(oids, keys, keys[oid]) # Refused
             /\ ~Before(x, NextNode(oids, keys, keys[oid]))
             /\ Before(oid, NextNode(oids, keys, keys[oid]))
  <2> DEFINE later == {y \in oids : Before(keys[oid], keys[y])}
             next == LeastBy(keys, later)
  <2>1. x \in later /\ later \subseteq oids /\ \A y \in later : Before(oid, y)
    BY <1>2, <1>5
  <2>2. NextNode(oids, keys, keys[oid]) = next
    <3>1. later # {}
      BY <2>1
    <3> QED
      BY <3>1 DEF NextNode
  <2>3. \E y \in later : \A z \in later : z = y \/ Before(keys[y], keys[z])
    <3>1. later \in SUBSET Seq(Nat) /\ IsFiniteSet(later) /\ later # {}
      BY <1>1, <2>1, FS_Subset
    <3> HIDE DEF later
    <3>2. PICK y \in later : \A z \in later : z = y \/ Before(y, z)
      BY <3>1, FirstIsThere
    <3> QED
      BY <1>2, <2>1, <3>2
  <2> HIDE DEF later
  <2>4. next \in later /\ \A z \in later : z = next \/ Before(keys[next], keys[z])
    BY <2>3 DEF LeastBy
  <2> HIDE DEF next
  <2>5. next \in oids /\ Before(oid, next) /\ next # <<>>
    BY <1>1, <2>1, <2>4
  <2>6. ~Before(x, next)
    <3>1. CASE x = next
      BY <1>1, <3>1, BeforeIsStrict
    <3>2. CASE Before(next, x)
      <4>1. next \in Seq(Nat) /\ x \in Seq(Nat)
        BY <1>1, <2>5
      <4> QED
        BY <3>2, <4>1, BeforeIsTransitive, BeforeIsStrict
    <3>3. x = next \/ Before(next, x)
      BY <1>2, <2>1, <2>4, <2>5
    <3> QED
      BY <3>1, <3>2, <3>3
  <2> QED
    BY <2>2, <2>5, <2>6 DEF Refused
<1> QED
  BY <1>4, <1>5

LEMMA RowsAreNodes ==
  ASSUME NEW m, NEW doc \in Document
  PROVE  /\ IsFiniteSet(NodeRows(m, doc))
         /\ \A row \in NodeRows(m, doc) :
              row.key = OidKey(row.oid) /\ row.oid \in Seq(Nat) /\ row.oid # <<>> /\ row.module = m
<1> DEFINE nodes == {s \in OfClass(doc, NodeClasses) : s.oid # <<>>}
           oids == {s.oid : s \in nodes}
           row(oid) == [key |-> OidKey(oid), oid |-> oid, module |-> m,
                        name |-> Max({s.name : s \in {s \in nodes : s.oid = oid}})]
           rows == {row(oid) : oid \in oids}
<1>1. NodeRows(m, doc) = rows
  BY DEF NodeRows
<1>2. IsFiniteSet(nodes) /\ nodes \subseteq Symbol
  <2>1. nodes \subseteq Range(doc.symbols)
    BY DEF OfClass
  <2> HIDE DEF nodes
  <2> QED
    BY <2>1, SymbolsAreFinite, FS_Subset
<1>3. \A s \in nodes : s.oid \in Seq(Nat) /\ s.oid # <<>>
  BY <1>2 DEF Symbol
<1> HIDE DEF nodes
<1>4. IsFiniteSet(oids)
  <2> DEFINE f == [s \in nodes |-> s.oid]
  <2>1. f \in Surjection(nodes, oids)
    BY DEF Surjection
  <2> HIDE DEF f, oids
  <2> QED
    BY <1>2, <2>1, FS_Surjection
<1>5. \A oid \in oids : oid \in Seq(Nat) /\ oid # <<>>
  BY <1>3
<1> HIDE DEF oids
<1>6. \A oid \in oids : row(oid).key = OidKey(oid) /\ row(oid).oid = oid /\ row(oid).module = m
  OBVIOUS
<1> HIDE DEF row
<1>7. IsFiniteSet(rows)
  <2> DEFINE f == [oid \in oids |-> row(oid)]
  <2>1. f \in Surjection(oids, rows)
    BY DEF Surjection
  <2> HIDE DEF f, rows
  <2> QED
    BY <1>4, <2>1, FS_Surjection
<1>8. \A r \in rows : r.key = OidKey(r.oid) /\ r.oid \in Seq(Nat) /\ r.oid # <<>> /\ r.module = m
  BY <1>5, <1>6
<1> QED
  BY <1>1, <1>7, <1>8

(* A database is empty, or holds the rows of one corpus, each with a key, and an  *)
(* index that names its modules; one that a kill within a transaction left has    *)
(* some of them.                                                                  *)
RowsOf(D) == UNION {NodeRows(m, D[m]) : m \in DOMAIN D}
Keyed(rows) == \A row \in rows : row.key # Refused

Holds(D) ==
  /\ db.nodes = RowsOf(D) /\ Keyed(db.nodes)
  /\ db.modules = {ModuleRow(m, D[m], Cardinality(NodeRows(m, D[m]))) : m \in DOMAIN D}
  /\ \A oid \in DOMAIN db.index : db.index[oid] \in DOMAIN D

NodesOf(nodes) ==
  nodes = {} \/ \E D \in Corpora \cup {Nothing} : nodes = RowsOf(D) /\ Keyed(nodes)

DbInv ==
  /\ db.at \in Range(ConnectSteps) \cup {"whole", "torn", "damaged"}
  /\ db.at \notin {"whole", "torn"} => db = [NoDatabase EXCEPT !.at = db.at]
  /\ db.at = "whole" => \E D \in Corpora \cup {Nothing} : Holds(D)
  /\ NodesOf(db.nodes)

LEMMA StepsOfConnect == Range(ConnectSteps) = {"absent", "blank", "marked", "partial", "tables"}
<1>1. /\ DOMAIN ConnectSteps = {"unlink", "create", "application", "version", "tables"}
      /\ ConnectSteps["unlink"] = "absent" /\ ConnectSteps["create"] = "blank"
      /\ ConnectSteps["application"] = "marked" /\ ConnectSteps["version"] = "partial"
      /\ ConnectSteps["tables"] = "tables"
  BY DEF ConnectSteps
<1> HIDE DEF ConnectSteps
<1> QED
  BY <1>1 DEF Range

(* An empty database is one, at whatever step. *)
LEMMA EmptyIsDb ==
  ASSUME NEW at \in Range(ConnectSteps) \cup {"damaged"}, db' = [NoDatabase EXCEPT !.at = at]
  PROVE  DbInv'
<1>1. db'.at = at /\ db'.nodes = {}
  BY DEF NoDatabase
<1>2. at \notin {"whole", "torn"}
  BY StepsOfConnect
<1> QED
  BY <1>1, <1>2 DEF DbInv, NodesOf

(* What a build writes is what a database holds. *)
LEMMA FilledHolds ==
  ASSUME FoldInv, Encodable
  PROVE  /\ Filled.at = "whole" /\ Filled.nodes = RowsOf(docs) /\ Filled.index = Owner
         /\ Filled.modules = {ModuleRow(m, docs[m], Cardinality(NodeRows(m, docs[m]))) : m \in DOMAIN docs}
         /\ Keyed(Filled.nodes) /\ NodesOf(Filled.nodes)
         /\ \A oid \in DOMAIN Owner : Owner[oid] \in DOMAIN docs
<1>1. docs \in Corpora \cup {Nothing}
  BY DEF FoldInv
<1>2. Filled.at = "whole" /\ Filled.nodes = RowsOf(docs) /\ Filled.index = Owner
      /\ Filled.modules = {ModuleRow(m, docs[m], Cardinality(NodeRows(m, docs[m]))) : m \in DOMAIN docs}
  BY DEF Filled, Rows, RowsOf
<1>3. Keyed(RowsOf(docs))
  BY DEF Encodable, Rows, RowsOf, Keyed
<1>4. \A oid \in DOMAIN Owner : Owner[oid] \in DOMAIN docs
  BY OwnedAreOids DEF Owner
<1> QED
  BY <1>1, <1>2, <1>3, <1>4 DEF NodesOf

LEMMA LandedIsDb ==
  ASSUME NEW found, NodesOf(found.nodes), db' \in Landed(found)
  PROVE  DbInv'
<1>1. db'.at = "torn" /\ (db'.nodes = {} \/ db'.nodes = found.nodes)
  BY DEF Landed
<1>2. NodesOf(db'.nodes)
  BY <1>1 DEF NodesOf
<1> QED
  BY <1>1, <1>2 DEF DbInv, NodesOf

LEMMA DbGoesOn ==
  ASSUME FoldInv, DbInv, [Next]_vars
  PROVE  DbInv'
<1>1. CASE UNCHANGED db
  BY <1>1 DEF DbInv, Holds, NodesOf
<1>2. CASE Connect
  <2>1. PICK at \in Range(ConnectSteps) : db' = [NoDatabase EXCEPT !.at = at]
    BY <1>2 DEF Connect, Range
  <2> QED
    BY <2>1, EmptyIsDb
<1>3. CASE Commit
  <2>1. db' = Filled /\ Encodable /\ docs' = docs
    BY <1>3 DEF Commit
  <2>2. docs \in Corpora \cup {Nothing}
    BY DEF FoldInv
  <2>3. Holds(docs)'
    <3>1. /\ db'.nodes = RowsOf(docs) /\ Keyed(db'.nodes)
          /\ db'.modules = {ModuleRow(m, docs[m], Cardinality(NodeRows(m, docs[m]))) : m \in DOMAIN docs}
          /\ \A oid \in DOMAIN db'.index : db'.index[oid] \in DOMAIN docs
      BY <2>1, FilledHolds
    <3> QED
      BY <2>1, <3>1 DEF Holds, RowsOf, Keyed
  <2>4. (\E D \in Corpora \cup {Nothing} : Holds(D))'
    BY <2>1, <2>2, <2>3
  <2>5. db'.at = "whole" /\ NodesOf(db'.nodes)
    BY <2>1, FilledHolds
  <2> QED
    BY <2>4, <2>5 DEF DbInv, NodesOf
<1>4. CASE Tear
  <2>1. CASE db' = [NoDatabase EXCEPT !.at = "damaged"]
    BY <2>1, EmptyIsDb
  <2>2. CASE Encodable /\ db' \in Landed(Filled)
    BY <2>2, FilledHolds, LandedIsDb
  <2>3. CASE db' \in Landed(db)
    <3>1. NodesOf(db.nodes)
      BY DEF DbInv
    <3> QED
      BY <2>3, <3>1, LandedIsDb
  <2> QED
    BY <1>4, <2>1, <2>2, <2>3 DEF Tear
<1>5. CASE Build \/ (\E m \in Module : Read(m)) \/ ReadAll \/ WriteIndex \/ Freeze
           \/ CommitFails \/ Vacuum \/ WriteSite \/ Kill
  BY <1>1, <1>5 DEF Build, Read, ReadAll, WriteIndex, Freeze, CommitFails, Vacuum, WriteSite, Kill, written
<1>6. CASE UNCHANGED vars
  BY <1>1, <1>6 DEF vars
<1> QED
  BY <1>2, <1>3, <1>4, <1>5, <1>6 DEF Next

LEMMA DbBegins == Init => DbInv
<1> SUFFICES ASSUME Init PROVE DbInv
  OBVIOUS
<1>1. db = NoDatabase /\ db.at = "absent" /\ NoDatabase = [NoDatabase EXCEPT !.at = "absent"]
      /\ db.nodes = {}
  BY DEF Init, NoDatabase
<1> QED
  BY <1>1, StepsOfConnect DEF DbInv, NodesOf

(* A module's rows are those that name it, few enough to count, and each has the  *)
(* key of its OID.                                                                *)
LEMMA RowsHaveKeys ==
  ASSUME NEW D \in Corpora \cup {Nothing}, \A row \in RowsOf(D) : row.key # Refused
  PROVE  /\ IsFiniteSet(RowsOf(D))
         /\ \A row \in RowsOf(D) : HasKey(row.oid) /\ row.key = OidKey(row.oid) /\ row.module \in DOMAIN D
         /\ \A m \in DOMAIN D : {row \in RowsOf(D) : row.module = m} = NodeRows(m, D[m])
<1>1. DOMAIN D \subseteq Module /\ IsFiniteSet(DOMAIN D) /\ \A m \in DOMAIN D : D[m] \in Document
  BY CorporaAreDocuments DEF DocsOK
<1>2. IsFiniteSet(RowsOf(D))
  <2> DEFINE f == [m \in DOMAIN D |-> NodeRows(m, D[m])]
             parts == {NodeRows(m, D[m]) : m \in DOMAIN D}
  <2>1. f \in Surjection(DOMAIN D, parts)
    BY DEF Surjection
  <2>2. \A T \in parts : IsFiniteSet(T)
    BY <1>1, RowsAreNodes
  <2>3. RowsOf(D) = UNION parts
    BY DEF RowsOf
  <2> HIDE DEF f, parts
  <2>4. IsFiniteSet(parts)
    BY <1>1, <2>1, FS_Surjection
  <2> QED
    BY <2>2, <2>3, <2>4, FS_UNION
<1>3. ASSUME NEW m \in DOMAIN D, NEW row \in NodeRows(m, D[m])
      PROVE  row.key = OidKey(row.oid) /\ row.oid \in Seq(Nat) /\ row.oid # <<>> /\ row.module = m
  BY <1>1, RowsAreNodes
<1>4. ASSUME NEW row \in RowsOf(D)
      PROVE  HasKey(row.oid) /\ row.key = OidKey(row.oid) /\ row.module \in DOMAIN D
  <2>1. PICK m \in DOMAIN D : row \in NodeRows(m, D[m])
    BY DEF RowsOf
  <2> DEFINE oid == row.oid
  <2>2. row.key = OidKey(oid) /\ oid \in Seq(Nat) /\ oid # <<>> /\ row.module = m
    BY <1>3, <2>1
  <2>3. OidKey(oid) # Refused
    BY <2>2
  <2> HIDE DEF oid
  <2>4. \A i \in DOMAIN oid : oid[i] \in 0..MaxArc
    BY <2>3 DEF OidKey
  <2>5. HasKey(oid)
    BY <2>2, <2>4, LenProperties DEF HasKey
  <2> QED
    BY <2>2, <2>5 DEF oid
<1>5. ASSUME NEW m \in DOMAIN D
      PROVE  {row \in RowsOf(D) : row.module = m} = NodeRows(m, D[m])
  <2>1. \A row \in NodeRows(m, D[m]) : row \in RowsOf(D) /\ row.module = m
    BY <1>3 DEF RowsOf
  <2>2. ASSUME NEW row \in RowsOf(D), row.module = m
        PROVE  row \in NodeRows(m, D[m])
    BY <1>3, <2>2 DEF RowsOf
  <2> QED
    BY <2>1, <2>2
<1> QED
  BY <1>2, <1>4, <1>5

LEMMA RowsOfADatabase ==
  ASSUME DbInv
  PROVE  IsFiniteSet(db.nodes) /\ \A row \in db.nodes : HasKey(row.oid) /\ row.key = OidKey(row.oid)
<1>1. CASE db.nodes = {}
  BY <1>1, FS_EmptySet
<1>2. CASE db.nodes # {}
  <2>1. PICK D \in Corpora \cup {Nothing} : db.nodes = RowsOf(D) /\ Keyed(db.nodes)
    BY <1>2 DEF DbInv, NodesOf
  <2>2. \A row \in RowsOf(D) : row.key # Refused
    BY <2>1 DEF Keyed
  <2> QED
    BY <2>1, <2>2, RowsHaveKeys
<1> QED
  BY <1>1, <1>2

(* Whatever the sub-identifiers and however many, asked by key alone a database   *)
(* gives the next OID and the OIDs under one as the numbers say.                 *)
THEOREM WalksAreInOrder == Spec => []WalkInOrder
<1>1. DbInv => WalkInOrder
  <2> SUFFICES ASSUME DbInv PROVE WalkInOrder
    OBVIOUS
  <2> DEFINE oids == {row.oid : row \in db.nodes}
             keys == [oid \in oids |-> OidKey(oid)]
  <2>1. IsFiniteSet(oids) /\ \A x \in oids : HasKey(x)
    <3> DEFINE f == [row \in db.nodes |-> row.oid]
    <3>1. f \in Surjection(db.nodes, oids)
      BY DEF Surjection
    <3>2. \A x \in oids : HasKey(x)
      BY RowsOfADatabase
    <3> HIDE DEF f, oids
    <3>3. IsFiniteSet(db.nodes)
      BY RowsOfADatabase
    <3> QED
      BY <3>1, <3>2, <3>3, FS_Surjection
  <2>2. keys = [x \in oids |-> OidKey(x)]
    OBVIOUS
  <2> HIDE DEF oids, keys
  <2>3. ASSUME NEW oid \in oids
        PROVE  /\ Subtree(oids, keys, oid) = {x \in oids : IsPrefix(oid, x)}
               /\ \A x \in oids : Before(oid, x) =>
                    /\ NextNode(oids, keys, keys[oid]) # Refused
                    /\ ~Before(x, NextNode(oids, keys, keys[oid]))
                    /\ Before(oid, NextNode(oids, keys, keys[oid]))
    BY <2>1, <2>2, KeysAnswer
  <2> QED
    BY <2>3 DEF WalkInOrder, oids, keys
<1>2. FoldInv /\ [Next]_vars => FoldInv'
  BY FoldsGoOn
<1>3. FoldInv /\ DbInv /\ [Next]_vars => DbInv'
  BY DbGoesOn
<1> QED
  BY <1>1, <1>2, <1>3, FoldsBegin, DbBegins, PTL DEF Spec

(* Wherever a build is killed but within a transaction, a database that opens has *)
(* no rows or those of one whole build, counted right and with no module unknown, *)
(* is told unreadable only where a table is missing, and each key of it leads     *)
(* back to the OID it was made of.                                                *)
THEOREM DatabasesAreSound == Spec => []DbSound
<1>1. DbInv => DbSound
  <2> SUFFICES ASSUME DbInv, Opens, ~Interrupted PROVE DbSound
    BY DEF DbSound
  <2>1. db.at \in {"partial", "tables", "whole"}
    BY DEF Opens, Interrupted
  <2>2. \A row \in db.nodes : HasKey(row.oid) /\ row.key = OidKey(row.oid)
    BY RowsOfADatabase
  <2>3. \A row \in db.nodes : OidFromKey(row.key) = row.oid
    BY <2>2, KeysLeadBack
  <2> DEFINE names == {row.name : row \in db.modules}
  <2>4. ASSUME NEW a \in db.nodes, NEW b \in db.nodes, Before(a.key, b.key)
        PROVE  ~Before(b.oid, a.oid)
    <3> DEFINE x == a.oid
               y == b.oid
    <3>1. HasKey(x) /\ HasKey(y) /\ Before(OidKey(x), OidKey(y))
      BY <2>2, <2>4
    <3> HIDE DEF x, y
    <3>2. Before(x, y) /\ x \in Seq(Nat) /\ y \in Seq(Nat)
      BY <3>1, KeysKeepOrder DEF HasKey
    <3>3. ~Before(y, x)
      BY <3>2, BeforeIsTransitive, BeforeIsStrict
    <3> QED
      BY <3>3 DEF x, y
  <2>5. /\ \A row \in db.nodes : row.module \in names
        /\ \A oid \in DOMAIN db.index : db.index[oid] \in names
        /\ \A m \in db.modules : m.nodes = Cardinality({row \in db.nodes : row.module = m.name})
    <3>1. CASE db.at = "whole"
      <4>1. PICK D \in Corpora \cup {Nothing} : Holds(D)
        BY <3>1 DEF DbInv
      <4>2. /\ db.nodes = RowsOf(D)
            /\ db.modules = {ModuleRow(m, D[m], Cardinality(NodeRows(m, D[m]))) : m \in DOMAIN D}
            /\ \A row \in RowsOf(D) : row.key # Refused
            /\ \A oid \in DOMAIN db.index : db.index[oid] \in DOMAIN D
        BY <4>1 DEF Holds, Keyed
      <4>3. \A m \in DOMAIN D : LET r == ModuleRow(m, D[m], Cardinality(NodeRows(m, D[m]))) IN
              r.name = m /\ r.nodes = Cardinality(NodeRows(m, D[m]))
        BY DEF ModuleRow
      <4>4. names = DOMAIN D
        <5>1. \A r \in db.modules : r.name \in DOMAIN D
          BY <4>2, <4>3
        <5>2. ASSUME NEW m \in DOMAIN D
              PROVE  \E r \in db.modules : r.name = m
          <6> DEFINE r == ModuleRow(m, D[m], Cardinality(NodeRows(m, D[m])))
          <6>1. r \in db.modules
            BY <4>2
          <6>2. r.name = m
            BY <4>3
          <6> QED
            BY <6>1, <6>2
        <5> QED
          BY <5>1, <5>2
      <4>5. \A row \in RowsOf(D) : row.module \in DOMAIN D
        BY <4>2, RowsHaveKeys
      <4>6. \A m \in DOMAIN D : {row \in RowsOf(D) : row.module = m} = NodeRows(m, D[m])
        BY <4>2, RowsHaveKeys
      <4> HIDE DEF names
      <4>7. ASSUME NEW r \in db.modules
            PROVE  r.nodes = Cardinality({row \in db.nodes : row.module = r.name})
        <5>1. PICK m \in DOMAIN D : r = ModuleRow(m, D[m], Cardinality(NodeRows(m, D[m])))
          BY <4>2
        <5>2. r.name = m /\ r.nodes = Cardinality(NodeRows(m, D[m]))
          BY <4>3, <5>1
        <5>3. {row \in db.nodes : row.module = r.name} = NodeRows(m, D[m])
          BY <4>2, <4>6, <5>2
        <5> QED
          BY <5>2, <5>3
      <4> QED
        BY <4>2, <4>4, <4>5, <4>7
    <3>2. CASE db.at # "whole"
      <4>1. db.nodes = {} /\ db.modules = {} /\ db.index = Nothing
        BY <2>1, <3>2 DEF DbInv, NoDatabase
      <4>2. DOMAIN db.index = {}
        BY <4>1 DEF Nothing
      <4> QED
        BY <4>1, <4>2
    <3> QED
      BY <3>1, <3>2
  <2>6. Validate \subseteq {"unreadable"} /\ ("unreadable" \in Validate => db.at = "partial")
    <3> SUFFICES ASSUME NEW p \in Validate PROVE p = "unreadable" /\ db.at = "partial"
      OBVIOUS
    <3>1. CASE p = "node"
      BY <2>5, <3>1 DEF Validate
    <3>2. CASE p = "oid_index"
      BY <2>5, <3>2 DEF Validate
    <3>3. CASE p = "count"
      BY <2>5, <3>3 DEF Validate
    <3>4. CASE p = "order"
      BY <2>4, <3>4 DEF Validate
    <3>5. CASE p = "unreadable"
      BY <2>1, <3>5 DEF Validate
    <3>6. p \in {"unreadable", "node", "oid_index", "count", "order"}
      BY DEF Validate
    <3> QED
      BY <3>1, <3>2, <3>3, <3>4, <3>5, <3>6
  <2>7. Validate # {} => db = [NoDatabase EXCEPT !.at = db.at]
    BY <2>6 DEF DbInv
  <2> QED
    BY <2>3, <2>6, <2>7 DEF DbSound
<1>2. FoldInv /\ [Next]_vars => FoldInv'
  BY FoldsGoOn
<1>3. FoldInv /\ DbInv /\ [Next]_vars => DbInv'
  BY DbGoesOn
<1> QED
  BY <1>1, <1>2, <1>3, FoldsBegin, DbBegins, PTL DEF Spec
-------------------------------------------------------------------------------
(* The types. *)

Phases == DOMAIN ConnectSteps \cup {"read", "index", "commit", "vacuum", "site", "idle"}

Steps == phase \in Phases /\ builds \in 0..MaxBuilds

LEMMA StepsGoOn ==
  ASSUME Steps, [Next]_vars
  PROVE  Steps'
<1>1. CASE Build
  BY <1>1, CorporaAssumption DEF Build, Steps, Phases
<1>2. CASE \E m \in Module : Read(m)
  BY <1>2 DEF Read, Steps
<1>3. CASE WriteIndex
  BY <1>3 DEF WriteIndex, Steps, Phases, ConnectSteps
<1>4. CASE Connect
  <2>1. phase' = PhaseAfter[phase] /\ builds' = builds
        /\ phase \in {"unlink", "create", "application", "version", "tables"}
    BY <1>4 DEF Connect, ConnectSteps
  <2>2. phase' \in DOMAIN ConnectSteps \cup {"commit"}
    BY <2>1 DEF PhaseAfter, ConnectSteps
  <2> QED
    BY <2>1, <2>2 DEF Steps, Phases
<1>5. CASE ReadAll \/ Freeze \/ Commit \/ CommitFails \/ Vacuum \/ Tear \/ WriteSite \/ Kill
  BY <1>5 DEF ReadAll, Freeze, Commit, CommitFails, Vacuum, Tear, WriteSite, Kill, Steps, Phases
<1>6. CASE UNCHANGED vars
  BY <1>6 DEF vars, Steps
<1> QED
  BY <1>1, <1>2, <1>3, <1>4, <1>5, <1>6 DEF Next

(* The state of a build has its types: what owns an OID was read, a registrant  *)
(* has a number, and whoever speaks for one is under it.                        *)
THEOREM CatalogueTypeCorrect == Spec => []TypeOK
<1>1. Init => Steps
  <2> SUFFICES ASSUME Init PROVE Steps
    OBVIOUS
  <2>1. phase = "idle" /\ builds = 0
    BY DEF Init
  <2> QED
    BY <2>1, CorporaAssumption DEF Steps, Phases
<1>2. Steps /\ [Next]_vars => Steps'
  BY StepsGoOn
<1>3. FoldInv /\ [Next]_vars => FoldInv'
  BY FoldsGoOn
<1>4. FoldInv /\ DbInv /\ Steps => TypeOK
  <2> SUFFICES ASSUME FoldInv, DbInv, Steps PROVE TypeOK
    OBVIOUS
  <2>1. \A oid \in DOMAIN best : best[oid].module \in DOMAIN docs \ unread
    BY DEF FoldInv, OwnersOK, HasRead
  <2>2. RegistersOK(docs, HasRead, registered, speaking) /\ HasRead \subseteq DOMAIN docs
    BY DEF FoldInv, HasRead
  <2>3. DOMAIN registered \subseteq Nat
    BY RegistrantsAreFinite
  <2>4. DOMAIN speaking \subseteq DOMAIN registered
    BY <2>2 DEF RegistersOK
  <2>5. docs \in Corpora \cup {Nothing} /\ unread \subseteq DOMAIN docs
    BY DEF FoldInv
  <2>6. db.at \in Range(ConnectSteps) \cup {"whole", "torn", "damaged"}
    BY DEF DbInv
  <2> QED
    BY <2>1, <2>3, <2>4, <2>5, <2>6 DEF TypeOK, Steps, Phases
<1>5. FoldInv /\ DbInv /\ [Next]_vars => DbInv'
  BY DbGoesOn
<1> QED
  BY <1>1, <1>2, <1>3, <1>4, <1>5, FoldsBegin, DbBegins, PTL DEF Spec
===============================================================================
