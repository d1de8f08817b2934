------------------------------ MODULE PatchProofs ------------------------------
(* Proofs about PatchTree: what a verdict of --check is worth to whoever       *)
(* stages the tree, and what a diff mibpatch cuts and writes comes to when it   *)
(* is offered.                                                                 *)
EXTENDS PatchTree, FiniteSetTheorems, SequenceTheorems, TLAPS

(* A verdict stands only for the tree and the patches as they are, and a clean *)
(* one for every file there is, whoever touched what before.                   *)
VerdictInv ==
  verdict = "clean" =>
    \A f \in There(tree) : ~Breaks(tree, patches, f) /\ ~Stale(tree, patches, f)

LEMMA VerdictsBegin == Init => VerdictInv
  BY DEF Init, VerdictInv

LEMMA VerdictsGoOn ==
  ASSUME VerdictInv, [Next]_vars
  PROVE  VerdictInv'
<1>1. ASSUME Changed
      PROVE  VerdictInv'
  BY <1>1 DEF Changed, VerdictInv
<1>2. CASE \E f \in Files : Publish(f) \/ WriteByHand(f) \/ Repair(f)
  BY <1>1, <1>2 DEF Publish, WriteByHand, Repair
<1>3. CASE \E m \in Names : Explain(m) \/ Withdraw(m)
  BY <1>1, <1>3 DEF Explain, Withdraw
<1>4. CASE Check
  <2>1. tree' = tree /\ patches' = patches
    BY <1>4 DEF Check
  <2>2. CASE \E f \in There(tree) : Breaks(tree, patches, f)
    <3>1. verdict' = "ended"
      BY <1>4, <2>2 DEF Check
    <3> QED
      BY <3>1 DEF VerdictInv
  <2>3. CASE /\ ~ \E f \in There(tree) : Breaks(tree, patches, f)
             /\ \E f \in There(tree) : Stale(tree, patches, f)
    <3>1. verdict' = "stale"
      BY <1>4, <2>3 DEF Check
    <3> QED
      BY <3>1 DEF VerdictInv
  <2>4. CASE /\ ~ \E f \in There(tree) : Breaks(tree, patches, f)
             /\ ~ \E f \in There(tree) : Stale(tree, patches, f)
    BY <2>1, <2>4 DEF VerdictInv
  <2> QED
    BY <2>2, <2>3, <2>4
<1>5. CASE \E apply \in BOOLEAN : Write(apply)
  BY <1>1, <1>5 DEF Write
<1>6. CASE UNCHANGED vars
  <2>1. tree' = tree /\ patches' = patches /\ verdict' = verdict
    BY <1>6 DEF vars
  <2> QED
    BY <2>1 DEF VerdictInv
<1> QED
  BY <1>2, <1>3, <1>4, <1>5, <1>6 DEF Next, Mibpatch

(* What offering a diff that has to be there can come to. *)
LEMMA OffersSettle ==
  ASSUME NEW text, NEW hunks, ApplyPatch(text, hunks).status # NotApplicable
  PROVE  ApplyPatch(text, hunks).status \in {Applied, AlreadyApplied}
  BY DEF ApplyPatch, Applied, AlreadyApplied, NotApplicable

(* A tree --check calls clean can be staged, whatever its files, its patches    *)
(* and the ways they came about: _check() and patch_asn1().                     *)
THEOREM CleanTreesAreStaged == Spec => []CleanMeansStaged
<1>1. VerdictInv => CleanMeansStaged
  <2> SUFFICES ASSUME VerdictInv, verdict = "clean", NEW m \in Names,
                      patches[m].written, ~Staged(m), FoundIn(tree, m).mibname = m
               PROVE  Offer(tree[m], patches[m]).status = AlreadyApplied
    BY DEF CleanMeansStaged
  <2> DEFINE found == FoundIn(tree, m)
             patch == patches[m]
             status == ApplyPatch(tree[m], patch.hunks).status
  <2>1. m \in There(tree) /\ Offer(tree[m], patch).status # Applied
    BY DEF Staged, There
  <2>2. ~Breaks(tree, patches, m) /\ ~Stale(tree, patches, m)
    BY <2>1 DEF VerdictInv
  <2>3. /\ ~(/\ Malformed(patch.hunks)
             /\ found.status = Repairable =>
                  Range(Hunks(tree[m], found.repaired)) \subseteq Range(patch.hunks))
    BY <2>2 DEF Breaks
  <2>4. ~(IF found.status = Repairable
          THEN \/ ~patch.written
               \/ ~(Range(Hunks(tree[m], found.repaired)) \subseteq Range(patch.hunks))
               \/ status # Applied
          ELSE patch.written /\ status = NotApplicable)
    BY <2>2 DEF Stale
  <2> HIDE DEF found, status
  <2>5. ~Malformed(patch.hunks) /\ status # NotApplicable
    BY <2>3, <2>4 DEF Applied, NotApplicable
  <2>6. Offer(tree[m], patch).status = status
    BY <2>5 DEF Offer, status
  <2>7. status \in {Applied, AlreadyApplied}
    BY <2>5, OffersSettle DEF status
  <2> QED
    BY <2>1, <2>6, <2>7
<1>2. VerdictInv /\ [Next]_vars => VerdictInv'
  BY VerdictsGoOn
<1> QED
  BY <1>1, <1>2, VerdictsBegin, PTL DEF Spec

-------------------------------------------------------------------------------
(* Numbers. *)

(* Induction over the numbers, from the pigeonhole principle: were n the one    *)
(* left out, 0..n would be sent into 1..n with no two to the same.              *)
LEMMA SetInduction ==
  ASSUME NEW S, 0 \in S, \A n \in Nat : n \in S => n + 1 \in S
  PROVE  Nat \subseteq S
<1> SUFFICES ASSUME NEW n \in Nat, n \notin S PROVE FALSE
  OBVIOUS
<1> DEFINE from == 0..n
           to == 1..n
           f == [i \in from |-> IF i \in S THEN i + 1 ELSE i]
<1>1. \A i \in from : f[i] \in to
  OBVIOUS
<1>2. f \in [from -> to]
  BY <1>1
<1>3. IsFiniteSet(from) /\ Cardinality(from) = n + 1
  <2>1. 0 \in Int /\ n \in Int /\ n - 0 + 1 = n + 1 /\ ~(0 > n)
    OBVIOUS
  <2> QED
    BY <2>1, FS_Interval
<1>4. IsFiniteSet(to) /\ Cardinality(to) = n
  <2>1. 1 \in Int /\ n \in Int /\ n - 1 + 1 = n /\ (1 > n => n = 0)
    OBVIOUS
  <2> QED
    BY <2>1, FS_Interval
<1>5. Cardinality(to) < Cardinality(from)
  BY <1>3, <1>4
<1> HIDE DEF f, from, to
<1>6. PICK i \in from, j \in from : i # j /\ f[i] = f[j]
  BY <1>2, <1>3, <1>4, <1>5, FS_PigeonHole
<1> USE DEF f, from, to
<1>7. f[i] = (IF i \in S THEN i + 1 ELSE i) /\ f[j] = (IF j \in S THEN j + 1 ELSE j)
  OBVIOUS
<1> QED
  BY <1>6, <1>7

(* Every set of numbers that is not empty has a least one. *)
LEMMA LeastNumber ==
  ASSUME NEW T \in SUBSET Nat, T # {}
  PROVE  \E x \in T : \A y \in T : x <= y
<1> SUFFICES ASSUME \A x \in T : \E y \in T : ~(x <= y)
             PROVE  FALSE
  OBVIOUS
<1> DEFINE S == {n \in Nat : \A y \in T : ~(y <= n)}
<1>1. 0 \in S
  OBVIOUS
<1>2. ASSUME NEW n \in Nat, n \in S PROVE n + 1 \in S
  <2>1. \A y \in T : ~(y <= n)
    BY <1>2
  <2>2. n + 1 \notin T
    BY <2>1
  <2> QED
    BY <2>1, <2>2
<1> HIDE DEF S
<1>3. Nat \subseteq S
  BY <1>1, <1>2, SetInduction
<1>4. PICK x \in T : TRUE
  OBVIOUS
<1>5. x \in Nat /\ x \in S
  BY <1>3
<1>6. ~(x <= x)
  BY <1>5 DEF S
<1> QED
  BY <1>5, <1>6

LEMMA MinIsLeast ==
  ASSUME NEW T \in SUBSET Nat, T # {}
  PROVE  Min(T) \in T /\ \A y \in T : Min(T) <= y
  BY LeastNumber DEF Min

(* The places of a finite set of numbers, the least first, are the set.         *)
LEMMA PlacesInOrder ==
  ASSUME NEW T, IsFiniteSet(T), T \subseteq Nat
  PROVE  /\ Cardinality(T) \in Nat
         /\ \A i \in 1..Cardinality(T) : Nth(T, i) \in T
         /\ \A i, j \in 1..Cardinality(T) : i < j => Nth(T, i) < Nth(T, j)
         /\ \A k \in T : \E i \in 1..Cardinality(T) : k = Nth(T, i)
<1> DEFINE c == Cardinality(T)
           below(k) == {j \in T : j < k}
           rank == [k \in T |-> Cardinality(below(k))]
           ranks == 0..(c - 1)
<1>1. c \in Nat
  BY FS_CardinalityType
<1>2. \A k \in T : IsFiniteSet(below(k)) /\ Cardinality(below(k)) \in Nat
  <2> SUFFICES ASSUME NEW k \in T PROVE IsFiniteSet(below(k)) /\ Cardinality(below(k)) \in Nat
    OBVIOUS
  <2>1. below(k) \in SUBSET T
    OBVIOUS
  <2> HIDE DEF below
  <2> QED
    BY <2>1, FS_Subset, FS_CardinalityType
<1>3. \A k \in T : IsFiniteSet(below(k) \cup {k}) /\ Cardinality(below(k) \cup {k}) = rank[k] + 1
  <2> SUFFICES ASSUME NEW k \in T
               PROVE  IsFiniteSet(below(k) \cup {k}) /\ Cardinality(below(k) \cup {k}) = rank[k] + 1
    OBVIOUS
  <2>1. k \notin below(k) /\ rank[k] = Cardinality(below(k))
    OBVIOUS
  <2> HIDE DEF below, rank
  <2> QED
    BY <1>2, <2>1, FS_AddElement
<1>4. \A k, l \in T : k < l => rank[k] < rank[l]
  <2> SUFFICES ASSUME NEW k \in T, NEW l \in T, k < l PROVE rank[k] < rank[l]
    OBVIOUS
  <2>1. below(k) \cup {k} \in SUBSET below(l)
    <3>1. k \in Nat /\ l \in Nat
      OBVIOUS
    <3>2. \A j \in T : j < k => j < l
      BY <3>1
    <3> QED
      BY <3>2
  <2>2. rank[l] = Cardinality(below(l)) /\ rank[l] \in Nat /\ rank[k] \in Nat
    BY <1>2
  <2> HIDE DEF below, rank
  <2>3. Cardinality(below(k) \cup {k}) <= Cardinality(below(l))
    BY <1>2, <2>1, FS_Subset
  <2> QED
    BY <1>3, <2>2, <2>3
<1>5. \A k \in T : rank[k] \in ranks
  <2> SUFFICES ASSUME NEW k \in T PROVE rank[k] \in ranks
    OBVIOUS
  <2>1. below(k) \cup {k} \in SUBSET T
    OBVIOUS
  <2>2. rank[k] \in Nat
    BY <1>2
  <2> HIDE DEF below, rank
  <2>3. Cardinality(below(k) \cup {k}) <= c
    BY <2>1, FS_Subset
  <2> QED
    BY <1>1, <1>3, <2>2, <2>3
<1>6. rank \in Surjection(T, ranks)
  <2>1. rank \in [T -> ranks]
    BY <1>5
  <2>2. \A k, l \in T : rank[k] = rank[l] => k = l
    <3> SUFFICES ASSUME NEW k \in T, NEW l \in T, rank[k] = rank[l] PROVE k = l
      OBVIOUS
    <3>1. rank[k] \in Nat /\ ~(k < l) /\ ~(l < k)
      BY <1>1, <1>4, <1>5
    <3> QED
      BY <3>1
  <2> HIDE DEF rank, ranks
  <2>3. rank \in Injection(T, ranks)
    BY <2>1, <2>2 DEF Injection, IsInjective
  <2>4. IsFiniteSet(ranks) /\ Cardinality(ranks) = c
    <3>1. 0 \in Int /\ c - 1 \in Int /\ (0 > c - 1 => c = 0) /\ c - 1 - 0 + 1 = c
      BY <1>1
    <3> HIDE DEF c
    <3> QED
      BY <3>1, FS_Interval DEF ranks
  <2> QED
    BY <2>3, <2>4, FS_Injection
<1>7. \A i \in 1..c : Nth(T, i) \in T /\ rank[Nth(T, i)] = i - 1
  <2> SUFFICES ASSUME NEW i \in 1..c PROVE Nth(T, i) \in T /\ rank[Nth(T, i)] = i - 1
    OBVIOUS
  <2>1. i - 1 \in ranks
    BY <1>1
  <2>2. PICK k \in T : rank[k] = i - 1
    BY <1>6, <2>1 DEF Surjection
  <2>3. \A l \in T : rank[l] = Cardinality({j \in T : j < l})
    OBVIOUS
  <2> HIDE DEF rank, ranks, below
  <2> QED
    BY <2>2, <2>3 DEF Nth
<1> HIDE DEF rank, below
<1>8. \A i, j \in 1..c : i < j => Nth(T, i) < Nth(T, j)
  <2> SUFFICES ASSUME NEW i \in 1..c, NEW j \in 1..c, i < j PROVE Nth(T, i) < Nth(T, j)
    OBVIOUS
  <2>1. /\ Nth(T, i) \in Nat /\ Nth(T, j) \in Nat
        /\ rank[Nth(T, i)] = i - 1 /\ rank[Nth(T, j)] = j - 1
    BY <1>7
  <2>2. ~(Nth(T, j) < Nth(T, i)) /\ Nth(T, i) # Nth(T, j)
    <3>1. ~(j - 1 < i - 1) /\ i - 1 # j - 1
      BY <1>1
    <3> QED
      BY <1>4, <1>7, <2>1, <3>1
  <2> QED
    BY <2>1, <2>2
<1>9. \A k \in T : \E i \in 1..c : k = Nth(T, i)
  <2> SUFFICES ASSUME NEW k \in T PROVE \E i \in 1..c : k = Nth(T, i)
    OBVIOUS
  <2> DEFINE i == rank[k] + 1
  <2>1. rank[k] \in 0..(c - 1)
    BY <1>5
  <2>2. i \in 1..c /\ i - 1 = rank[k]
    BY <1>1, <2>1
  <2> HIDE DEF i
  <2>3. Nth(T, i) \in T /\ rank[Nth(T, i)] = rank[k]
    BY <1>7, <2>2
  <2>4. ~(k < Nth(T, i)) /\ ~(Nth(T, i) < k)
    <3>1. ~(rank[k] < rank[k])
      BY <2>1
    <3> QED
      BY <1>4, <2>3, <3>1
  <2>5. k \in Nat /\ Nth(T, i) \in Nat
    BY <2>3
  <2> QED
    BY <2>2, <2>4, <2>5
<1> QED
  BY <1>1, <1>7, <1>8, <1>9

(* A run ends before the next place outside, and begins after the one before.   *)
LEMMA RunEnds ==
  ASSUME NEW T \in SUBSET Nat, NEW k \in T, NEW j \in Nat \ T, k < j
  PROVE  LET e == EndOf(T, k)
         IN e \in T /\ k <= e /\ e < j /\ e + 1 \notin T /\ \A i \in k..e : i \in T
<1> DEFINE out == {u \in Nat : u > k /\ u \notin T}
           ends == {i \in T : i >= k /\ i + 1 \notin T}
<1>1. PICK u \in out : \A v \in out : u <= v
  <2>1. out \in SUBSET Nat /\ out # {}
    OBVIOUS
  <2> HIDE DEF out
  <2> QED
    BY <2>1, LeastNumber
<1>2. u \in Nat /\ u > k /\ u \notin T /\ u <= j /\ k \in Nat
  BY <1>1
<1>3. \A i \in k..(u - 1) : i \in T
  <2> SUFFICES ASSUME NEW i \in k..(u - 1), i \notin T PROVE FALSE
    OBVIOUS
  <2>1. i \in Nat /\ i # k /\ i > k /\ i < u
    BY <1>2
  <2> QED
    BY <1>1, <2>1
<1>4. u - 1 \in ends
  <2>1. u - 1 \in k..(u - 1) /\ u - 1 >= k /\ (u - 1) + 1 = u
    BY <1>2
  <2> QED
    BY <1>2, <1>3, <2>1
<1>5. EndOf(T, k) \in ends /\ \A i \in ends : EndOf(T, k) <= i
  <2>1. ends \in SUBSET Nat /\ ends # {}
    BY <1>4
  <2>2. EndOf(T, k) = Min(ends)
    BY DEF EndOf
  <2> HIDE DEF ends
  <2> QED
    BY <2>1, <2>2, MinIsLeast
<1>6. EndOf(T, k) <= u - 1 /\ EndOf(T, k) \in Nat
  BY <1>4, <1>5
<1>7. EndOf(T, k) < j /\ \A i \in k..EndOf(T, k) : i \in k..(u - 1)
  BY <1>2, <1>6
<1> QED
  BY <1>3, <1>5, <1>7

LEMMA RunBegins ==
  ASSUME NEW T \in SUBSET Nat, NEW u \in Nat \ T, NEW j \in T, u < j
  PROVE  \E s \in Starts(T) : u < s /\ s <= j
<1> DEFINE in == {s \in T : u < s}
<1>1. PICK s \in in : \A t \in in : s <= t
  <2>1. in \in SUBSET Nat /\ in # {}
    OBVIOUS
  <2> HIDE DEF in
  <2> QED
    BY <2>1, LeastNumber
<1>2. s \in Nat /\ s \in T /\ u < s /\ s <= j
  BY <1>1
<1>3. s - 1 \notin T
  <2> SUFFICES ASSUME s - 1 \in T PROVE FALSE
    OBVIOUS
  <2>1. s - 1 # u /\ s - 1 >= u /\ ~(s <= s - 1)
    BY <1>2
  <2>2. u < s - 1
    BY <1>2, <2>1
  <2> QED
    BY <1>1, <2>1, <2>2
<1> QED
  BY <1>2, <1>3 DEF Starts

-------------------------------------------------------------------------------
(* Cutting a diff. *)

(* Texts a diff is cut between: the lines of each differ, and those they have   *)
(* in common stand in one order.                                                *)
Comparable(old, new) ==
  /\ old \in Seq(Range(old)) /\ new \in Seq(Range(new)) /\ old # <<>>
  /\ \A i, j \in DOMAIN old : old[i] = old[j] => i = j
  /\ \A i, j \in DOMAIN new : new[i] = new[j] => i = j
  /\ \A i, j \in DOMAIN old :
       i < j /\ old[i] \in Range(new) /\ old[j] \in Range(new) =>
         PlaceOf(old[i], new) < PlaceOf(old[j], new)

Hidden(old, new) == DOMAIN old \ Shown(old, new)

LEMMA TextLengths ==
  ASSUME NEW old, NEW new, Comparable(old, new)
  PROVE  /\ Len(old) \in Nat \ {0} /\ DOMAIN old = 1..Len(old)
         /\ Len(new) \in Nat /\ DOMAIN new = 1..Len(new)
BY EmptySeq, LenProperties DEF Comparable

LEMMA PlaceHolds ==
  ASSUME NEW line, NEW text, line \in Range(text)
  PROVE  PlaceOf(line, text) \in DOMAIN text /\ text[PlaceOf(line, text)] = line
BY DEF PlaceOf, Range

(* What is not shown is in both texts, and goes on without a gap.               *)
LEMMA HiddenGoesOn ==
  ASSUME NEW old, NEW new, Comparable(old, new)
  PROVE  LET P(k) == PlaceOf(old[k], new)
             hidden == Hidden(old, new)
         IN /\ Shown(old, new) \subseteq 1..Len(old)
            /\ \A k \in hidden : P(k) \in 1..Len(new) /\ new[P(k)] = old[k]
            /\ \A k, l \in hidden : k < l => P(k) < P(l)
            /\ \A k \in hidden : k + 1 \in hidden => P(k + 1) = P(k) + 1
            /\ 1 \in hidden => P(1) = 1
            /\ Len(old) \in hidden => P(Len(old)) = Len(new)
<1> DEFINE P(k) == PlaceOf(old[k], new)
           hidden == Hidden(old, new)
           a == Len(old)
           b == Len(new)
           kept == {i \in DOMAIN old : old[i] \in Range(new)}
           gone == DOMAIN old \ kept
           next(i) == {j \in kept : j > i}
           grows(i) ==
             LET lo == IF i = 0 THEN 0 ELSE PlaceOf(old[i], new)
                 hi == IF next(i) = {} THEN Len(new) + 1 ELSE PlaceOf(old[Min(next(i))], new)
             IN  hi > lo + 1
           gaps == {i \in {0} \cup kept : grows(i)}
<1>1. Shown(old, new) = {k \in DOMAIN old :
         \/ \E g \in gone : k <= g + Context /\ g <= k + Context
         \/ \E g \in gaps : g < k + Context /\ k <= g + Context}
  BY DEF Shown
<1>2. a \in Nat \ {0} /\ DOMAIN old = 1..a /\ b \in Nat /\ DOMAIN new = 1..b
  BY TextLengths
<1>3. Context \in Nat \ {0}
  BY ContextAssumption
<1>4. \A k \in hidden : k \in 1..a /\ k \in Nat /\ k \in kept /\ k \notin gaps
  <2> SUFFICES ASSUME NEW k \in hidden PROVE k \in 1..a /\ k \in Nat /\ k \in kept /\ k \notin gaps
    OBVIOUS
  <2>1. k \in DOMAIN old /\ k \notin Shown(old, new) /\ k \in 1..a /\ k \in Nat
    BY <1>2 DEF Hidden
  <2>2. k <= k + Context /\ k < k + Context
    BY <1>3, <2>1
  <2> HIDE DEF gaps, hidden, kept
  <2> QED
    BY <1>1, <2>1, <2>2
<1>5. \A k \in kept : P(k) \in 1..b /\ new[P(k)] = old[k]
  BY <1>2, PlaceHolds
<1>6. \A k, l \in kept : k < l => P(k) < P(l)
  BY DEF Comparable
<1>7. \A k \in kept : k \in Nat
  BY <1>2
<1>8. \A i \in Nat, k \in kept : k = i + 1 => next(i) # {} /\ Min(next(i)) = k
  <2> SUFFICES ASSUME NEW i \in Nat, NEW k \in kept, k = i + 1
               PROVE  next(i) # {} /\ Min(next(i)) = k
    OBVIOUS
  <2>1. k \in next(i) /\ next(i) \in SUBSET Nat
    BY <1>7
  <2>2. \A j \in next(i) : j > i
    OBVIOUS
  <2> HIDE DEF next
  <2>3. Min(next(i)) \in next(i) /\ Min(next(i)) <= k
    BY <2>1, MinIsLeast
  <2>4. Min(next(i)) \in Nat /\ Min(next(i)) > i
    BY <2>1, <2>2, <2>3
  <2> QED
    BY <2>1, <2>3, <2>4
<1>9. \A k \in hidden : k + 1 \in hidden => P(k + 1) = P(k) + 1
  <2> SUFFICES ASSUME NEW k \in hidden, k + 1 \in hidden PROVE P(k + 1) = P(k) + 1
    OBVIOUS
  <2>1. /\ k \in Nat /\ k \in kept /\ k + 1 \in kept /\ k # 0 /\ k \notin gaps
        /\ k < k + 1
    BY <1>4
  <2>2. ~grows(k)
    BY <2>1
  <2>3. next(k) # {} /\ Min(next(k)) = k + 1
    BY <1>8, <2>1
  <2> HIDE DEF next, kept, gaps
  <2>4. ~(P(k + 1) > P(k) + 1)
    BY <2>1, <2>2, <2>3
  <2>5. P(k) \in Nat /\ P(k + 1) \in Nat
    BY <1>2, <1>5, <2>1
  <2>6. P(k) < P(k + 1)
    BY <1>6, <2>1
  <2> HIDE DEF P
  <2> QED
    BY <2>4, <2>5, <2>6
<1>10. 1 \in hidden => P(1) = 1
  <2> SUFFICES ASSUME 1 \in hidden PROVE P(1) = 1
    OBVIOUS
  <2>1. 1 \in kept /\ 1 \in DOMAIN old /\ 1 \notin Shown(old, new)
    BY <1>4 DEF Hidden
  <2>2. 0 < 1 + Context /\ 1 <= 0 + Context
    BY <1>3
  <2>3. 0 \notin gaps
    <3> HIDE DEF gaps
    <3> QED
      BY <1>1, <2>1, <2>2
  <2>4. ~grows(0)
    BY <2>3
  <2>5. next(0) # {} /\ Min(next(0)) = 1
    BY <1>8, <2>1
  <2> HIDE DEF next, kept, gaps
  <2>6. ~(P(1) > 0 + 1)
    BY <2>4, <2>5
  <2>7. P(1) \in Nat /\ P(1) # 0
    BY <1>2, <1>5, <2>1
  <2> HIDE DEF P
  <2> QED
    BY <2>6, <2>7
<1>11. a \in hidden => P(a) = b
  <2> SUFFICES ASSUME a \in hidden PROVE P(a) = b
    OBVIOUS
  <2>1. a \in kept /\ a \notin gaps /\ a # 0
    BY <1>2, <1>4
  <2>2. ~grows(a)
    BY <2>1
  <2>3. next(a) = {}
    <3> SUFFICES ASSUME NEW j \in next(a) PROVE FALSE
      OBVIOUS
    <3>1. j \in 1..a /\ j > a
      BY <1>2
    <3> QED
      BY <1>2, <3>1
  <2> HIDE DEF next, kept, gaps
  <2>4. ~(b + 1 > P(a) + 1)
    BY <2>1, <2>2, <2>3
  <2>5. P(a) \in 1..b
    BY <1>5, <2>1
  <2> HIDE DEF P
  <2> QED
    BY <1>2, <2>4, <2>5
<1>12. Shown(old, new) \subseteq 1..a
  BY <1>1, <1>2
<1> HIDE DEF kept, gaps, gone, next
<1> QED
  BY <1>4, <1>5, <1>6, <1>9, <1>10, <1>11, <1>12

(* How much of the new text there is before the run that begins at k, and up to *)
(* the end of the one that ends at e; the end of a text is a run of nothing.    *)
CutBefore(old, new, k) ==
  IF k = Len(old) + 1 THEN Len(new) ELSE IF k = 1 THEN 0 ELSE PlaceOf(old[k - 1], new)
CutAfter(old, new, e) ==
  IF e = 0 THEN 0 ELSE IF e = Len(old) THEN Len(new) ELSE PlaceOf(old[e + 1], new) - 1

(* the lines of a text from one cut to another *)
Part(t, m, n) == SubSeq(t, m + 1, n)

LEMMA PartOfText ==
  ASSUME NEW t, t \in Seq(Range(t)), NEW m \in 0..Len(t), NEW n \in m..Len(t)
  PROVE  /\ Part(t, m, n) \in Seq(Range(t))
         /\ Len(Part(t, m, n)) = n - m
         /\ \A i \in 1..(n - m) : Part(t, m, n)[i] = t[m + i]
<1>1. Len(t) \in Nat /\ m \in Nat /\ n \in Nat /\ m <= n /\ n <= Len(t)
  BY LenProperties
<1>2. \A i \in (m + 1)..n : t[i] \in Range(t)
  <2> SUFFICES ASSUME NEW i \in (m + 1)..n PROVE t[i] \in Range(t)
    OBVIOUS
  <2>1. i \in 1..Len(t)
    BY <1>1
  <2> QED
    BY <2>1, ElementOfSeq
<1>3. m + 1 \in Int /\ n \in Int
  BY <1>1
<1>4. /\ SubSeq(t, m + 1, n) \in Seq(Range(t))
      /\ Len(SubSeq(t, m + 1, n)) = (IF m + 1 <= n THEN n - (m + 1) + 1 ELSE 0)
      /\ \A i \in 1..(n - (m + 1) + 1) : SubSeq(t, m + 1, n)[i] = t[(m + 1) + i - 1]
  BY <1>2, <1>3, SubSeqProperties
<1>5. n - (m + 1) + 1 = n - m /\ (~(m + 1 <= n) => n - m = 0)
  BY <1>1
<1>6. \A i \in 1..(n - m) : (m + 1) + i - 1 = m + i
  BY <1>1
<1> QED
  BY <1>4, <1>5, <1>6 DEF Part

(* Between two runs the texts agree. *)
LEMMA GapAgrees ==
  ASSUME NEW old, NEW new, Comparable(old, new),
         NEW e \in 0..Len(old), NEW k \in 1..(Len(old) + 1), e < k,
         \A j \in (e + 1)..(k - 1) : j \in Hidden(old, new),
         e = 0 \/ e = Len(old) \/ e + 1 \in Hidden(old, new),
         k \notin Hidden(old, new)
  PROVE  LET p == CutAfter(old, new, e)
             q == CutBefore(old, new, k)
         IN /\ p \in 0..Len(new) /\ q \in p..Len(new)
            /\ q - p = k - 1 - e
            /\ Part(old, e, k - 1) = Part(new, p, q)
<1> DEFINE p == CutAfter(old, new, e)
           q == CutBefore(old, new, k)
           a == Len(old)
           b == Len(new)
           hidden == Hidden(old, new)
           P(i) == PlaceOf(old[i], new)
<1>1. a \in Nat \ {0} /\ b \in Nat
  BY TextLengths
<1>2. /\ \A i \in hidden : P(i) \in 1..b /\ new[P(i)] = old[i]
      /\ \A i \in hidden : i + 1 \in hidden => P(i + 1) = P(i) + 1
      /\ 1 \in hidden => P(1) = 1
      /\ a \in hidden => P(a) = b
  BY HiddenGoesOn
<1>3. e \in Nat /\ k \in Nat /\ e <= a /\ k <= a + 1 /\ k >= 1
  BY <1>1
<1>4. /\ p \in 0..b /\ q \in p..b /\ q - p = k - 1 - e
      /\ \A i \in 1..(k - 1 - e) : old[e + i] = new[p + i]
  <2>1. CASE k = e + 1
    <3>1. e + 1 \notin hidden
      BY <2>1
    <3>2. e = 0 \/ e = a
      BY <3>1
    <3>3. CASE e = 0
      <4>1. p = 0 /\ k = 1 /\ k # a + 1
        BY <1>1, <2>1, <3>3 DEF CutAfter
      <4>2. q = 0
        BY <4>1 DEF CutBefore
      <4> HIDE DEF p, q
      <4> QED
        BY <1>1, <2>1, <3>3, <4>1, <4>2
    <3>4. CASE e = a
      <4>1. p = b /\ q = b
        BY <1>1, <2>1, <3>4 DEF CutAfter, CutBefore
      <4> HIDE DEF p, q
      <4> QED
        BY <1>1, <1>3, <2>1, <4>1
    <3> QED
      BY <3>2, <3>3, <3>4
  <2>2. CASE k # e + 1
    <3>1. e + 1 \in hidden /\ k - 1 \in hidden /\ k - 1 - e \in Nat /\ k - 1 >= e + 1
      <4>1. e + 1 \in (e + 1)..(k - 1) /\ k - 1 \in (e + 1)..(k - 1)
        BY <1>3, <2>2
      <4> QED
        BY <1>3, <4>1
    <3> DEFINE S == {d \in Nat : e + 1 + d <= k - 1 => P(e + 1 + d) = P(e + 1) + d}
    <3>2. P(e + 1) \in 1..b
      BY <1>2, <3>1
    <3>3. 0 \in S
      BY <1>3, <3>2
    <3>4. ASSUME NEW d \in Nat, d \in S PROVE d + 1 \in S
      <4> SUFFICES ASSUME e + 1 + (d + 1) <= k - 1
                   PROVE  P(e + 1 + (d + 1)) = P(e + 1) + (d + 1)
        OBVIOUS
      <4>1. e + 1 + d <= k - 1 /\ e + 1 + (d + 1) = (e + 1 + d) + 1
        BY <1>3
      <4>2. e + 1 + d \in (e + 1)..(k - 1) /\ e + 1 + (d + 1) \in (e + 1)..(k - 1)
        BY <1>3, <4>1
      <4>3. P(e + 1 + d) = P(e + 1) + d
        BY <3>4, <4>1
      <4>4. e + 1 + d \in hidden /\ (e + 1 + d) + 1 \in hidden
        BY <4>1, <4>2
      <4>5. P((e + 1 + d) + 1) = P(e + 1 + d) + 1
        BY <1>2, <4>4
      <4> HIDE DEF P
      <4> QED
        BY <3>2, <4>1, <4>3, <4>5
    <3> HIDE DEF S
    <3>5. Nat \subseteq S
      BY <3>3, <3>4, SetInduction
    <3>6. \A d \in Nat : e + 1 + d <= k - 1 => P(e + 1 + d) = P(e + 1) + d
      BY <3>5 DEF S
    <3>7. e # a /\ k # 1
      BY <1>3, <2>2, <3>1
    <3>8. p = P(e + 1) - 1 /\ p \in Int
      <4>1. e = 0 => p = 0 /\ P(e + 1) = 1
        BY <1>2, <3>1 DEF CutAfter
      <4>2. e # 0 => p = P(e + 1) - 1
        BY <3>7 DEF CutAfter
      <4> HIDE DEF P, p
      <4> QED
        BY <3>2, <4>1, <4>2
    <3>9. P(k - 1) = q
      <4>1. CASE k = a + 1
        <5>1. k - 1 = a /\ q = b
          BY <1>1, <4>1 DEF CutBefore
        <5> QED
          BY <1>2, <3>1, <5>1
      <4>2. CASE k # a + 1
        BY <3>7, <4>2 DEF CutBefore
      <4> QED
        BY <4>1, <4>2
    <3>10. P(k - 1) = P(e + 1) + (k - 2 - e)
      <4>1. k - 2 - e \in Nat /\ e + 1 + (k - 2 - e) = k - 1 /\ e + 1 + (k - 2 - e) <= k - 1
        BY <1>3, <3>1
      <4> QED
        BY <3>6, <4>1
    <3>11. P(k - 1) \in 1..b
      BY <1>2, <3>1
    <3>12. ASSUME NEW i \in 1..(k - 1 - e) PROVE old[e + i] = new[p + i]
      <4>1. i - 1 \in Nat /\ e + 1 + (i - 1) = e + i /\ e + 1 + (i - 1) <= k - 1
        BY <1>3, <3>1
      <4>2. P(e + i) = P(e + 1) + (i - 1)
        BY <3>6, <4>1
      <4>3. e + i \in hidden
        <5>1. e + i \in (e + 1)..(k - 1)
          BY <1>3, <3>1
        <5> QED
          BY <5>1
      <4>4. new[P(e + i)] = old[e + i]
        BY <1>2, <4>3
      <4>5. P(e + i) = p + i
        <5> HIDE DEF P, p
        <5> QED
          BY <3>2, <3>8, <4>2
      <4> QED
        BY <4>4, <4>5
    <3> QED
      <4> HIDE DEF P, p, q
      <4>1. q \in 1..b /\ q = p + 1 + (k - 2 - e)
        BY <1>1, <1>3, <3>1, <3>2, <3>8, <3>9, <3>10, <3>11
      <4>2. p \in 0..b
        BY <1>1, <3>2, <3>8
      <4>3. q \in p..b /\ q - p = k - 1 - e
        BY <1>1, <1>3, <3>1, <3>8, <4>1
      <4> QED
        BY <3>12, <4>2, <4>3
  <2> QED
    BY <2>1, <2>2
<1>5. Part(old, e, k - 1) = Part(new, p, q)
  <2> HIDE DEF p, q, P, hidden
  <2>1. old \in Seq(Range(old)) /\ new \in Seq(Range(new))
    BY DEF Comparable
  <2> DEFINE h == k - 1
  <2>2. /\ h \in e..Len(old) /\ p \in 0..Len(new) /\ q \in p..Len(new)
        /\ h - e = q - p /\ \A i \in 1..(h - e) : old[e + i] = new[p + i]
    BY <1>1, <1>3, <1>4
  <2> HIDE DEF h
  <2> DEFINE x == Part(old, e, h)
             y == Part(new, p, q)
             lines == Range(old) \cup Range(new)
  <2>3. /\ x \in Seq(Range(old)) /\ Len(x) = h - e
        /\ \A i \in 1..(h - e) : x[i] = old[e + i]
    BY <2>1, <2>2, PartOfText
  <2>4. /\ y \in Seq(Range(new)) /\ Len(y) = q - p
        /\ \A i \in 1..(q - p) : y[i] = new[p + i]
    BY <2>1, <2>2, PartOfText
  <2> HIDE DEF x, y
  <2>5. x \in Seq(lines) /\ y \in Seq(lines)
    BY <2>3, <2>4, SeqMonotonic
  <2>6. Len(x) = Len(y) /\ \A i \in 1..Len(x) : x[i] = y[i]
    BY <2>2, <2>3, <2>4
  <2> HIDE DEF lines
  <2>7. x = y
    BY <2>5, <2>6, SeqEqual
  <2> QED
    BY <2>7 DEF h, x, y
<1> HIDE DEF p, q
<1> QED
  BY <1>4, <1>5 DEF p, q

-------------------------------------------------------------------------------
(* Applying a diff. *)

(* The loops of _splice() and _write(): what is done to a state by the i-th of  *)
(* what is gone through.                                                        *)
Step(kind, x, s, i) ==
  IF kind = "splice" THEN Spliced(x.text, s, Turned(x.hunks[i], x.reverse))
  ELSE WriteOne(x, s, FileOrder[i])

Loops(kind, x, a, n, f) == f = [i \in 0..n |-> IF i = 0 THEN a ELSE Step(kind, x, f[i - 1], i)]

(* A loop of any number of steps goes through a sequence of states. *)
LEMMA LoopExists ==
  ASSUME NEW kind, NEW x, NEW a, NEW m \in Nat
  PROVE  \E f : Loops(kind, x, a, m, f)
<1> DEFINE Loop(n, f) == f = [i \in 0..n |-> IF i = 0 THEN a ELSE Step(kind, x, f[i - 1], i)]
           S == {n \in Nat : \E f : Loop(n, f)}
<1>1. 0 \in S
  <2> DEFINE f == [i \in 0..0 |-> a]
  <2>1. f = [i \in 0..0 |-> IF i = 0 THEN a ELSE Step(kind, x, f[i - 1], i)]
    OBVIOUS
  <2> HIDE DEF f
  <2> QED
    BY <2>1
<1>2. ASSUME NEW n \in Nat, n \in S PROVE n + 1 \in S
  <2>1. PICK f : Loop(n, f)
    BY <1>2
  <2> DEFINE g == [i \in 0..(n + 1) |-> IF i <= n THEN f[i] ELSE Step(kind, x, f[n], n + 1)]
  <2>2. \A i \in 0..n : f[i] = IF i = 0 THEN a ELSE Step(kind, x, f[i - 1], i)
    BY <2>1
  <2>3. \A i \in 0..(n + 1) : g[i] = IF i = 0 THEN a ELSE Step(kind, x, g[i - 1], i)
    <3> SUFFICES ASSUME NEW i \in 0..(n + 1)
                 PROVE  g[i] = IF i = 0 THEN a ELSE Step(kind, x, g[i - 1], i)
      OBVIOUS
    <3>1. CASE i = 0
      BY <2>2, <3>1
    <3>2. CASE i \in 1..n
      <4>1. g[i] = f[i] /\ g[i - 1] = f[i - 1] /\ i \in 0..n /\ i # 0
        BY <3>2
      <4> HIDE DEF g
      <4> QED
        BY <2>2, <4>1
    <3>3. CASE i = n + 1
      <4>1. g[i] = Step(kind, x, f[n], n + 1) /\ g[i - 1] = f[n] /\ i # 0
        BY <3>3
      <4> HIDE DEF g
      <4> QED
        BY <3>3, <4>1
    <3> QED
      BY <3>1, <3>2, <3>3
  <2>4. g = [i \in 0..(n + 1) |-> g[i]]
    OBVIOUS
  <2> HIDE DEF g
  <2>5. g = [i \in 0..(n + 1) |-> IF i = 0 THEN a ELSE Step(kind, x, g[i - 1], i)]
    BY <2>3, <2>4
  <2>6. n + 1 \in Nat
    OBVIOUS
  <2> QED
    BY <2>5, <2>6
<1> HIDE DEF S
<1>3. m \in S
  BY <1>1, <1>2, SetInduction
<1> QED
  BY <1>3 DEF S, Loops

(* Parts of a text that follow each other. *)
LEMMA PartsJoin ==
  ASSUME NEW t, t \in Seq(Range(t)), NEW l \in 0..Len(t), NEW m \in l..Len(t), NEW n \in m..Len(t)
  PROVE  Part(t, l, m) \o Part(t, m, n) = Part(t, l, n)
<1>1. Len(t) \in Nat
  BY LenProperties
<1>2. /\ l + 1 \in 1..(Len(t) + 1) /\ m \in ((l + 1) - 1)..Len(t) /\ n \in m..Len(t)
  BY <1>1
<1> DEFINE k == l + 1
<1> HIDE DEF k
<1>3. k \in 1..(Len(t) + 1) /\ m \in (k - 1)..Len(t) /\ n \in m..Len(t)
  BY <1>2 DEF k
<1>4. SubSeq(t, k, m) \o SubSeq(t, m + 1, n) = SubSeq(t, k, n)
  BY <1>3, ConcatAdjacentSubSeq
<1> QED
  BY <1>4 DEF Part, k

LEMMA PartEnds ==
  ASSUME NEW t, t \in Seq(Range(t))
  PROVE  Part(t, 0, 0) = <<>> /\ Part(t, 0, Len(t)) = t
<1>1. 0 + 1 = 1 /\ 1 \in Int /\ 0 \in Int /\ 0 < 1
  OBVIOUS
<1>2. SubSeq(t, 1, 0) = <<>>
  BY <1>1, SubSeqEmpty
<1>3. SubSeq(t, 1, Len(t)) = t
  BY SubSeqFull
<1> QED
  BY <1>1, <1>2, <1>3 DEF Part

LEMMA LinesArePart ==
  ASSUME NEW t, t \in Seq(Range(t)), NEW m \in 0..Len(t), NEW n \in m..Len(t)
  PROVE  Lines(t, m, n - m) = Part(t, m, n) /\ Len(Part(t, m, n)) = n - m
<1>1. Len(t) \in Nat /\ m \in Nat /\ n \in Nat /\ n <= Len(t)
  BY LenProperties
<1>2. (IF m + (n - m) < Len(t) THEN m + (n - m) ELSE Len(t)) = n
  BY <1>1
<1> QED
  BY <1>2, PartOfText DEF Lines, Part

(* Two texts parted by cuts: what is between an end and the start after it is   *)
(* the same in both.                                                            *)
Aligned(x, y, c, xs, xe, ys, ye) ==
  /\ x \in Seq(Range(x)) /\ y \in Seq(Range(y))
  /\ xe[0] = 0 /\ ye[0] = 0 /\ xs[c + 1] = Len(x) /\ ys[c + 1] = Len(y)
  /\ \A n \in 0..c : /\ xe[n] \in 0..Len(x) /\ ye[n] \in 0..Len(y)
                     /\ xs[n + 1] \in xe[n]..Len(x) /\ ys[n + 1] \in ye[n]..Len(y)
                     /\ Part(x, xe[n], xs[n + 1]) = Part(y, ye[n], ys[n + 1])
  /\ \A n \in 1..c : xe[n] \in xs[n]..Len(x) /\ ye[n] \in ys[n]..Len(y)

(* A hunk whose side is found at its place is put in. *)
LEMMA HunkGoesIn ==
  ASSUME NEW x, NEW y, x \in Seq(Range(x)), y \in Seq(Range(y)),
         NEW s0 \in 0..Len(x), NEW s1 \in s0..Len(x), NEW s2 \in s1..Len(x),
         NEW t0 \in 0..Len(y), NEW t1 \in t0..Len(y), NEW t2 \in t1..Len(y),
         Part(x, s0, s1) = Part(y, t0, t1),
         NEW h, h.at = s1, h.want = Part(x, s1, s2), h.give = Part(y, t1, t2)
  PROVE  Spliced(x, [ok |-> TRUE, cursor |-> s0, out |-> Part(y, 0, t0)], h)
           = [ok |-> TRUE, cursor |-> s2, out |-> Part(y, 0, t2)]
<1>1. Len(x) \in Nat /\ Len(y) \in Nat
  BY LenProperties
<1>2. /\ s0 \in Nat /\ s1 \in Nat /\ s2 \in Nat /\ s0 <= s1 /\ s1 <= s2
      /\ s1 \in 0..Len(x) /\ s1 + (s2 - s1) = s2
  BY <1>1
<1>3. /\ 0 \in 0..Len(y) /\ t0 \in 0..Len(y) /\ t1 \in 0..Len(y) /\ t2 \in t1..Len(y)
  BY <1>1
<1>4. Lines(x, s1, s2 - s1) = h.want /\ Len(h.want) = s2 - s1
  BY <1>2, LinesArePart
<1>5. Lines(x, s0, s1 - s0) = Part(y, t0, t1)
  BY LinesArePart
<1>6. Part(y, 0, t0) \o Part(y, t0, t1) = Part(y, 0, t1)
  BY <1>3, PartsJoin
<1>7. Part(y, 0, t1) \o Part(y, t1, t2) = Part(y, 0, t2)
  BY <1>3, PartsJoin
<1> DEFINE done == [ok |-> TRUE, cursor |-> s0, out |-> Part(y, 0, t0)]
<1>8. done.ok /\ done.cursor = s0 /\ done.out = Part(y, 0, t0)
  OBVIOUS
<1> HIDE DEF done
<1>9. /\ done.ok /\ h.at >= done.cursor /\ Lines(x, h.at, Len(h.want)) = h.want
  BY <1>2, <1>4, <1>8
<1>10. Spliced(x, done, h) =
         [ok |-> TRUE, cursor |-> h.at + Len(h.want),
          out |-> done.out \o Lines(x, done.cursor, h.at - done.cursor) \o h.give]
  BY <1>9, Zenon DEF Spliced
<1>11. h.at + Len(h.want) = s2
  BY <1>2, <1>4
<1>12. done.out \o Lines(x, done.cursor, h.at - done.cursor) \o h.give = Part(y, 0, t2)
  BY <1>5, <1>6, <1>7, <1>8
<1> QED
  BY <1>10, <1>11, <1>12 DEF done

(* Hunks that say where the texts part turn one into the other. *)
LEMMA SpliceTurns ==
  ASSUME NEW x, NEW y, NEW hunks, NEW reverse, NEW xs, NEW xe, NEW ys, NEW ye,
         Len(hunks) \in Nat, Aligned(x, y, Len(hunks), xs, xe, ys, ye),
         \A n \in 1..Len(hunks) :
           Turned(hunks[n], reverse) =
             [at |-> xs[n], want |-> Part(x, xs[n], xe[n]), give |-> Part(y, ys[n], ye[n])]
  PROVE  Splice(x, hunks, reverse) = [ok |-> TRUE, text |-> y]
<1> DEFINE c == Len(hunks)
           start == [ok |-> TRUE, cursor |-> 0, out |-> <<>>]
           after == CHOOSE f : f = [n \in 0..c |-> IF n = 0 THEN start
                                      ELSE Spliced(x, f[n - 1], Turned(hunks[n], reverse))]
           all == after[c]
           given == [text |-> x, hunks |-> hunks, reverse |-> reverse]
<1>1. Splice(x, hunks, reverse) = [ok |-> all.ok, text |-> all.out \o Lines(x, all.cursor, Len(x))]
  BY DEF Splice
<1>2. \A n \in 0..c : after[n] = IF n = 0 THEN start
                                 ELSE Spliced(x, after[n - 1], Turned(hunks[n], reverse))
  <2> HIDE DEF c, start
  <2>1. \A f, n : Step("splice", given, f, n) = Spliced(x, f, Turned(hunks[n], reverse))
    BY DEF Step
  <2> HIDE DEF given
  <2>2. PICK f : Loops("splice", given, start, c, f)
    BY LoopExists DEF c
  <2>3. f = [n \in 0..c |-> IF n = 0 THEN start ELSE Spliced(x, f[n - 1], Turned(hunks[n], reverse))]
    BY <2>1, <2>2 DEF Loops
  <2>4. after = [n \in 0..c |-> IF n = 0 THEN start
                   ELSE Spliced(x, after[n - 1], Turned(hunks[n], reverse))]
    BY <2>3
  <2> HIDE DEF after
  <2> QED
    BY <2>4
<1> HIDE DEF after
<1>3. /\ x \in Seq(Range(x)) /\ y \in Seq(Range(y)) /\ Len(x) \in Nat /\ Len(y) \in Nat
      /\ xe[0] = 0 /\ ye[0] = 0 /\ xs[c + 1] = Len(x) /\ ys[c + 1] = Len(y)
      /\ \A n \in 0..c : /\ xe[n] \in 0..Len(x) /\ ye[n] \in 0..Len(y)
                         /\ xs[n + 1] \in xe[n]..Len(x) /\ ys[n + 1] \in ye[n]..Len(y)
                         /\ Part(x, xe[n], xs[n + 1]) = Part(y, ye[n], ys[n + 1])
      /\ \A n \in 1..c : xe[n] \in xs[n]..Len(x) /\ ye[n] \in ys[n]..Len(y)
  BY LenProperties DEF Aligned
<1> DEFINE At_(n) == [ok |-> TRUE, cursor |-> xe[n], out |-> Part(y, 0, ye[n])]
           S == {n \in Nat : n <= c => after[n] = At_(n)}
<1>4. 0 \in S
  <2>1. after[0] = start
    BY <1>2
  <2>2. Part(y, 0, 0) = <<>>
    BY <1>3, PartEnds
  <2> QED
    BY <1>3, <2>1, <2>2
<1>5. ASSUME NEW n \in Nat, n \in S PROVE n + 1 \in S
  <2> SUFFICES ASSUME n + 1 <= c PROVE after[n + 1] = At_(n + 1)
    OBVIOUS
  <2> DEFINE m == n + 1
             h == Turned(hunks[m], reverse)
  <2>1. after[n] = At_(n)
    BY <1>5
  <2>2. m \in 1..c /\ n \in 0..c /\ m \in 0..c /\ m # 0 /\ m - 1 = n /\ m = n + 1
    OBVIOUS
  <2> HIDE DEF m, S, At_, given
  <2>3. after[m] = Spliced(x, after[n], h)
    <3> HIDE DEF start
    <3> QED
      BY <1>2, <2>2
  <2>4. h.at = xs[m] /\ h.want = Part(x, xs[m], xe[m]) /\ h.give = Part(y, ys[m], ye[m])
    <3>1. h = [at |-> xs[m], want |-> Part(x, xs[m], xe[m]), give |-> Part(y, ys[m], ye[m])]
      BY <2>2
    <3> HIDE DEF h
    <3> QED
      BY <3>1
  <2> HIDE DEF h
  <2>5. /\ xe[n] \in 0..Len(x) /\ ye[n] \in 0..Len(y)
        /\ xs[m] \in xe[n]..Len(x) /\ ys[m] \in ye[n]..Len(y)
        /\ Part(x, xe[n], xs[m]) = Part(y, ye[n], ys[m])
        /\ xe[m] \in xs[m]..Len(x) /\ ye[m] \in ys[m]..Len(y)
    <3> HIDE DEF c
    <3>1. /\ xe[n] \in 0..Len(x) /\ ye[n] \in 0..Len(y)
          /\ xs[n + 1] \in xe[n]..Len(x) /\ ys[n + 1] \in ye[n]..Len(y)
          /\ Part(x, xe[n], xs[n + 1]) = Part(y, ye[n], ys[n + 1])
      BY <1>3, <2>2
    <3>2. xe[m] \in xs[m]..Len(x) /\ ye[m] \in ys[m]..Len(y)
      BY <1>3, <2>2
    <3> QED
      BY <2>2, <3>1, <3>2
  <2>6. Spliced(x, At_(n), h) = At_(m)
    <3> DEFINE s0 == xe[n]  s1 == xs[m]  s2 == xe[m]
               t0 == ye[n]  t1 == ys[m]  t2 == ye[m]
    <3>1. /\ s0 \in 0..Len(x) /\ s1 \in s0..Len(x) /\ s2 \in s1..Len(x)
          /\ t0 \in 0..Len(y) /\ t1 \in t0..Len(y) /\ t2 \in t1..Len(y)
          /\ Part(x, s0, s1) = Part(y, t0, t1)
          /\ h.at = s1 /\ h.want = Part(x, s1, s2) /\ h.give = Part(y, t1, t2)
      BY <2>4, <2>5
    <3>2. /\ At_(n) = [ok |-> TRUE, cursor |-> s0, out |-> Part(y, 0, t0)]
          /\ At_(m) = [ok |-> TRUE, cursor |-> s2, out |-> Part(y, 0, t2)]
      BY DEF At_
    <3> HIDE DEF s0, s1, s2, t0, t1, t2, At_
    <3>3. Spliced(x, [ok |-> TRUE, cursor |-> s0, out |-> Part(y, 0, t0)], h)
            = [ok |-> TRUE, cursor |-> s2, out |-> Part(y, 0, t2)]
      BY <1>3, <3>1, HunkGoesIn
    <3> QED
      BY <3>2, <3>3
  <2> QED
    <3> HIDE DEF At_
    <3> QED
      BY <2>1, <2>3, <2>6 DEF m
<1> HIDE DEF S
<1>6. c \in S
  BY <1>4, <1>5, SetInduction
<1>7. all.ok = TRUE /\ all.cursor = xe[c] /\ all.out = Part(y, 0, ye[c])
  BY <1>6 DEF S
<1>8. /\ c \in 0..c /\ xe[c] \in 0..Len(x) /\ ye[c] \in 0..Len(y)
      /\ Len(x) \in xe[c]..Len(x) /\ Len(y) \in ye[c]..Len(y)
      /\ Part(x, xe[c], Len(x)) = Part(y, ye[c], Len(y))
  BY <1>3
<1>9. Lines(x, xe[c], Len(x)) = Part(x, xe[c], Len(x))
  <2>1. (IF xe[c] + Len(x) < Len(x) THEN xe[c] + Len(x) ELSE Len(x)) = Len(x)
    BY <1>3, <1>8
  <2> QED
    BY <2>1 DEF Lines, Part
<1>10. Part(y, 0, ye[c]) \o Part(y, ye[c], Len(y)) = Part(y, 0, Len(y))
  <2>1. 0 \in 0..Len(y) /\ ye[c] \in 0..Len(y) /\ Len(y) \in ye[c]..Len(y)
    BY <1>3, <1>8
  <2> QED
    BY <1>3, <2>1, PartsJoin
<1>11. Part(y, 0, Len(y)) = y
  BY <1>3, PartEnds
<1> HIDE DEF all, c
<1> QED
  BY <1>1, <1>7, <1>8, <1>9, <1>10, <1>11

-------------------------------------------------------------------------------
(* Cutting a diff and applying it. *)

(* What is not shown lies between the runs of what is. *)
LEMMA RunsInOrder ==
  ASSUME NEW T, NEW a \in Nat, T \subseteq 1..a
  PROVE  LET c == Cardinality(Starts(T))
             S(n) == Nth(Starts(T), n)
             E(n) == EndOf(T, S(n))
         IN /\ c \in Nat
            /\ \A n \in 1..c : /\ S(n) \in T /\ S(n) - 1 \notin T
                               /\ E(n) \in T /\ E(n) + 1 \notin T /\ S(n) <= E(n)
            /\ \A n \in 1..c : n + 1 \in 1..c => E(n) + 1 < S(n + 1)
            /\ \A n \in 0..c : \A j \in 1..a :
                 /\ n # 0 => E(n) < j
                 /\ n # c => j < S(n + 1)
                 => j \notin T
<1> DEFINE starts == Starts(T)
           c == Cardinality(starts)
           S(n) == Nth(starts, n)
           E(n) == EndOf(T, S(n))
<1>1. /\ T \in SUBSET Nat /\ T \subseteq Int /\ 0 \notin T /\ a + 1 \notin T /\ a + 1 \in Nat
      /\ \A k \in T : k < a + 1 /\ k \in Nat /\ k \in Int
  OBVIOUS
<1>2. starts \subseteq T /\ \A k \in starts : k - 1 \notin T
  BY DEF Starts
<1>3. IsFiniteSet(starts) /\ starts \subseteq Nat
  <2>1. IsFiniteSet(1..a)
    BY FS_Interval
  <2>2. starts \subseteq 1..a
    BY <1>2
  <2> QED
    BY <1>1, <1>2, <2>1, <2>2, FS_Subset
<1> HIDE DEF starts
<1>4. /\ c \in Nat
      /\ \A n \in 1..c : S(n) \in starts
      /\ \A i, j \in 1..c : i < j => S(i) < S(j)
      /\ \A k \in starts : \E i \in 1..c : k = S(i)
  BY <1>3, PlacesInOrder
<1> HIDE DEF c
<1>5. \A n \in 1..c : S(n) \in T /\ S(n) - 1 \notin T /\ S(n) \in Nat
  BY <1>1, <1>2, <1>4
<1>6. \A n \in 1..c : E(n) \in T /\ E(n) + 1 \notin T /\ S(n) <= E(n) /\ E(n) \in Nat
  <2> SUFFICES ASSUME NEW n \in 1..c
               PROVE  E(n) \in T /\ E(n) + 1 \notin T /\ S(n) <= E(n) /\ E(n) \in Nat
    OBVIOUS
  <2> DEFINE k == S(n)
  <2>1. k \in T /\ a + 1 \in Nat \ T /\ k < a + 1
    BY <1>1, <1>5
  <2> HIDE DEF k
  <2>2. EndOf(T, k) \in T /\ EndOf(T, k) + 1 \notin T /\ k <= EndOf(T, k)
    BY <1>1, <2>1, RunEnds
  <2> QED
    BY <1>1, <2>2 DEF k
<1>7. \A n \in 1..c : n + 1 \in 1..c => E(n) + 1 < S(n + 1)
  <2> SUFFICES ASSUME NEW n \in 1..c, n + 1 \in 1..c PROVE E(n) + 1 < S(n + 1)
    OBVIOUS
  <2> DEFINE k == S(n)  l == S(n + 1)
  <2>1. k \in T /\ k \in Nat /\ l \in Nat /\ l - 1 \notin T /\ k < l
    <3>1. n < n + 1
      BY <1>4
    <3> QED
      BY <1>4, <1>5, <3>1
  <2> HIDE DEF k, l
  <2>2. k # l - 1
    BY <2>1
  <2>3. l - 1 \in Nat \ T /\ k < l - 1
    BY <2>1, <2>2
  <2>4. EndOf(T, k) < l - 1 /\ EndOf(T, k) \in T
    BY <1>1, <2>1, <2>3, RunEnds
  <2>5. EndOf(T, k) \in Nat
    BY <1>1, <2>4
  <2>6. EndOf(T, k) + 1 < l
    BY <2>1, <2>4, <2>5
  <2> QED
    BY <2>6 DEF k, l
<1>8. ASSUME NEW n \in 0..c, NEW j \in 1..a, n # 0 => E(n) < j, n # c => j < S(n + 1), j \in T
      PROVE  FALSE
  <2> DEFINE u == IF n = 0 THEN 0 ELSE E(n) + 1
  <2>1. n \in Nat /\ n <= c /\ j \in Nat /\ j > 0
    BY <1>4
  <2>2. u \in Nat /\ u \notin T /\ u <= j
    <3>1. CASE n = 0
      BY <1>1, <2>1, <3>1
    <3>2. CASE n # 0
      <4>1. n \in 1..c /\ u = E(n) + 1
        BY <1>4, <2>1, <3>2
      <4> HIDE DEF u, E
      <4>2. E(n) \in Nat /\ E(n) + 1 \notin T /\ E(n) < j
        BY <1>6, <1>8, <3>2, <4>1
      <4> QED
        BY <2>1, <4>1, <4>2
    <3> QED
      BY <3>1, <3>2
  <2> HIDE DEF u
  <2>3. u # j /\ u < j
    <3>1. u # j
      BY <1>8, <2>2
    <3> QED
      BY <2>1, <2>2, <3>1
  <2>4. PICK s \in starts : u < s /\ s <= j
    BY <1>1, <1>8, <2>2, <2>3, RunBegins DEF starts
  <2>5. PICK i \in 1..c : s = S(i)
    BY <1>4
  <2>6. s \in Nat /\ i \in Nat /\ i >= 1 /\ i <= c
    BY <1>3, <1>4
  <2>7. i > n
    <3>1. CASE n = 0
      BY <2>6, <3>1
    <3>2. CASE n # 0
      <4>1. n \in 1..c
        BY <1>4, <2>1, <3>2
      <4>2. S(n) <= E(n) /\ S(n) \in Nat /\ E(n) \in Nat
        BY <1>5, <1>6, <4>1
      <4>3. E(n) + 1 < S(i)
        BY <2>4, <2>5, <3>2 DEF u
      <4> HIDE DEF S, E
      <4>4. S(n) < S(i) /\ S(i) \in Nat
        BY <2>5, <2>6, <4>2, <4>3
      <4>5. ~(S(i) < S(n)) /\ S(i) # S(n)
        BY <4>2, <4>4
      <4>6. ~(i < n) /\ i # n
        BY <1>4, <4>1, <4>5
      <4> QED
        BY <2>1, <2>6, <4>6
    <3> QED
      BY <3>1, <3>2
  <2>8. n # c /\ n + 1 \in 1..c
    BY <1>4, <2>1, <2>6, <2>7
  <2>9. j < S(n + 1) /\ S(n + 1) \in Nat
    BY <1>5, <1>8, <2>8
  <2>10. ~(n + 1 < i)
    <3> SUFFICES ASSUME n + 1 < i PROVE FALSE
      OBVIOUS
    <3>1. S(n + 1) < S(i)
      BY <1>4, <2>8
    <3> HIDE DEF S
    <3> QED
      BY <2>1, <2>4, <2>5, <2>6, <2>9, <3>1
  <2>11. i = n + 1
    BY <2>1, <2>6, <2>7, <2>10
  <2> HIDE DEF S
  <2> QED
    BY <2>1, <2>4, <2>5, <2>6, <2>9, <2>11
<1> HIDE DEF E, S
<1>9. \A n \in 0..c : \A j \in 1..a :
        (n # 0 => E(n) < j) /\ (n # c => j < S(n + 1)) => j \notin T
  BY <1>8
<1> QED
  BY <1>4, <1>5, <1>6, <1>7, <1>9 DEF E, S, c, starts

(* What goes, of a run of lines, and prints as a header does. *)
LostIn(old, new, k, e) ==
  {old[i] : i \in {j \in k .. e : old[j].is = "comment" /\ old[j] \notin Range(new)}}

(* The runs part both texts alike, and the hunks say how. *)
LEMMA CutsAlign ==
  ASSUME NEW old, NEW new, Comparable(old, new)
  PROVE  \E xs, xe, ys, ye :
            LET hunks == Hunks(old, new)
                c == Len(hunks)
            IN /\ c \in Nat
               /\ DOMAIN hunks = 1..c /\ hunks = [n \in 1..c |-> hunks[n]]
               /\ Aligned(old, new, c, xs, xe, ys, ye)
               /\ \A n \in 1..c :
                    hunks[n] = [old |-> xs[n], new |-> ys[n],
                                before |-> Part(old, xs[n], xe[n]),
                                after |-> Part(new, ys[n], ye[n]),
                                lost |-> LostIn(old, new, xs[n] + 1, xe[n]),
                                torn |-> FALSE]
<1> DEFINE a == Len(old)
           b == Len(new)
           T == Shown(old, new)
           starts == Starts(T)
           c == Cardinality(starts)
           S(n) == Nth(starts, n)
           E(n) == EndOf(T, S(n))
           P(i) == PlaceOf(old[i], new)
           hidden == Hidden(old, new)
           xs == [n \in 1..(c + 1) |-> IF n = c + 1 THEN a ELSE S(n) - 1]
           xe == [n \in 0..c |-> IF n = 0 THEN 0 ELSE E(n)]
           ys == [n \in 1..(c + 1) |-> CutBefore(old, new, xs[n] + 1)]
           ye == [n \in 0..c |-> CutAfter(old, new, xe[n])]
<1>1. a \in Nat \ {0} /\ b \in Nat /\ DOMAIN old = 1..a
  BY TextLengths
<1>2. /\ T \subseteq 1..a
      /\ \A k \in hidden : P(k) \in 1..b
      /\ \A k, l \in hidden : k < l => P(k) < P(l)
  BY HiddenGoesOn
<1>3. \A j \in 1..a : j \notin T <=> j \in hidden
  BY <1>1 DEF Hidden
<1>4. /\ c \in Nat
      /\ \A n \in 1..c : /\ S(n) \in T /\ S(n) - 1 \notin T
                         /\ E(n) \in T /\ E(n) + 1 \notin T /\ S(n) <= E(n)
      /\ \A n \in 1..c : n + 1 \in 1..c => E(n) + 1 < S(n + 1)
      /\ \A n \in 0..c : \A j \in 1..a :
           (n # 0 => E(n) < j) /\ (n # c => j < S(n + 1)) => j \notin T
  <2> HIDE DEF T
  <2> QED
    BY <1>1, <1>2, RunsInOrder
<1>5. \A n \in 1..c : S(n) \in 1..a /\ E(n) \in 1..a /\ S(n) \in Nat /\ E(n) \in Nat
  BY <1>2, <1>4
<1>6. /\ Len(Hunks(old, new)) = c
      /\ \A n \in 1..c : Hunks(old, new)[n] = Hunk(old, new, S(n), E(n))
      /\ DOMAIN Hunks(old, new) = 1..c
      /\ Hunks(old, new) = [n \in 1..c |-> Hunks(old, new)[n]]
  <2> DEFINE h == [n \in 1..c |-> Hunk(old, new, S(n), E(n))]
  <2>1. Hunks(old, new) = h
    BY DEF Hunks
  <2>2. /\ DOMAIN h = 1..c /\ \A n \in 1..c : h[n] = Hunk(old, new, S(n), E(n))
        /\ h = [n \in 1..c |-> h[n]]
    OBVIOUS
  <2> HIDE DEF h, c
  <2>3. Len(h) = c
    <3>1. h \in [1..c -> {h[n] : n \in 1..c}]
      BY <2>2 DEF h
    <3>2. h \in Seq({h[n] : n \in 1..c})
      BY <1>4, <3>1, SeqDef
    <3>3. Len(h) \in Nat /\ 1..c = 1..Len(h)
      BY <2>2, <3>2, LenProperties
    <3> HIDE DEF h
    <3> QED
      BY <1>4, <3>3
  <2> QED
    BY <2>1, <2>2, <2>3
<1> HIDE DEF hidden, T, starts, c, S, E, P
<1>7. \A n \in 1..c : xs[n] = S(n) - 1 /\ xe[n] = E(n) /\ xs[n] \in 0..a /\ xe[n] \in xs[n]..a
  <2> SUFFICES ASSUME NEW n \in 1..c
               PROVE  xs[n] = S(n) - 1 /\ xe[n] = E(n) /\ xs[n] \in 0..a /\ xe[n] \in xs[n]..a
    OBVIOUS
  <2>1. n \in 1..(c + 1) /\ n # c + 1 /\ n \in 0..c /\ n # 0
    BY <1>4
  <2>2. xs[n] = S(n) - 1 /\ xe[n] = E(n)
    BY <2>1
  <2> HIDE DEF xs, xe
  <2> QED
    BY <1>1, <1>4, <1>5, <2>2
<1>8. xe[0] = 0 /\ xs[c + 1] = a /\ c + 1 \in 1..(c + 1) /\ 0 \in 0..c
  BY <1>4
<1>9. \A n \in 1..(c + 1) : ys[n] = CutBefore(old, new, xs[n] + 1)
  OBVIOUS
<1>10. \A n \in 0..c : ye[n] = CutAfter(old, new, xe[n])
  OBVIOUS
<1> HIDE DEF xs, xe, ys, ye
<1>11. ye[0] = 0 /\ ys[c + 1] = b
  BY <1>8, <1>9, <1>10 DEF CutBefore, CutAfter
<1>12. ASSUME NEW n \in 0..c
       PROVE  /\ xe[n] \in 0..a /\ ye[n] \in 0..b
              /\ xs[n + 1] \in xe[n]..a /\ ys[n + 1] \in ye[n]..b
              /\ Part(old, xe[n], xs[n + 1]) = Part(new, ye[n], ys[n + 1])
  <2> DEFINE e == xe[n]
             k == xs[n + 1] + 1
  <2>1. n \in Nat /\ n <= c /\ n + 1 \in 1..(c + 1)
    BY <1>4
  <2>2. e \in 0..a /\ (n # 0 => n \in 1..c /\ e = E(n)) /\ (n = 0 => e = 0)
    <3>1. CASE n = 0
      BY <1>1, <1>8, <3>1
    <3>2. CASE n # 0
      <4>1. n \in 1..c
        BY <1>4, <2>1, <3>2
      <4>2. e = E(n) /\ E(n) \in 1..a
        BY <1>5, <1>7, <4>1
      <4> HIDE DEF e
      <4> QED
        BY <1>1, <3>2, <4>1, <4>2
    <3> QED
      BY <3>1, <3>2
  <2>3. k \in 1..(a + 1) /\ (n # c => n + 1 \in 1..c /\ k = S(n + 1)) /\ (n = c => k = a + 1)
    <3>1. CASE n = c
      BY <1>1, <1>8, <3>1
    <3>2. CASE n # c
      <4>1. n + 1 \in 1..c
        BY <1>4, <2>1, <3>2
      <4>2. xs[n + 1] = S(n + 1) - 1 /\ S(n + 1) \in 1..a
        BY <1>5, <1>7, <4>1
      <4>3. k = S(n + 1)
        BY <1>1, <4>2
      <4> HIDE DEF k
      <4> QED
        BY <1>1, <3>2, <4>1, <4>2, <4>3
    <3> QED
      BY <3>1, <3>2
  <2> HIDE DEF e, k
  <2>4. e \in Nat /\ k \in Nat
    BY <1>1, <2>2, <2>3
  <2>5. e < k
    <3>1. CASE n = 0
      BY <1>1, <2>2, <2>3, <3>1
    <3>2. CASE n = c
      BY <1>1, <2>2, <2>3, <3>2
    <3>3. CASE n # 0 /\ n # c
      <4>1. E(n) + 1 < S(n + 1)
        BY <1>4, <2>2, <2>3, <3>3
      <4>2. e + 1 < k
        BY <2>2, <2>3, <3>3, <4>1
      <4> QED
        BY <2>4, <4>2
    <3> QED
      BY <3>1, <3>2, <3>3
  <2>6. \A j \in (e + 1)..(k - 1) : j \in hidden
    <3> SUFFICES ASSUME NEW j \in (e + 1)..(k - 1) PROVE j \in hidden
      OBVIOUS
    <3>1. j \in 1..a /\ e < j /\ j < k
      BY <1>1, <2>2, <2>3, <2>4
    <3>2. (n # 0 => E(n) < j) /\ (n # c => j < S(n + 1))
      BY <2>2, <2>3, <3>1
    <3>3. j \notin T
      BY <1>4, <3>1, <3>2
    <3> QED
      BY <1>3, <3>1, <3>3
  <2>7. e = 0 \/ e = a \/ e + 1 \in hidden
    <3> SUFFICES ASSUME e # 0, e # a PROVE e + 1 \in hidden
      OBVIOUS
    <3>1. e + 1 \in 1..a
      <4> HIDE DEF a
      <4>1. e \in Nat /\ e <= a /\ ~(e = a)
        BY <1>1, <2>2
      <4> QED
        BY <1>1, <4>1
    <3>2. n \in 1..c /\ e = E(n)
      BY <2>2
    <3>3. e + 1 \notin T
      BY <1>4, <3>2
    <3> QED
      BY <1>3, <3>1, <3>3
  <2>8. k \notin hidden
    <3>1. CASE n = c
      BY <1>1, <2>3, <3>1 DEF hidden, Hidden
    <3>2. CASE n # c
      <4>1. k \in T
        BY <1>4, <2>3, <3>2
      <4> QED
        BY <4>1 DEF hidden, Hidden, T
    <3> QED
      BY <3>1, <3>2
  <2> DEFINE p == CutAfter(old, new, e)
             q == CutBefore(old, new, k)
  <2>9. /\ p \in 0..b /\ q \in p..b
        /\ Part(old, e, k - 1) = Part(new, p, q)
    BY <2>2, <2>3, <2>5, <2>6, <2>7, <2>8, GapAgrees DEF hidden
  <2>10. ye[n] = p /\ ys[n + 1] = q
    BY <1>9, <1>10, <2>1 DEF e, k
  <2>11. xs[n + 1] = k - 1
    <3>1. CASE n = c
      BY <1>1, <1>8, <3>1 DEF k
    <3>2. CASE n # c
      <4>1. xs[n + 1] = S(n + 1) - 1
        BY <1>7, <2>3, <3>2
      <4> QED
        BY <2>3, <3>2, <4>1
    <3> QED
      BY <3>1, <3>2
  <2>12. k - 1 \in e..a
    BY <1>1, <2>2, <2>3, <2>4, <2>5
  <2> HIDE DEF p, q
  <2> QED
    BY <2>2, <2>9, <2>10, <2>11, <2>12 DEF e
<1>13. ASSUME NEW n \in 1..c PROVE ye[n] \in ys[n]..b
  <2> DEFINE k == S(n)  e == E(n)
  <2>1. k \in 1..a /\ e \in 1..a /\ k <= e
    BY <1>4, <1>5
  <2>2. n \in 1..(c + 1) /\ n \in 0..c
    BY <1>4
  <2>3. xs[n] + 1 = k /\ xe[n] = e
    <3>1. xs[n] = S(n) - 1 /\ xe[n] = E(n) /\ S(n) \in Nat
      BY <1>5, <1>7
    <3> QED
      BY <3>1
  <2> HIDE DEF k, e
  <2>4. ys[n] = CutBefore(old, new, k) /\ ye[n] = CutAfter(old, new, e)
    BY <1>9, <1>10, <2>2, <2>3
  <2>5. k # a + 1 /\ e # 0
    BY <1>1, <2>1
  <2>6. k = 1 => ys[n] = 0
    BY <2>4, <2>5 DEF CutBefore
  <2>7. k # 1 => k - 1 \in hidden /\ ys[n] = P(k - 1)
    <3> SUFFICES ASSUME k # 1 PROVE k - 1 \in hidden /\ ys[n] = P(k - 1)
      OBVIOUS
    <3>1. k - 1 \in 1..a
      BY <1>1, <2>1
    <3>2. k - 1 \notin T
      BY <1>4 DEF k
    <3> QED
      BY <1>3, <2>4, <2>5, <3>1, <3>2 DEF CutBefore, P
  <2>8. e = a => ye[n] = b
    BY <2>4, <2>5 DEF CutAfter
  <2>9. e # a => e + 1 \in hidden /\ ye[n] = P(e + 1) - 1
    <3> SUFFICES ASSUME e # a PROVE e + 1 \in hidden /\ ye[n] = P(e + 1) - 1
      OBVIOUS
    <3>1. e + 1 \in 1..a
      <4> HIDE DEF a
      <4>1. e \in Nat /\ e <= a /\ ~(e = a)
        BY <1>1, <2>1
      <4> QED
        BY <1>1, <4>1
    <3>2. e + 1 \notin T
      BY <1>4 DEF e
    <3> QED
      BY <1>3, <2>4, <2>5, <3>1, <3>2 DEF CutAfter, P
  <2>10. ys[n] \in 0..b
    BY <1>1, <1>2, <2>6, <2>7
  <2>11. CASE e = a
    BY <1>1, <2>8, <2>10, <2>11
  <2>12. CASE e # a
    <3>1. P(e + 1) \in 1..b /\ e + 1 \in hidden
      BY <1>2, <2>9, <2>12
    <3>2. ys[n] < P(e + 1)
      <4>1. CASE k = 1
        BY <1>1, <2>6, <3>1, <4>1
      <4>2. CASE k # 1
        <5>1. k - 1 < e + 1
          BY <1>1, <2>1
        <5>2. P(k - 1) < P(e + 1)
          BY <1>2, <2>7, <3>1, <4>2, <5>1
        <5> QED
          BY <2>7, <4>2, <5>2
      <4> QED
        BY <4>1, <4>2
    <3>3. ye[n] = P(e + 1) - 1
      BY <2>9, <2>12
    <3> QED
      BY <1>1, <2>10, <3>1, <3>2, <3>3
  <2> QED
    BY <2>11, <2>12
<1>14. Aligned(old, new, c, xs, xe, ys, ye)
  <2>1. old \in Seq(Range(old)) /\ new \in Seq(Range(new))
    BY DEF Comparable
  <2>2. \A n \in 1..c : xe[n] \in xs[n]..a /\ ye[n] \in ys[n]..b
    BY <1>7, <1>13
  <2> QED
    BY <1>8, <1>11, <1>12, <2>1, <2>2 DEF Aligned
<1>15. ASSUME NEW n \in 1..c
       PROVE  Hunks(old, new)[n] = [old |-> xs[n], new |-> ys[n],
                                    before |-> Part(old, xs[n], xe[n]),
                                    after |-> Part(new, ys[n], ye[n]),
                                    lost |-> LostIn(old, new, xs[n] + 1, xe[n]),
                                    torn |-> FALSE]
  <2> DEFINE k == S(n)  e == E(n)
             lo == IF k = 1 THEN 0 ELSE PlaceOf(old[k - 1], new)
             hi == IF e = Len(old) THEN Len(new) ELSE PlaceOf(old[e + 1], new) - 1
  <2>1. Hunks(old, new)[n] = Hunk(old, new, k, e)
    BY <1>6
  <2>2. Hunk(old, new, k, e) = [old |-> k - 1, new |-> lo,
          before |-> SubSeq(old, k, e), after |-> SubSeq(new, lo + 1, hi),
          lost |-> LostIn(old, new, k, e), torn |-> FALSE]
    BY Zenon DEF Hunk, LostIn
  <2>3. xs[n] = k - 1 /\ xe[n] = e /\ k \in 1..a /\ e \in 1..a
    BY <1>5, <1>7
  <2> HIDE DEF k, e
  <2>4. n \in 1..(c + 1) /\ n \in 0..c /\ k # a + 1 /\ e # 0 /\ (k - 1) + 1 = k
    BY <1>1, <1>4, <2>3
  <2>5. ys[n] = CutBefore(old, new, k) /\ ye[n] = CutAfter(old, new, e)
    BY <1>9, <1>10, <2>3, <2>4
  <2>6. ys[n] = lo /\ ye[n] = hi
    BY <2>4, <2>5 DEF CutBefore, CutAfter
  <2>7. Part(old, xs[n], xe[n]) = SubSeq(old, k, e)
    BY <2>3, <2>4 DEF Part
  <2>8. Part(new, ys[n], ye[n]) = SubSeq(new, lo + 1, hi)
    BY <2>6 DEF Part
  <2>9. LostIn(old, new, xs[n] + 1, xe[n]) = LostIn(old, new, k, e)
    BY <2>3, <2>4
  <2> HIDE DEF lo, hi
  <2> QED
    BY <2>1, <2>2, <2>3, <2>6, <2>7, <2>8, <2>9
<1> QED
  BY <1>4, <1>6, <1>14, <1>15

(* What is read of a hunk that loses nothing is the hunk. *)
LEMMA ParsedAsCut ==
  ASSUME NEW hunks, DOMAIN hunks = 1..Len(hunks),
         hunks = [n \in 1..Len(hunks) |-> hunks[n]],
         \A n \in 1..Len(hunks) : hunks[n].lost = {}
  PROVE  ParsePatch(hunks) = hunks
<1>1. \A h : h.lost = {} => Parsed(h) = h
  BY Zenon DEF Parsed
<1>2. \A n \in DOMAIN hunks : Parsed(hunks[n]) = hunks[n]
  BY <1>1
<1>3. ParsePatch(hunks) = [n \in DOMAIN hunks |-> Parsed(hunks[n])]
  BY Zenon DEF ParsePatch
<1> QED
  BY <1>2, <1>3

(* A diff make_patch() cuts between two texts, in however many hunks and       *)
(* however near each other, can be parsed, is what turns the one text into the *)
(* other, and is never found not to apply to a text that carries it, as long   *)
(* as no line that begins "-- " goes: make_patch(), parse_patch(),             *)
(* apply_patch().                                                              *)
THEOREM CutDiffsApply ==
  ASSUME NEW old, NEW new, Comparable(old, new), Legible(old, new), old # new
  PROVE  LET hunks == Hunks(old, new)
         IN /\ ~Malformed(hunks)
            /\ ApplyPatch(old, hunks) = [text |-> new, status |-> Applied]
            /\ ApplyPatch(new, hunks).status # NotApplicable
<1> DEFINE hunks == Hunks(old, new)
           c == Len(hunks)
<1>1. PICK xs, xe, ys, ye :
        /\ c \in Nat
        /\ DOMAIN hunks = 1..c /\ hunks = [n \in 1..c |-> hunks[n]]
        /\ Aligned(old, new, c, xs, xe, ys, ye)
        /\ \A n \in 1..c :
             hunks[n] = [old |-> xs[n], new |-> ys[n],
                         before |-> Part(old, xs[n], xe[n]),
                         after |-> Part(new, ys[n], ye[n]),
                         lost |-> LostIn(old, new, xs[n] + 1, xe[n]),
                         torn |-> FALSE]
  BY CutsAlign
<1> HIDE DEF hunks
<1>2. \A n \in 1..c : /\ hunks[n].old = xs[n] /\ hunks[n].new = ys[n]
                       /\ hunks[n].before = Part(old, xs[n], xe[n])
                       /\ hunks[n].after = Part(new, ys[n], ye[n])
                       /\ hunks[n].lost = LostIn(old, new, xs[n] + 1, xe[n])
                       /\ hunks[n].torn = FALSE
  <2> HIDE DEF c
  <2> SUFFICES ASSUME NEW n \in 1..c
               PROVE  /\ hunks[n].old = xs[n] /\ hunks[n].new = ys[n]
                      /\ hunks[n].before = Part(old, xs[n], xe[n])
                      /\ hunks[n].after = Part(new, ys[n], ye[n])
                      /\ hunks[n].lost = LostIn(old, new, xs[n] + 1, xe[n])
                      /\ hunks[n].torn = FALSE
    OBVIOUS
  <2> DEFINE h == hunks[n]
  <2>1. h = [old |-> xs[n], new |-> ys[n], before |-> Part(old, xs[n], xe[n]),
             after |-> Part(new, ys[n], ye[n]),
             lost |-> LostIn(old, new, xs[n] + 1, xe[n]), torn |-> FALSE]
    BY <1>1
  <2> HIDE DEF h
  <2>2. /\ h.old = xs[n] /\ h.new = ys[n] /\ h.before = Part(old, xs[n], xe[n])
        /\ h.after = Part(new, ys[n], ye[n])
        /\ h.lost = LostIn(old, new, xs[n] + 1, xe[n]) /\ h.torn = FALSE
    BY <2>1
  <2> QED
    BY <2>2 DEF h
<1>10. ParsePatch(hunks) = hunks
  <2>1. ASSUME NEW n \in 1..c PROVE hunks[n].lost = {}
    <3>1. xs[n] \in 0..Len(old) /\ xe[n] \in xs[n]..Len(old)
      <4> HIDE DEF c
      <4>1. n - 1 \in 0..c /\ (n - 1) + 1 = n
        BY <1>1
      <4>2. xs[(n - 1) + 1] \in xe[n - 1]..Len(old) /\ xe[n - 1] \in 0..Len(old)
        BY <1>1, <4>1 DEF Aligned
      <4>3. xe[n] \in xs[n]..Len(old)
        BY <1>1 DEF Aligned
      <4> QED
        BY <4>1, <4>2, <4>3
    <3>2. DOMAIN old = 1..Len(old) /\ Len(old) \in Nat
      BY TextLengths
    <3>3. xs[n] + 1 .. xe[n] \subseteq DOMAIN old
      BY <3>1, <3>2
    <3>4. \A j \in xs[n] + 1 .. xe[n] :
            ~(old[j].is = "comment" /\ old[j] \notin Range(new))
      BY <3>3 DEF Legible
    <3>5. LostIn(old, new, xs[n] + 1, xe[n]) = {}
      BY <3>4, Zenon DEF LostIn
    <3> QED
      BY <1>2, <3>5
  <2> QED
    BY <1>1, <2>1, ParsedAsCut
<1>3. Splice(old, hunks, FALSE) = [ok |-> TRUE, text |-> new]
  <2>1. \A n \in 1..c :
          Turned(hunks[n], FALSE) =
            [at |-> xs[n], want |-> Part(old, xs[n], xe[n]), give |-> Part(new, ys[n], ye[n])]
    BY <1>2, Zenon DEF Turned
  <2> DEFINE r == FALSE
  <2>2. /\ Len(hunks) \in Nat /\ Aligned(old, new, Len(hunks), xs, xe, ys, ye)
        /\ \A n \in 1..Len(hunks) :
             Turned(hunks[n], r) =
               [at |-> xs[n], want |-> Part(old, xs[n], xe[n]), give |-> Part(new, ys[n], ye[n])]
    BY <1>1, <2>1
  <2> HIDE DEF r
  <2>3. Splice(old, hunks, r) = [ok |-> TRUE, text |-> new]
    BY <2>2, SpliceTurns
  <2> QED
    BY <2>3 DEF r
<1>4. Splice(new, hunks, TRUE) = [ok |-> TRUE, text |-> old]
  <2>1. \A n \in 1..c :
          Turned(hunks[n], TRUE) =
            [at |-> ys[n], want |-> Part(new, ys[n], ye[n]), give |-> Part(old, xs[n], xe[n])]
    BY <1>2, Zenon DEF Turned
  <2>2. Aligned(new, old, c, ys, ye, xs, xe)
    BY <1>1 DEF Aligned
  <2> DEFINE r == TRUE
  <2>3. /\ Len(hunks) \in Nat /\ Aligned(new, old, Len(hunks), ys, ye, xs, xe)
        /\ \A n \in 1..Len(hunks) :
             Turned(hunks[n], r) =
               [at |-> ys[n], want |-> Part(new, ys[n], ye[n]), give |-> Part(old, xs[n], xe[n])]
    BY <1>1, <2>1, <2>2
  <2> HIDE DEF r
  <2>4. Splice(new, hunks, r) = [ok |-> TRUE, text |-> old]
    BY <2>3, SpliceTurns
  <2> QED
    BY <2>4 DEF r
<1>5. hunks # <<>>
  <2> SUFFICES ASSUME hunks = <<>> PROVE FALSE
    OBVIOUS
  <2>1. c = 0
    BY EmptySeq
  <2> HIDE DEF c
  <2>2. /\ Part(old, 0, Len(old)) = Part(new, 0, Len(new))
        /\ old \in Seq(Range(old)) /\ new \in Seq(Range(new))
    <3>1. 0 \in 0..0 /\ 0 + 1 = 1
      OBVIOUS
    <3>2. Part(old, xe[0], xs[0 + 1]) = Part(new, ye[0], ys[0 + 1])
      BY <1>1, <2>1, <3>1 DEF Aligned
    <3>3. xe[0] = 0 /\ ye[0] = 0 /\ xs[0 + 1] = Len(old) /\ ys[0 + 1] = Len(new)
      BY <1>1, <2>1 DEF Aligned
    <3> QED
      BY <1>1, <3>2, <3>3 DEF Aligned
  <2>3. old = new
    BY <2>2, PartEnds
  <2> QED
    BY <2>3
<1>11. ~Overlapping(hunks)
  <2> SUFFICES ASSUME NEW i \in 1..(c - 1),
                      hunks[i + 1].old < hunks[i].old + Len(hunks[i].before)
               PROVE  FALSE
    BY DEF Overlapping
  <2> HIDE DEF c
  <2> DEFINE m == i + 1
  <2>1. i \in 1..c /\ m \in 1..c /\ i \in 0..c
    BY <1>1
  <2> HIDE DEF m
  <2>2. hunks[i].old = xs[i] /\ hunks[i].before = Part(old, xs[i], xe[i]) /\ hunks[m].old = xs[m]
    BY <1>2, <2>1
  <2>3. /\ old \in Seq(Range(old)) /\ Len(old) \in Nat
        /\ xe[i] \in xs[i]..Len(old) /\ xs[m] \in xe[i]..Len(old)
    <3>1. old \in Seq(Range(old))
      BY <1>1 DEF Aligned
    <3>2. xe[i] \in xs[i]..Len(old)
      BY <1>1, <2>1 DEF Aligned
    <3>3. xs[i + 1] \in xe[i]..Len(old)
      BY <1>1, <2>1 DEF Aligned
    <3> QED
      BY <3>1, <3>2, <3>3, LenProperties DEF m
  <2>4. xs[i] \in 0..Len(old)
    <3>1. i - 1 \in 0..c /\ (i - 1) + 1 = i
      BY <1>1, <2>1
    <3>2. xs[(i - 1) + 1] \in xe[i - 1]..Len(old) /\ xe[i - 1] \in 0..Len(old)
      BY <1>1, <3>1 DEF Aligned
    <3> QED
      BY <2>3, <3>1, <3>2
  <2>5. Len(Part(old, xs[i], xe[i])) = xe[i] - xs[i]
    BY <2>3, <2>4, PartOfText
  <2>6. xs[m] < xs[i] + (xe[i] - xs[i])
    BY <2>2, <2>5 DEF m
  <2> QED
    BY <2>3, <2>4, <2>6
<1>6. ~Malformed(hunks)
  <2>1. ~Unreadable(hunks)
    BY <1>1, <1>2 DEF Unreadable
  <2> QED
    BY <1>10, <1>11, <2>1 DEF Malformed
<1> DEFINE there == Splice(old, hunks, FALSE)
           back  == Splice(new, hunks, TRUE)
           again == Splice(new, hunks, FALSE)
<1>7. /\ ApplyPatch(old, hunks) =
           IF there.ok THEN [text |-> there.text, status |-> Applied]
           ELSE [text |-> old,
                 status |-> IF Splice(old, hunks, TRUE).ok THEN AlreadyApplied ELSE NotApplicable]
      /\ ApplyPatch(new, hunks) =
           IF again.ok THEN [text |-> again.text, status |-> Applied]
           ELSE [text |-> new, status |-> IF back.ok THEN AlreadyApplied ELSE NotApplicable]
  BY <1>5, <1>10, Zenon DEF ApplyPatch
<1> HIDE DEF there, back, again
<1>8. ApplyPatch(old, hunks) = [text |-> new, status |-> Applied]
  <2>1. there.ok = TRUE /\ there.text = new
    <3>1. there = [ok |-> TRUE, text |-> new]
      BY <1>3 DEF there
    <3> QED
      BY <3>1
  <2> QED
    BY <1>7, <2>1
<1>9. ApplyPatch(new, hunks).status # NotApplicable
  <2>1. back.ok = TRUE
    <3>1. back = [ok |-> TRUE, text |-> old]
      BY <1>4 DEF back
    <3> QED
      BY <3>1
  <2>2. CASE again.ok
    <3>1. ApplyPatch(new, hunks) = [text |-> again.text, status |-> Applied]
      BY <1>7, <2>2
    <3> QED
      BY <3>1 DEF Applied, NotApplicable
  <2>3. CASE ~again.ok
    <3>1. ApplyPatch(new, hunks) = [text |-> new, status |-> AlreadyApplied]
      BY <1>7, <2>1, <2>3
    <3> QED
      BY <3>1 DEF AlreadyApplied, NotApplicable
  <2> QED
    BY <2>2, <2>3
<1> QED
  BY <1>6, <1>8, <1>9 DEF hunks

-------------------------------------------------------------------------------
(* Writing what was derived. *)

(* There is a patch, or the lack of one, for each module, and a text, or the    *)
(* lack of one, for each file.                                                  *)
Keyed(s) == DOMAIN s.patches = Names /\ DOMAIN s.tree = Files

KeyedInv == DOMAIN patches = Names /\ DOMAIN tree = Files

(* _write() goes through the files one after the other. *)
LEMMA WriteGoesThrough ==
  ASSUME NEW apply, Write(apply)
  PROVE  \E st : /\ st[0] = [patches |-> patches, tree |-> tree]
                 /\ \A n \in 1..Len(FileOrder) : st[n] = WriteOne(apply, st[n - 1], FileOrder[n])
                 /\ patches' = st[Len(FileOrder)].patches
                 /\ tree' = st[Len(FileOrder)].tree
<1> DEFINE c == Len(FileOrder)
           start == [patches |-> patches, tree |-> tree]
           after == CHOOSE f : f = [n \in 0..c |-> IF n = 0 THEN start
                                      ELSE WriteOne(apply, f[n - 1], FileOrder[n])]
<1>1. patches' = after[c].patches /\ tree' = after[c].tree
  BY DEF Write
<1>2. c \in Nat
  BY FileOrderAssumption, LenProperties
<1>3. \A n \in 0..c : after[n] = IF n = 0 THEN start
                                 ELSE WriteOne(apply, after[n - 1], FileOrder[n])
  <2> HIDE DEF c, start
  <2>1. \A f, n : Step("write", apply, f, n) = WriteOne(apply, f, FileOrder[n])
    BY DEF Step
  <2>2. PICK f : Loops("write", apply, start, c, f)
    BY <1>2, LoopExists
  <2>3. f = [n \in 0..c |-> IF n = 0 THEN start ELSE WriteOne(apply, f[n - 1], FileOrder[n])]
    BY <2>1, <2>2 DEF Loops
  <2>4. after = [n \in 0..c |-> IF n = 0 THEN start
                   ELSE WriteOne(apply, after[n - 1], FileOrder[n])]
    BY <2>3
  <2> HIDE DEF after
  <2> QED
    BY <2>4
<1> HIDE DEF after, start, c
<1>4. 0 \in 0..c /\ \A n \in 1..c : n \in 0..c /\ n # 0
  BY <1>2
<1>5. after[0] = start /\ \A n \in 1..c : after[n] = WriteOne(apply, after[n - 1], FileOrder[n])
  BY <1>3, <1>4
<1> QED
  BY <1>1, <1>5 DEF start, c

(* What a file brings about. *)
WrittenAs(apply, done, g, next) ==
  LET found == FoundIn(tree, g)
      hunks == Hunks(tree[g], found.repaired)
  IN /\ g \notin There(tree) \/ found.status # Repairable => next = done
     /\ g \in There(tree) /\ found.status = Repairable =>
          /\ next.patches =
               [done.patches EXCEPT ![found.mibname] = KeepingHeader(@, hunks)]
          /\ next.tree = IF apply
                         THEN [done.tree EXCEPT ![g] = ApplyPatch(done.tree[g], hunks).text]
                         ELSE done.tree

LEMMA OneIsWritten ==
  ASSUME NEW apply, NEW done, NEW g
  PROVE  WrittenAs(apply, done, g, WriteOne(apply, done, g))
<1> DEFINE found == FoundIn(tree, g)
           hunks == Hunks(tree[g], found.repaired)
           next  == WriteOne(apply, done, g)
           text  == ApplyPatch(done.tree[g], hunks).text
           made  == [patches |-> [done.patches EXCEPT ![found.mibname] = KeepingHeader(@, hunks)],
                     tree |-> IF apply THEN [done.tree EXCEPT ![g] = text] ELSE done.tree]
<1>1. next = IF g \notin There(tree) \/ found.status # Repairable THEN done ELSE made
  BY Zenon DEF WriteOne
<1>2. /\ made.patches = [done.patches EXCEPT ![found.mibname] = KeepingHeader(@, hunks)]
      /\ made.tree = IF apply THEN [done.tree EXCEPT ![g] = text] ELSE done.tree
  <2> HIDE DEF found, hunks, text
  <2> QED
    OBVIOUS
<1> HIDE DEF made, next
<1> QED
  BY <1>1, <1>2 DEF WrittenAs, next

LEMMA WrittenStaysKeyed ==
  ASSUME NEW apply, NEW done, NEW g, Keyed(done)
  PROVE  Keyed(WriteOne(apply, done, g))
<1> DEFINE next == WriteOne(apply, done, g)
<1>1. WrittenAs(apply, done, g, next)
  BY OneIsWritten
<1> HIDE DEF next
<1>2. DOMAIN next.patches = DOMAIN done.patches /\ DOMAIN next.tree = DOMAIN done.tree
  BY <1>1 DEF WrittenAs
<1> QED
  BY <1>2 DEF Keyed, next

LEMMA KeyedBegins == Init => KeyedInv
  BY DEF Init, KeyedInv

LEMMA KeyedGoesOn ==
  ASSUME KeyedInv, [Next]_vars
  PROVE  KeyedInv'
<1>1. CASE \E f \in Files : Publish(f) \/ WriteByHand(f) \/ Repair(f)
  BY <1>1 DEF KeyedInv, Publish, WriteByHand, Repair
<1>2. CASE \E m \in Names : Explain(m) \/ Withdraw(m)
  BY <1>2 DEF KeyedInv, Explain, Withdraw
<1>3. CASE Check
  BY <1>3 DEF KeyedInv, Check
<1>4. ASSUME NEW apply \in BOOLEAN, Write(apply)
      PROVE  KeyedInv'
  <2> DEFINE c == Len(FileOrder)
  <2>1. PICK st : /\ st[0] = [patches |-> patches, tree |-> tree]
                  /\ \A n \in 1..c : st[n] = WriteOne(apply, st[n - 1], FileOrder[n])
                  /\ patches' = st[c].patches
                  /\ tree' = st[c].tree
    BY <1>4, WriteGoesThrough
  <2>2. c \in Nat
    BY FileOrderAssumption, LenProperties
  <2> HIDE DEF c
  <2> DEFINE S == {n \in Nat : n <= c => Keyed(st[n])}
  <2>3. 0 \in S
    BY <2>1 DEF Keyed, KeyedInv
  <2>4. ASSUME NEW n \in Nat, n \in S PROVE n + 1 \in S
    <3> SUFFICES ASSUME n + 1 <= c PROVE Keyed(st[n + 1])
      OBVIOUS
    <3>1. n + 1 \in 1..c /\ (n + 1) - 1 = n /\ n <= c
      BY <2>2
    <3>2. st[n + 1] = WriteOne(apply, st[n], FileOrder[n + 1])
      BY <2>1, <3>1
    <3>3. Keyed(st[n])
      BY <2>4, <3>1
    <3> QED
      BY <3>2, <3>3, WrittenStaysKeyed
  <2> HIDE DEF S
  <2>5. c \in S
    BY <2>2, <2>3, <2>4, SetInduction
  <2>6. Keyed(st[c])
    BY <2>2, <2>5 DEF S
  <2> QED
    BY <2>1, <2>6 DEF Keyed, KeyedInv
<1>5. CASE UNCHANGED vars
  BY <1>5 DEF KeyedInv, vars
<1> QED
  BY <1>1, <1>2, <1>3, <1>4, <1>5 DEF Next, Mibpatch

(* Nothing --check would say against a file. *)
Settled(t, p, f) == ~Stale(t, p, f) /\ ~Breaks(t, p, f)

(* No other file goes by the module name this one goes by. *)
Alone(f) == DeclaredBy(tree, FoundIn(tree, f).mibname) = {f}

(* A file that is the only one of its module, and that needs a repair a diff    *)
(* can be cut for.                                                              *)
Mendable(f) ==
  /\ f \in There(tree) /\ Alone(f)
  /\ FoundIn(tree, f).status = Repairable
  /\ FoundIn(tree, f).mibname \in Names
  /\ Comparable(tree[f], FoundIn(tree, f).repaired)
  /\ Legible(tree[f], FoundIn(tree, f).repaired)

(* When _write() is through, the patch of such a file is the one derived from   *)
(* it, and its text is as it was or as that patch makes it: nothing that was    *)
(* written for another file went over either.                                   *)
LEMMA WhatIsWrittenStays ==
  ASSUME KeyedInv, NEW apply \in BOOLEAN, Write(apply), NEW f, Mendable(f)
  PROVE  LET found == FoundIn(tree, f)
             hunks == Hunks(tree[f], found.repaired)
         IN /\ patches'[found.mibname].written
            /\ patches'[found.mibname].hunks = hunks
            /\ tree'[f] = IF apply THEN ApplyPatch(tree[f], hunks).text ELSE tree[f]
<1> DEFINE found == FoundIn(tree, f)
           m == found.mibname
           hunks == Hunks(tree[f], found.repaired)
           text == IF apply THEN ApplyPatch(tree[f], hunks).text ELSE tree[f]
           c == Len(FileOrder)
<1>1. f \in There(tree) /\ f \in Files /\ found.status = Repairable /\ m \in Names
  BY DEF Mendable, There
<1>2. \A g \in There(tree) : g # f => FoundIn(tree, g).mibname # m
  <2>1. DeclaredBy(tree, m) = {f}
    BY DEF Mendable, Alone
  <2> HIDE DEF m
  <2> QED
    BY <2>1 DEF DeclaredBy
<1>3. PICK st : /\ st[0] = [patches |-> patches, tree |-> tree]
                /\ \A n \in 1..c : st[n] = WriteOne(apply, st[n - 1], FileOrder[n])
                /\ patches' = st[c].patches
                /\ tree' = st[c].tree
  BY WriteGoesThrough
<1>4. c \in Nat /\ DOMAIN FileOrder = 1..c
  BY FileOrderAssumption, LenProperties
<1>5. PICK i \in 1..c : FileOrder[i] = f
  BY <1>1, <1>4 DEF Files, Range
<1>6. \A j \in 1..c : FileOrder[j] = f => j = i
  BY <1>4, <1>5, FileOrderAssumption
<1> DEFINE Done(s) == s.patches[m].written /\ s.patches[m].hunks = hunks /\ s.tree[f] = text
           S == {n \in Nat : n <= c => /\ Keyed(st[n])
                                       /\ n < i => st[n].tree[f] = tree[f]
                                       /\ n >= i => Done(st[n])}
<1>7. \A old : KeepingHeader(old, hunks).written /\ KeepingHeader(old, hunks).hunks = hunks
  <2> HIDE DEF hunks
  <2> QED
    BY DEF KeepingHeader, Patch
<1> HIDE DEF found, m, hunks, text, c
<1>8. 0 \in S
  <2>1. ~(0 >= i)
    BY <1>4
  <2> QED
    BY <1>3, <2>1 DEF Keyed, KeyedInv
<1>9. ASSUME NEW n \in Nat, n \in S PROVE n + 1 \in S
  <2> SUFFICES ASSUME n + 1 <= c
               PROVE  /\ Keyed(st[n + 1])
                      /\ n + 1 < i => st[n + 1].tree[f] = tree[f]
                      /\ n + 1 >= i => Done(st[n + 1])
    OBVIOUS
  <2> DEFINE s == st[n]  next == st[n + 1]  g == FileOrder[n + 1]
  <2>1. n + 1 \in 1..c /\ (n + 1) - 1 = n /\ n <= c /\ i \in Nat
    BY <1>4
  <2>2. next = WriteOne(apply, s, g)
    BY <1>3, <2>1
  <2>3. /\ Keyed(s) /\ (n < i => s.tree[f] = tree[f]) /\ (n >= i => Done(s))
    BY <1>9, <2>1
  <2>4. g = f <=> n + 1 = i
    BY <1>5, <1>6, <2>1
  <2> HIDE DEF S, s, next, g
  <2>5. Keyed(next)
    BY <2>2, <2>3, WrittenStaysKeyed
  <2>6. WrittenAs(apply, s, g, next)
    BY <2>2, OneIsWritten
  <2>7. DOMAIN s.patches = Names /\ DOMAIN s.tree = Files
    BY <2>3 DEF Keyed
  <2>8. CASE n + 1 = i
    <3>1. g = f /\ s.tree[f] = tree[f]
      BY <2>1, <2>3, <2>4, <2>8
    <3>2. /\ next.patches = [s.patches EXCEPT ![m] = KeepingHeader(@, hunks)]
          /\ next.tree = IF apply THEN [s.tree EXCEPT ![f] = ApplyPatch(s.tree[f], hunks).text]
                         ELSE s.tree
      BY <1>1, <2>6, <3>1 DEF WrittenAs, found, m, hunks
    <3>3. next.patches[m] = KeepingHeader(s.patches[m], hunks)
      BY <1>1, <2>7, <3>2
    <3>4. next.tree[f] = text
      BY <1>1, <2>7, <3>1, <3>2 DEF text
    <3>5. Done(next)
      BY <1>7, <3>3, <3>4
    <3> HIDE DEF Done
    <3> QED
      BY <2>1, <2>5, <2>8, <3>5 DEF next
  <2>9. CASE n + 1 # i
    <3>1. g # f
      BY <2>4, <2>9
    <3>2. next.patches[m] = s.patches[m] /\ next.tree[f] = s.tree[f]
      <4>1. CASE g \in There(tree) /\ FoundIn(tree, g).status = Repairable
        <5> DEFINE l == FoundIn(tree, g).mibname
                   given == Hunks(tree[g], FoundIn(tree, g).repaired)
        <5>1. l # m
          BY <1>2, <3>1, <4>1
        <5>2. /\ next.patches = [s.patches EXCEPT ![l] = KeepingHeader(@, given)]
              /\ next.tree = IF apply THEN [s.tree EXCEPT ![g] = ApplyPatch(s.tree[g], given).text]
                             ELSE s.tree
          BY <2>6, <4>1 DEF WrittenAs
        <5> HIDE DEF l, given
        <5> QED
          BY <1>1, <2>7, <3>1, <5>1, <5>2
      <4>2. CASE ~(g \in There(tree) /\ FoundIn(tree, g).status = Repairable)
        <5>1. next = s
          BY <2>6, <4>2 DEF WrittenAs
        <5> QED
          BY <5>1
      <4> QED
        BY <4>1, <4>2
    <3>3. CASE n + 1 < i
      <4>1. n < i /\ ~(n + 1 >= i)
        BY <2>1, <3>3
      <4>2. next.tree[f] = tree[f]
        BY <2>3, <3>2, <4>1
      <4> HIDE DEF Done
      <4> QED
        BY <2>5, <4>1, <4>2 DEF next
    <3>4. CASE n + 1 > i
      <4>1. n >= i /\ ~(n + 1 < i)
        BY <2>1, <3>4
      <4>2. Done(next)
        BY <2>3, <3>2, <4>1
      <4> HIDE DEF Done
      <4> QED
        BY <2>5, <4>1, <4>2 DEF next
    <3> QED
      BY <2>1, <2>9, <3>3, <3>4
  <2> QED
    BY <2>8, <2>9
<1> HIDE DEF S
<1>10. c \in S
  BY <1>4, <1>8, <1>9, SetInduction
<1>11. c >= i /\ c <= c
  BY <1>4, <1>5
<1>12. Done(st[c])
  <2> HIDE DEF Done
  <2> QED
    BY <1>10, <1>11 DEF S
<1> QED
  BY <1>3, <1>12 DEF Done, found, m, hunks, text

(* After mibpatch wrote the repair it derived for a module, --check has nothing *)
(* against the module, whatever else was written, and if it was written into    *)
(* the text as well, the text is the repaired one: _write(), _check().          *)
THEOREM WritesSettle ==
  Spec => [][\A f \in There(tree) :
               Mendable(f) =>
                 /\ Write(FALSE) => tree'[f] = tree[f] /\ Settled(tree', patches', f)
                 /\ Write(TRUE) =>
                      /\ tree'[f] = FoundIn(tree, f).repaired
                      /\ /\ FoundIn(tree', f).mibname = FoundIn(tree, f).mibname
                         /\ FoundIn(tree', f).status # Repairable
                         => Settled(tree', patches', f)]_vars
<1> DEFINE A == \A f \in There(tree) :
               Mendable(f) =>
                 /\ Write(FALSE) => tree'[f] = tree[f] /\ Settled(tree', patches', f)
                 /\ Write(TRUE) =>
                      /\ tree'[f] = FoundIn(tree, f).repaired
                      /\ /\ FoundIn(tree', f).mibname = FoundIn(tree, f).mibname
                         /\ FoundIn(tree', f).status # Repairable
                         => Settled(tree', patches', f)
<1>1. KeyedInv => A
  <2> SUFFICES ASSUME KeyedInv, NEW f \in There(tree), Mendable(f)
               PROVE  /\ Write(FALSE) => tree'[f] = tree[f] /\ Settled(tree', patches', f)
                      /\ Write(TRUE) =>
                           /\ tree'[f] = FoundIn(tree, f).repaired
                           /\ /\ FoundIn(tree', f).mibname = FoundIn(tree, f).mibname
                              /\ FoundIn(tree', f).status # Repairable
                              => Settled(tree', patches', f)
    OBVIOUS
  <2> DEFINE found == FoundIn(tree, f)
             m == found.mibname
             hunks == Hunks(tree[f], found.repaired)
  <2>1. /\ found.status = Repairable
        /\ Comparable(tree[f], found.repaired) /\ Legible(tree[f], found.repaired)
    BY DEF Mendable
  <2>2. found.repaired # tree[f]
    BY <2>1 DEF FoundIn, Inspect, Repairable, Clean, Unparseable
  <2>3. /\ ~Malformed(hunks)
        /\ ApplyPatch(tree[f], hunks) = [text |-> found.repaired, status |-> Applied]
        /\ ApplyPatch(found.repaired, hunks).status # NotApplicable
    BY <2>1, <2>2, CutDiffsApply
  <2> HIDE DEF found, hunks
  <2>4. /\ ApplyPatch(tree[f], hunks).text = found.repaired
        /\ ApplyPatch(tree[f], hunks).status = Applied
    BY <2>3
  <2> HIDE DEF m
  <2>5. ASSUME Write(FALSE)
        PROVE  tree'[f] = tree[f] /\ Settled(tree', patches', f)
    <3> DEFINE apply == FALSE
    <3>1. apply \in BOOLEAN /\ Write(apply) /\ ~apply
      BY <2>5
    <3> HIDE DEF apply
    <3>2. /\ patches'[m].written /\ patches'[m].hunks = hunks
          /\ tree'[f] = IF apply THEN ApplyPatch(tree[f], hunks).text ELSE tree[f]
      BY <3>1, WhatIsWrittenStays DEF found, m, hunks
    <3>3. tree'[f] = tree[f]
      BY <3>1, <3>2
    <3>4. FoundIn(tree', f) = found
      BY <3>3 DEF FoundIn, found
    <3>5. ~Breaks(tree', patches', f)
      BY <2>3, <3>2, <3>4 DEF Breaks, m
    <3>6. ~Stale(tree', patches', f)
      <4>1. Hunks(tree'[f], found.repaired) = hunks
        BY <3>3 DEF hunks
      <4> QED
        BY <2>1, <2>4, <3>2, <3>3, <3>4, <4>1 DEF Stale, m
    <3> QED
      BY <3>3, <3>5, <3>6 DEF Settled
  <2>6. ASSUME Write(TRUE)
        PROVE  /\ tree'[f] = found.repaired
               /\ FoundIn(tree', f).mibname = m /\ FoundIn(tree', f).status # Repairable
                    => Settled(tree', patches', f)
    <3> DEFINE apply == TRUE
    <3>1. apply \in BOOLEAN /\ Write(apply) /\ apply
      BY <2>6
    <3> HIDE DEF apply
    <3>2. /\ patches'[m].written /\ patches'[m].hunks = hunks
          /\ tree'[f] = IF apply THEN ApplyPatch(tree[f], hunks).text ELSE tree[f]
      BY <3>1, WhatIsWrittenStays DEF found, m, hunks
    <3>3. tree'[f] = found.repaired
      BY <2>4, <3>1, <3>2
    <3>4. ASSUME FoundIn(tree', f).mibname = m, FoundIn(tree', f).status # Repairable
          PROVE  Settled(tree', patches', f)
      <4>1. ~Breaks(tree', patches', f)
        BY <2>3, <3>2, <3>4 DEF Breaks
      <4>2. ~Stale(tree', patches', f)
        BY <2>3, <3>2, <3>3, <3>4 DEF Stale
      <4> QED
        BY <4>1, <4>2 DEF Settled
    <3> QED
      BY <3>3, <3>4
  <2> QED
    BY <2>5, <2>6 DEF found, m
<1>2. KeyedInv => [A]_vars
  BY <1>1
<1> HIDE DEF A
<1>3. Spec => []KeyedInv
  BY KeyedBegins, KeyedGoesOn, PTL DEF Spec
<1>4. Spec => [][A]_vars
  BY <1>2, <1>3, PTL
<1> QED
  BY <1>4 DEF A

===============================================================================
