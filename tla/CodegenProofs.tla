----------------------------- MODULE CodegenProofs -----------------------------
(* Theorems about SymbolTable, Backends and Codegen, for any texts, in any      *)
(* order and over any number of calls: what the symbol table hands on loads,    *)
(* and what is rendered through it is numbered and restricted as declared.      *)
EXTENDS Codegen, FiniteSetTheorems, SequenceTheorems, TLAPS

-------------------------------------------------------------------------------
(* Numbers and sequences. *)

(* Induction over the numbers, from the pigeonhole principle: were n the one    *)
(* left out, 0..n would be sent into 1..n with no two to the same.              *)
LEMMA SetInduction ==
  ASSUME NEW S, 0 \in S, \A n \in Nat : n \in S => n + 1 \in S
  PROVE  Nat \subseteq S
<1> SUFFICES ASSUME NEW n \in Nat, n \notin S PROVE FALSE
  OBVIOUS
<1> DEFINE from == 0..n
           to == 1..n
           f == [i \in from |-> IF i \in S THEN i + 1 ELSE i]
<1>1. \A i \in from : f[i] \in to
  OBVIOUS
<1>2. f \in [from -> to]
  BY <1>1
<1>3. IsFiniteSet(from) /\ Cardinality(from) = n + 1
  <2>1. 0 \in Int /\ n \in Int /\ n - 0 + 1 = n + 1 /\ ~(0 > n)
    OBVIOUS
  <2> QED
    BY <2>1, FS_Interval
<1>4. IsFiniteSet(to) /\ Cardinality(to) = n
  <2>1. 1 \in Int /\ n \in Int /\ n - 1 + 1 = n /\ (1 > n => n = 0)
    OBVIOUS
  <2> QED
    BY <2>1, FS_Interval
<1>5. Cardinality(to) < Cardinality(from)
  BY <1>3, <1>4
<1> HIDE DEF f, from, to
<1>6. PICK i \in from, j \in from : i # j /\ f[i] = f[j]
  BY <1>2, <1>3, <1>4, <1>5, FS_PigeonHole
<1> USE DEF f, from, to
<1>7. f[i] = (IF i \in S THEN i + 1 ELSE i) /\ f[j] = (IF j \in S THEN j + 1 ELSE j)
  OBVIOUS
<1> QED
  BY <1>6, <1>7

IsSeq(s) == s \in Seq(ToSet(s))

LEMMA SeqFacts ==
  ASSUME NEW s, IsSeq(s)
  PROVE  Len(s) \in Nat /\ DOMAIN s = 1..Len(s) /\ ToSet(s) = {s[i] : i \in 1..Len(s)}
BY DEF IsSeq, ToSet

LEMMA EmptyIsSeq == IsSeq(<<>>) /\ Len(<<>>) = 0 /\ ToSet(<<>>) = {}
BY DEF IsSeq, ToSet

LEMMA AppendFacts ==
  ASSUME NEW s, IsSeq(s), NEW e
  PROVE  /\ IsSeq(Append(s, e))
         /\ Len(Append(s, e)) = Len(s) + 1
         /\ \A i \in 1..Len(s) : Append(s, e)[i] = s[i]
         /\ Append(s, e)[Len(s) + 1] = e
         /\ ToSet(Append(s, e)) = ToSet(s) \cup {e}
<1> DEFINE S == ToSet(s) \cup {e}
           t == Append(s, e)
<1>1. s \in Seq(S) /\ e \in S /\ Len(s) \in Nat /\ DOMAIN s = 1..Len(s)
  BY SeqFacts DEF IsSeq
<1>2. /\ t \in Seq(S) /\ Len(t) = Len(s) + 1 /\ DOMAIN t = 1..(Len(s) + 1)
      /\ \A i \in 1..Len(s) : t[i] = s[i]
      /\ t[Len(s) + 1] = e
  BY <1>1
<1> HIDE DEF t
<1>3. ToSet(t) = S
  <2>1. \A i \in 1..(Len(s) + 1) : t[i] \in S
    BY <1>1, <1>2 DEF ToSet
  <2>2. \A x \in S : \E i \in 1..(Len(s) + 1) : t[i] = x
    <3> SUFFICES ASSUME NEW x \in S PROVE \E i \in 1..(Len(s) + 1) : t[i] = x
      OBVIOUS
    <3>1. CASE x = e
      BY <1>1, <1>2, <3>1
    <3>2. CASE x \in ToSet(s)
      <4>1. PICK i \in 1..Len(s) : x = s[i]
        BY <1>1, <3>2 DEF ToSet
      <4> QED
        BY <1>1, <1>2, <4>1
    <3> QED
      BY <3>1, <3>2
  <2>3. ToSet(t) = {t[i] : i \in 1..(Len(s) + 1)}
    BY <1>2 DEF ToSet
  <2> QED
    BY <2>1, <2>2, <2>3
<1> QED
  BY <1>2, <1>3 DEF IsSeq, t

-------------------------------------------------------------------------------
(* The symbol table of one module. *)

PassFields == {"module", "importMap", "out", "order", "postponed", "rows", "parentOids",
               "fakeidx", "error"}

Bound(s) == DOMAIN s.importMap \cup BaseTypes \cup Classes
Waiting(s) == {s.postponed[i].name : i \in 1..Len(s.postponed)}
Taken(s) == DOMAIN s.out \cup Waiting(s)

(* A symbol is entered, after all it needs, or held back. *)
Entered(s, sym) ==
  \E i \in 1..Len(s.order) :
     /\ s.order[i] = sym.name /\ s.out[sym.name] = sym.entry
     /\ sym.parents \subseteq {s.order[j] : j \in 1..(i - 1)} \cup Bound(s) \cup s.rows
Held(s, sym) == \E i \in 1..Len(s.postponed) : s.postponed[i] = sym
Registered(s, sym) == Entered(s, sym) \/ Held(s, sym)

(* Every name is taken once, and in the order exactly if it is entered. *)
IsPass(s) ==
  /\ DOMAIN s = PassFields
  /\ IsSeq(s.order) /\ IsSeq(s.postponed)
  /\ ToSet(s.order) = DOMAIN s.out
  /\ \A i, j \in 1..Len(s.order) : s.order[i] = s.order[j] => i = j
  /\ \A i \in 1..Len(s.postponed) : s.postponed[i].name \notin DOMAIN s.out
  /\ \A i, j \in 1..Len(s.postponed) : s.postponed[i].name = s.postponed[j].name => i = j
  /\ s.fakeidx \in Nat

(* What one symbol does not change of the rest. *)
SameRest(s, t) ==
  /\ t.module = s.module /\ t.importMap = s.importMap /\ t.rows = s.rows
  /\ t.parentOids = s.parentOids /\ t.fakeidx = s.fakeidx /\ t.error = s.error

LEMMA EnterEnters ==
  ASSUME NEW s, IsPass(s), NEW sym, sym.name \notin Taken(s), AllParentsExist(s, sym.parents)
  PROVE  LET t == Enter(s, sym)
         IN /\ IsPass(t) /\ SameRest(s, t) /\ t.postponed = s.postponed
            /\ DOMAIN t.out = DOMAIN s.out \cup {sym.name}
            /\ \A other : Entered(s, other) => Entered(t, other)
            /\ Entered(t, sym)
<1> DEFINE t == Enter(s, sym)
           order == Append(s.order, sym.name)
           out == Bind(s.out, sym.name, sym.entry)
<1>1. DOMAIN s = PassFields
  BY DEF IsPass
<1>2. /\ DOMAIN t = PassFields /\ t.order = order /\ t.out = out /\ t.postponed = s.postponed
      /\ SameRest(s, t)
  BY <1>1 DEF PassFields, Enter, SameRest
<1>3. /\ IsSeq(order) /\ Len(order) = Len(s.order) + 1 /\ Len(s.order) \in Nat
      /\ \A i \in 1..Len(s.order) : order[i] = s.order[i]
      /\ order[Len(s.order) + 1] = sym.name
      /\ ToSet(order) = ToSet(s.order) \cup {sym.name}
  BY AppendFacts, SeqFacts DEF IsPass
<1>4. /\ DOMAIN out = DOMAIN s.out \cup {sym.name} /\ out[sym.name] = sym.entry
      /\ \A n \in DOMAIN s.out : n # sym.name => out[n] = s.out[n]
  BY DEF Bind
<1>5. sym.name \notin DOMAIN s.out /\ sym.name \notin Waiting(s)
  BY DEF Taken
<1>6. \A i \in 1..Len(s.order) : s.order[i] \in DOMAIN s.out
  BY SeqFacts DEF IsPass
<1> HIDE DEF t, order, out
<1>7. IsPass(t)
  <2>1. \A i, j \in 1..Len(order) : order[i] = order[j] => i = j
    <3> SUFFICES ASSUME NEW i \in 1..Len(order), NEW j \in 1..Len(order), order[i] = order[j]
                 PROVE  i = j
      OBVIOUS
    <3>1. i \in 1..Len(s.order) \/ i = Len(s.order) + 1
      BY <1>3
    <3>2. j \in 1..Len(s.order) \/ j = Len(s.order) + 1
      BY <1>3
    <3>3. \A k \in 1..Len(s.order) : order[k] = s.order[k] /\ order[k] # sym.name
      BY <1>3, <1>5, <1>6
    <3> QED
      BY <1>3, <3>1, <3>2, <3>3 DEF IsPass
  <2>2. \A i \in 1..Len(s.postponed) : s.postponed[i].name \notin DOMAIN out
    BY <1>4, <1>5 DEF IsPass, Waiting
  <2> QED
    BY <1>2, <1>3, <1>4, <2>1, <2>2 DEF IsPass, SameRest
<1>8. \A i \in 1..Len(s.order) : {order[j] : j \in 1..(i - 1)} = {s.order[j] : j \in 1..(i - 1)}
  BY <1>3
<1>9. Bound(t) = Bound(s) /\ t.rows = s.rows
  BY <1>2 DEF Bound, SameRest
<1>10. ASSUME NEW other, Entered(s, other) PROVE Entered(t, other)
  <2>1. PICK i \in 1..Len(s.order) :
          /\ s.order[i] = other.name /\ s.out[other.name] = other.entry
          /\ other.parents \subseteq {s.order[j] : j \in 1..(i - 1)} \cup Bound(s) \cup s.rows
    BY <1>10 DEF Entered
  <2>2. /\ i \in 1..Len(order) /\ order[i] = other.name
        /\ other.parents \subseteq {order[j] : j \in 1..(i - 1)} \cup Bound(s) \cup s.rows
    <3>1. {order[j] : j \in 1..(i - 1)} = {s.order[j] : j \in 1..(i - 1)}
      BY <1>8
    <3> QED
      BY <1>3, <2>1, <3>1
  <2>3. out[other.name] = other.entry
    BY <1>4, <1>5, <1>6, <2>1
  <2> QED
    BY <1>2, <1>9, <2>2, <2>3 DEF Entered
<1>11. Entered(t, sym)
  <2> DEFINE n == Len(s.order) + 1
  <2>1. {order[j] : j \in 1..(n - 1)} = DOMAIN s.out
    <3>1. n - 1 = Len(s.order)
      BY <1>3
    <3>2. ToSet(s.order) = {s.order[j] : j \in 1..Len(s.order)}
      BY SeqFacts DEF IsPass
    <3>3. {order[j] : j \in 1..(n - 1)} = {s.order[j] : j \in 1..Len(s.order)}
      BY <1>3, <3>1
    <3> QED
      BY <3>2, <3>3 DEF IsPass
  <2>2. sym.parents \subseteq {order[j] : j \in 1..(n - 1)} \cup Bound(s) \cup s.rows
    BY <2>1 DEF AllParentsExist, Bound
  <2>3. n \in 1..Len(order) /\ order[n] = sym.name
    BY <1>3
  <2> HIDE DEF n
  <2> QED
    BY <1>2, <1>4, <1>9, <2>2, <2>3 DEF Entered
<1> QED
  BY <1>2, <1>4, <1>7, <1>10, <1>11 DEF t

LEMMA HoldHolds ==
  ASSUME NEW s, IsPass(s), NEW sym, sym.name \notin Taken(s)
  PROVE  LET t == [s EXCEPT !.postponed = Append(@, sym)]
         IN /\ IsPass(t) /\ SameRest(s, t) /\ t.order = s.order /\ t.out = s.out
            /\ Waiting(t) = Waiting(s) \cup {sym.name}
            /\ \A other : Registered(s, other) => Registered(t, other)
            /\ Held(t, sym)
<1> DEFINE t == [s EXCEPT !.postponed = Append(@, sym)]
           held == Append(s.postponed, sym)
<1>1. /\ DOMAIN t = PassFields /\ t.order = s.order /\ t.out = s.out /\ t.postponed = held
      /\ SameRest(s, t)
  BY DEF IsPass, PassFields, SameRest
<1>2. /\ IsSeq(held) /\ Len(held) = Len(s.postponed) + 1 /\ Len(s.postponed) \in Nat
      /\ \A i \in 1..Len(s.postponed) : held[i] = s.postponed[i]
      /\ held[Len(s.postponed) + 1] = sym
  BY AppendFacts, SeqFacts DEF IsPass
<1>3. sym.name \notin DOMAIN s.out /\ sym.name \notin Waiting(s)
  BY DEF Taken
<1> HIDE DEF t, held
<1>4. \A i \in 1..Len(held) : i \in 1..Len(s.postponed) \/ i = Len(s.postponed) + 1
  BY <1>2
<1>5. IsPass(t)
  <2>1. \A i, j \in 1..Len(held) : held[i].name = held[j].name => i = j
    BY <1>2, <1>3, <1>4 DEF IsPass, Waiting
  <2>2. \A i \in 1..Len(held) : held[i].name \notin DOMAIN s.out
    BY <1>2, <1>3, <1>4 DEF IsPass
  <2> QED
    BY <1>1, <1>2, <2>1, <2>2 DEF IsPass, SameRest
<1>6. Waiting(t) = Waiting(s) \cup {sym.name}
  BY <1>1, <1>2, <1>4 DEF Waiting
<1>7. \A other : Held(s, other) => Held(t, other)
  BY <1>1, <1>2 DEF Held
<1>8. \A other : Entered(s, other) => Entered(t, other)
  BY <1>1 DEF Entered, SameRest, Bound
<1>9. Held(t, sym)
  BY <1>1, <1>2 DEF Held
<1> QED
  BY <1>1, <1>5, <1>6, <1>7, <1>8, <1>9 DEF Registered, t

(* the columns a clause makes *)
Cols(c) == IF c.kind = "object" THEN Columns(c) ELSE 0

(* The loops of the generators, as steps of one kind or another: what is done  *)
(* to a state by the i-th of what is gone through.                             *)
Step(kind, x, s, i) ==
  IF kind = "retry" THEN Retry(s, x[i])
  ELSE IF kind = "declare" THEN Declare(s, x[i])
  ELSE IF kind = "column" THEN Column(s, x.oid, x.first + i - 1)
  ELSE IF kind = "count" THEN s + Cols(x[i])
  ELSE IF kind = "json" THEN JsonClause(s, x[i])
  ELSE IF kind = "py" THEN PyClause(s, x[i])
  ELSE IF kind = "add" THEN AddColumn(s, x.path, x.first + i - 1)
  ELSE IF kind = "way" THEN IF Ends(x, s) THEN s ELSE Found(x, s).type
  ELSE IF kind = "types" THEN s \cup UNION {Types(r) : r \in s}
  ELSE IF kind = "above" THEN s \cup UNION {Above(r) : r \in s}
  ELSE [ref \in Known(x) |->
          IF ~HasOid(Found(x, ref)) THEN Bad("foreign") ELSE Numbered(x, Found(x, ref).oid, s)]

Loops(kind, x, a, n, f) == f = [i \in 0..n |-> IF i = 0 THEN a ELSE Step(kind, x, f[i - 1], i)]

(* A loop of any number of steps goes through a sequence of states. *)
LEMMA LoopExists ==
  ASSUME NEW kind, NEW x, NEW a, NEW m \in Nat
  PROVE  \E f : Loops(kind, x, a, m, f)
<1> DEFINE Loop(n, f) == f = [i \in 0..n |-> IF i = 0 THEN a ELSE Step(kind, x, f[i - 1], i)]
           S == {n \in Nat : \E f : Loop(n, f)}
<1>1. 0 \in S
  <2> DEFINE f == [i \in 0..0 |-> a]
  <2>1. f = [i \in 0..0 |-> IF i = 0 THEN a ELSE Step(kind, x, f[i - 1], i)]
    OBVIOUS
  <2> HIDE DEF f
  <2> QED
    BY <2>1
<1>2. ASSUME NEW n \in Nat, n \in S PROVE n + 1 \in S
  <2>1. PICK f : Loop(n, f)
    BY <1>2
  <2> DEFINE g == [i \in 0..(n + 1) |-> IF i <= n THEN f[i] ELSE Step(kind, x, f[n], n + 1)]
  <2>2. \A i \in 0..n : f[i] = IF i = 0 THEN a ELSE Step(kind, x, f[i - 1], i)
    BY <2>1
  <2>3. \A i \in 0..(n + 1) : g[i] = IF i = 0 THEN a ELSE Step(kind, x, g[i - 1], i)
    <3> SUFFICES ASSUME NEW i \in 0..(n + 1)
                 PROVE  g[i] = IF i = 0 THEN a ELSE Step(kind, x, g[i - 1], i)
      OBVIOUS
    <3>1. CASE i = 0
      BY <2>2, <3>1
    <3>2. CASE i \in 1..n
      <4>1. g[i] = f[i] /\ g[i - 1] = f[i - 1] /\ i \in 0..n /\ i # 0
        BY <3>2
      <4> HIDE DEF g
      <4> QED
        BY <2>2, <4>1
    <3>3. CASE i = n + 1
      <4>1. g[i] = Step(kind, x, f[n], n + 1) /\ g[i - 1] = f[n] /\ i # 0
        BY <3>3
      <4> HIDE DEF g
      <4> QED
        BY <3>3, <4>1
    <3> QED
      BY <3>1, <3>2, <3>3
  <2>4. g = [i \in 0..(n + 1) |-> g[i]]
    OBVIOUS
  <2> HIDE DEF g
  <2>5. g = [i \in 0..(n + 1) |-> IF i = 0 THEN a ELSE Step(kind, x, g[i - 1], i)]
    BY <2>3, <2>4
  <2>6. n + 1 \in Nat
    OBVIOUS
  <2> QED
    BY <2>5, <2>6
<1> HIDE DEF S
<1>3. m \in S
  BY <1>1, <1>2, SetInduction
<1> QED
  BY <1>3 DEF S, Loops

(* What is held back keeps its place or is entered after what it waited for.   *)
LEMMA RegPostponedKeeps ==
  ASSUME NEW s, IsPass(s)
  PROVE  LET t == RegPostponed(s)
         IN /\ IsPass(t) /\ SameRest(s, t) /\ Taken(t) = Taken(s)
            /\ \A sym : Registered(s, sym) => Registered(t, sym)
<1> DEFINE held == s.postponed
           m == Len(held)
           start == [s EXCEPT !.postponed = <<>>]
           after == CHOOSE f : f = [n \in 0..m |-> IF n = 0 THEN start ELSE Retry(f[n - 1], held[n])]
           t == RegPostponed(s)
<1>1. m \in Nat
  BY SeqFacts DEF IsPass
<1>2. t = after[m]
  BY DEF RegPostponed
<1> HIDE DEF t
<1>3. \A n \in 0..m : after[n] = IF n = 0 THEN start ELSE Retry(after[n - 1], held[n])
  <2> HIDE DEF m, start, held
  <2>1. \A f, n : Step("retry", held, f, n) = Retry(f, held[n])
    BY DEF Step
  <2>2. PICK f : Loops("retry", held, start, m, f)
    BY <1>1, LoopExists
  <2>3. f = [n \in 0..m |-> IF n = 0 THEN start ELSE Retry(f[n - 1], held[n])]
    BY <2>1, <2>2 DEF Loops
  <2>4. after = [n \in 0..m |-> IF n = 0 THEN start ELSE Retry(after[n - 1], held[n])]
    BY <2>3
  <2> HIDE DEF after
  <2> QED
    BY <2>4
<1> HIDE DEF after
<1> DEFINE Done(n) == {held[i].name : i \in 1..n}
           Inv(n) ==
             /\ IsPass(after[n]) /\ SameRest(s, after[n])
             /\ Taken(after[n]) = DOMAIN s.out \cup Done(n)
             /\ \A sym : Entered(s, sym) => Entered(after[n], sym)
             /\ \A i \in 1..n : Registered(after[n], held[i])
           S == {n \in Nat : n <= m => Inv(n)}
<1>4. /\ IsSeq(held) /\ DOMAIN s = PassFields /\ s.fakeidx \in Nat
      /\ \A i \in 1..m : held[i].name \notin DOMAIN s.out
      /\ \A i, j \in 1..m : held[i].name = held[j].name => i = j
  BY DEF IsPass
<1>5. 0 \in S
  <2>1. /\ DOMAIN start = PassFields /\ SameRest(s, start) /\ start.out = s.out
        /\ start.order = s.order /\ start.postponed = <<>>
    BY <1>4 DEF PassFields, SameRest
  <2> HIDE DEF start, held, m
  <2>2. after[0] = start
    BY <1>1, <1>3
  <2>3. IsPass(start)
    BY <2>1, EmptyIsSeq DEF IsPass, SameRest
  <2>4. Taken(start) = DOMAIN s.out
    BY <2>1, EmptyIsSeq DEF Taken, Waiting
  <2>5. \A sym : Entered(s, sym) => Entered(start, sym)
    BY <2>1 DEF Entered, SameRest, Bound
  <2>6. Done(0) = {}
    OBVIOUS
  <2> QED
    BY <2>1, <2>2, <2>3, <2>4, <2>5, <2>6
<1>6. ASSUME NEW n \in Nat, n \in S PROVE n + 1 \in S
  <2> SUFFICES ASSUME n + 1 <= m PROVE Inv(n + 1)
    OBVIOUS
  <2> DEFINE u == after[n]
             v == after[n + 1]
             sym == held[n + 1]
  <2>1. Inv(n)
    BY <1>1, <1>6
  <2>2. v = Retry(u, sym)
    <3> HIDE DEF start
    <3>1. n + 1 \in 0..m /\ n + 1 # 0 /\ (n + 1) - 1 = n
      BY <1>1
    <3> QED
      BY <1>3, <3>1
  <2>3. sym.name \notin Taken(u)
    <3>1. n + 1 \in 1..m /\ \A i \in 1..n : i \in 1..m /\ i # n + 1
      BY <1>1
    <3>2. sym.name \notin DOMAIN s.out /\ sym.name \notin Done(n)
      BY <1>4, <3>1
    <3> QED
      BY <2>1, <3>2
  <2>4. Done(n + 1) = Done(n) \cup {sym.name}
    <3>1. \A i \in 1..(n + 1) : i \in 1..n \/ i = n + 1
      OBVIOUS
    <3>2. n + 1 \in 1..(n + 1) /\ \A i \in 1..n : i \in 1..(n + 1)
      OBVIOUS
    <3> HIDE DEF held
    <3> QED
      BY <3>1, <3>2
  <2> HIDE DEF u, v, sym, start
  <2>5. /\ IsPass(v) /\ SameRest(u, v) /\ Taken(v) = Taken(u) \cup {sym.name}
        /\ \A other : Entered(u, other) => Entered(v, other)
        /\ \A other : Held(u, other) => Held(v, other)
        /\ Registered(v, sym)
    <3>0. IsPass(u)
      BY <2>1 DEF u
    <3>1. CASE AllParentsExist(u, sym.parents)
      <4>1. v = Enter(u, sym)
        BY <2>2, <3>1 DEF Retry
      <4>2. /\ IsPass(v) /\ SameRest(u, v) /\ v.postponed = u.postponed
            /\ DOMAIN v.out = DOMAIN u.out \cup {sym.name}
            /\ \A other : Entered(u, other) => Entered(v, other)
            /\ Entered(v, sym)
        BY <2>3, <3>0, <3>1, <4>1, EnterEnters
      <4>3. \A other : Held(u, other) => Held(v, other)
        BY <4>2 DEF Held
      <4>4. Taken(v) = Taken(u) \cup {sym.name}
        BY <4>2 DEF Taken, Waiting
      <4> QED
        BY <4>2, <4>3, <4>4 DEF Registered
    <3>2. CASE ~AllParentsExist(u, sym.parents)
      <4>1. v = [u EXCEPT !.postponed = Append(@, sym)]
        BY <2>2, <3>2 DEF Retry
      <4>2. /\ IsPass(v) /\ SameRest(u, v) /\ v.order = u.order /\ v.out = u.out
            /\ Waiting(v) = Waiting(u) \cup {sym.name}
            /\ \A other : Registered(u, other) => Registered(v, other)
            /\ Held(v, sym)
        BY <2>3, <3>0, <4>1, HoldHolds
      <4>3. \A other : Entered(u, other) => Entered(v, other)
        BY <4>2 DEF Entered, SameRest, Bound
      <4>4. \A other : Held(u, other) => Held(v, other)
        <5>1. /\ Len(u.postponed) \in Nat /\ Len(v.postponed) = Len(u.postponed) + 1
              /\ \A i \in 1..Len(u.postponed) : v.postponed[i] = u.postponed[i]
          <6>1. v.postponed = Append(u.postponed, sym)
            BY <3>0, <4>1 DEF IsPass, PassFields
          <6> QED
            BY <3>0, <6>1, AppendFacts, SeqFacts DEF IsPass
        <5> QED
          BY <5>1 DEF Held
      <4>5. Taken(v) = Taken(u) \cup {sym.name}
        BY <4>2 DEF Taken
      <4> QED
        BY <4>2, <4>3, <4>4, <4>5 DEF Registered
    <3> QED
      BY <3>1, <3>2
  <2>6. /\ SameRest(s, u) /\ Taken(u) = DOMAIN s.out \cup Done(n)
        /\ \A other : Entered(s, other) => Entered(u, other)
        /\ \A i \in 1..n : Registered(u, held[i])
    BY <2>1 DEF u
  <2>7. SameRest(s, v)
    BY <2>5, <2>6 DEF SameRest
  <2>8. \A i \in 1..(n + 1) : Registered(v, held[i])
    <3>1. \A i \in 1..(n + 1) : i \in 1..n \/ i = n + 1
      OBVIOUS
    <3>2. held[n + 1] = sym
      BY DEF sym
    <3> HIDE DEF held
    <3>3. \A i \in 1..n : Registered(v, held[i])
      BY <2>5, <2>6 DEF Registered
    <3> QED
      BY <2>5, <3>1, <3>2, <3>3
  <2>9. Taken(v) = DOMAIN s.out \cup Done(n + 1)
    <3> HIDE DEF Done
    <3> QED
      BY <2>4, <2>5, <2>6
  <2> HIDE DEF Done, held
  <2> QED
    BY <2>5, <2>6, <2>7, <2>8, <2>9 DEF v
<1> HIDE DEF S
<1>7. m \in S
  BY <1>1, <1>5, <1>6, SetInduction
<1>8. Inv(m)
  BY <1>1, <1>7 DEF S
<1>9. Taken(s) = DOMAIN s.out \cup Done(m)
  BY DEF Taken, Waiting
<1>10. \A sym : Held(s, sym) => Registered(t, sym)
  BY <1>2, <1>8 DEF Held
<1>11. \A sym : Entered(s, sym) => Registered(t, sym)
  BY <1>2, <1>8 DEF Registered
<1> HIDE DEF Done
<1> QED
  BY <1>2, <1>8, <1>9, <1>10, <1>11 DEF Registered, t

(* From one clause to the next nothing is lost. *)
Follows(s, t) ==
  /\ t.module = s.module /\ t.importMap = s.importMap /\ s.rows \subseteq t.rows
  /\ s.error => t.error
  /\ \A sym : Registered(s, sym) => Registered(t, sym)

LEMMA FollowsOn ==
  ASSUME NEW s, NEW t, NEW u, Follows(s, t), Follows(t, u)
  PROVE  Follows(s, u)
BY DEF Follows

LEMMA RegSymRegisters ==
  ASSUME NEW s, IsPass(s), NEW name, NEW entry, NEW parents
  PROVE  LET t == RegSym(s, name, entry, parents)
         IN /\ IsPass(t) /\ Follows(s, t)
            /\ t.rows = s.rows /\ t.parentOids = s.parentOids /\ t.fakeidx = s.fakeidx
            /\ ~t.error => /\ name \notin Taken(s) /\ Taken(t) = Taken(s) \cup {name}
                           /\ Registered(t, [name |-> name, entry |-> entry, parents |-> parents])
<1> DEFINE t == RegSym(s, name, entry, parents)
           sym == [name |-> name, entry |-> entry, parents |-> parents]
<1>1. CASE name \in Taken(s)
  <2>1. name \in DOMAIN s.out \/ \E i \in DOMAIN s.postponed : s.postponed[i].name = name
    BY <1>1, SeqFacts DEF Taken, Waiting, IsPass
  <2>2. t = [s EXCEPT !.error = TRUE]
    BY <2>1 DEF RegSym
  <2>3. /\ DOMAIN t = PassFields /\ t.module = s.module /\ t.importMap = s.importMap
        /\ t.rows = s.rows /\ t.parentOids = s.parentOids /\ t.fakeidx = s.fakeidx
        /\ t.order = s.order /\ t.out = s.out /\ t.postponed = s.postponed /\ t.error = TRUE
    BY <2>2 DEF IsPass, PassFields
  <2> HIDE DEF t
  <2>4. IsPass(t)
    BY <2>3 DEF IsPass
  <2>5. \A other : Registered(s, other) => Registered(t, other)
    BY <2>3 DEF Registered, Entered, Held, Bound
  <2> QED
    BY <2>3, <2>4, <2>5 DEF Follows, t
<1>2. CASE name \notin Taken(s) /\ AllParentsExist(s, parents)
  <2> DEFINE u == Enter(s, sym)
  <2>1. ~(name \in DOMAIN s.out \/ \E i \in DOMAIN s.postponed : s.postponed[i].name = name)
    BY <1>2, SeqFacts DEF Taken, Waiting, IsPass
  <2>2. t = RegPostponed(u)
    BY <1>2, <2>1 DEF RegSym
  <2>3. sym.name = name /\ sym.parents = parents
    OBVIOUS
  <2> HIDE DEF t, u, sym
  <2>4. /\ IsPass(u) /\ SameRest(s, u) /\ u.postponed = s.postponed
        /\ DOMAIN u.out = DOMAIN s.out \cup {name}
        /\ \A other : Entered(s, other) => Entered(u, other)
        /\ Entered(u, sym)
    BY <1>2, <2>3, EnterEnters DEF u
  <2>5. /\ IsPass(t) /\ SameRest(u, t) /\ Taken(t) = Taken(u)
        /\ \A other : Registered(u, other) => Registered(t, other)
    BY <2>2, <2>4, RegPostponedKeeps
  <2>6. Taken(u) = Taken(s) \cup {name}
    BY <2>4 DEF Taken, Waiting
  <2>7. \A other : Registered(s, other) => Registered(t, other)
    BY <2>4, <2>5 DEF Registered, Held
  <2>8. Registered(t, sym)
    BY <2>4, <2>5 DEF Registered
  <2> QED
    BY <1>2, <2>4, <2>5, <2>6, <2>7, <2>8 DEF Follows, SameRest, t, sym
<1>3. CASE name \notin Taken(s) /\ ~AllParentsExist(s, parents)
  <2>1. ~(name \in DOMAIN s.out \/ \E i \in DOMAIN s.postponed : s.postponed[i].name = name)
    BY <1>3, SeqFacts DEF Taken, Waiting, IsPass
  <2>2. t = [s EXCEPT !.postponed = Append(@, sym)]
    BY <1>3, <2>1 DEF RegSym
  <2>3. sym.name = name
    OBVIOUS
  <2> HIDE DEF t, sym
  <2>4. /\ IsPass(t) /\ SameRest(s, t) /\ t.order = s.order /\ t.out = s.out
        /\ Waiting(t) = Waiting(s) \cup {name}
        /\ \A other : Registered(s, other) => Registered(t, other)
        /\ Held(t, sym)
    BY <1>3, <2>2, <2>3, HoldHolds
  <2>5. Taken(t) = Taken(s) \cup {name}
    BY <2>4 DEF Taken
  <2> QED
    BY <1>3, <2>4, <2>5 DEF Follows, SameRest, Registered, t, sym
<1> QED
  BY <1>1, <1>2, <1>3

FakeNames(first, n) == {FakeName(first + k - 1) : k \in 1..n}
FakeSym(oid, number) ==
  [name |-> FakeName(number),
   entry |-> Entry([parent |-> oid.parent, arcs |-> Append(oid.arcs, number)], Untyped, Unrestricted),
   parents |-> {}]

(* The columns of a clause take the next numbers, one after the other. *)
LEMMA FakesRegister ==
  ASSUME NEW s, IsPass(s), NEW c, Columns(c) \in Nat
  PROVE  LET t == Fakes(s, c)
         IN /\ IsPass(t) /\ Follows(s, t)
            /\ t.rows = s.rows /\ t.parentOids = s.parentOids
            /\ t.fakeidx = s.fakeidx + Columns(c)
            /\ ~t.error =>
                 /\ Taken(t) = Taken(s) \cup FakeNames(s.fakeidx, Columns(c))
                 /\ Taken(s) \cap FakeNames(s.fakeidx, Columns(c)) = {}
                 /\ \A k \in 1..Columns(c) :
                      Registered(t, FakeSym(Oid(s, c.oid), s.fakeidx + k - 1))
<1> DEFINE m == Columns(c)
           first == s.fakeidx
           oid == Oid(s, c.oid)
           start == [s EXCEPT !.fakeidx = @ + m]
           after == CHOOSE f : f = [n \in 0..m |-> IF n = 0 THEN start
                                                   ELSE Column(f[n - 1], oid, first + n - 1)]
           t == Fakes(s, c)
<1>1. m \in Nat /\ first \in Nat
  BY DEF IsPass
<1>2. t = after[m]
  BY DEF Fakes
<1> HIDE DEF t
<1>3. \A n \in 0..m : after[n] = IF n = 0 THEN start ELSE Column(after[n - 1], oid, first + n - 1)
  <2> DEFINE x == [oid |-> oid, first |-> first]
  <2>0. x.oid = oid /\ x.first = first
    OBVIOUS
  <2> HIDE DEF m, start, oid, first, x
  <2>1. \A f, n : Step("column", x, f, n) = Column(f, oid, first + n - 1)
    BY <2>0 DEF Step
  <2>2. PICK f : Loops("column", x, start, m, f)
    BY <1>1, LoopExists
  <2>3. f = [n \in 0..m |-> IF n = 0 THEN start ELSE Column(f[n - 1], oid, first + n - 1)]
    BY <2>1, <2>2 DEF Loops
  <2>4. after = [n \in 0..m |-> IF n = 0 THEN start ELSE Column(after[n - 1], oid, first + n - 1)]
    BY <2>3
  <2> HIDE DEF after
  <2> QED
    BY <2>4
<1> HIDE DEF after
<1> DEFINE Inv(n) ==
             /\ IsPass(after[n]) /\ Follows(s, after[n])
             /\ after[n].rows = s.rows /\ after[n].parentOids = s.parentOids
             /\ after[n].fakeidx = first + m
             /\ ~after[n].error =>
                  /\ Taken(after[n]) = Taken(s) \cup FakeNames(first, n)
                  /\ Taken(s) \cap FakeNames(first, n) = {}
                  /\ \A k \in 1..n : Registered(after[n], FakeSym(oid, first + k - 1))
           S == {n \in Nat : n <= m => Inv(n)}
<1>4. 0 \in S
  <2>1. /\ DOMAIN start = PassFields /\ start.module = s.module /\ start.importMap = s.importMap
        /\ start.rows = s.rows /\ start.parentOids = s.parentOids /\ start.error = s.error
        /\ start.out = s.out /\ start.order = s.order /\ start.postponed = s.postponed
        /\ start.fakeidx = first + m
    BY DEF IsPass, PassFields
  <2> HIDE DEF start
  <2>2. after[0] = start
    BY <1>1, <1>3
  <2>3. IsPass(start)
    <3>1. first + m \in Nat
      BY <1>1
    <3> HIDE DEF m, first
    <3> QED
      BY <2>1, <3>1 DEF IsPass
  <2>4. Taken(start) = Taken(s)
    BY <2>1 DEF Taken, Waiting
  <2>5. Follows(s, start)
    BY <2>1 DEF Registered, Entered, Held, Bound, Follows
  <2>6. FakeNames(first, 0) = {}
    BY DEF FakeNames
  <2> HIDE DEF m, first, oid
  <2> QED
    BY <2>1, <2>2, <2>3, <2>4, <2>5, <2>6
<1>5. ASSUME NEW n \in Nat, n \in S PROVE n + 1 \in S
  <2> SUFFICES ASSUME n + 1 <= m PROVE Inv(n + 1)
    OBVIOUS
  <2> DEFINE u == after[n]
             v == after[n + 1]
             number == first + n
  <2>1. Inv(n)
    BY <1>1, <1>5
  <2>2. v = Column(u, oid, number)
    <3> HIDE DEF start, oid
    <3>1. n + 1 \in 0..m /\ n + 1 # 0 /\ (n + 1) - 1 = n /\ first + (n + 1) - 1 = first + n
      BY <1>1
    <3> QED
      BY <1>3, <3>1
  <2>3. FakeNames(first, n + 1) = FakeNames(first, n) \cup {FakeName(number)}
    <3>1. \A k \in 1..(n + 1) : k \in 1..n \/ k = n + 1
      OBVIOUS
    <3>2. n + 1 \in 1..(n + 1) /\ \A k \in 1..n : k \in 1..(n + 1)
      OBVIOUS
    <3>3. first + (n + 1) - 1 = number
      BY <1>1
    <3> HIDE DEF number, first
    <3> QED
      BY <3>1, <3>2, <3>3 DEF FakeNames
  <2> HIDE DEF u, v
  <2>4. IsPass(u) /\ Follows(s, u)
    BY <2>1 DEF u
  <2>5. /\ IsPass(v) /\ Follows(u, v)
        /\ v.rows = u.rows /\ v.parentOids = u.parentOids /\ v.fakeidx = u.fakeidx
        /\ ~v.error => /\ FakeName(number) \notin Taken(u)
                       /\ Taken(v) = Taken(u) \cup {FakeName(number)}
                       /\ Registered(v, FakeSym(oid, number))
    <3> DEFINE name == FakeName(number)
               entry == Entry([parent |-> oid.parent, arcs |-> Append(oid.arcs, number)],
                              Untyped, Unrestricted)
               w == RegSym(u, name, entry, {})
               sym == [name |-> name, entry |-> entry, parents |-> {}]
    <3>1. v = w
      BY <2>2 DEF Column
    <3>2. FakeSym(oid, number) = sym /\ FakeName(number) = name
      BY DEF FakeSym
    <3> HIDE DEF entry, number, oid, name
    <3>3. /\ IsPass(w) /\ Follows(u, w)
          /\ w.rows = u.rows /\ w.parentOids = u.parentOids /\ w.fakeidx = u.fakeidx
          /\ ~w.error => /\ name \notin Taken(u) /\ Taken(w) = Taken(u) \cup {name}
                         /\ Registered(w, sym)
      BY <2>4, RegSymRegisters
    <3> HIDE DEF w, sym
    <3> QED
      BY <3>1, <3>2, <3>3
  <2>6. Follows(s, v)
    BY <2>4, <2>5, FollowsOn
  <2>7. ASSUME ~v.error
        PROVE  /\ Taken(v) = Taken(s) \cup FakeNames(first, n + 1)
               /\ Taken(s) \cap FakeNames(first, n + 1) = {}
               /\ \A k \in 1..(n + 1) : Registered(v, FakeSym(oid, first + k - 1))
    <3>1. ~u.error
      BY <2>5, <2>7 DEF Follows
    <3>2. /\ Taken(u) = Taken(s) \cup FakeNames(first, n)
          /\ Taken(s) \cap FakeNames(first, n) = {}
          /\ \A k \in 1..n : Registered(u, FakeSym(oid, first + k - 1))
      BY <2>1, <3>1 DEF u
    <3>3. \A k \in 1..(n + 1) : k \in 1..n \/ (k = n + 1 /\ first + k - 1 = number)
      BY <1>1
    <3> HIDE DEF number, first, oid
    <3>4. \A k \in 1..(n + 1) : Registered(v, FakeSym(oid, first + k - 1))
      BY <2>5, <2>7, <3>2, <3>3 DEF Follows
    <3> QED
      BY <2>3, <2>5, <2>7, <3>2, <3>4
  <2>8. v.fakeidx = first + m /\ v.rows = s.rows /\ v.parentOids = s.parentOids
    BY <2>1, <2>5 DEF u
  <2> HIDE DEF m, first, oid
  <2> QED
    BY <2>5, <2>6, <2>7, <2>8 DEF v
<1> HIDE DEF S
<1>6. m \in S
  BY <1>1, <1>4, <1>5, SetInduction
<1>7. Inv(m)
  BY <1>1, <1>6 DEF S
<1> QED
  BY <1>2, <1>7 DEF t

(* Rows and parents noted on the way change nothing of what is registered.     *)
Notes(s, u) ==
  /\ DOMAIN u = PassFields
  /\ u.module = s.module /\ u.importMap = s.importMap /\ u.out = s.out /\ u.order = s.order
  /\ u.postponed = s.postponed /\ u.fakeidx = s.fakeidx /\ u.error = s.error
  /\ s.rows \subseteq u.rows

LEMMA NotesKeep ==
  ASSUME NEW s, IsPass(s), NEW u, Notes(s, u)
  PROVE  IsPass(u) /\ Follows(s, u) /\ Taken(u) = Taken(s)
<1>1. IsPass(u)
  BY DEF IsPass, Notes
<1>2. Taken(u) = Taken(s)
  BY DEF Taken, Waiting, Notes
<1>3. \A sym : Held(s, sym) => Held(u, sym)
  BY DEF Held, Notes
<1>4. Bound(u) = Bound(s)
  BY DEF Bound, Notes
<1>5. ASSUME NEW sym, Entered(s, sym) PROVE Entered(u, sym)
  <2>1. PICK i \in 1..Len(s.order) :
          /\ s.order[i] = sym.name /\ s.out[sym.name] = sym.entry
          /\ sym.parents \subseteq {s.order[j] : j \in 1..(i - 1)} \cup Bound(s) \cup s.rows
    BY <1>5 DEF Entered
  <2>2. sym.parents \subseteq {s.order[j] : j \in 1..(i - 1)} \cup Bound(s) \cup u.rows
    BY <2>1 DEF Notes
  <2>3. u.order = s.order /\ u.out = s.out
    BY DEF Notes
  <2> QED
    BY <1>4, <2>1, <2>2, <2>3 DEF Entered
<1> QED
  BY <1>1, <1>2, <1>3, <1>5 DEF Follows, Notes, Registered

(* A symbol is referred to by its name and its module. *)
IsRef(x) == x = [name |-> x.name, module |-> x.module]

(* What a clause declares. *)
Describes(s, c, sym) ==
  /\ sym.name = c.name /\ IsRef(sym.entry.type)
  /\ c.kind = "type" => ~HasOid(sym.entry)
  /\ c.kind # "type" => HasOid(sym.entry) /\ sym.entry.oid = Oid(s, c.oid)
  /\ c.kind \in {"type", "object"} /\ c.rowOf = None /\ c.type \notin s.rows =>
       c.type \in sym.parents
  /\ c.kind = "object" /\ c.augments # None => c.augments \in sym.parents

LEMMA OidSame ==
  ASSUME NEW s, NEW t, t.module = s.module, t.importMap = s.importMap, NEW oid
  PROVE  Oid(s, oid) = Oid(t, oid)
BY DEF Oid

(* While the rows only grow, what a clause declares stays declared.            *)
LEMMA DescribesStays ==
  ASSUME NEW s, NEW t, t.module = s.module, t.importMap = s.importMap, s.rows \subseteq t.rows,
         NEW c, NEW sym, Describes(s, c, sym)
  PROVE  Describes(t, c, sym)
<1>1. Oid(s, c.oid) = Oid(t, c.oid)
  BY OidSame
<1> QED
  BY <1>1 DEF Describes

LEMMA TypeNamed ==
  ASSUME NEW s, NEW c, c.rowOf = None, c.type \notin s.rows
  PROVE  TypeOf(s, c).name = c.type
BY DEF TypeOf, Ref

LEMMA HasOidOf ==
  /\ \A oid, type, sub : HasOid(Entry(oid, type, sub)) /\ Entry(oid, type, sub).oid = oid
  /\ \A type, sub : ~HasOid(TypeEntry(type, sub))
  /\ \A oid, type, sub : Entry(oid, type, sub).type = type /\ TypeEntry(type, sub).type = type
BY DEF HasOid, Entry, TypeEntry

LEMMA RefsAre ==
  /\ \A importMap, name, module : IsRef(Ref(importMap, name, module))
  /\ \A s, c : IsRef(TypeOf(s, c))
  /\ IsRef(Untyped)
<1>1. \A name, module : IsRef([name |-> name, module |-> module])
  BY DEF IsRef
<1>2. \A importMap, name, module : IsRef(Ref(importMap, name, module))
  BY <1>1 DEF Ref
<1> QED
  BY <1>1, <1>2 DEF TypeOf, Untyped

LEMMA TypeDeclares ==
  ASSUME NEW s, IsPass(s), NEW c, c.kind = "type"
  PROVE  LET t == Type(s, c)
         IN /\ IsPass(t) /\ Follows(s, t) /\ t.fakeidx = s.fakeidx
            /\ ~t.error => /\ c.name \notin Taken(s) /\ Taken(t) = Taken(s) \cup {c.name}
                           /\ \E sym : Describes(t, c, sym) /\ Registered(t, sym)
<1> DEFINE name == c.name
           entry == TypeEntry(TypeOf(s, c), c.sub)
           parents == {TypeOf(s, c).name}
           t == RegSym(s, name, entry, parents)
           sym == [name |-> name, entry |-> entry, parents |-> parents]
<1>1. Type(s, c) = t
  BY DEF Type
<1>2. Describes(s, c, sym)
  <2>1. ~HasOid(entry) /\ IsRef(entry.type)
    BY HasOidOf, RefsAre
  <2>2. c.rowOf = None /\ c.type \notin s.rows => c.type \in parents
    BY TypeNamed
  <2>3. sym.name = c.name /\ sym.entry = entry /\ sym.parents = parents
    OBVIOUS
  <2> HIDE DEF sym, entry, parents
  <2> QED
    BY <2>1, <2>2, <2>3 DEF Describes
<1> HIDE DEF name, entry, parents
<1>3. /\ IsPass(t) /\ Follows(s, t) /\ t.rows = s.rows /\ t.fakeidx = s.fakeidx
      /\ ~t.error => /\ name \notin Taken(s) /\ Taken(t) = Taken(s) \cup {name}
                     /\ Registered(t, sym)
  BY RegSymRegisters
<1> HIDE DEF t, sym
<1>4. Describes(t, c, sym)
  BY <1>2, <1>3, DescribesStays DEF Follows
<1> QED
  BY <1>1, <1>3, <1>4 DEF name

LEMMA NodeDeclares ==
  ASSUME NEW s, IsPass(s), NEW c, c.kind \notin {"type", "object"}
  PROVE  LET t == Node(NoteOid(s, c), c)
         IN /\ IsPass(t) /\ Follows(s, t) /\ t.fakeidx = s.fakeidx
            /\ ~t.error => /\ c.name \notin Taken(s) /\ Taken(t) = Taken(s) \cup {c.name}
                           /\ \E sym : Describes(t, c, sym) /\ Registered(t, sym)
<1> DEFINE u == NoteOid(s, c)
           name == c.name
           entry == Entry(Oid(u, c.oid), Untyped, Unrestricted)
           parents == {}
           t == RegSym(u, name, entry, parents)
           sym == [name |-> name, entry |-> entry, parents |-> parents]
<1>1. Node(u, c) = t
  BY DEF Node
<1>2. Notes(s, u)
  BY DEF NoteOid, Notes, IsPass, PassFields
<1> HIDE DEF u
<1>3. IsPass(u) /\ Follows(s, u) /\ Taken(u) = Taken(s)
  BY <1>2, NotesKeep
<1>4. Describes(u, c, sym)
  <2>1. HasOid(entry) /\ entry.oid = Oid(u, c.oid) /\ IsRef(entry.type)
    BY HasOidOf, RefsAre
  <2>2. sym.name = c.name /\ sym.entry = entry
    OBVIOUS
  <2> HIDE DEF sym, entry
  <2> QED
    BY <2>1, <2>2 DEF Describes
<1> HIDE DEF name, entry, parents
<1>5. /\ IsPass(t) /\ Follows(u, t) /\ t.rows = u.rows /\ t.fakeidx = u.fakeidx
      /\ ~t.error => /\ name \notin Taken(u) /\ Taken(t) = Taken(u) \cup {name}
                     /\ Registered(t, sym)
  BY <1>3, RegSymRegisters
<1> HIDE DEF t, sym
<1>6. Describes(t, c, sym)
  BY <1>4, <1>5, DescribesStays DEF Follows
<1>7. Follows(s, t)
  BY <1>3, <1>5, FollowsOn
<1> QED
  BY <1>1, <1>2, <1>3, <1>5, <1>6, <1>7 DEF name, u, Notes

LEMMA ObjectDeclares ==
  ASSUME NEW s, IsPass(s), NEW c, c.kind = "object", Columns(c) \in Nat
  PROVE  LET t == Object(NoteOid(s, c), c)
             fakes == FakeNames(s.fakeidx, Columns(c))
         IN /\ IsPass(t) /\ Follows(s, t) /\ t.fakeidx = s.fakeidx + Columns(c)
            /\ ~t.error =>
                 /\ c.name \notin Taken(s) /\ c.name \notin fakes /\ Taken(s) \cap fakes = {}
                 /\ Taken(t) = (Taken(s) \cup {c.name}) \cup fakes
                 /\ \E sym : Describes(t, c, sym) /\ Registered(t, sym)
                 /\ \A k \in 1..Columns(c) :
                      Registered(t, FakeSym(Oid(t, c.oid), s.fakeidx + k - 1))
<1> DEFINE n == NoteOid(s, c)
           noted == [n EXCEPT !.rows = IF c.rowOf = None THEN @ ELSE @ \cup {c.rowOf}]
           u == Fakes(noted, c)
           fakes == FakeNames(s.fakeidx, Columns(c))
           name == c.name
           entry == Entry(Oid(noted, c.oid), TypeOf(noted, c), c.sub)
           parents == {TypeOf(noted, c).name} \cup (IF c.augments = None THEN {} ELSE {c.augments})
           t == RegSym(u, name, entry, parents)
           sym == [name |-> name, entry |-> entry, parents |-> parents]
<1>1. Object(n, c) = t
  BY DEF Object
<1>2. Notes(s, noted)
  <2>1. Notes(s, n)
    BY DEF NoteOid, Notes, IsPass, PassFields
  <2> HIDE DEF n
  <2> QED
    BY <2>1 DEF Notes, PassFields
<1>3. Describes(noted, c, sym)
  <2>1. HasOid(entry) /\ entry.oid = Oid(noted, c.oid) /\ IsRef(entry.type)
    <3> HIDE DEF noted
    <3> QED
      BY HasOidOf, RefsAre
  <2>2. c.rowOf = None /\ c.type \notin noted.rows => c.type \in parents
    <3> HIDE DEF noted
    <3> QED
      BY TypeNamed
  <2>3. c.augments # None => c.augments \in parents
    OBVIOUS
  <2>4. sym.name = c.name /\ sym.entry = entry /\ sym.parents = parents
    OBVIOUS
  <2> HIDE DEF sym, entry, parents, noted
  <2> QED
    BY <2>1, <2>2, <2>3, <2>4 DEF Describes
<1> HIDE DEF n, noted
<1>4. IsPass(noted) /\ Follows(s, noted) /\ Taken(noted) = Taken(s) /\ noted.fakeidx = s.fakeidx
  BY <1>2, NotesKeep DEF Notes
<1>5. /\ IsPass(u) /\ Follows(noted, u) /\ u.rows = noted.rows
      /\ u.fakeidx = s.fakeidx + Columns(c)
      /\ ~u.error =>
           /\ Taken(u) = Taken(s) \cup fakes
           /\ Taken(s) \cap fakes = {}
           /\ \A k \in 1..Columns(c) : Registered(u, FakeSym(Oid(noted, c.oid), s.fakeidx + k - 1))
  BY <1>4, FakesRegister
<1> HIDE DEF u, fakes, name, entry, parents
<1>6. /\ IsPass(t) /\ Follows(u, t) /\ t.rows = u.rows /\ t.fakeidx = u.fakeidx
      /\ ~t.error => /\ name \notin Taken(u) /\ Taken(t) = Taken(u) \cup {name}
                     /\ Registered(t, sym)
  BY <1>5, RegSymRegisters
<1> HIDE DEF t, sym
<1>7. Follows(s, u) /\ Follows(noted, t)
  BY <1>4, <1>5, <1>6, FollowsOn
<1>8. Follows(s, t)
  BY <1>6, <1>7, FollowsOn
<1>9. Describes(t, c, sym)
  BY <1>3, <1>7, DescribesStays DEF Follows
<1>10. Oid(t, c.oid) = Oid(noted, c.oid)
  BY <1>7, OidSame DEF Follows
<1>11. ASSUME ~t.error
       PROVE  /\ name \notin Taken(s) /\ name \notin fakes /\ Taken(s) \cap fakes = {}
              /\ Taken(t) = (Taken(s) \cup {name}) \cup fakes
              /\ \A k \in 1..Columns(c) : Registered(t, FakeSym(Oid(t, c.oid), s.fakeidx + k - 1))
  <2>1. ~u.error
    BY <1>6, <1>11 DEF Follows
  <2>2. \A k \in 1..Columns(c) : Registered(t, FakeSym(Oid(t, c.oid), s.fakeidx + k - 1))
    BY <1>5, <1>6, <1>10, <2>1 DEF Follows
  <2> QED
    BY <1>5, <1>6, <1>11, <2>1, <2>2
<1> QED
  BY <1>1, <1>5, <1>6, <1>8, <1>9, <1>11 DEF n, name, fakes

(* What one clause adds. *)
Adds(s, c, t) ==
  LET fakes == FakeNames(s.fakeidx, Cols(c))
  IN /\ c.name \notin Taken(s) /\ c.name \notin fakes /\ Taken(s) \cap fakes = {}
     /\ Taken(t) = (Taken(s) \cup {c.name}) \cup fakes
     /\ \E sym : Describes(t, c, sym) /\ Registered(t, sym)
     /\ \A k \in 1..Cols(c) : Registered(t, FakeSym(Oid(t, c.oid), s.fakeidx + k - 1))

LEMMA DeclareDeclares ==
  ASSUME NEW s, IsPass(s), NEW c, Columns(c) \in Nat
  PROVE  LET t == Declare(s, c)
         IN /\ IsPass(t) /\ Follows(s, t)
            /\ c.kind = "sequence" => t = s
            /\ ~t.error => t.fakeidx = s.fakeidx + Cols(c)
            /\ ~t.error /\ c.kind # "sequence" => Adds(s, c, t)
<1> DEFINE t == Declare(s, c)
<1>0. s.fakeidx \in Nat /\ s.fakeidx + 0 = s.fakeidx
  BY DEF IsPass
<1>1. CASE s.error \/ c.kind = "sequence"
  <2>1. t = s
    BY <1>1 DEF Declare
  <2>2. Follows(s, s)
    BY DEF Follows
  <2>3. c.kind = "sequence" => Cols(c) = 0
    BY DEF Cols
  <2> QED
    BY <1>0, <1>1, <2>1, <2>2, <2>3
<1>2. ASSUME c.kind # "object" PROVE Cols(c) = 0 /\ FakeNames(s.fakeidx, Cols(c)) = {} /\ 1..Cols(c) = {}
  BY <1>2 DEF Cols, FakeNames
<1>3. CASE ~s.error /\ c.kind = "type"
  <2> DEFINE v == Type(s, c)
  <2>1. t = v
    BY <1>3 DEF Declare
  <2>2. /\ IsPass(v) /\ Follows(s, v) /\ v.fakeidx = s.fakeidx
        /\ ~v.error => /\ c.name \notin Taken(s) /\ Taken(v) = Taken(s) \cup {c.name}
                       /\ \E sym : Describes(v, c, sym) /\ Registered(v, sym)
    BY <1>3, TypeDeclares
  <2> HIDE DEF v, t
  <2>3. ~v.error => Adds(s, c, v)
    BY <1>2, <1>3, <2>2 DEF Adds
  <2> QED
    BY <1>0, <1>2, <1>3, <2>1, <2>2, <2>3 DEF t
<1>4. CASE ~s.error /\ c.kind = "object"
  <2> DEFINE v == Object(NoteOid(s, c), c)
             fakes == FakeNames(s.fakeidx, Columns(c))
  <2>1. t = v
    BY <1>4 DEF Declare
  <2>2. Cols(c) = Columns(c)
    BY <1>4 DEF Cols
  <2>3. /\ IsPass(v) /\ Follows(s, v) /\ v.fakeidx = s.fakeidx + Columns(c)
        /\ ~v.error =>
             /\ c.name \notin Taken(s) /\ c.name \notin fakes /\ Taken(s) \cap fakes = {}
             /\ Taken(v) = (Taken(s) \cup {c.name}) \cup fakes
             /\ \E sym : Describes(v, c, sym) /\ Registered(v, sym)
             /\ \A k \in 1..Columns(c) :
                  Registered(v, FakeSym(Oid(v, c.oid), s.fakeidx + k - 1))
    BY <1>4, ObjectDeclares
  <2> HIDE DEF v, t
  <2>4. ~v.error => Adds(s, c, v)
    BY <2>2, <2>3 DEF Adds
  <2> QED
    BY <1>4, <2>1, <2>2, <2>3, <2>4 DEF t
<1>5. CASE ~s.error /\ c.kind \notin {"sequence", "type", "object"}
  <2> DEFINE v == Node(NoteOid(s, c), c)
  <2>1. t = v
    BY <1>5 DEF Declare
  <2>2. /\ IsPass(v) /\ Follows(s, v) /\ v.fakeidx = s.fakeidx
        /\ ~v.error => /\ c.name \notin Taken(s) /\ Taken(v) = Taken(s) \cup {c.name}
                       /\ \E sym : Describes(v, c, sym) /\ Registered(v, sym)
    BY <1>5, NodeDeclares
  <2> HIDE DEF v, t
  <2>3. ~v.error => Adds(s, c, v)
    BY <1>2, <1>5, <2>2 DEF Adds
  <2> QED
    BY <1>0, <1>2, <1>5, <2>1, <2>2, <2>3 DEF t
<1> HIDE DEF t
<1> QED
  BY <1>1, <1>3, <1>4, <1>5 DEF t

-------------------------------------------------------------------------------
(* The clauses of a text, one after the other. *)

InBody(clauses, n) == {i \in 1..n : clauses[i].kind # "sequence"}
ClauseNames(clauses, n) == {clauses[i].name : i \in InBody(clauses, n)}

(* how many columns the clauses before have made *)
Numbers(clauses) ==
  LET at[n \in 0..Len(clauses)] == IF n = 0 THEN 0 ELSE at[n - 1] + Cols(clauses[n])
  IN at

IsBody(clauses) ==
  /\ IsSeq(clauses)
  /\ \A i \in 1..Len(clauses) : clauses[i].kind \in Kinds /\ Columns(clauses[i]) \in Nat

LEMMA ColumnsNat ==
  ASSUME NEW c, IsSeq(c.index)
  PROVE  Columns(c) \in Nat
<1> DEFINE all == 1..Len(c.index)
           some == {i \in DOMAIN c.index : c.index[i] \in IndexTypes}
<1>1. Len(c.index) \in Nat /\ DOMAIN c.index = all
  BY SeqFacts
<1>2. IsFiniteSet(all)
  <2>1. 1 \in Int /\ Len(c.index) \in Int
    BY <1>1
  <2> QED
    BY <2>1, FS_Interval
<1>3. some \subseteq all
  BY <1>1
<1> HIDE DEF all, some
<1>4. IsFiniteSet(some) /\ Cardinality(some) \in Nat
  BY <1>2, <1>3, FS_Subset, FS_CardinalityType
<1> QED
  BY <1>4 DEF Columns, some

LEMMA ColsNat ==
  ASSUME NEW c, Columns(c) \in Nat
  PROVE  Cols(c) \in Nat
BY DEF Cols

LEMMA NumbersFacts ==
  ASSUME NEW clauses, IsBody(clauses)
  PROVE  LET at == Numbers(clauses)
         IN /\ at[0] = 0
            /\ \A n \in 1..Len(clauses) : at[n] = at[n - 1] + Cols(clauses[n])
            /\ \A n \in 0..Len(clauses) : at[n] \in Nat
<1> DEFINE m == Len(clauses)
           at == CHOOSE f : f = [n \in 0..m |-> IF n = 0 THEN 0 ELSE f[n - 1] + Cols(clauses[n])]
<1>1. m \in Nat
  BY SeqFacts DEF IsBody
<1>2. Numbers(clauses) = at
  BY DEF Numbers
<1>3. \A n \in 0..m : at[n] = IF n = 0 THEN 0 ELSE at[n - 1] + Cols(clauses[n])
  <2> HIDE DEF m
  <2>1. \A f, n : Step("count", clauses, f, n) = f + Cols(clauses[n])
    BY DEF Step
  <2>2. PICK f : Loops("count", clauses, 0, m, f)
    BY <1>1, LoopExists
  <2>3. f = [n \in 0..m |-> IF n = 0 THEN 0 ELSE f[n - 1] + Cols(clauses[n])]
    BY <2>1, <2>2 DEF Loops
  <2>4. at = [n \in 0..m |-> IF n = 0 THEN 0 ELSE at[n - 1] + Cols(clauses[n])]
    BY <2>3
  <2> HIDE DEF at
  <2> QED
    BY <2>4
<1> HIDE DEF at
<1> DEFINE S == {n \in Nat : n <= m => at[n] \in Nat}
<1>4. 0 \in S
  BY <1>1, <1>3
<1>5. ASSUME NEW n \in Nat, n \in S PROVE n + 1 \in S
  <2> SUFFICES ASSUME n + 1 <= m PROVE at[n + 1] \in Nat
    OBVIOUS
  <2>1. n + 1 \in 0..m /\ n + 1 # 0 /\ (n + 1) - 1 = n /\ n + 1 \in 1..m
    BY <1>1
  <2>2. at[n] \in Nat
    BY <1>1, <1>5
  <2>3. Cols(clauses[n + 1]) \in Nat
    BY <2>1, ColsNat DEF IsBody
  <2>4. at[n + 1] = at[n] + Cols(clauses[n + 1])
    BY <1>3, <2>1
  <2> HIDE DEF m
  <2> QED
    BY <2>2, <2>3, <2>4
<1> HIDE DEF S
<1>6. Nat \subseteq S
  BY <1>4, <1>5, SetInduction
<1>7. \A n \in 0..m : at[n] \in Nat
  BY <1>1, <1>6 DEF S
<1> QED
  BY <1>1, <1>2, <1>3, <1>7

(* all is p and q more, from first on; next is where those begin. *)
GoesOn(first, p, q, all, next) == all = p + q /\ next = first + p

LEMMA FakeNamesAdd ==
  ASSUME NEW first \in Nat, NEW p \in Nat, NEW q \in Nat,
         NEW all, NEW next, GoesOn(first, p, q, all, next)
  PROVE  FakeNames(first, all) = FakeNames(first, p) \cup FakeNames(next, q)
<1> USE DEF GoesOn
<1>1. ASSUME NEW k \in 1..(p + q)
      PROVE  FakeName(first + k - 1) \in FakeNames(first, p) \cup FakeNames(first + p, q)
  <2>1. CASE k \in 1..p
    BY <2>1 DEF FakeNames
  <2>2. CASE k \notin 1..p
    <3>1. k - p \in 1..q /\ (first + p) + (k - p) - 1 = first + k - 1
      BY <2>2
    <3> QED
      BY <3>1 DEF FakeNames
  <2> QED
    BY <2>1, <2>2
<1>2. ASSUME NEW k \in 1..p PROVE FakeName(first + k - 1) \in FakeNames(first, p + q)
  <2>1. k \in 1..(p + q)
    OBVIOUS
  <2> QED
    BY <2>1 DEF FakeNames
<1>3. ASSUME NEW k \in 1..q PROVE FakeName((first + p) + k - 1) \in FakeNames(first, p + q)
  <2>1. k + p \in 1..(p + q) /\ first + (k + p) - 1 = (first + p) + k - 1
    OBVIOUS
  <2> QED
    BY <2>1 DEF FakeNames
<1> QED
  BY <1>1, <1>2, <1>3 DEF FakeNames

LEMMA BodyMore ==
  ASSUME NEW clauses, NEW n \in Nat
  PROVE  /\ clauses[n + 1].kind = "sequence" => InBody(clauses, n + 1) = InBody(clauses, n)
         /\ clauses[n + 1].kind # "sequence" => InBody(clauses, n + 1) = InBody(clauses, n) \cup {n + 1}
<1>1. \A i \in 1..(n + 1) : i \in 1..n \/ i = n + 1
  OBVIOUS
<1>2. \A i \in 1..n : i \in 1..(n + 1)
  OBVIOUS
<1>3. n + 1 \in 1..(n + 1)
  OBVIOUS
<1> QED
  BY <1>1, <1>2, <1>3 DEF InBody

LEMMA FakeNamesOn ==
  ASSUME NEW clauses, IsBody(clauses), NEW first \in Nat, NEW n \in Nat, n + 1 <= Len(clauses)
  PROVE  LET at == Numbers(clauses)
             c == clauses[n + 1]
         IN /\ at[n] \in Nat /\ Cols(c) \in Nat
            /\ first + at[n + 1] = (first + at[n]) + Cols(c)
            /\ FakeNames(first, at[n + 1]) =
                 FakeNames(first, at[n]) \cup FakeNames(first + at[n], Cols(c))
<1> DEFINE at == Numbers(clauses)
           c == clauses[n + 1]
<1>0. Len(clauses) \in Nat /\ n \in 0..Len(clauses) /\ n + 1 \in 1..Len(clauses) /\ (n + 1) - 1 = n
  BY SeqFacts DEF IsBody
<1>1. at[n] \in Nat /\ Cols(c) \in Nat /\ at[n + 1] = at[n] + Cols(c)
  <2>1. Cols(c) \in Nat
    BY <1>0, ColsNat DEF IsBody
  <2> QED
    BY <1>0, <2>1, NumbersFacts
<1>2. FakeNames(first, at[n + 1]) = FakeNames(first, at[n]) \cup FakeNames(first + at[n], Cols(c))
  <2> DEFINE p == at[n]
             q == Cols(c)
             all == at[n + 1]
             next == first + at[n]
  <2>0. first \in Nat
    OBVIOUS
  <2>1. p \in Nat /\ q \in Nat /\ GoesOn(first, p, q, all, next)
    BY <1>1 DEF GoesOn
  <2> HIDE DEF p, q, all, next
  <2>2. FakeNames(first, all) = FakeNames(first, p) \cup FakeNames(next, q)
    BY <2>0, <2>1, FakeNamesAdd
  <2> QED
    BY <2>2 DEF p, q, all, next
<1>3. first + at[n + 1] = (first + at[n]) + Cols(c)
  <2> DEFINE p == at[n]
             q == Cols(c)
             all == at[n + 1]
  <2>1. p \in Nat /\ q \in Nat /\ all = p + q
    BY <1>1
  <2> HIDE DEF p, q, all
  <2>2. first + all = (first + p) + q
    BY <2>1
  <2> QED
    BY <2>2 DEF p, q, all
<1> QED
  BY <1>1, <1>2, <1>3

(* What the first n clauses have left, where no name was taken twice.          *)
Declared(s, clauses, first, n) ==
  LET at == Numbers(clauses)
  IN /\ s.fakeidx = first + at[n]
     /\ Taken(s) = ClauseNames(clauses, n) \cup FakeNames(first, at[n])
     /\ ClauseNames(clauses, n) \cap FakeNames(first, at[n]) = {}
     /\ \A i, j \in InBody(clauses, n) : clauses[i].name = clauses[j].name => i = j
     /\ \A i \in InBody(clauses, n) : \E sym : Describes(s, clauses[i], sym) /\ Registered(s, sym)
     /\ \A i \in 1..n : \A k \in 1..Cols(clauses[i]) :
          Registered(s, FakeSym(Oid(s, clauses[i].oid), first + at[i - 1] + k - 1))

LEMMA DeclaredOn ==
  ASSUME NEW clauses, IsBody(clauses), NEW first \in Nat, NEW n \in Nat, n + 1 <= Len(clauses),
         NEW s, NEW t, IsPass(s), Declared(s, clauses, first, n), Follows(s, t),
         clauses[n + 1].kind = "sequence" => t = s,
         t.fakeidx = s.fakeidx + Cols(clauses[n + 1]),
         clauses[n + 1].kind # "sequence" => Adds(s, clauses[n + 1], t)
  PROVE  Declared(t, clauses, first, n + 1)
<1> DEFINE at == Numbers(clauses)
           c == clauses[n + 1]
           old == ClauseNames(clauses, n)
           made == FakeNames(first, at[n])
           more == FakeNames(first + at[n], Cols(c))
           new == ClauseNames(clauses, n + 1)
<1>0. Len(clauses) \in Nat /\ n \in 0..Len(clauses) /\ n + 1 \in 1..Len(clauses) /\ (n + 1) - 1 = n
  BY SeqFacts DEF IsBody
<1>1. first + at[n + 1] = (first + at[n]) + Cols(c)
  BY FakeNamesOn
<1>2. FakeNames(first, at[n + 1]) = made \cup more
  BY FakeNamesOn
<1>3. /\ s.fakeidx = first + at[n]
      /\ Taken(s) = old \cup made /\ old \cap made = {}
      /\ \A i, j \in InBody(clauses, n) : clauses[i].name = clauses[j].name => i = j
      /\ \A i \in InBody(clauses, n) : \E sym : Describes(s, clauses[i], sym) /\ Registered(s, sym)
      /\ \A i \in 1..n : \A k \in 1..Cols(clauses[i]) :
           Registered(s, FakeSym(Oid(s, clauses[i].oid), first + at[i - 1] + k - 1))
  BY DEF Declared
<1>4. /\ t.module = s.module /\ t.importMap = s.importMap /\ s.rows \subseteq t.rows
      /\ \A sym : Registered(s, sym) => Registered(t, sym)
  BY DEF Follows
<1>5. \A i \in InBody(clauses, n) : \E sym : Describes(t, clauses[i], sym) /\ Registered(t, sym)
  <2> SUFFICES ASSUME NEW i \in InBody(clauses, n)
               PROVE  \E sym : Describes(t, clauses[i], sym) /\ Registered(t, sym)
    OBVIOUS
  <2>1. PICK sym : Describes(s, clauses[i], sym) /\ Registered(s, sym)
    BY <1>3
  <2>2. Describes(t, clauses[i], sym)
    BY <1>4, <2>1, DescribesStays
  <2> QED
    BY <1>4, <2>1, <2>2
<1>6. \A i \in 1..n : \A k \in 1..Cols(clauses[i]) :
        Registered(t, FakeSym(Oid(t, clauses[i].oid), first + at[i - 1] + k - 1))
  <2>1. \A oid : Oid(s, oid) = Oid(t, oid)
    BY <1>4, OidSame
  <2> HIDE DEF at
  <2> QED
    BY <1>3, <1>4, <2>1
<1>7. t.fakeidx = first + at[n + 1]
  <2> HIDE DEF at, c
  <2>1. t.fakeidx = s.fakeidx + Cols(c)
    BY DEF c
  <2> QED
    BY <1>1, <1>3, <2>1
<1>8. \A i \in 1..(n + 1) : i \in 1..n \/ i = n + 1
  OBVIOUS
<1>9. \A i \in 1..n : i \in 1..(n + 1)
  OBVIOUS
<1>10. CASE c.kind = "sequence"
  <2>1. InBody(clauses, n + 1) = InBody(clauses, n)
    BY <1>8, <1>9, <1>10 DEF InBody
  <2>2. new = old
    BY <2>1 DEF ClauseNames
  <2>3. Cols(c) = 0
    BY <1>10 DEF Cols
  <2>4. more = {} /\ 1..Cols(c) = {}
    BY <2>3 DEF FakeNames
  <2>5. \A i \in 1..(n + 1) : \A k \in 1..Cols(clauses[i]) :
          Registered(t, FakeSym(Oid(t, clauses[i].oid), first + at[i - 1] + k - 1))
    <3> HIDE DEF at
    <3> QED
      BY <1>6, <1>8, <2>4
  <2>6. t = s
    BY <1>10
  <2> HIDE DEF at, old, made, more, new, c
  <2>7. /\ Taken(t) = new \cup FakeNames(first, at[n + 1])
        /\ new \cap FakeNames(first, at[n + 1]) = {}
    BY <1>2, <1>3, <2>2, <2>4, <2>6
  <2> USE DEF at, new
  <2> QED
    BY <1>3, <1>5, <1>7, <2>1, <2>5, <2>7 DEF Declared
<1>11. CASE c.kind # "sequence"
  <2>0. Adds(s, c, t)
    BY <1>11
  <2>1. InBody(clauses, n + 1) = InBody(clauses, n) \cup {n + 1}
    BY <1>8, <1>9, <1>11 DEF InBody
  <2>2. new = old \cup {c.name}
    BY <2>1 DEF ClauseNames
  <2>3. /\ c.name \notin Taken(s) /\ c.name \notin more /\ Taken(s) \cap more = {}
        /\ Taken(t) = (Taken(s) \cup {c.name}) \cup more
        /\ \E sym : Describes(t, c, sym) /\ Registered(t, sym)
        /\ \A k \in 1..Cols(c) : Registered(t, FakeSym(Oid(t, c.oid), first + at[n] + k - 1))
    <3>1. s.fakeidx = first + at[n]
      BY <1>3
    <3> HIDE DEF at, c
    <3> QED
      BY <2>0, <3>1 DEF Adds
  <2>4. \A i, j \in InBody(clauses, n + 1) : clauses[i].name = clauses[j].name => i = j
    <3>1. \A i \in InBody(clauses, n) : clauses[i].name \in Taken(s)
      BY <1>3 DEF ClauseNames
    <3> QED
      BY <1>3, <2>1, <2>3, <3>1
  <2>5. \A i \in 1..(n + 1) : \A k \in 1..Cols(clauses[i]) :
          Registered(t, FakeSym(Oid(t, clauses[i].oid), first + at[i - 1] + k - 1))
    <3> HIDE DEF at
    <3> QED
      BY <1>0, <1>6, <1>8, <2>3
  <2>6. \A i \in InBody(clauses, n + 1) : \E sym : Describes(t, clauses[i], sym) /\ Registered(t, sym)
    BY <1>5, <2>1, <2>3
  <2> HIDE DEF at, old, made, more, new, c
  <2>7. /\ Taken(t) = new \cup FakeNames(first, at[n + 1])
        /\ new \cap FakeNames(first, at[n + 1]) = {}
    BY <1>2, <1>3, <2>2, <2>3
  <2> USE DEF at, new
  <2> QED
    BY <1>7, <2>4, <2>5, <2>6, <2>7 DEF Declared
<1> QED
  BY <1>10, <1>11

LEMMA GoDeclares ==
  ASSUME NEW text, IsBody(text.clauses), NEW imports, NEW first \in Nat
  PROVE  LET s == Go(text, imports, first)
         IN /\ IsPass(s) /\ s.module = text.name /\ s.importMap = Imports(imports)
            /\ ~s.error => Declared(s, text.clauses, first, Len(text.clauses))
<1> DEFINE clauses == text.clauses
           m == Len(clauses)
           start == Pass(text, Imports(imports), first)
           after == CHOOSE f : f = [n \in 0..m |-> IF n = 0 THEN start ELSE Declare(f[n - 1], clauses[n])]
           at == Numbers(clauses)
<1>1. m \in Nat /\ IsBody(clauses)
  BY SeqFacts DEF IsBody
<1>2. Go(text, imports, first) = after[m]
  BY DEF Go
<1>3. \A n \in 0..m : after[n] = IF n = 0 THEN start ELSE Declare(after[n - 1], clauses[n])
  <2> HIDE DEF m, start, clauses
  <2>1. \A f, n : Step("declare", clauses, f, n) = Declare(f, clauses[n])
    BY DEF Step
  <2>2. PICK f : Loops("declare", clauses, start, m, f)
    BY <1>1, LoopExists
  <2>3. f = [n \in 0..m |-> IF n = 0 THEN start ELSE Declare(f[n - 1], clauses[n])]
    BY <2>1, <2>2 DEF Loops
  <2>4. after = [n \in 0..m |-> IF n = 0 THEN start ELSE Declare(after[n - 1], clauses[n])]
    BY <2>3
  <2> HIDE DEF after
  <2> QED
    BY <2>4
<1> HIDE DEF after
<1> DEFINE Inv(n) ==
             /\ IsPass(after[n]) /\ after[n].module = text.name
             /\ after[n].importMap = Imports(imports)
             /\ ~after[n].error => Declared(after[n], clauses, first, n)
           S == {n \in Nat : n <= m => Inv(n)}
<1>4. 0 \in S
  <2>1. /\ DOMAIN start = PassFields /\ start.module = text.name
        /\ start.importMap = Imports(imports) /\ start.out = <<>> /\ start.order = <<>>
        /\ start.postponed = <<>> /\ start.fakeidx = first
    BY DEF Pass, PassFields
  <2> HIDE DEF start
  <2>2. after[0] = start
    BY <1>1, <1>3
  <2>3. DOMAIN start.out = {}
    BY <2>1, EmptyIsSeq, SeqFacts
  <2>4. IsPass(start)
    BY <2>1, <2>3, EmptyIsSeq DEF IsPass
  <2>5. Taken(start) = {}
    BY <2>1, <2>3, EmptyIsSeq DEF Taken, Waiting
  <2>6. Declared(start, clauses, first, 0)
    <3>1. at[0] = 0
      BY <1>1, NumbersFacts
    <3>2. InBody(clauses, 0) = {} /\ ClauseNames(clauses, 0) = {}
      BY DEF InBody, ClauseNames
    <3>3. FakeNames(first, 0) = {} /\ 1..0 = {}
      BY DEF FakeNames
    <3>4. start.fakeidx = first + 0
      BY <2>1
    <3> HIDE DEF clauses
    <3> QED
      BY <2>5, <3>1, <3>2, <3>3, <3>4 DEF Declared
  <2> QED
    BY <2>1, <2>2, <2>4, <2>6
<1>5. ASSUME NEW n \in Nat, n \in S PROVE n + 1 \in S
  <2> SUFFICES ASSUME n + 1 <= m PROVE Inv(n + 1)
    OBVIOUS
  <2> DEFINE u == after[n]
             c == clauses[n + 1]
             v == Declare(u, c)
  <2>1. Inv(n)
    BY <1>1, <1>5
  <2>2. after[n + 1] = v
    <3> HIDE DEF start, clauses
    <3>1. n + 1 \in 0..m /\ n + 1 # 0 /\ (n + 1) - 1 = n
      BY <1>1
    <3> QED
      BY <1>3, <3>1
  <2>3. Columns(c) \in Nat
    <3>1. n + 1 \in 1..m
      BY <1>1
    <3> QED
      BY <1>1, <3>1 DEF IsBody
  <2>4. IsPass(u) /\ u.module = text.name /\ u.importMap = Imports(imports)
    BY <2>1
  <2> HIDE DEF u, c, start
  <2>5. /\ IsPass(v) /\ Follows(u, v) /\ (c.kind = "sequence" => v = u)
        /\ ~v.error => v.fakeidx = u.fakeidx + Cols(c)
        /\ ~v.error /\ c.kind # "sequence" => Adds(u, c, v)
    BY <2>3, <2>4, DeclareDeclares
  <2> HIDE DEF v
  <2>6. ASSUME ~v.error PROVE Declared(v, clauses, first, n + 1)
    <3>1. ~u.error
      BY <2>5, <2>6 DEF Follows
    <3>2. Declared(u, clauses, first, n)
      BY <2>1, <3>1 DEF u
    <3>3. n + 1 <= Len(clauses)
      OBVIOUS
    <3> HIDE DEF clauses
    <3> QED
      BY <1>1, <2>4, <2>5, <2>6, <3>2, <3>3, DeclaredOn DEF c
  <2>7. v.module = text.name /\ v.importMap = Imports(imports)
    BY <2>4, <2>5 DEF Follows
  <2> QED
    BY <2>2, <2>5, <2>6, <2>7
<1> HIDE DEF S
<1>6. m \in S
  BY <1>1, <1>4, <1>5, SetInduction
<1>7. Inv(m)
  BY <1>1, <1>6 DEF S
<1> QED
  BY <1>2, <1>7

-------------------------------------------------------------------------------
(* The table a text is given. *)

(* what a back end sees of it, the imports with those that were repaired *)
View(text, table) ==
  [module |-> text.name, importMap |-> JsonImports(text, table), rows |-> table.rows,
   out |-> table.out, order |-> table.order]

TableOf(text, table, first) ==
  LET v == View(text, table)
      clauses == text.clauses
      n == Len(clauses)
      at == Numbers(clauses)
  IN /\ IsSeq(v.order) /\ ToSet(v.order) = DOMAIN v.out
     /\ \A i, j \in 1..Len(v.order) : v.order[i] = v.order[j] => i = j
     /\ DOMAIN v.out = ClauseNames(clauses, n) \cup FakeNames(first, at[n])
     /\ ClauseNames(clauses, n) \cap FakeNames(first, at[n]) = {}
     /\ \A i, j \in InBody(clauses, n) : clauses[i].name = clauses[j].name => i = j
     /\ \A i \in InBody(clauses, n) : \E sym : Describes(v, clauses[i], sym) /\ Entered(v, sym)
     /\ \A i \in 1..n : \A k \in 1..Cols(clauses[i]) :
          Entered(v, FakeSym(Oid(v, clauses[i].oid), first + at[i - 1] + k - 1))

LEMMA PassIsTable ==
  ASSUME NEW text, NEW s, IsPass(s), NEW table, NEW first, ~s.error, s.postponed = <<>>,
         table.out = s.out, table.order = s.order, table.rows = s.rows,
         s.module = text.name, s.importMap = JsonImports(text, table),
         Declared(s, text.clauses, first, Len(text.clauses))
  PROVE  TableOf(text, table, first)
<1> DEFINE v == View(text, table)
           clauses == text.clauses
           n == Len(clauses)
           at == Numbers(clauses)
<1>1. /\ v.module = s.module /\ v.importMap = s.importMap /\ v.rows = s.rows /\ v.out = s.out
      /\ v.order = s.order
  BY DEF View
<1> HIDE DEF v
<1>2. Taken(s) = DOMAIN s.out
  BY EmptyIsSeq DEF Taken, Waiting
<1>3. \A sym : Registered(s, sym) => Entered(v, sym)
  <2>1. \A sym : ~Held(s, sym)
    BY EmptyIsSeq DEF Held
  <2>2. Bound(v) = Bound(s)
    BY <1>1 DEF Bound
  <2>3. \A sym : Entered(s, sym) => Entered(v, sym)
    BY <1>1, <2>2 DEF Entered
  <2> QED
    BY <2>1, <2>3 DEF Registered
<1>4. \A i \in InBody(clauses, n) : \E sym : Describes(v, clauses[i], sym) /\ Entered(v, sym)
  <2> SUFFICES ASSUME NEW i \in InBody(clauses, n)
               PROVE  \E sym : Describes(v, clauses[i], sym) /\ Entered(v, sym)
    OBVIOUS
  <2>1. PICK sym : Describes(s, clauses[i], sym) /\ Registered(s, sym)
    BY DEF Declared
  <2>2. Describes(v, clauses[i], sym)
    BY <1>1, <2>1, DescribesStays
  <2> QED
    BY <1>3, <2>1, <2>2
<1>5. \A i \in 1..n : \A k \in 1..Cols(clauses[i]) :
        Entered(v, FakeSym(Oid(v, clauses[i].oid), first + at[i - 1] + k - 1))
  <2>1. \A oid : Oid(s, oid) = Oid(v, oid)
    BY <1>1, OidSame
  <2> QED
    BY <1>3, <2>1 DEF Declared
<1>6. /\ IsSeq(v.order) /\ ToSet(v.order) = DOMAIN v.out
      /\ \A i, j \in 1..Len(v.order) : v.order[i] = v.order[j] => i = j
  BY <1>1 DEF IsPass
<1>7. /\ DOMAIN v.out = ClauseNames(clauses, n) \cup FakeNames(first, at[n])
      /\ ClauseNames(clauses, n) \cap FakeNames(first, at[n]) = {}
      /\ \A i, j \in InBody(clauses, n) : clauses[i].name = clauses[j].name => i = j
  BY <1>1, <1>2 DEF Declared
<1> QED
  BY <1>4, <1>5, <1>6, <1>7 DEF TableOf, v

LEMMA DescribedIsTable ==
  ASSUME NEW text, IsBody(text.clauses), NEW mend, NEW k \in Nat
  PROVE  LET d == Described(text, mend, k)
         IN /\ d.fakeidx \in Nat
            /\ d.ok => \E first \in Nat : TableOf(text, d.table, first)
<1> DEFINE one == Go(text, text.imports, k)
           repaired == IF mend /\ ~one.error THEN Missing(one) ELSE {}
           last == IF repaired = {} THEN one ELSE Go(text, text.imports \cup repaired, one.fakeidx)
           d == Described(text, mend, k)
           table == [out |-> last.out, order |-> last.order, rows |-> last.rows, repaired |-> repaired]
<1>1. /\ d.table = table /\ d.fakeidx = last.fakeidx
      /\ d.ok => ~last.error /\ last.postponed = <<>>
  BY DEF Described
<1>2. /\ table.out = last.out /\ table.order = last.order /\ table.rows = last.rows
      /\ table.repaired = repaired
  OBVIOUS
<1>3. IsPass(one) /\ one.fakeidx \in Nat
  BY GoDeclares DEF IsPass
<1>4. PICK first \in Nat : last = Go(text, text.imports \cup repaired, first)
  <2> HIDE DEF one
  <2>1. CASE repaired = {}
    <3>1. last = one /\ text.imports \cup repaired = text.imports
      BY <2>1
    <3> HIDE DEF last, repaired
    <3> QED
      BY <3>1 DEF one
  <2>2. CASE repaired # {}
    <3>1. last = Go(text, text.imports \cup repaired, one.fakeidx)
      BY <2>2
    <3> HIDE DEF last, repaired
    <3> QED
      BY <1>3, <3>1
  <2> QED
    BY <2>1, <2>2
<1> HIDE DEF d, table, last, repaired
<1> DEFINE imports == text.imports \cup repaired
<1>5. imports = WithRepaired(text, table)
  BY <1>2 DEF WithRepaired
<1> HIDE DEF imports
<1>6. /\ IsPass(last) /\ last.module = text.name /\ last.importMap = Imports(imports)
      /\ ~last.error => Declared(last, text.clauses, first, Len(text.clauses))
  BY <1>4, GoDeclares DEF imports
<1>7. last.importMap = JsonImports(text, table)
  BY <1>5, <1>6 DEF JsonImports
<1>8. d.ok => TableOf(text, table, first)
  BY <1>1, <1>2, <1>6, <1>7, PassIsTable
<1>9. last.fakeidx \in Nat
  BY <1>6 DEF IsPass
<1> QED
  BY <1>1, <1>8, <1>9 DEF d

-------------------------------------------------------------------------------
(* The two back ends, clause by clause. *)

GenFields == {"module", "tables", "importMap", "seen", "out", "identified", "revision",
              "fakeidx", "error"}

(* What one clause does not change of a generator. *)
SameGen(g, h) ==
  /\ DOMAIN h = GenFields
  /\ h.module = g.module /\ h.tables = g.tables /\ h.importMap = g.importMap

DefaultOf(g, c) == DefVal(g.tables, g.module, g.importMap, c)
Uses(g, c) ==
  (IF c.kind \in {"type", "object"} THEN TypeUsed(g, c) ELSE {})
    \cup (IF c.kind = "object" /\ c.augments # None THEN {c.augments} ELSE {})
ItemOf(g, c, item) ==
  /\ c.kind # "type" => item.oid = NumberOf(g, c).value
  /\ item.uses \subseteq Uses(g, c)
  /\ item.default # None =>
       c.kind = "object" /\ DefaultOf(g, c).error = "none" /\ DefaultOf(g, c).value = item.default
ColumnItem(path, number) == Item(Append(path, number), None, {}, {})

(* What a clause puts out, where it does not fail. *)
Writes(g, c, h) ==
  LET fakes == FakeNames(g.fakeidx, Cols(c))
  IN /\ h.fakeidx = g.fakeidx + Cols(c)
     /\ h.seen = (g.seen \cup {c.name}) \cup fakes
     /\ DOMAIN h.out = (DOMAIN g.out \cup {c.name}) \cup fakes
     /\ h.identified => g.identified \/ c.kind = "identity"
     /\ c.kind # "type" => NumberOf(g, c).error = "none"
     /\ \A x \in DOMAIN h.out :
          \/ x \in DOMAIN g.out /\ h.out[x] = g.out[x]
          \/ x = c.name /\ ItemOf(g, c, h.out[x])
          \/ \E k \in 1..Cols(c) : /\ x = FakeName(g.fakeidx + k - 1)
                                   /\ h.out[x] = ColumnItem(NumberOf(g, c).value, g.fakeidx + k - 1)

(* Why a clause fails. *)
Fails(g, c, error) ==
  \/ c.kind # "type" /\ NumberOf(g, c).error = error
  \/ c.kind = "object" /\ DefaultOf(g, c).error = error
  \/ error = "foreign" /\ c.kind = "capabilities" /\ \E v \in Range(c.varied) : Varied(g, v).error = error
  \/ error = "semantic" /\ c.kind = "identity" /\ g.identified
  \/ error = "semantic" /\ c.name \in g.seen \ DOMAIN g.importMap
  \/ error = "semantic" /\ Cols(c) # 0

Does(g, c, h) ==
  /\ SameGen(g, h) /\ h.fakeidx \in {g.fakeidx, g.fakeidx + Cols(c)}
  /\ h.error = "none" => Writes(g, c, h)
  /\ h.error # "none" => Fails(g, c, h.error)

LEMMA FailedFacts ==
  ASSUME NEW g, DOMAIN g = GenFields, NEW error
  PROVE  LET h == [g EXCEPT !.error = error]
         IN /\ SameGen(g, h) /\ h.fakeidx = g.fakeidx /\ h.error = error
            /\ h.seen = g.seen /\ h.out = g.out /\ h.identified = g.identified
BY DEF GenFields, SameGen

LEMMA RegisterFacts ==
  ASSUME NEW g, DOMAIN g = GenFields, NEW name, NEW item
  PROVE  LET h == Register(g, name, item)
             clash == name \in g.seen \ DOMAIN g.importMap
         IN /\ SameGen(g, h) /\ h.fakeidx = g.fakeidx /\ h.identified = g.identified
            /\ clash => h.error = "semantic"
            /\ ~clash =>
                 /\ h.error = g.error /\ h.seen = g.seen \cup {name}
                 /\ DOMAIN h.out = DOMAIN g.out \cup {name} /\ h.out[name] = item
                 /\ \A x \in DOMAIN g.out : x # name => h.out[x] = g.out[x]
<1> DEFINE h == Register(g, name, item)
<1>1. CASE name \in g.seen \ DOMAIN g.importMap
  <2>1. h = [g EXCEPT !.error = "semantic"]
    BY <1>1 DEF Register
  <2> QED
    BY <1>1, <2>1 DEF GenFields, SameGen
<1>2. CASE ~(name \in g.seen \ DOMAIN g.importMap)
  <2> DEFINE out == Bind(g.out, name, item)
             seen == g.seen \cup {name}
  <2>1. h = [g EXCEPT !.seen = @ \cup {name}, !.out = Bind(@, name, item)]
    BY <1>2 DEF Register
  <2>2. /\ DOMAIN h = GenFields /\ h.module = g.module /\ h.tables = g.tables
        /\ h.importMap = g.importMap /\ h.fakeidx = g.fakeidx /\ h.identified = g.identified
        /\ h.error = g.error /\ h.seen = seen /\ h.out = out
    <3> HIDE DEF h
    <3> QED
      BY <2>1 DEF GenFields
  <2>3. /\ DOMAIN out = DOMAIN g.out \cup {name} /\ out[name] = item
        /\ \A x \in DOMAIN g.out : x # name => out[x] = g.out[x]
    BY DEF Bind
  <2> HIDE DEF h, out
  <2> QED
    BY <1>2, <2>2, <2>3 DEF SameGen, h
<1> QED
  BY <1>1, <1>2

(* A clause without columns that is put out under its name. *)
LEMMA RegisterDoes ==
  ASSUME NEW g, DOMAIN g = GenFields, g.fakeidx \in Nat, NEW c, Cols(c) = 0,
         NEW u, SameGen(g, u), u.seen = g.seen, u.out = g.out, u.fakeidx = g.fakeidx,
         u.error = "none", u.identified => g.identified \/ c.kind = "identity",
         c.kind # "type" => NumberOf(g, c).error = "none",
         NEW item, ItemOf(g, c, item)
  PROVE  Does(g, c, Register(u, c.name, item))
<1> DEFINE name == c.name
           h == Register(u, name, item)
           clash == name \in g.seen \ DOMAIN g.importMap
<1> HIDE DEF name
<1>1. /\ SameGen(u, h) /\ h.fakeidx = u.fakeidx /\ h.identified = u.identified
      /\ clash => h.error = "semantic"
      /\ ~clash =>
           /\ h.error = u.error /\ h.seen = u.seen \cup {name}
           /\ DOMAIN h.out = DOMAIN u.out \cup {name} /\ h.out[name] = item
           /\ \A x \in DOMAIN u.out : x # name => h.out[x] = u.out[x]
  <2>1. DOMAIN u = GenFields /\ u.importMap = g.importMap
    BY DEF SameGen
  <2> QED
    BY <2>1, RegisterFacts
<1> HIDE DEF h
<1>2. SameGen(g, h) /\ h.fakeidx = g.fakeidx
  BY <1>1 DEF SameGen
<1>3. CASE clash
  <2>1. Fails(g, c, "semantic")
    BY <1>3 DEF Fails, name
  <2> QED
    BY <1>1, <1>2, <1>3, <2>1 DEF Does, h, name
<1>4. CASE ~clash
  <2>1. FakeNames(g.fakeidx, Cols(c)) = {} /\ g.fakeidx + Cols(c) = g.fakeidx
    BY DEF FakeNames
  <2>2. Writes(g, c, h)
    BY <1>1, <1>2, <1>4, <2>1 DEF Writes, name
  <2> QED
    BY <1>1, <1>2, <1>4, <2>2 DEF Does, h, name
<1> QED
  BY <1>3, <1>4

LEMMA FailedDoes ==
  ASSUME NEW g, DOMAIN g = GenFields, NEW c, NEW error, error # "none", Fails(g, c, error)
  PROVE  Does(g, c, [g EXCEPT !.error = error])
BY FailedFacts DEF Does

LEMMA RenderNodeDoes ==
  ASSUME NEW g, DOMAIN g = GenFields, g.fakeidx \in Nat, g.error = "none",
         NEW c, c.kind \notin {"type", "object"}, NEW refs
  PROVE  Does(g, c, RenderNode(g, c, NumberOf(g, c), refs))
<1> DEFINE oid == NumberOf(g, c)
           item == Item(oid.value, None, refs, {})
           h == RenderNode(g, c, oid, refs)
<1>1. CASE oid.error # "none"
  <2>1. h = [g EXCEPT !.error = oid.error]
    BY <1>1 DEF RenderNode, Failed
  <2>2. Fails(g, c, oid.error)
    BY DEF Fails
  <2> HIDE DEF h, oid
  <2> QED
    BY <1>1, <2>1, <2>2, FailedDoes DEF h, oid
<1>2. CASE oid.error = "none"
  <2>1. h = Register(g, c.name, item)
    BY <1>2 DEF RenderNode
  <2>2. item.oid = oid.value /\ item.uses = {} /\ item.default = None
    BY DEF Item
  <2> HIDE DEF h, item
  <2>3. ItemOf(g, c, item)
    BY <2>2 DEF ItemOf
  <2>4. SameGen(g, g) /\ Cols(c) = 0
    BY DEF SameGen, Cols
  <2>5. Does(g, c, Register(g, c.name, item))
    BY <1>2, <2>3, <2>4, RegisterDoes
  <2> QED
    BY <2>1, <2>5 DEF h
<1> QED
  BY <1>1, <1>2

LEMMA IdentityDoes ==
  ASSUME NEW g, DOMAIN g = GenFields, g.fakeidx \in Nat, g.error = "none",
         NEW c, c.kind = "identity"
  PROVE  Does(g, c, JsonIdentity(g, c))
<1> DEFINE oid == NumberOf(g, c)
           dated == [g EXCEPT !.revision = IF c.revision = None THEN @ ELSE c.revision]
           marked == [dated EXCEPT !.identified = TRUE]
           item == Item(oid.value, None, {}, {})
           h == JsonIdentity(g, c)
<1>0. /\ SameGen(g, dated) /\ dated.seen = g.seen /\ dated.out = g.out
      /\ dated.fakeidx = g.fakeidx /\ dated.error = g.error /\ dated.identified = g.identified
  BY DEF SameGen, GenFields
<1>1. CASE oid.error # "none"
  <2>1. h = [g EXCEPT !.error = oid.error]
    BY <1>1 DEF JsonIdentity, Failed
  <2>2. Fails(g, c, oid.error)
    BY DEF Fails
  <2> HIDE DEF h, oid
  <2> QED
    BY <1>1, <2>1, <2>2, FailedDoes DEF h, oid
<1>2. CASE oid.error = "none" /\ g.identified
  <2>1. h = [dated EXCEPT !.error = "semantic"]
    <3>1. h = RegIdentity(dated, c.name, item)
      BY <1>2 DEF JsonIdentity
    <3> HIDE DEF h, dated
    <3> QED
      BY <1>0, <1>2, <3>1 DEF RegIdentity
  <2>2. Fails(g, c, "semantic")
    BY <1>2 DEF Fails
  <2> HIDE DEF h, dated
  <2>3. SameGen(g, h) /\ h.fakeidx = g.fakeidx /\ h.error = "semantic"
    BY <1>0, <2>1 DEF SameGen, GenFields
  <2> QED
    BY <2>2, <2>3 DEF Does, h
<1>3. CASE oid.error = "none" /\ ~g.identified
  <2>1. h = Register(marked, c.name, item)
    <3>1. h = RegIdentity(dated, c.name, item)
      BY <1>3 DEF JsonIdentity
    <3> HIDE DEF h, dated
    <3> QED
      BY <1>0, <1>3, <3>1 DEF RegIdentity
  <2>2. item.oid = oid.value /\ item.uses = {} /\ item.default = None
    BY DEF Item
  <2> HIDE DEF h, item, dated
  <2>3. ItemOf(g, c, item)
    BY <2>2 DEF ItemOf
  <2>4. Cols(c) = 0
    BY DEF Cols
  <2>5. /\ SameGen(g, marked) /\ marked.seen = g.seen /\ marked.out = g.out
        /\ marked.fakeidx = g.fakeidx /\ marked.error = "none"
    BY <1>0 DEF SameGen, GenFields
  <2> HIDE DEF marked
  <2>6. Does(g, c, Register(marked, c.name, item))
    BY <1>3, <2>3, <2>4, <2>5, RegisterDoes
  <2> QED
    BY <2>1, <2>6 DEF h
<1> QED
  BY <1>1, <1>2, <1>3

LEMMA TypeDoes ==
  ASSUME NEW g, DOMAIN g = GenFields, g.fakeidx \in Nat, g.error = "none",
         NEW c, c.kind = "type", NEW uses, uses \subseteq TypeUsed(g, c)
  PROVE  Does(g, c, Register(g, c.name, Item(None, None, {}, uses)))
<1> DEFINE item == Item(None, None, {}, uses)
<1>1. item.uses = uses /\ item.default = None
  BY DEF Item
<1> HIDE DEF item
<1>2. ItemOf(g, c, item)
  BY <1>1 DEF ItemOf, Uses
<1>3. Cols(c) = 0 /\ SameGen(g, g)
  BY DEF Cols, SameGen
<1>4. Does(g, c, Register(g, c.name, item))
  BY <1>2, <1>3, RegisterDoes
<1> QED
  BY <1>4 DEF item

(* The columns are put out after their row, unless a name is taken.            *)
LEMMA AddColumnsFacts ==
  ASSUME NEW g, DOMAIN g = GenFields, g.error \in {"none", "semantic"}, NEW first \in Nat,
         NEW c, Columns(c) \in Nat, NEW path
  PROVE  LET h == AddColumns(g, first, c, path)
             fakes == FakeNames(first, Columns(c))
         IN /\ SameGen(g, h) /\ h.fakeidx = g.fakeidx /\ h.identified = g.identified
            /\ h.error \in {"none", "semantic"}
            /\ g.error = "semantic" \/ Columns(c) = 0 => h.error = g.error
            /\ h.error = "none" =>
                 /\ h.seen = g.seen \cup fakes
                 /\ DOMAIN h.out = DOMAIN g.out \cup fakes
                 /\ \A x \in DOMAIN h.out :
                      \/ x \in DOMAIN g.out /\ h.out[x] = g.out[x]
                      \/ \E k \in 1..Columns(c) : /\ x = FakeName(first + k - 1)
                                                  /\ h.out[x] = ColumnItem(path, first + k - 1)
<1> DEFINE m == Columns(c)
           after == CHOOSE f : f = [n \in 0..m |-> IF n = 0 THEN g ELSE AddColumn(f[n - 1], path, first + n - 1)]
           h == AddColumns(g, first, c, path)
<1>1. m \in Nat
  OBVIOUS
<1>2. h = after[m]
  BY DEF AddColumns
<1> HIDE DEF h
<1>3. \A n \in 0..m : after[n] = IF n = 0 THEN g ELSE AddColumn(after[n - 1], path, first + n - 1)
  <2> DEFINE x == [path |-> path, first |-> first]
  <2>0. x.path = path /\ x.first = first
    OBVIOUS
  <2> HIDE DEF m, x
  <2>1. \A f, n : Step("add", x, f, n) = AddColumn(f, path, first + n - 1)
    BY <2>0 DEF Step
  <2>2. PICK f : Loops("add", x, g, m, f)
    BY <1>1, LoopExists
  <2>3. f = [n \in 0..m |-> IF n = 0 THEN g ELSE AddColumn(f[n - 1], path, first + n - 1)]
    BY <2>1, <2>2 DEF Loops
  <2>4. after = [n \in 0..m |-> IF n = 0 THEN g ELSE AddColumn(after[n - 1], path, first + n - 1)]
    BY <2>3
  <2> HIDE DEF after
  <2> QED
    BY <2>4
<1> HIDE DEF after
<1> DEFINE Inv(n) ==
             /\ SameGen(g, after[n]) /\ after[n].fakeidx = g.fakeidx
             /\ after[n].identified = g.identified
             /\ after[n].error \in {"none", "semantic"}
             /\ g.error = "semantic" \/ n = 0 => after[n].error = g.error
             /\ after[n].error = "none" =>
                  /\ after[n].seen = g.seen \cup FakeNames(first, n)
                  /\ DOMAIN after[n].out = DOMAIN g.out \cup FakeNames(first, n)
                  /\ \A x \in DOMAIN after[n].out :
                       \/ x \in DOMAIN g.out /\ after[n].out[x] = g.out[x]
                       \/ \E k \in 1..n : /\ x = FakeName(first + k - 1)
                                          /\ after[n].out[x] = ColumnItem(path, first + k - 1)
           S == {n \in Nat : n <= m => Inv(n)}
<1>4. 0 \in S
  <2>1. after[0] = g
    BY <1>1, <1>3
  <2>2. FakeNames(first, 0) = {}
    BY DEF FakeNames
  <2>3. SameGen(g, g)
    BY DEF SameGen
  <2> HIDE DEF m
  <2> QED
    BY <2>1, <2>2, <2>3
<1>5. ASSUME NEW n \in Nat, n \in S PROVE n + 1 \in S
  <2> SUFFICES ASSUME n + 1 <= m PROVE Inv(n + 1)
    OBVIOUS
  <2> DEFINE u == after[n]
             number == first + n
             name == FakeName(number)
             item == ColumnItem(path, number)
             v == Register(u, name, item)
             clash == name \in u.seen \ DOMAIN u.importMap
  <2>1. Inv(n)
    BY <1>1, <1>5
  <2>2. after[n + 1] = v
    <3>1. n + 1 \in 0..m /\ n + 1 # 0 /\ (n + 1) - 1 = n /\ first + (n + 1) - 1 = first + n
      BY <1>1
    <3> HIDE DEF m
    <3>2. after[n + 1] = AddColumn(after[n], path, first + n)
      BY <1>3, <3>1
    <3> QED
      BY <3>2 DEF AddColumn, ColumnItem
  <2>3. FakeNames(first, n + 1) = FakeNames(first, n) \cup {name}
    <3>1. \A k \in 1..(n + 1) : k \in 1..n \/ k = n + 1
      OBVIOUS
    <3>2. n + 1 \in 1..(n + 1) /\ \A k \in 1..n : k \in 1..(n + 1)
      OBVIOUS
    <3>3. first + (n + 1) - 1 = number
      OBVIOUS
    <3> HIDE DEF number
    <3> QED
      BY <3>1, <3>2, <3>3 DEF FakeNames
  <2>4. SameGen(g, u) /\ DOMAIN u = GenFields
    BY <2>1 DEF SameGen
  <2> HIDE DEF u, name, item
  <2>5. /\ SameGen(u, v) /\ v.fakeidx = u.fakeidx /\ v.identified = u.identified
        /\ clash => v.error = "semantic"
        /\ ~clash =>
             /\ v.error = u.error /\ v.seen = u.seen \cup {name}
             /\ DOMAIN v.out = DOMAIN u.out \cup {name} /\ v.out[name] = item
             /\ \A x \in DOMAIN u.out : x # name => v.out[x] = u.out[x]
    BY <2>4, RegisterFacts
  <2> HIDE DEF v, clash
  <2>6. SameGen(g, v)
    BY <2>4, <2>5 DEF SameGen
  <2>7. u.error \in {"none", "semantic"} /\ v.error \in {"none", "semantic"}
    BY <2>1, <2>5 DEF u
  <2>8. g.error = "semantic" => v.error = "semantic"
    BY <2>1, <2>5 DEF u
  <2>9. ASSUME v.error = "none"
        PROVE  /\ v.seen = g.seen \cup FakeNames(first, n + 1)
               /\ DOMAIN v.out = DOMAIN g.out \cup FakeNames(first, n + 1)
               /\ \A x \in DOMAIN v.out :
                    \/ x \in DOMAIN g.out /\ v.out[x] = g.out[x]
                    \/ \E k \in 1..(n + 1) : /\ x = FakeName(first + k - 1)
                                             /\ v.out[x] = ColumnItem(path, first + k - 1)
    <3>1. ~clash /\ u.error = "none"
      BY <2>5, <2>7, <2>9
    <3>2. /\ u.seen = g.seen \cup FakeNames(first, n)
          /\ DOMAIN u.out = DOMAIN g.out \cup FakeNames(first, n)
          /\ \A x \in DOMAIN u.out :
               \/ x \in DOMAIN g.out /\ u.out[x] = g.out[x]
               \/ \E k \in 1..n : /\ x = FakeName(first + k - 1)
                                  /\ u.out[x] = ColumnItem(path, first + k - 1)
      BY <2>1, <3>1 DEF u
    <3>3. ASSUME NEW x \in DOMAIN v.out
          PROVE  \/ x \in DOMAIN g.out /\ v.out[x] = g.out[x]
                 \/ \E k \in 1..(n + 1) : /\ x = FakeName(first + k - 1)
                                          /\ v.out[x] = ColumnItem(path, first + k - 1)
      <4>1. CASE x = name
        <5>1. first + (n + 1) - 1 = number /\ n + 1 \in 1..(n + 1)
          OBVIOUS
        <5>2. x = FakeName(first + (n + 1) - 1) /\ v.out[x] = ColumnItem(path, first + (n + 1) - 1)
          BY <2>5, <3>1, <4>1, <5>1 DEF name, item
        <5> QED
          BY <5>1, <5>2
      <4>2. CASE x # name
        <5>1. x \in DOMAIN u.out /\ v.out[x] = u.out[x]
          BY <2>5, <3>1, <3>3, <4>2
        <5>2. \A k \in 1..n : k \in 1..(n + 1)
          OBVIOUS
        <5> QED
          BY <3>2, <5>1, <5>2
      <4> QED
        BY <4>1, <4>2
    <3>4. /\ v.seen = g.seen \cup FakeNames(first, n + 1)
          /\ DOMAIN v.out = DOMAIN g.out \cup FakeNames(first, n + 1)
      BY <2>3, <2>5, <3>1, <3>2
    <3> QED
      BY <3>3, <3>4
  <2>10. v.fakeidx = g.fakeidx /\ v.identified = g.identified
    BY <2>1, <2>5 DEF u
  <2>11. n + 1 # 0
    OBVIOUS
  <2> QED
    BY <2>2, <2>6, <2>7, <2>8, <2>9, <2>10, <2>11
<1> HIDE DEF S
<1>6. m \in S
  BY <1>1, <1>4, <1>5, SetInduction
<1>7. Inv(m)
  BY <1>1, <1>6 DEF S
<1> QED
  BY <1>2, <1>7 DEF h

LEMMA RenderObjectDoes ==
  ASSUME NEW g, DOMAIN g = GenFields, g.fakeidx \in Nat, g.error = "none",
         NEW c, c.kind = "object", Columns(c) \in Nat,
         NEW uses, uses \subseteq Uses(g, c)
  PROVE  Does(g, c, RenderObject(g, c, uses, DefaultOf(g, c)))
<1> DEFINE oid == NumberOf(g, c)
           default == DefaultOf(g, c)
           m == Columns(c)
           counted == [g EXCEPT !.fakeidx = @ + m]
           item == Item(oid.value, default.value, {}, uses)
           h == RenderObject(g, c, uses, default)
<1>0. /\ SameGen(g, counted) /\ counted.seen = g.seen /\ counted.out = g.out
      /\ counted.fakeidx = g.fakeidx + m /\ counted.error = "none"
      /\ counted.identified = g.identified /\ DOMAIN counted = GenFields
  BY DEF SameGen, GenFields
<1>1. Cols(c) = m
  BY DEF Cols
<1>2. ASSUME NEW error, error # "none", Fails(g, c, error), h = [counted EXCEPT !.error = error]
      PROVE  Does(g, c, h)
  <2> HIDE DEF counted, h, m
  <2>1. SameGen(counted, h) /\ h.fakeidx = counted.fakeidx /\ h.error = error
    BY <1>0, <1>2, FailedFacts
  <2>2. SameGen(g, h) /\ h.fakeidx = g.fakeidx + m
    BY <1>0, <2>1 DEF SameGen
  <2> QED
    BY <1>1, <1>2, <2>1, <2>2 DEF Does
<1>3. CASE oid.error # "none"
  <2>1. h = [counted EXCEPT !.error = oid.error]
    BY <1>3 DEF RenderObject, Failed
  <2>2. Fails(g, c, oid.error)
    BY DEF Fails
  <2> HIDE DEF h, counted, oid
  <2> QED
    BY <1>2, <1>3, <2>1, <2>2 DEF h
<1>4. CASE oid.error = "none" /\ default.error # "none"
  <2>1. h = [counted EXCEPT !.error = default.error]
    BY <1>4 DEF RenderObject, Failed
  <2>2. Fails(g, c, default.error)
    BY DEF Fails
  <2> HIDE DEF h, counted, oid, default
  <2> QED
    BY <1>2, <1>4, <2>1, <2>2 DEF h, default
<1>5. CASE oid.error = "none" /\ default.error = "none"
  <2> DEFINE name == c.name
             base == Register(counted, name, item)
             fakes == FakeNames(g.fakeidx, m)
             clash == name \in g.seen \ DOMAIN g.importMap
             path == oid.value
             t == AddColumns(base, g.fakeidx, c, path)
  <2>1. h = t
    BY <1>5 DEF RenderObject
  <2>2. ItemOf(g, c, item)
    <3>1. item.oid = oid.value /\ item.uses = uses /\ item.default = default.value
      BY DEF Item
    <3> HIDE DEF item
    <3> QED
      BY <1>5, <3>1 DEF ItemOf
  <2> HIDE DEF name, item, counted, m
  <2>3. /\ SameGen(counted, base) /\ base.fakeidx = counted.fakeidx
        /\ base.identified = counted.identified
        /\ clash => base.error = "semantic"
        /\ ~clash =>
             /\ base.error = counted.error /\ base.seen = counted.seen \cup {name}
             /\ DOMAIN base.out = DOMAIN counted.out \cup {name} /\ base.out[name] = item
             /\ \A x \in DOMAIN counted.out : x # name => base.out[x] = counted.out[x]
    <3>1. counted.importMap = g.importMap
      BY <1>0 DEF SameGen
    <3> QED
      BY <1>0, <3>1, RegisterFacts
  <2>4. DOMAIN base = GenFields /\ base.error \in {"none", "semantic"}
    BY <1>0, <2>3 DEF SameGen
  <2> HIDE DEF base, path, clash
  <2>5. /\ SameGen(base, t) /\ t.fakeidx = base.fakeidx /\ t.identified = base.identified
        /\ t.error \in {"none", "semantic"}
        /\ base.error = "semantic" \/ m = 0 => t.error = base.error
        /\ t.error = "none" =>
             /\ t.seen = base.seen \cup fakes
             /\ DOMAIN t.out = DOMAIN base.out \cup fakes
             /\ \A x \in DOMAIN t.out :
                  \/ x \in DOMAIN base.out /\ t.out[x] = base.out[x]
                  \/ \E k \in 1..m : /\ x = FakeName(g.fakeidx + k - 1)
                                     /\ t.out[x] = ColumnItem(path, g.fakeidx + k - 1)
    BY <2>4, AddColumnsFacts DEF m
  <2> HIDE DEF t, fakes
  <2>6. SameGen(g, t) /\ t.fakeidx = g.fakeidx + m
    BY <1>0, <2>3, <2>5 DEF SameGen
  <2>7. CASE t.error = "none"
    <3>1. ~clash /\ base.error = "none"
      BY <1>0, <2>3, <2>4, <2>5, <2>7
    <3>2. /\ t.seen = (g.seen \cup {name}) \cup fakes
          /\ DOMAIN t.out = (DOMAIN g.out \cup {name}) \cup fakes
      BY <1>0, <2>3, <2>5, <2>7, <3>1
    <3>3. ASSUME NEW x \in DOMAIN t.out
          PROVE  \/ x \in DOMAIN g.out /\ t.out[x] = g.out[x]
                 \/ x = name /\ ItemOf(g, c, t.out[x])
                 \/ \E k \in 1..m : /\ x = FakeName(g.fakeidx + k - 1)
                                    /\ t.out[x] = ColumnItem(path, g.fakeidx + k - 1)
      <4>1. CASE x \in DOMAIN base.out /\ t.out[x] = base.out[x]
        BY <1>0, <2>2, <2>3, <3>1, <4>1
      <4> QED
        BY <2>5, <2>7, <3>3, <4>1
    <3>4. t.identified => g.identified
      BY <1>0, <2>3, <2>5
    <3> HIDE DEF oid, default, h
    <3>5. Writes(g, c, t)
      BY <1>1, <1>5, <2>6, <3>2, <3>3, <3>4 DEF Writes, name, path, fakes, oid
    <3> QED
      BY <1>1, <2>1, <2>6, <2>7, <3>5 DEF Does, h, default
  <2>8. CASE t.error # "none"
    <3>1. t.error = "semantic"
      BY <2>5, <2>8
    <3>2. Fails(g, c, "semantic")
      <4>1. CASE clash
        BY <4>1 DEF Fails, clash, name
      <4>2. CASE ~clash
        <5>1. m # 0
          BY <1>0, <2>3, <2>5, <3>1, <4>2
        <5> QED
          BY <1>1, <5>1 DEF Fails
      <4> QED
        BY <4>1, <4>2
    <3> HIDE DEF h
    <3> QED
      BY <1>1, <2>1, <2>6, <2>8, <3>1, <3>2 DEF Does, h
  <2> QED
    BY <2>7, <2>8
<1> QED
  BY <1>3, <1>4, <1>5

LEMMA JsonDoes ==
  ASSUME NEW g, DOMAIN g = GenFields, g.fakeidx \in Nat, g.error = "none",
         NEW c, c.kind \in Kinds \ {"sequence"}, Columns(c) \in Nat
  PROVE  Does(g, c, JsonClause(g, c))
<1>1. CASE c.kind \in {"node", "group", "compliance", "trap"}
  <2>1. \A refs : Does(g, c, RenderNode(g, c, NumberOf(g, c), refs))
    BY <1>1, RenderNodeDoes
  <2>2. c.kind = "node" => JsonClause(g, c) = RenderNode(g, c, NumberOf(g, c), {})
    BY DEF JsonClause, Plain
  <2>3. c.kind = "group" => JsonClause(g, c) = RenderNode(g, c, NumberOf(g, c), References(g, c))
    BY DEF JsonClause, JsonGroup
  <2>4. c.kind = "trap" => JsonClause(g, c) = RenderNode(g, c, NumberOf(g, c), References(g, c))
    BY DEF JsonClause, JsonGroup, JsonTrap
  <2>5. c.kind = "compliance" => JsonClause(g, c) = RenderNode(g, c, NumberOf(g, c), Required(g, c))
    BY DEF JsonClause, JsonCompliance
  <2> QED
    BY <1>1, <2>1, <2>2, <2>3, <2>4, <2>5
<1>2. CASE c.kind = "capabilities"
  <2>1. JsonClause(g, c) = JsonCapabilities(g, c)
    BY <1>2 DEF JsonClause
  <2>2. CASE \E v \in Range(c.varied) : Varied(g, v).error = "foreign"
    <3>1. JsonClause(g, c) = [g EXCEPT !.error = "foreign"]
      BY <2>1, <2>2 DEF JsonCapabilities
    <3>2. Fails(g, c, "foreign")
      BY <1>2, <2>2 DEF Fails
    <3> QED
      BY <3>1, <3>2, FailedDoes
  <2>3. CASE ~\E v \in Range(c.varied) : Varied(g, v).error = "foreign"
    <3> DEFINE refs == Range(c.objects)
    <3>1. JsonClause(g, c) = RenderNode(g, c, NumberOf(g, c), refs)
      BY <2>1, <2>3 DEF JsonCapabilities
    <3> HIDE DEF refs
    <3> QED
      BY <1>2, <3>1, RenderNodeDoes
  <2> QED
    BY <2>2, <2>3
<1>3. CASE c.kind = "identity"
  <2>1. JsonClause(g, c) = JsonIdentity(g, c)
    BY <1>3 DEF JsonClause
  <2> QED
    BY <1>3, <2>1, IdentityDoes
<1>4. CASE c.kind = "type"
  <2> DEFINE uses == {}
  <2>1. JsonClause(g, c) = Register(g, c.name, Item(None, None, {}, uses))
    BY <1>4 DEF JsonClause, JsonType
  <2>2. uses \subseteq TypeUsed(g, c)
    OBVIOUS
  <2> HIDE DEF uses
  <2> QED
    BY <1>4, <2>1, <2>2, TypeDoes
<1>5. CASE c.kind = "object"
  <2> DEFINE uses == {}
  <2>1. JsonClause(g, c) = RenderObject(g, c, uses, DefaultOf(g, c))
    BY <1>5 DEF JsonClause, JsonObject, DefaultOf
  <2>2. uses \subseteq Uses(g, c)
    OBVIOUS
  <2> HIDE DEF uses
  <2> QED
    BY <1>5, <2>1, <2>2, RenderObjectDoes
<1> QED
  BY <1>1, <1>2, <1>3, <1>4, <1>5 DEF Kinds

LEMMA PyDoes ==
  ASSUME NEW g, DOMAIN g = GenFields, g.fakeidx \in Nat, g.error = "none",
         NEW c, c.kind \in Kinds \ {"sequence"}, Columns(c) \in Nat
  PROVE  Does(g, c, PyClause(g, c))
<1>1. CASE c.kind \in {"node", "group", "compliance", "capabilities", "trap"}
  <2>1. \A refs : Does(g, c, RenderNode(g, c, NumberOf(g, c), refs))
    BY <1>1, RenderNodeDoes
  <2>2. c.kind \in {"node", "capabilities"} => PyClause(g, c) = RenderNode(g, c, NumberOf(g, c), {})
    BY DEF PyClause, PyPlain, PyNumberOf, PyCapabilities
  <2>3. c.kind \in {"group", "trap"} =>
          PyClause(g, c) = RenderNode(g, c, NumberOf(g, c), References(g, c))
    BY DEF PyClause, PyGroup, PyTrap, PyNumberOf
  <2>4. c.kind = "compliance" => PyClause(g, c) = RenderNode(g, c, NumberOf(g, c), PyRequired(g, c))
    BY DEF PyClause, PyCompliance, PyNumberOf
  <2> QED
    BY <1>1, <2>1, <2>2, <2>3, <2>4
<1>2. CASE c.kind = "identity"
  <2>1. PyClause(g, c) = JsonIdentity(g, c)
    BY <1>2 DEF PyClause, PyIdentity
  <2> QED
    BY <1>2, <2>1, IdentityDoes
<1>3. CASE c.kind = "type"
  <2> DEFINE uses == TypeUsed(g, c)
  <2>1. PyClause(g, c) = Register(g, c.name, Item(None, None, {}, uses))
    BY <1>3 DEF PyClause, PyType
  <2>2. uses \subseteq TypeUsed(g, c)
    OBVIOUS
  <2> HIDE DEF uses
  <2> QED
    BY <1>3, <2>1, <2>2, TypeDoes
<1>4. CASE c.kind = "object"
  <2> DEFINE uses == TypeUsed(g, c) \cup (IF c.augments = None THEN {} ELSE {c.augments})
  <2>1. PyClause(g, c) = RenderObject(g, c, uses, DefaultOf(g, c))
    BY <1>4 DEF PyClause, PyObject, PyDefVal, DefaultOf
  <2>2. uses \subseteq Uses(g, c)
    BY <1>4 DEF Uses
  <2> HIDE DEF uses
  <2> QED
    BY <1>4, <2>1, <2>2, RenderObjectDoes
<1> QED
  BY <1>1, <1>2, <1>3, <1>4 DEF Kinds

-------------------------------------------------------------------------------
(* A module from its first clause to its last. *)

LEMMA SameNumbers ==
  ASSUME NEW r, NEW g, SameGen(r, g), NEW c
  PROVE  /\ NumberOf(g, c) = NumberOf(r, c) /\ DefaultOf(g, c) = DefaultOf(r, c)
         /\ \A v : Varied(g, v) = Varied(r, v)
         /\ \A item : ItemOf(g, c, item) => ItemOf(r, c, item)
<1>0. g.module = r.module /\ g.tables = r.tables /\ g.importMap = r.importMap
  BY DEF SameGen
<1>1. NumberOf(g, c) = NumberOf(r, c)
  <2>1. Oid(g, c.oid) = Oid(r, c.oid)
    BY <1>0, OidSame
  <2> QED
    BY <1>0, <2>1 DEF NumberOf
<1>2. DefaultOf(g, c) = DefaultOf(r, c)
  BY <1>0 DEF DefaultOf
<1>3. \A v : Varied(g, v) = Varied(r, v)
  BY <1>0 DEF Varied
<1>4. Uses(g, c) = Uses(r, c)
  BY <1>0 DEF Uses, TypeUsed
<1> QED
  BY <1>1, <1>2, <1>3, <1>4 DEF ItemOf

Begun(r) ==
  /\ DOMAIN r = GenFields /\ r.error = "none" /\ r.seen = DOMAIN r.importMap
  /\ DOMAIN r.out = {} /\ ~r.identified /\ r.fakeidx \in Nat

(* An item is that of one of the first n clauses, or of one of their columns.  *)
Source(r, clauses, n, x, item) ==
  \/ \E i \in InBody(clauses, n) : x = clauses[i].name /\ ItemOf(r, clauses[i], item)
  \/ \E i \in 1..n : \E k \in 1..Cols(clauses[i]) :
       LET number == r.fakeidx + Numbers(clauses)[i - 1] + k - 1
       IN x = FakeName(number) /\ item = ColumnItem(NumberOf(r, clauses[i]).value, number)

(* What the first n clauses have put out. *)
PutOut(r, clauses, n, g) ==
  LET fakes == FakeNames(r.fakeidx, Numbers(clauses)[n])
  IN /\ g.fakeidx = r.fakeidx + Numbers(clauses)[n]
     /\ g.seen = (DOMAIN r.importMap \cup ClauseNames(clauses, n)) \cup fakes
     /\ DOMAIN g.out = ClauseNames(clauses, n) \cup fakes
     /\ g.identified => \E i \in InBody(clauses, n) : clauses[i].kind = "identity"
     /\ \A i \in InBody(clauses, n) :
          clauses[i].kind # "type" => NumberOf(r, clauses[i]).error = "none"
     /\ \A x \in DOMAIN g.out : Source(r, clauses, n, x, g.out[x])

(* Why the i-th clause failed. *)
FailsAt(r, clauses, i, error) ==
  \/ clauses[i].kind # "type" /\ NumberOf(r, clauses[i]).error = error
  \/ clauses[i].kind = "object" /\ DefaultOf(r, clauses[i]).error = error
  \/ error = "foreign" /\ \E v \in Range(clauses[i].varied) : Varied(r, v).error = error
  \/ /\ error = "semantic" /\ clauses[i].kind = "identity"
     /\ \E j \in InBody(clauses, i - 1) : clauses[j].kind = "identity"
  \/ /\ error = "semantic"
     /\ clauses[i].name \in ClauseNames(clauses, i - 1) \cup FakeNames(r.fakeidx, Numbers(clauses)[i - 1])
  \/ error = "semantic" /\ Cols(clauses[i]) # 0


LEMMA PutOutOn ==
  ASSUME NEW clauses, IsBody(clauses), NEW n \in Nat, n + 1 <= Len(clauses),
         NEW r, Begun(r), NEW g, SameGen(r, g), PutOut(r, clauses, n, g),
         clauses[n + 1].kind # "sequence",
         NEW h, Does(g, clauses[n + 1], h), h.error = "none"
  PROVE  PutOut(r, clauses, n + 1, h)
<1> DEFINE at == Numbers(clauses)
           b == r.fakeidx
           c == clauses[n + 1]
           old == ClauseNames(clauses, n)
           new == ClauseNames(clauses, n + 1)
           made == FakeNames(b, at[n])
           more == FakeNames(b + at[n], Cols(c))
           all == FakeNames(b, at[n + 1])
<1>0. b \in Nat
  BY DEF Begun
<1>1. /\ b + at[n + 1] = (b + at[n]) + Cols(c)
      /\ all = made \cup more
  <2> HIDE DEF b
  <2> QED
    BY <1>0, FakeNamesOn
<1>2. InBody(clauses, n + 1) = InBody(clauses, n) \cup {n + 1}
  BY BodyMore
<1>3. new = old \cup {c.name}
  BY <1>2 DEF ClauseNames
<1>4. /\ g.fakeidx = b + at[n]
      /\ g.seen = (DOMAIN r.importMap \cup old) \cup made
      /\ DOMAIN g.out = old \cup made
      /\ g.identified => \E i \in InBody(clauses, n) : clauses[i].kind = "identity"
      /\ \A i \in InBody(clauses, n) :
           clauses[i].kind # "type" => NumberOf(r, clauses[i]).error = "none"
      /\ \A x \in DOMAIN g.out : Source(r, clauses, n, x, g.out[x])
  BY DEF PutOut
<1>5. /\ h.fakeidx = g.fakeidx + Cols(c)
      /\ h.seen = (g.seen \cup {c.name}) \cup more
      /\ DOMAIN h.out = (DOMAIN g.out \cup {c.name}) \cup more
      /\ h.identified => g.identified \/ c.kind = "identity"
      /\ c.kind # "type" => NumberOf(r, c).error = "none"
      /\ \A x \in DOMAIN h.out :
           \/ x \in DOMAIN g.out /\ h.out[x] = g.out[x]
           \/ x = c.name /\ ItemOf(r, c, h.out[x])
           \/ \E k \in 1..Cols(c) : /\ x = FakeName(g.fakeidx + k - 1)
                                    /\ h.out[x] = ColumnItem(NumberOf(r, c).value, g.fakeidx + k - 1)
  <2> HIDE DEF c
  <2>1. Writes(g, c, h)
    BY DEF Does, c
  <2>2. NumberOf(g, c) = NumberOf(r, c) /\ \A item : ItemOf(g, c, item) => ItemOf(r, c, item)
    BY SameNumbers
  <2> QED
    BY <1>4, <2>1, <2>2 DEF Writes
<1> HIDE DEF old, new, made, more, all
<1>6. ASSUME NEW x \in DOMAIN h.out PROVE Source(r, clauses, n + 1, x, h.out[x])
  <2>1. CASE x \in DOMAIN g.out /\ h.out[x] = g.out[x]
    <3>1. Source(r, clauses, n, x, h.out[x])
      BY <1>4, <2>1
    <3>2. 1..n \subseteq 1..(n + 1)
      OBVIOUS
    <3>3. InBody(clauses, n) \subseteq InBody(clauses, n + 1)
      BY <1>2
    <3> QED
      BY <3>1, <3>2, <3>3 DEF Source
  <2>2. CASE x = c.name /\ ItemOf(r, c, h.out[x])
    <3>1. n + 1 \in InBody(clauses, n + 1)
      BY <1>2
    <3> QED
      BY <2>2, <3>1 DEF Source
  <2>3. CASE \E k \in 1..Cols(c) : /\ x = FakeName(g.fakeidx + k - 1)
                                   /\ h.out[x] = ColumnItem(NumberOf(r, c).value, g.fakeidx + k - 1)
    <3>1. n + 1 \in 1..(n + 1) /\ (n + 1) - 1 = n
      OBVIOUS
    <3> QED
      BY <1>4, <2>3, <3>1 DEF Source
  <2> QED
    BY <1>5, <1>6, <2>1, <2>2, <2>3
<1>7. h.identified => \E i \in InBody(clauses, n + 1) : clauses[i].kind = "identity"
  BY <1>2, <1>4, <1>5
<1>8. \A i \in InBody(clauses, n + 1) :
        clauses[i].kind # "type" => NumberOf(r, clauses[i]).error = "none"
  BY <1>2, <1>4, <1>5
<1>9. /\ h.seen = (DOMAIN r.importMap \cup new) \cup all
      /\ DOMAIN h.out = new \cup all
  BY <1>1, <1>3, <1>4, <1>5
<1>10. h.fakeidx = b + at[n + 1]
  BY <1>1, <1>4, <1>5
<1> QED
  BY <1>6, <1>7, <1>8, <1>9, <1>10 DEF PutOut, new, all

LEMMA FailsThere ==
  ASSUME NEW clauses, NEW n \in Nat, NEW r, NEW g, SameGen(r, g), PutOut(r, clauses, n, g),
         NEW error, Fails(g, clauses[n + 1], error)
  PROVE  FailsAt(r, clauses, n + 1, error)
<1> DEFINE c == clauses[n + 1]
<1>1. (n + 1) - 1 = n
  OBVIOUS
<1> HIDE DEF c
<1>2. /\ NumberOf(g, c) = NumberOf(r, c) /\ DefaultOf(g, c) = DefaultOf(r, c)
      /\ \A v : Varied(g, v) = Varied(r, v)
  BY SameNumbers
<1>3. Fails(g, c, error) /\ g.importMap = r.importMap
  BY DEF c, SameGen
<1>4. /\ g.seen = (DOMAIN r.importMap \cup ClauseNames(clauses, n)) \cup FakeNames(r.fakeidx, Numbers(clauses)[n])
      /\ g.identified => \E i \in InBody(clauses, n) : clauses[i].kind = "identity"
  BY DEF PutOut
<1> QED
  BY <1>1, <1>2, <1>3, <1>4 DEF Fails, FailsAt, c

LEMMA RunRuns ==
  ASSUME NEW clauses, IsBody(clauses), NEW r, Begun(r), NEW kind \in {"json", "py"}, NEW f,
         \A n \in 0..Len(clauses) : f[n] = IF n = 0 THEN r ELSE Step(kind, clauses, f[n - 1], n)
  PROVE  LET m == Len(clauses)
             g == f[m]
         IN /\ SameGen(r, g) /\ g.fakeidx \in Nat
            /\ g.error = "none" => PutOut(r, clauses, m, g)
            /\ g.error # "none" => \E i \in InBody(clauses, m) : FailsAt(r, clauses, i, g.error)
<1> DEFINE m == Len(clauses)
           Inv(n) ==
             /\ SameGen(r, f[n]) /\ f[n].fakeidx \in Nat
             /\ f[n].error = "none" => PutOut(r, clauses, n, f[n])
             /\ f[n].error # "none" => \E i \in InBody(clauses, n) : FailsAt(r, clauses, i, f[n].error)
           S == {n \in Nat : n <= m => Inv(n)}
<1>1. m \in Nat
  BY SeqFacts DEF IsBody
<1>2. 0 \in S
  <2>1. f[0] = r
    BY <1>1
  <2>2. SameGen(r, r) /\ r.fakeidx \in Nat /\ r.error = "none"
    BY DEF SameGen, Begun
  <2>3. PutOut(r, clauses, 0, r)
    <3>1. Numbers(clauses)[0] = 0
      BY NumbersFacts
    <3>2. InBody(clauses, 0) = {} /\ ClauseNames(clauses, 0) = {}
      BY DEF InBody, ClauseNames
    <3>3. FakeNames(r.fakeidx, 0) = {} /\ r.fakeidx + 0 = r.fakeidx
      BY <2>2 DEF FakeNames
    <3> QED
      BY <3>1, <3>2, <3>3 DEF PutOut, Begun
  <2> HIDE DEF m
  <2> QED
    BY <2>1, <2>2, <2>3
<1>3. ASSUME NEW n \in Nat, n \in S PROVE n + 1 \in S
  <2> SUFFICES ASSUME n + 1 <= m PROVE Inv(n + 1)
    OBVIOUS
  <2> DEFINE g == f[n]
             h == f[n + 1]
             c == clauses[n + 1]
  <2>1. Inv(n)
    BY <1>1, <1>3
  <2>2. h = Step(kind, clauses, g, n + 1)
    <3>1. n + 1 \in 0..Len(clauses) /\ n + 1 # 0 /\ (n + 1) - 1 = n
      BY <1>1
    <3> QED
      BY <3>1
  <2>3. h = IF kind = "json" THEN JsonClause(g, c) ELSE PyClause(g, c)
    <3> HIDE DEF h, g
    <3> QED
      BY <2>2 DEF Step
  <2>4. c.kind \in Kinds /\ Columns(c) \in Nat
    <3>1. n + 1 \in 1..Len(clauses)
      BY <1>1
    <3> QED
      BY <3>1 DEF IsBody
  <2>5. SameGen(r, g) /\ DOMAIN g = GenFields /\ g.fakeidx \in Nat
    BY <2>1 DEF SameGen
  <2>6. /\ c.kind = "sequence" => InBody(clauses, n + 1) = InBody(clauses, n)
        /\ c.kind # "sequence" => InBody(clauses, n + 1) = InBody(clauses, n) \cup {n + 1}
    BY BodyMore
  <2>7. CASE g.error # "none"
    <3>1. h = g
      BY <2>3, <2>7 DEF JsonClause, PyClause
    <3>2. InBody(clauses, n) \subseteq InBody(clauses, n + 1)
      BY <2>6
    <3> QED
      BY <2>1, <2>7, <3>1, <3>2
  <2>8. CASE g.error = "none" /\ c.kind = "sequence"
    <3>1. h = g
      BY <2>3, <2>8 DEF JsonClause, PyClause
    <3>2. FakeNames(r.fakeidx, Numbers(clauses)[n + 1]) = FakeNames(r.fakeidx, Numbers(clauses)[n])
            /\ r.fakeidx + Numbers(clauses)[n + 1] = r.fakeidx + Numbers(clauses)[n]
      <4>1. Cols(c) = 0
        BY <2>8 DEF Cols
      <4>2. \A x : FakeNames(x, Cols(c)) = {}
        BY <4>1 DEF FakeNames
      <4> DEFINE b == r.fakeidx
                 at == Numbers(clauses)
      <4>3. b \in Nat
        BY DEF Begun
      <4>4. n + 1 <= Len(clauses)
        OBVIOUS
      <4> HIDE DEF b, g, h, c
      <4>5. /\ at[n] \in Nat
            /\ b + at[n + 1] = (b + at[n]) + Cols(c)
            /\ FakeNames(b, at[n + 1]) = FakeNames(b, at[n]) \cup FakeNames(b + at[n], Cols(c))
        BY <4>3, <4>4, FakeNamesOn DEF c
      <4> QED
        BY <4>1, <4>2, <4>3, <4>5 DEF b
    <3>3. PutOut(r, clauses, n, g)
      BY <2>1, <2>8
    <3> HIDE DEF g, h
    <3>4. ClauseNames(clauses, n + 1) = ClauseNames(clauses, n)
      BY <2>6, <2>8 DEF ClauseNames
    <3>5. \A x, item : Source(r, clauses, n, x, item) => Source(r, clauses, n + 1, x, item)
      <4>1. 1..n \subseteq 1..(n + 1)
        OBVIOUS
      <4> QED
        BY <2>6, <2>8, <4>1 DEF Source
    <3>6. PutOut(r, clauses, n + 1, g)
      BY <2>6, <2>8, <3>2, <3>3, <3>4, <3>5 DEF PutOut
    <3> QED
      BY <2>5, <2>8, <3>1, <3>6 DEF h
  <2>9. CASE g.error = "none" /\ c.kind # "sequence"
    <3>1. Does(g, c, h)
      <4> HIDE DEF g, h, c
      <4>1. c.kind \in Kinds \ {"sequence"}
        BY <2>4, <2>9
      <4>2. Does(g, c, JsonClause(g, c)) /\ Does(g, c, PyClause(g, c))
        BY <2>4, <2>5, <2>9, <4>1, JsonDoes, PyDoes
      <4> QED
        BY <2>3, <4>2
    <3>2. PutOut(r, clauses, n, g)
      BY <2>1, <2>9
    <3>3. SameGen(r, h) /\ h.fakeidx \in Nat
      <4>1. Cols(c) \in Nat
        <5> HIDE DEF c
        <5> QED
          BY <2>4, ColsNat
      <4> HIDE DEF g, h, c
      <4> QED
        BY <2>5, <3>1, <4>1 DEF Does, SameGen
    <3>4. n + 1 <= Len(clauses)
      OBVIOUS
    <3>5. CASE h.error = "none"
      <4>1. PutOut(r, clauses, n + 1, h)
        <5> HIDE DEF g, h, m
        <5> QED
          BY <2>5, <2>9, <3>1, <3>2, <3>4, <3>5, PutOutOn DEF c
      <4> QED
        BY <3>3, <3>5, <4>1
    <3>6. CASE h.error # "none"
      <4>1. FailsAt(r, clauses, n + 1, h.error)
        <5> HIDE DEF g, h, m
        <5>1. Fails(g, clauses[n + 1], h.error)
          BY <3>1, <3>6 DEF Does, c
        <5> QED
          BY <2>5, <3>2, <5>1, FailsThere
      <4>2. n + 1 \in InBody(clauses, n + 1)
        BY <2>6, <2>9
      <4> QED
        BY <3>3, <3>6, <4>1, <4>2
    <3> QED
      BY <3>5, <3>6
  <2> QED
    BY <2>7, <2>8, <2>9
<1> HIDE DEF S
<1>4. m \in S
  BY <1>1, <1>2, <1>3, SetInduction
<1> QED
  BY <1>1, <1>4 DEF S

Opening(text, seen, k, rev) == Start(text, seen, JsonImports(text, seen[text.name]), k, rev)

(* How a module is rendered through the tables of the call.                    *)
Rendition(text, seen, r, g) ==
  LET clauses == text.clauses
      m == Len(clauses)
      symbols == ToSet(seen[text.name].order)
  IN /\ Begun(r) /\ r.module = text.name /\ r.tables = seen
     /\ r.importMap = JsonImports(text, seen[text.name])
     /\ SameGen(r, g) /\ g.fakeidx \in Nat
     /\ g.error = "none" => PutOut(r, clauses, m, g) /\ symbols \subseteq DOMAIN g.out
     /\ g.error # "none" =>
          \/ \E i \in InBody(clauses, m) : FailsAt(r, clauses, i, g.error)
          \/ g.error = "semantic" /\ \E u : PutOut(r, clauses, m, u) /\ ~(symbols \subseteq DOMAIN u.out)

LEMMA OutputIs ==
  ASSUME NEW text, IsBody(text.clauses), NEW seen, NEW k \in Nat, NEW rev, NEW u,
         LET r == Opening(text, seen, k, rev)
             m == Len(text.clauses)
         IN /\ SameGen(r, u) /\ u.fakeidx \in Nat
            /\ u.error = "none" => PutOut(r, text.clauses, m, u)
            /\ u.error # "none" => \E i \in InBody(text.clauses, m) : FailsAt(r, text.clauses, i, u.error)
  PROVE  Rendition(text, seen, Opening(text, seen, k, rev), Output(u))
<1> DEFINE r == Opening(text, seen, k, rev)
           clauses == text.clauses
           m == Len(clauses)
           symbols == ToSet(seen[text.name].order)
           g == Output(u)
<1>1. /\ Begun(r) /\ r.module = text.name /\ r.tables = seen
      /\ r.importMap = JsonImports(text, seen[text.name])
  <2>1. DOMAIN <<>> = {}
    BY EmptyIsSeq, SeqFacts
  <2> QED
    BY <2>1 DEF Opening, Start, Begun, GenFields
<1>2. u.tables = seen /\ u.module = text.name /\ DOMAIN u = GenFields
  BY <1>1 DEF SameGen
<1>3. /\ SameGen(r, u) /\ u.fakeidx \in Nat
      /\ u.error = "none" => PutOut(r, clauses, m, u)
      /\ u.error # "none" => \E i \in InBody(clauses, m) : FailsAt(r, clauses, i, u.error)
  OBVIOUS
<1> HIDE DEF r
<1>4. CASE u.error # "none" \/ symbols \subseteq DOMAIN u.out
  <2>1. g = u
    BY <1>2, <1>4 DEF Output
  <2> HIDE DEF g
  <2> QED
    BY <1>1, <1>3, <1>4, <2>1 DEF Rendition, r, g
<1>5. CASE u.error = "none" /\ ~(symbols \subseteq DOMAIN u.out)
  <2>1. g = [u EXCEPT !.error = "semantic"]
    BY <1>2, <1>5 DEF Output
  <2>2. SameGen(u, g) /\ g.fakeidx = u.fakeidx /\ g.error = "semantic"
    BY <1>2, <2>1 DEF GenFields, SameGen
  <2> HIDE DEF g
  <2>3. SameGen(r, g)
    BY <1>3, <2>2 DEF SameGen
  <2> QED
    BY <1>1, <1>3, <1>5, <2>2, <2>3 DEF Rendition, r, g
<1> QED
  BY <1>4, <1>5

LEMMA RenderJsonIs ==
  ASSUME NEW text, IsBody(text.clauses), NEW seen, NEW k \in Nat, NEW rev
  PROVE  Rendition(text, seen, Opening(text, seen, k, rev), RenderJson(text, seen, k, rev))
<1> DEFINE clauses == text.clauses
           m == Len(clauses)
           r == Opening(text, seen, k, rev)
           after == CHOOSE f : f = [n \in 0..m |-> IF n = 0 THEN r ELSE JsonClause(f[n - 1], clauses[n])]
<1>1. m \in Nat
  BY SeqFacts DEF IsBody
<1>2. RenderJson(text, seen, k, rev) = Output(after[m])
  BY DEF RenderJson, Opening
<1>3. \A n \in 0..m : after[n] = IF n = 0 THEN r ELSE Step("json", clauses, after[n - 1], n)
  <2> HIDE DEF m, r, clauses
  <2>1. \A f, n : Step("json", clauses, f, n) = JsonClause(f, clauses[n])
    BY DEF Step
  <2>2. PICK f : Loops("json", clauses, r, m, f)
    BY <1>1, LoopExists
  <2>3. f = [n \in 0..m |-> IF n = 0 THEN r ELSE JsonClause(f[n - 1], clauses[n])]
    BY <2>1, <2>2 DEF Loops
  <2>4. after = [n \in 0..m |-> IF n = 0 THEN r ELSE JsonClause(after[n - 1], clauses[n])]
    BY <2>3
  <2> HIDE DEF after
  <2> QED
    BY <2>1, <2>4
<1> HIDE DEF after
<1>4. Begun(r)
  <2>1. DOMAIN <<>> = {}
    BY EmptyIsSeq, SeqFacts
  <2> QED
    BY <2>1 DEF Opening, Start, Begun, GenFields
<1> DEFINE u == after[m]
<1> HIDE DEF r
<1>5. /\ SameGen(r, u) /\ u.fakeidx \in Nat
      /\ u.error = "none" => PutOut(r, clauses, m, u)
      /\ u.error # "none" => \E i \in InBody(clauses, m) : FailsAt(r, clauses, i, u.error)
  <2>1. \A n \in 0..Len(clauses) : after[n] = IF n = 0 THEN r ELSE Step("json", clauses, after[n - 1], n)
    BY <1>3
  <2>2. IsBody(clauses)
    OBVIOUS
  <2> HIDE DEF clauses
  <2> QED
    BY <1>4, <2>1, <2>2, RunRuns
<1> HIDE DEF u
<1> QED
  BY <1>2, <1>5, OutputIs DEF r, u

LEMMA RenderPyIs ==
  ASSUME NEW text, IsBody(text.clauses), NEW seen, NEW k \in Nat, NEW rev
  PROVE  Rendition(text, seen, Opening(text, seen, k, None), RenderPy(text, seen, k, rev))
<1> DEFINE clauses == text.clauses
           m == Len(clauses)
           r == Opening(text, seen, k, None)
           after == CHOOSE f : f = [n \in 0..m |-> IF n = 0 THEN r ELSE PyClause(f[n - 1], clauses[n])]
<1>1. m \in Nat
  BY SeqFacts DEF IsBody
<1>2. RenderPy(text, seen, k, rev) = Output(after[m])
  BY DEF RenderPy, Opening, PyImports
<1>3. \A n \in 0..m : after[n] = IF n = 0 THEN r ELSE Step("py", clauses, after[n - 1], n)
  <2> HIDE DEF m, r, clauses
  <2>1. \A f, n : Step("py", clauses, f, n) = PyClause(f, clauses[n])
    BY DEF Step
  <2>2. PICK f : Loops("py", clauses, r, m, f)
    BY <1>1, LoopExists
  <2>3. f = [n \in 0..m |-> IF n = 0 THEN r ELSE PyClause(f[n - 1], clauses[n])]
    BY <2>1, <2>2 DEF Loops
  <2>4. after = [n \in 0..m |-> IF n = 0 THEN r ELSE PyClause(after[n - 1], clauses[n])]
    BY <2>3
  <2> HIDE DEF after
  <2> QED
    BY <2>1, <2>4
<1> HIDE DEF after
<1>4. Begun(r)
  <2>1. DOMAIN <<>> = {}
    BY EmptyIsSeq, SeqFacts
  <2> QED
    BY <2>1 DEF Opening, Start, Begun, GenFields
<1> DEFINE u == after[m]
<1> HIDE DEF r
<1>5. /\ SameGen(r, u) /\ u.fakeidx \in Nat
      /\ u.error = "none" => PutOut(r, clauses, m, u)
      /\ u.error # "none" => \E i \in InBody(clauses, m) : FailsAt(r, clauses, i, u.error)
  <2>1. \A n \in 0..Len(clauses) : after[n] = IF n = 0 THEN r ELSE Step("py", clauses, after[n - 1], n)
    BY <1>3
  <2>2. IsBody(clauses)
    OBVIOUS
  <2> HIDE DEF clauses
  <2> QED
    BY <1>4, <2>1, <2>2, RunRuns
<1> HIDE DEF u
<1> QED
  BY <1>2, <1>5, OutputIs DEF r, u

-------------------------------------------------------------------------------
(* The calls. *)

InCall == {trees[i].name : i \in 1..Len(trees)}

(* One text of each module, and one table. *)
TreesInv ==
  /\ IsSeq(trees) /\ \A i \in 1..Len(trees) : trees[i] \in Texts
  /\ \A i, j \in 1..Len(trees) : trees[i].name = trees[j].name => i = j
  /\ DOMAIN tables = InCall
TablesInv ==
  \A i \in 1..Len(trees) : \E first \in Nat : TableOf(trees[i], tables[trees[i].name], first)

(* What became of a module is what its text and the tables of the call make it. *)
DocsInv ==
  /\ DOMAIN docs = MODULES
  /\ \A m \in MODULES :
       \/ docs[m].state = "none"
       \/ m \in InCall /\ \E r, g : Rendition(TextOf(m), tables, r, g) /\ docs[m] = Outcome(m, g)
  /\ phase = "analysing" => docs = NoDocs

CodegenInv ==
  /\ TreesInv /\ TablesInv /\ DocsInv
  /\ pending \subseteq InCall /\ symfake \in Nat /\ genfake \in Nat

LEMMA BodiesParsed == \A t \in Texts : IsBody(t.clauses)
<1> SUFFICES ASSUME NEW t \in Texts PROVE IsBody(t.clauses)
  OBVIOUS
<1> DEFINE clauses == t.clauses
<1>1. IsSeq(clauses)
  BY TextsAreParsed DEF IsSeq
<1>2. ASSUME NEW i \in 1..Len(clauses) PROVE clauses[i].kind \in Kinds /\ Columns(clauses[i]) \in Nat
  <2> DEFINE c == clauses[i]
  <2>1. c \in ToSet(clauses)
    <3> HIDE DEF clauses
    <3> QED
      BY <1>1, <1>2, SeqFacts
  <2>2. c.kind \in Kinds /\ IsSeq(c.index)
    BY <2>1, TextsAreParsed DEF IsSeq
  <2> HIDE DEF c
  <2> QED
    BY <2>2, ColumnsNat DEF c
<1> QED
  BY <1>1, <1>2 DEF IsBody

LEMMA TextOfFacts ==
  ASSUME TreesInv, NEW m \in InCall
  PROVE  /\ PlaceOf(m) \in 1..Len(trees) /\ TextOf(m) = trees[PlaceOf(m)]
         /\ TextOf(m) \in Texts /\ TextOf(m).name = m /\ m \in MODULES
<1>1. DOMAIN trees = 1..Len(trees)
  BY SeqFacts DEF TreesInv
<1>2. \E i \in DOMAIN trees : trees[i].name = m
  BY <1>1 DEF InCall
<1>3. PlaceOf(m) \in DOMAIN trees /\ trees[PlaceOf(m)].name = m
  BY <1>2 DEF PlaceOf
<1> QED
  BY <1>1, <1>3 DEF TextOf, TreesInv, MODULES

LEMMA KeptFacts ==
  ASSUME TreesInv, NEW text \in Texts
  PROVE  LET t == Kept(text)
         IN /\ IsSeq(t) /\ \A i \in 1..Len(t) : t[i] \in Texts
            /\ \A i, j \in 1..Len(t) : t[i].name = t[j].name => i = j
            /\ {t[i].name : i \in 1..Len(t)} = InCall \cup {text.name}
            /\ \A i \in 1..Len(t) :
                 \/ t[i] = text
                 \/ t[i].name # text.name /\ \E j \in 1..Len(trees) : t[i] = trees[j]
<1> DEFINE t == Kept(text)
           m == Len(trees)
<1>1. m \in Nat /\ DOMAIN trees = 1..m /\ IsSeq(trees)
  BY SeqFacts DEF TreesInv
<1>2. ToSet(NamesOf(trees)) = InCall
  BY <1>1 DEF NamesOf, ToSet, InCall
<1>3. /\ \A i \in 1..m : trees[i] \in Texts
      /\ \A i, j \in 1..m : trees[i].name = trees[j].name => i = j
  BY DEF TreesInv
<1>4. CASE text.name \in InCall
  <2> DEFINE u == [i \in 1..m |-> IF trees[i].name = text.name THEN text ELSE trees[i]]
  <2>1. t = u
    BY <1>1, <1>2, <1>4 DEF Kept
  <2>2. /\ \A i \in 1..m : u[i] = IF trees[i].name = text.name THEN text ELSE trees[i]
        /\ DOMAIN u = 1..m /\ u \in Seq(ToSet(u)) /\ Len(u) = m
    <3>1. \A i \in 1..m : u[i] \in ToSet(u)
      BY DEF ToSet
    <3>2. u \in [1..m -> ToSet(u)]
      BY <3>1
    <3> HIDE DEF u
    <3>3. u \in Seq(ToSet(u)) /\ Len(u) = m
      BY <1>1, <3>2
    <3> QED
      BY <3>2, <3>3 DEF u
  <2> HIDE DEF u, m, t
  <2>3. \A i \in 1..m : u[i].name = trees[i].name
    BY <2>2
  <2>4. {u[i].name : i \in 1..m} = InCall
    BY <2>3 DEF InCall, m
  <2> QED
    BY <1>3, <1>4, <2>1, <2>2, <2>3, <2>4 DEF IsSeq, t, m
<1>5. CASE text.name \notin InCall
  <2> DEFINE u == Append(trees, text)
  <2>1. t = u
    BY <1>2, <1>5 DEF Kept
  <2>2. /\ IsSeq(u) /\ Len(u) = m + 1 /\ u[m + 1] = text
        /\ \A i \in 1..m : u[i] = trees[i]
    BY <1>1, AppendFacts
  <2>3. \A i \in 1..(m + 1) : i \in 1..m \/ i = m + 1
    BY <1>1
  <2>4. \A i \in 1..m : i \in 1..(m + 1)
    BY <1>1
  <2>5. m + 1 \in 1..(m + 1)
    BY <1>1
  <2>6. \A i \in 1..m : trees[i].name # text.name
    BY <1>5 DEF InCall
  <2>7. InCall = {trees[i].name : i \in 1..m}
    BY DEF InCall
  <2> HIDE DEF u, m, t
  <2>8. {u[i].name : i \in 1..(m + 1)} = InCall \cup {text.name}
    BY <2>2, <2>3, <2>4, <2>5, <2>7
  <2>9. \A i, j \in 1..(m + 1) : u[i].name = u[j].name => i = j
    BY <1>3, <2>2, <2>3, <2>6
  <2> QED
    BY <1>3, <2>1, <2>2, <2>3, <2>6, <2>8, <2>9 DEF t, m
<1> QED
  BY <1>4, <1>5

LEMMA CodegenInit == Init => CodegenInv
<1> SUFFICES ASSUME Init PROVE CodegenInv
  OBVIOUS
<1>1. /\ trees = <<>> /\ tables = NoTables /\ pending = {} /\ docs = NoDocs
      /\ symfake = 1000 /\ genfake = 1000
  BY DEF Init
<1>2. TreesInv /\ TablesInv
  <2>1. 1..Len(trees) = {}
    BY <1>1, EmptyIsSeq
  <2> QED
    BY <1>1, <2>1, EmptyIsSeq DEF TreesInv, TablesInv, InCall, NoTables
<1>3. DocsInv
  BY <1>1 DEF DocsInv, NoDocs, Undone, Document
<1> QED
  BY <1>1, <1>2, <1>3 DEF CodegenInv

LEMMA DescribeKeeps ==
  ASSUME CodegenInv, NEW text \in Texts, Describe(text)
  PROVE  CodegenInv'
<1> DEFINE d == Described(text, repair, symfake)
<1>1. /\ phase = "analysing"
      /\ trees' = IF d.ok THEN Kept(text) ELSE trees
      /\ tables' = IF d.ok THEN Bind(tables, text.name, d.table) ELSE tables
      /\ symfake' = d.fakeidx
      /\ backend' = backend /\ phase' = phase /\ pending' = pending /\ docs' = docs
      /\ genfake' = genfake
  BY DEF Describe
<1>2. /\ d.fakeidx \in Nat
      /\ d.ok => \E first \in Nat : TableOf(text, d.table, first)
  <2>1. IsBody(text.clauses) /\ symfake \in Nat
    BY BodiesParsed DEF CodegenInv
  <2> QED
    BY <2>1, DescribedIsTable
<1> HIDE DEF d
<1>3. docs = NoDocs
  BY <1>1 DEF CodegenInv, DocsInv
<1>4. DocsInv'
  <2>1. docs' = NoDocs /\ NoDocs' = NoDocs /\ MODULES' = MODULES
    BY <1>1, <1>3 DEF NoDocs, Undone, Document, MODULES
  <2>2. DOMAIN NoDocs = MODULES /\ \A m \in MODULES : NoDocs[m].state = "none"
    BY DEF NoDocs, Undone, Document
  <2> QED
    BY <2>1, <2>2 DEF DocsInv
<1>5. CASE ~d.ok
  <2>1. trees' = trees /\ tables' = tables
    BY <1>1, <1>5
  <2>2. TreesInv' /\ TablesInv' /\ InCall' = InCall
    BY <2>1 DEF CodegenInv, TreesInv, TablesInv, InCall
  <2> QED
    BY <1>1, <1>2, <1>4, <2>2 DEF CodegenInv
<1>6. CASE d.ok
  <2>0. TreesInv /\ TablesInv
    BY DEF CodegenInv
  <2> DEFINE t == Kept(text)
  <2>1. /\ IsSeq(t) /\ \A i \in 1..Len(t) : t[i] \in Texts
        /\ \A i, j \in 1..Len(t) : t[i].name = t[j].name => i = j
        /\ {t[i].name : i \in 1..Len(t)} = InCall \cup {text.name}
        /\ \A i \in 1..Len(t) :
             \/ t[i] = text
             \/ t[i].name # text.name /\ \E j \in 1..Len(trees) : t[i] = trees[j]
    BY <2>0, KeptFacts
  <2> HIDE DEF t
  <2>2. trees' = t /\ tables' = Bind(tables, text.name, d.table)
    BY <1>1, <1>6 DEF t
  <2>3. /\ DOMAIN tables' = DOMAIN tables \cup {text.name} /\ tables'[text.name] = d.table
        /\ \A m \in DOMAIN tables : m # text.name => tables'[m] = tables[m]
    BY <2>2 DEF Bind
  <2>4. InCall' = InCall \cup {text.name}
    BY <2>1, <2>2 DEF InCall
  <2>5. TreesInv'
    BY <2>0, <2>1, <2>2, <2>3, <2>4 DEF TreesInv
  <2>6. ASSUME NEW i \in 1..Len(t)
        PROVE  \E first \in Nat : TableOf(t[i], tables'[t[i].name], first)
    <3>1. CASE t[i] = text
      BY <1>2, <1>6, <2>3, <3>1
    <3>2. CASE t[i].name # text.name /\ \E j \in 1..Len(trees) : t[i] = trees[j]
      <4>1. PICK j \in 1..Len(trees) : t[i] = trees[j]
        BY <3>2
      <4>2. trees[j].name \in DOMAIN tables
        BY <2>0 DEF TreesInv, InCall
      <4>3. tables'[t[i].name] = tables[trees[j].name]
        BY <2>3, <3>2, <4>1, <4>2
      <4>4. \E first \in Nat : TableOf(trees[j], tables[trees[j].name], first)
        BY <2>0 DEF TablesInv
      <4> QED
        BY <4>1, <4>3, <4>4
    <3> QED
      BY <2>1, <3>1, <3>2
  <2>7. TablesInv'
    BY <2>2, <2>6 DEF TablesInv
  <2>8. pending' \subseteq InCall' /\ genfake' \in Nat /\ symfake' \in Nat
    BY <1>1, <1>2, <2>4 DEF CodegenInv
  <2> QED
    BY <1>4, <2>5, <2>7, <2>8 DEF CodegenInv
<1> QED
  BY <1>5, <1>6

LEMMA RenderKeeps ==
  ASSUME CodegenInv, Render
  PROVE  CodegenInv'
<1>1. PICK m \in pending :
        LET g == Rendering(m)
        IN /\ phase = "rendering"
           /\ docs' = [docs EXCEPT ![m] = Outcome(m, g)]
           /\ phase' = IF g.error = "foreign" THEN "raised" ELSE phase
           /\ pending' = pending \ {m} /\ genfake' = g.fakeidx
           /\ UNCHANGED <<backend, repair, trees, tables, refused, symfake, reads>>
  BY DEF Render
<1> DEFINE g == Rendering(m)
           text == TextOf(m)
<1>2. /\ docs' = [docs EXCEPT ![m] = Outcome(m, g)] /\ phase' # "analysing"
      /\ pending' = pending \ {m} /\ genfake' = g.fakeidx
      /\ trees' = trees /\ tables' = tables /\ symfake' = symfake
  BY <1>1
<1>3. /\ TreesInv /\ TablesInv /\ DocsInv /\ pending \subseteq InCall /\ symfake \in Nat
      /\ genfake \in Nat
  BY DEF CodegenInv
<1>4. m \in InCall /\ m \in MODULES /\ text \in Texts
  BY <1>3, TextOfFacts
<1>5. \E r : Rendition(text, tables, r, g)
  <2>1. IsBody(text.clauses)
    BY <1>4, BodiesParsed
  <2> HIDE DEF text
  <2>2. CASE backend = "json"
    <3>1. g = RenderJson(text, tables, genfake, revision)
      BY <2>2 DEF Rendering, text
    <3> HIDE DEF g
    <3> QED
      BY <1>3, <2>1, <3>1, RenderJsonIs
  <2>3. CASE backend # "json"
    <3>1. g = RenderPy(text, tables, genfake, revision)
      BY <2>3 DEF Rendering, text
    <3> HIDE DEF g
    <3> QED
      BY <1>3, <2>1, <3>1, RenderPyIs
  <2> QED
    BY <2>2, <2>3
<1> HIDE DEF g
<1>6. g.fakeidx \in Nat
  BY <1>5 DEF Rendition
<1>7. /\ InCall' = InCall
      /\ \A x : TextOf(x)' = TextOf(x)
      /\ \A x, y : Outcome(x, y)' = Outcome(x, y)
  <2>1. InCall' = InCall
    BY <1>2 DEF InCall
  <2>2. \A x : TextOf(x)' = TextOf(x)
    BY <1>2 DEF TextOf, PlaceOf
  <2>3. \A x, y : Outcome(x, y)' = Outcome(x, y)
    BY <1>2 DEF Outcome, Undone, Document
  <2> QED
    BY <2>1, <2>2, <2>3
<1>8. TreesInv' /\ TablesInv'
  BY <1>2, <1>3, <1>7 DEF TreesInv, TablesInv
<1>9. DocsInv'
  <2>1. DOMAIN docs' = MODULES /\ docs'[m] = Outcome(m, g)
        /\ \A x \in MODULES : x # m => docs'[x] = docs[x]
    <3>1. DOMAIN docs = MODULES
      BY <1>3 DEF DocsInv
    <3> QED
      BY <1>2, <1>4, <3>1
  <2>2. ASSUME NEW x \in MODULES
        PROVE  \/ docs'[x].state = "none"
               \/ /\ x \in InCall
                  /\ \E r, y : Rendition(TextOf(x), tables, r, y) /\ docs'[x] = Outcome(x, y)
    <3>1. CASE x = m
      BY <1>4, <1>5, <2>1, <3>1
    <3>2. CASE x # m
      BY <1>3, <2>1, <3>2 DEF DocsInv
    <3> QED
      BY <3>1, <3>2
  <2>3. MODULES' = MODULES
    BY DEF MODULES
  <2>4. ASSUME NEW x \in MODULES
        PROVE  \/ docs'[x].state = "none"
               \/ /\ x \in InCall'
                  /\ \E r, y : Rendition(TextOf(x)', tables', r, y) /\ docs'[x] = Outcome(x, y)'
    <3>1. TextOf(x)' = TextOf(x) /\ \A y : Outcome(x, y)' = Outcome(x, y)
      BY <1>7
    <3> QED
      BY <1>2, <1>7, <2>2, <3>1
  <2> QED
    BY <1>2, <2>1, <2>3, <2>4 DEF DocsInv
<1> QED
  BY <1>2, <1>3, <1>6, <1>7, <1>8, <1>9 DEF CodegenInv

(* Over any number of calls, of any texts in any order: a call has one text and *)
(* one table for each module, the table is that of the text, and what became   *)
(* of a module is what its text and the tables of the call make of it.         *)
THEOREM CodegenKeeps == Spec => []CodegenInv
<1>1. Init => CodegenInv
  BY CodegenInit
<1>2. CodegenInv /\ [Next]_vars => CodegenInv'
  <2> SUFFICES ASSUME CodegenInv, [Next]_vars PROVE CodegenInv'
    OBVIOUS
  <2>1. ASSUME NEW text \in Texts, Describe(text) PROVE CodegenInv'
    BY <2>1, DescribeKeeps
  <2>2. CASE Analysed
    <3>1. /\ TreesInv' /\ TablesInv' /\ InCall' = InCall
      BY <2>2 DEF Analysed, CodegenInv, TreesInv, TablesInv, InCall
    <3>2. ToSet(NamesOf(trees)) = InCall
      <4>1. DOMAIN trees = 1..Len(trees)
        BY SeqFacts DEF CodegenInv, TreesInv
      <4> QED
        BY <4>1 DEF NamesOf, ToSet, InCall
    <3>3. DocsInv'
      <4>1. docs' = NoDocs /\ NoDocs' = NoDocs /\ MODULES' = MODULES
        BY <2>2 DEF Analysed, CodegenInv, DocsInv, NoDocs, Undone, Document, MODULES
      <4>2. DOMAIN NoDocs = MODULES /\ \A m \in MODULES : NoDocs[m].state = "none"
        BY DEF NoDocs, Undone, Document
      <4> QED
        BY <4>1, <4>2 DEF DocsInv
    <3> QED
      BY <2>2, <3>1, <3>2, <3>3 DEF Analysed, CodegenInv
  <2>3. CASE Render
    BY <2>3, RenderKeeps
  <2>4. CASE Begin
    <3>1. /\ trees' = <<>> /\ tables' = NoTables /\ pending' = {} /\ docs' = NoDocs
          /\ symfake' = symfake /\ genfake' = genfake
      BY <2>4 DEF Begin
    <3>2. TreesInv' /\ TablesInv'
      <4>1. (1..Len(trees))' = {}
        BY <3>1, EmptyIsSeq
      <4> QED
        BY <3>1, <4>1, EmptyIsSeq DEF TreesInv, TablesInv, InCall, NoTables
    <3>3. DocsInv'
      <4>1. docs' = NoDocs /\ NoDocs' = NoDocs /\ MODULES' = MODULES
        BY <3>1 DEF NoDocs, Undone, Document, MODULES
      <4>2. DOMAIN NoDocs = MODULES /\ \A m \in MODULES : NoDocs[m].state = "none"
        BY DEF NoDocs, Undone, Document
      <4> QED
        BY <4>1, <4>2 DEF DocsInv
    <3> QED
      BY <3>1, <3>2, <3>3 DEF CodegenInv
  <2>5. CASE UNCHANGED vars
    <3>1. /\ trees' = trees /\ tables' = tables /\ pending' = pending /\ docs' = docs
          /\ symfake' = symfake /\ genfake' = genfake /\ phase' = phase
      BY <2>5 DEF vars
    <3>2. \A x : TextOf(x)' = TextOf(x)
      BY <3>1 DEF TextOf, PlaceOf
    <3>3. \A x, y : Outcome(x, y)' = Outcome(x, y)
      BY <3>1 DEF Outcome, Undone, Document
    <3>4. InCall' = InCall /\ TreesInv' /\ TablesInv'
      BY <3>1 DEF CodegenInv, TreesInv, TablesInv, InCall
    <3>5. DocsInv'
      <4>1. MODULES' = MODULES /\ NoDocs' = NoDocs
        BY DEF MODULES, NoDocs, Undone, Document
      <4> QED
        BY <3>1, <3>2, <3>3, <3>4, <4>1 DEF CodegenInv, DocsInv
    <3> QED
      BY <3>1, <3>4, <3>5 DEF CodegenInv
  <2> QED
    BY <2>1, <2>2, <2>3, <2>4, <2>5 DEF Next
<1> QED
  BY <1>1, <1>2, PTL DEF Spec

-------------------------------------------------------------------------------
(* What was rendered loads. *)

LEMMA ClassesBound ==
  ASSUME NEW imports
  PROVE  Classes \subseteq DOMAIN Imports(imports)
<1> DEFINE v2 == (UNION {IF i \in DOMAIN Rewritten THEN Rewritten[i] ELSE {i} : i \in imports}) \cup Always
<1>1. DOMAIN Imports(imports) = {i.name : i \in v2}
  BY DEF Imports
<1>2. Always \subseteq v2
  OBVIOUS
<1> HIDE DEF v2
<1>3. {i.name : i \in Always} \subseteq {i.name : i \in v2}
  BY <1>2
<1> QED
  BY <1>1, <1>3, ClassesAreImported

LEMMA InCallFacts ==
  ASSUME CodegenInv, NEW m \in InCall
  PROVE  /\ TextOf(m) \in Texts /\ TextOf(m).name = m /\ IsBody(TextOf(m).clauses)
         /\ m \in DOMAIN tables
         /\ \E first \in Nat : TableOf(TextOf(m), tables[m], first)
<1>1. /\ PlaceOf(m) \in 1..Len(trees) /\ TextOf(m) = trees[PlaceOf(m)]
      /\ TextOf(m) \in Texts /\ TextOf(m).name = m
  BY TextOfFacts DEF CodegenInv
<1>2. \E first \in Nat : TableOf(trees[PlaceOf(m)], tables[trees[PlaceOf(m)].name], first)
  BY <1>1 DEF CodegenInv, TablesInv
<1>3. m \in DOMAIN tables
  BY DEF CodegenInv, TreesInv
<1> QED
  BY <1>1, <1>2, <1>3, BodiesParsed

LEMMA RenderedFacts ==
  ASSUME CodegenInv, NEW m \in Rendered
  PROVE  /\ m \in InCall
         /\ \E r, g : /\ Rendition(TextOf(m), tables, r, g) /\ g.error = "none"
                      /\ docs[m] = Document("rendered", tables[m].order, g)
<1>1. m \in MODULES /\ docs[m].state = "rendered"
  BY DEF Rendered
<1>2. m \in InCall /\ \E r, g : Rendition(TextOf(m), tables, r, g) /\ docs[m] = Outcome(m, g)
  BY <1>1 DEF CodegenInv, DocsInv
<1>3. PICK r, g : Rendition(TextOf(m), tables, r, g) /\ docs[m] = Outcome(m, g)
  BY <1>2
<1>4. g.error = "none"
  <2>1. CASE g.error # "none"
    BY <1>1, <1>3, <2>1 DEF Outcome, Undone, Document
  <2> QED
    BY <2>1
<1>5. docs[m] = Document("rendered", tables[m].order, g)
  BY <1>3, <1>4 DEF Outcome
<1> QED
  BY <1>2, <1>3, <1>4, <1>5

(* What a clause's statement uses is entered before it in the table, imported, *)
(* a base type, or a row's type an AUGMENTS names.                             *)
LEMMA UsesEarlier ==
  ASSUME NEW text, NEW table, NEW first, TableOf(text, table, first),
         NEW r, r.tables[r.module] = table, NEW i \in InBody(text.clauses, Len(text.clauses)),
         NEW p \in 1..Len(table.order), table.order[p] = text.clauses[i].name
  PROVE  Uses(r, text.clauses[i]) \ table.rows \subseteq
           {table.order[j] : j \in 1..(p - 1)} \cup BaseTypes \cup DOMAIN JsonImports(text, table)
<1> DEFINE v == View(text, table)
           c == text.clauses[i]
<1>1. /\ v.order = table.order /\ v.rows = table.rows
      /\ v.importMap = JsonImports(text, table)
  BY DEF View
<1>2. PICK sym : Describes(v, c, sym) /\ Entered(v, sym)
  BY DEF TableOf
<1>3. PICK q \in 1..Len(v.order) :
        /\ v.order[q] = sym.name
        /\ sym.parents \subseteq {v.order[j] : j \in 1..(q - 1)} \cup Bound(v) \cup v.rows
  BY <1>2 DEF Entered
<1>4. q = p
  BY <1>1, <1>2, <1>3 DEF TableOf, Describes
<1>5. Uses(r, c) \subseteq sym.parents
  <2> HIDE DEF c, v
  <2> QED
    BY <1>1, <1>2 DEF Uses, TypeUsed, Describes
<1>6. Classes \subseteq DOMAIN v.importMap
  BY <1>1, ClassesBound DEF JsonImports
<1> HIDE DEF v, c
<1> QED
  BY <1>1, <1>3, <1>4, <1>5, <1>6 DEF Bound, c

(* The Python a pysnmp module is put out as loads from top to bottom, for any   *)
(* texts in any order, with or without repaired imports: what a statement uses  *)
(* is a base type, imported or bound by an earlier statement.                   *)
THEOREM RenderedLoadsInOrder == Spec => []LoadsInOrder
<1>1. CodegenInv => LoadsInOrder
  <2> SUFFICES ASSUME CodegenInv, NEW m \in Rendered, NEW p \in DOMAIN docs[m].order
               PROVE  docs[m].out[docs[m].order[p]].uses \ tables[m].rows \subseteq
                        BaseTypes \cup DOMAIN docs[m].importMap \cup {docs[m].order[j] : j \in 1..(p - 1)}
    BY DEF LoadsInOrder
  <2> DEFINE text == TextOf(m)
             clauses == text.clauses
             table == tables[m]
             n == Len(clauses)
  <2>1. m \in InCall /\ text.name = m /\ IsBody(clauses)
    BY RenderedFacts, InCallFacts
  <2>2. PICK r, g : /\ Rendition(text, tables, r, g) /\ g.error = "none"
                    /\ docs[m] = Document("rendered", table.order, g)
    BY RenderedFacts
  <2>3. PICK first \in Nat : TableOf(text, table, first)
    BY <2>1, InCallFacts
  <2> HIDE DEF text, table
  <2>4. /\ docs[m].order = table.order /\ docs[m].out = g.out /\ docs[m].importMap = g.importMap
    BY <2>2 DEF Document
  <2>5. /\ PutOut(r, clauses, n, g) /\ ToSet(table.order) \subseteq DOMAIN g.out
        /\ g.importMap = r.importMap /\ r.importMap = JsonImports(text, table)
        /\ r.tables[r.module] = table
    BY <2>1, <2>2 DEF Rendition, SameGen, table
  <2>6. IsSeq(table.order) /\ p \in 1..Len(table.order)
    <3>1. IsSeq(table.order)
      BY <2>3 DEF TableOf, View
    <3> QED
      BY <2>4, <3>1, SeqFacts
  <2> DEFINE x == table.order[p]
             item == g.out[x]
  <2>7. x \in DOMAIN g.out
    BY <2>5, <2>6, SeqFacts
  <2>8. Source(r, clauses, n, x, item)
    BY <2>5, <2>7 DEF PutOut
  <2>9. CASE \E i \in InBody(clauses, n) : x = clauses[i].name /\ ItemOf(r, clauses[i], item)
    <3>1. PICK i \in InBody(clauses, n) : x = clauses[i].name /\ ItemOf(r, clauses[i], item)
      BY <2>9
    <3>2. item.uses \subseteq Uses(r, clauses[i])
      BY <3>1 DEF ItemOf
    <3>3. /\ i \in InBody(text.clauses, Len(text.clauses)) /\ p \in 1..Len(table.order)
          /\ table.order[p] = text.clauses[i].name
      BY <2>6, <3>1
    <3>4. Uses(r, text.clauses[i]) \ table.rows \subseteq
            {table.order[j] : j \in 1..(p - 1)} \cup BaseTypes \cup DOMAIN JsonImports(text, table)
      BY <2>3, <2>5, <3>3, UsesEarlier
    <3> QED
      BY <2>4, <2>5, <3>2, <3>4 DEF table
  <2>10. CASE \E i \in 1..n : \E k \in 1..Cols(clauses[i]) :
                LET number == r.fakeidx + Numbers(clauses)[i - 1] + k - 1
                IN x = FakeName(number) /\ item = ColumnItem(NumberOf(r, clauses[i]).value, number)
    <3>1. item.uses = {}
      BY <2>10 DEF ColumnItem, Item
    <3> QED
      BY <2>4, <3>1
  <2> QED
    BY <2>8, <2>9, <2>10 DEF Source
<1> QED
  BY <1>1, CodegenKeeps, PTL

-------------------------------------------------------------------------------
(* Through the tables, from symbol to symbol. *)

LEMMA ImageFinite ==
  ASSUME NEW f, IsFiniteSet(DOMAIN f), f = [x \in DOMAIN f |-> f[x]]
  PROVE  IsFiniteSet({f[x] : x \in DOMAIN f})
<1> DEFINE T == {f[x] : x \in DOMAIN f}
           S == DOMAIN f
<1>1. f \in [S -> T] /\ \A t \in T : \E s \in S : f[s] = t
  OBVIOUS
<1> HIDE DEF S, T
<1>2. f \in Surjection(S, T)
  BY <1>1 DEF Surjection
<1>3. IsFiniteSet(T)
  BY <1>2, FS_Surjection DEF S
<1> QED
  BY <1>3 DEF T

LEMMA SeqFinite ==
  ASSUME NEW s, IsSeq(s)
  PROVE  IsFiniteSet(DOMAIN s) /\ IsFiniteSet(ToSet(s))
<1>1. Len(s) \in Nat /\ DOMAIN s = 1..Len(s)
  BY SeqFacts
<1>2. IsFiniteSet(DOMAIN s)
  <2>1. 1 \in Int /\ Len(s) \in Int
    BY <1>1
  <2> QED
    BY <1>1, <2>1, FS_Interval
<1>3. s = [x \in DOMAIN s |-> s[x]]
  BY <1>1 DEF IsSeq
<1> QED
  BY <1>2, <1>3, ImageFinite DEF ToSet

Fuel == Cardinality(Known(tables))

LEMMA KnownFinite ==
  ASSUME CodegenInv
  PROVE  IsFiniteSet(Known(tables)) /\ Fuel \in Nat
<1> DEFINE Of(m) == {[name |-> n, module |-> m] : n \in DOMAIN tables[m].out}
           f == [m \in DOMAIN tables |-> Of(m)]
<1>1. IsFiniteSet(DOMAIN tables)
  <2> DEFINE h == [i \in DOMAIN trees |-> trees[i].name]
  <2>1. IsSeq(trees)
    BY DEF CodegenInv, TreesInv
  <2>2. IsFiniteSet(DOMAIN trees) /\ DOMAIN trees = 1..Len(trees)
    BY <2>1, SeqFinite, SeqFacts
  <2>3. DOMAIN h = DOMAIN trees /\ h = [x \in DOMAIN h |-> h[x]]
    OBVIOUS
  <2>4. DOMAIN tables = {h[x] : x \in DOMAIN h}
    BY <2>2 DEF CodegenInv, TreesInv, InCall
  <2> HIDE DEF h
  <2> QED
    BY <2>2, <2>3, <2>4, ImageFinite
<1>2. ASSUME NEW m \in DOMAIN tables PROVE IsFiniteSet(Of(m))
  <2> DEFINE out == tables[m].out
             h == [n \in DOMAIN out |-> [name |-> n, module |-> m]]
  <2>1. m \in InCall
    BY <1>2 DEF CodegenInv, TreesInv
  <2>2. PICK first \in Nat : TableOf(TextOf(m), tables[m], first)
    BY <2>1, InCallFacts
  <2>3. IsSeq(tables[m].order) /\ ToSet(tables[m].order) = DOMAIN out
    BY <2>2 DEF TableOf, View
  <2>4. IsFiniteSet(DOMAIN out)
    <3> HIDE DEF out
    <3> QED
      BY <2>3, SeqFinite
  <2>5. DOMAIN h = DOMAIN out /\ h = [x \in DOMAIN h |-> h[x]] /\ Of(m) = {h[x] : x \in DOMAIN h}
    OBVIOUS
  <2> HIDE DEF h, Of, out
  <2> QED
    BY <2>4, <2>5, ImageFinite
<1>3. DOMAIN f = DOMAIN tables /\ f = [x \in DOMAIN f |-> f[x]] /\ \A m \in DOMAIN tables : f[m] = Of(m)
  OBVIOUS
<1>4. Known(tables) = UNION {f[x] : x \in DOMAIN f}
  BY DEF Known
<1> HIDE DEF f, Of
<1>5. IsFiniteSet({f[x] : x \in DOMAIN f})
  BY <1>1, <1>3, ImageFinite
<1>6. \A T \in {f[x] : x \in DOMAIN f} : IsFiniteSet(T)
  BY <1>2, <1>3
<1>7. IsFiniteSet(Known(tables))
  BY <1>4, <1>5, <1>6, FS_UNION
<1> QED
  BY <1>7, FS_CardinalityType DEF Fuel

(* What a symbol leads to, by its type or by its OID. *)
Onward(kind, r) == IF kind = "types" THEN Types(r) ELSE Above(r)
Reached(kind, refs) == IF kind = "types" THEN Reach(Types, refs) ELSE Reach(Above, refs)
Spreads(kind, refs, w) ==
  /\ w[0] = refs
  /\ \A n \in Nat : n + 1 <= Fuel => w[n + 1] = w[n] \cup UNION {Onward(kind, r) : r \in w[n]}

LEMMA ReachedIs ==
  ASSUME Fuel \in Nat, NEW kind \in {"types", "above"}, NEW refs
  PROVE  \E w : Spreads(kind, refs, w) /\ Reached(kind, refs) = w[Fuel]
<1> DEFINE N == Fuel
           Near(w, n) == w[n - 1] \cup UNION {Onward(kind, r) : r \in w[n - 1]}
           Is(w) == w = [n \in 0..N |-> IF n = 0 THEN refs ELSE Near(w, n)]
           within == CHOOSE w : Is(w)
<1>1. Reached(kind, refs) = within[N]
  <2>1. CASE kind = "types"
    BY <2>1 DEF Reached, Reach, Onward, Fuel
  <2>2. CASE kind = "above"
    BY <2>2 DEF Reached, Reach, Onward, Fuel
  <2> QED
    BY <2>1, <2>2
<1>2. Is(within)
  <2>1. PICK w : Loops(kind, refs, refs, N, w)
    BY LoopExists
  <2>2. \A s, n : Step(kind, refs, s, n) = s \cup UNION {Onward(kind, r) : r \in s}
    BY DEF Step, Onward
  <2>3. Is(w)
    BY <2>1, <2>2 DEF Loops
  <2> HIDE DEF Is
  <2> QED
    BY <2>3
<1>3. within[0] = refs
  <2>1. 0 \in 0..N
    OBVIOUS
  <2> HIDE DEF within
  <2> QED
    BY <1>2, <2>1
<1>4. ASSUME NEW n \in Nat, n + 1 <= N
      PROVE  within[n + 1] = within[n] \cup UNION {Onward(kind, r) : r \in within[n]}
  <2>1. n + 1 \in 0..N /\ n + 1 # 0 /\ (n + 1) - 1 = n
    BY <1>4
  <2> HIDE DEF within
  <2>2. within[n + 1] = IF n + 1 = 0 THEN refs ELSE Near(within, n + 1)
    BY <1>2, <2>1
  <2> QED
    BY <2>1, <2>2
<1> HIDE DEF within
<1> QED
  BY <1>1, <1>3, <1>4 DEF Spreads

(* What a walk comes to is reached, unless the walk is longer than there are    *)
(* symbols.                                                                     *)
LEMMA WalkReaches ==
  ASSUME Fuel \in Nat, NEW kind \in {"types", "above"}, NEW refs,
         NEW q, q[0] \in refs,
         NEW n \in 0..Fuel,
         \A k \in Nat : k + 1 <= n => q[k + 1] \in Onward(kind, q[k]) \cup {q[k]}
  PROVE  q[n] \in Reached(kind, refs)
<1>1. PICK w : Spreads(kind, refs, w) /\ Reached(kind, refs) = w[Fuel]
  BY ReachedIs
<1> DEFINE S == {k \in Nat : k <= Fuel => q[IF k <= n THEN k ELSE n] \in w[k]}
<1>2. n \in Nat /\ n <= Fuel
  OBVIOUS
<1>3. 0 \in S
  BY <1>1, <1>2 DEF Spreads
<1>4. ASSUME NEW k \in Nat, k \in S PROVE k + 1 \in S
  <2> SUFFICES ASSUME k + 1 <= Fuel PROVE q[IF k + 1 <= n THEN k + 1 ELSE n] \in w[k + 1]
    BY <1>4
  <2>1. w[k + 1] = w[k] \cup UNION {Onward(kind, r) : r \in w[k]}
    BY <1>1 DEF Spreads
  <2>2. q[IF k <= n THEN k ELSE n] \in w[k]
    BY <1>2, <1>4
  <2>3. CASE k + 1 <= n
    <3>1. k <= n
      BY <1>2, <2>3
    <3>2. q[k] \in w[k] /\ q[k + 1] \in Onward(kind, q[k]) \cup {q[k]}
      BY <2>2, <2>3, <3>1
    <3> QED
      BY <2>1, <2>3, <3>2
  <2>4. CASE ~(k + 1 <= n)
    <3>1. q[n] \in w[k]
      <4>1. CASE k <= n
        <5>1. k = n
          BY <1>2, <2>4, <4>1
        <5> QED
          BY <2>2, <4>1, <5>1
      <4>2. CASE ~(k <= n)
        BY <2>2, <4>2
      <4> QED
        BY <4>1, <4>2
    <3> QED
      BY <2>1, <2>4, <3>1
  <2> QED
    BY <2>3, <2>4
<1>5. Nat \subseteq S
  <2> HIDE DEF S
  <2> QED
    BY <1>3, <1>4, SetInduction
<1>6. q[IF Fuel <= n THEN Fuel ELSE n] \in w[Fuel]
  BY <1>5
<1>7. (IF Fuel <= n THEN Fuel ELSE n) = n
  BY <1>2
<1> QED
  BY <1>1, <1>6, <1>7

(* Nothing else is reached. *)
LEMMA ReachClosed ==
  ASSUME Fuel \in Nat, NEW kind \in {"types", "above"}, NEW refs,
         NEW S, refs \subseteq S, \A r \in S : Onward(kind, r) \subseteq S
  PROVE  Reached(kind, refs) \subseteq S
<1>1. PICK w : Spreads(kind, refs, w) /\ Reached(kind, refs) = w[Fuel]
  BY ReachedIs
<1> DEFINE I == {k \in Nat : k <= Fuel => w[k] \subseteq S}
<1>2. 0 \in I
  BY <1>1 DEF Spreads
<1>3. ASSUME NEW k \in Nat, k \in I PROVE k + 1 \in I
  <2> SUFFICES ASSUME k + 1 <= Fuel PROVE w[k + 1] \subseteq S
    BY <1>3
  <2>1. w[k + 1] = w[k] \cup UNION {Onward(kind, r) : r \in w[k]}
    BY <1>1 DEF Spreads
  <2>2. w[k] \subseteq S
    BY <1>3
  <2> QED
    BY <2>1, <2>2
<1>4. Nat \subseteq I
  <2> HIDE DEF I
  <2> QED
    BY <1>2, <1>3, SetInduction
<1> QED
  BY <1>1, <1>4

LEMMA KnownIs ==
  \A r : IsRef(r) /\ Has(tables, r) <=> r \in Known(tables)
<1>1. ASSUME NEW r, IsRef(r), Has(tables, r) PROVE r \in Known(tables)
  <2> DEFINE m == r.module
             n == r.name
  <2>1. m \in DOMAIN tables /\ n \in DOMAIN tables[m].out /\ r = [name |-> n, module |-> m]
    BY <1>1 DEF Has, IsRef
  <2> HIDE DEF m, n
  <2> QED
    BY <2>1 DEF Known
<1>2. ASSUME NEW r \in Known(tables) PROVE IsRef(r) /\ Has(tables, r)
  <2>1. PICK m \in DOMAIN tables : r \in {[name |-> n, module |-> m] : n \in DOMAIN tables[m].out}
    BY DEF Known
  <2>2. PICK n \in DOMAIN tables[m].out : r = [name |-> n, module |-> m]
    BY <2>1
  <2> QED
    BY <2>2 DEF IsRef, Has
<1> QED
  BY <1>1, <1>2

(* A walk that passes more symbols than there are comes back to one of them.    *)
LEMMA LongWalkReturns ==
  ASSUME CodegenInv, NEW kind \in {"types", "above"}, NEW q,
         \A k \in 0..Fuel : Has(tables, q[k]),
         \A k \in 0..Fuel : IsRef(q[k]),
         \A k \in Nat : k + 1 <= Fuel => q[k + 1] \in Onward(kind, q[k])
  PROVE  \E i \in 0..Fuel : /\ q[i] \in Reached(kind, {q[0]})
                            /\ q[i] \in Reached(kind, Onward(kind, q[i]))
<1> DEFINE K == Known(tables)
           f == [k \in 0..Fuel |-> q[k]]
<1>1. Fuel \in Nat /\ IsFiniteSet(K)
  BY KnownFinite
<1>2. \A k \in 0..Fuel : q[k] \in K
  BY KnownIs
<1>3. IsFiniteSet(0..Fuel) /\ Cardinality(0..Fuel) = Fuel + 1
  <2>1. 0 \in Int /\ Fuel \in Int
    BY <1>1
  <2> QED
    BY <1>1, <2>1, FS_Interval
<1>4. Cardinality(K) < Cardinality(0..Fuel)
  BY <1>1, <1>3 DEF Fuel
<1>5. f \in [0..Fuel -> K]
  BY <1>2
<1>6. PICK i, j \in 0..Fuel : i # j /\ q[i] = q[j]
  <2> HIDE DEF K
  <2>1. \E x, y \in 0..Fuel : x # y /\ f[x] = f[y]
    <3> HIDE DEF f
    <3> QED
      BY <1>1, <1>3, <1>4, <1>5, FS_PigeonHole
  <2> QED
    BY <2>1
<1>7. \E x, y \in 0..Fuel : x < y /\ q[x] = q[y]
  <2>1. i \in Int /\ j \in Int /\ (i < j \/ j < i)
    BY <1>1, <1>6
  <2> QED
    BY <1>6, <2>1
<1>8. PICK x, y \in 0..Fuel : x < y /\ q[x] = q[y]
  BY <1>7
<1> DEFINE p == [k \in Nat |-> q[(x + 1) + k]]
           d == (y - x) - 1
<1>9. q[x] \in Reached(kind, {q[0]})
  <2>1. x \in Nat /\ x <= Fuel
    BY <1>1
  <2>2. \A k \in Nat : k + 1 <= x => q[k + 1] \in Onward(kind, q[k]) \cup {q[k]}
    BY <1>1, <2>1
  <2> QED
    BY <1>1, <2>1, <2>2, WalkReaches
<1>10. q[x] \in Reached(kind, Onward(kind, q[x]))
  <2>1. /\ d \in 0..Fuel /\ (x + 1) + d = y /\ x \in Nat /\ x + 1 <= Fuel
        /\ (x + 1) + 0 = x + 1 /\ d \in Nat
    BY <1>1, <1>8
  <2> HIDE DEF d
  <2>2. p[0] = q[x + 1] /\ p[0] \in Onward(kind, q[x])
    BY <2>1
  <2>3. ASSUME NEW k \in Nat, k + 1 <= d PROVE p[k + 1] \in Onward(kind, p[k]) \cup {p[k]}
    <3>1. p[k] = q[(x + 1) + k] /\ p[k + 1] = q[(x + 1) + (k + 1)]
      OBVIOUS
    <3>2. (x + 1) + (k + 1) = ((x + 1) + k) + 1 /\ (x + 1) + k \in Nat /\ ((x + 1) + k) + 1 <= Fuel
      BY <1>1, <2>1, <2>3
    <3> QED
      BY <3>1, <3>2
  <2>4. p[d] = q[x]
    BY <1>8, <2>1
  <2> HIDE DEF p
  <2> QED
    BY <1>1, <2>1, <2>2, <2>3, <2>4, WalkReaches
<1> QED
  BY <1>8, <1>9, <1>10

(* What is in a table is what a clause declares, or a column of one.            *)
LEMMA FakeNamesOf ==
  ASSUME NEW clauses, IsBody(clauses), NEW first \in Nat, NEW n \in 0..Len(clauses),
         NEW x \in FakeNames(first, Numbers(clauses)[n])
  PROVE  \E i \in 1..n : \E k \in 1..Cols(clauses[i]) :
           x = FakeName(first + Numbers(clauses)[i - 1] + k - 1)
<1> DEFINE at == Numbers(clauses)
           len == Len(clauses)
           Is(m, y) == \E i \in 1..m : \E k \in 1..Cols(clauses[i]) : y = FakeName(first + at[i - 1] + k - 1)
           S == {m \in Nat : m <= len => \A y \in FakeNames(first, at[m]) : Is(m, y)}
<1>1. len \in Nat
  BY SeqFacts DEF IsBody
<1>2. 0 \in S
  <2>1. at[0] = 0
    BY NumbersFacts
  <2>2. FakeNames(first, 0) = {}
    BY DEF FakeNames
  <2> HIDE DEF at
  <2> QED
    BY <2>1, <2>2
<1>3. ASSUME NEW m \in Nat, m \in S PROVE m + 1 \in S
  <2> SUFFICES ASSUME m + 1 <= len, NEW y \in FakeNames(first, at[m + 1]) PROVE Is(m + 1, y)
    BY <1>3
  <2>1. /\ at[m] \in Nat /\ Cols(clauses[m + 1]) \in Nat
        /\ FakeNames(first, at[m + 1]) =
             FakeNames(first, at[m]) \cup FakeNames(first + at[m], Cols(clauses[m + 1]))
    BY FakeNamesOn
  <2> HIDE DEF at
  <2>2. CASE y \in FakeNames(first, at[m])
    <3>1. Is(m, y)
      BY <1>1, <1>3, <2>2
    <3>2. 1..m \subseteq 1..(m + 1)
      OBVIOUS
    <3> QED
      BY <3>1, <3>2
  <2>3. CASE y \in FakeNames(first + at[m], Cols(clauses[m + 1]))
    <3>1. PICK k \in 1..Cols(clauses[m + 1]) : y = FakeName((first + at[m]) + k - 1)
      BY <2>3 DEF FakeNames
    <3>2. m + 1 \in 1..(m + 1) /\ (m + 1) - 1 = m
      OBVIOUS
    <3> QED
      BY <3>1, <3>2
  <2> QED
    BY <2>1, <2>2, <2>3
<1>4. Nat \subseteq S
  <2> HIDE DEF S
  <2> QED
    BY <1>2, <1>3, SetInduction
<1>5. n \in Nat /\ n <= len
  BY <1>1
<1>6. Is(n, x)
  BY <1>4, <1>5
<1> QED
  BY <1>6

LEMMA TableEntry ==
  ASSUME NEW text, IsBody(text.clauses), NEW table, NEW first \in Nat,
         TableOf(text, table, first), NEW x \in DOMAIN table.out
  PROVE  LET v == View(text, table)
             clauses == text.clauses
             n == Len(clauses)
         IN \/ \E i \in InBody(clauses, n) : \E sym :
                 /\ x = clauses[i].name /\ Describes(v, clauses[i], sym)
                 /\ table.out[x] = sym.entry
            \/ \E i \in 1..n : \E k \in 1..Cols(clauses[i]) : \E number \in Nat :
                 /\ number = first + Numbers(clauses)[i - 1] + k - 1
                 /\ x = FakeName(number)
                 /\ table.out[x] = FakeSym(Oid(v, clauses[i].oid), number).entry
<1> DEFINE v == View(text, table)
           clauses == text.clauses
           n == Len(clauses)
           at == Numbers(clauses)
<1>1. v.out = table.out /\ n \in Nat
  BY SeqFacts DEF View, IsBody
<1>2. DOMAIN v.out = ClauseNames(clauses, n) \cup FakeNames(first, at[n])
  BY DEF TableOf
<1>3. \A i \in InBody(clauses, n) : \E sym : Describes(v, clauses[i], sym) /\ Entered(v, sym)
  BY DEF TableOf
<1>4. \A i \in 1..n : \A k \in 1..Cols(clauses[i]) :
        Entered(v, FakeSym(Oid(v, clauses[i].oid), first + at[i - 1] + k - 1))
  BY DEF TableOf
<1>5. CASE x \in ClauseNames(clauses, n)
  <2>1. PICK i \in InBody(clauses, n) : x = clauses[i].name
    BY <1>5 DEF ClauseNames
  <2>2. PICK sym : Describes(v, clauses[i], sym) /\ Entered(v, sym)
    BY <1>3, <2>1
  <2>3. sym.name = x /\ v.out[sym.name] = sym.entry
    BY <2>1, <2>2 DEF Describes, Entered
  <2> HIDE DEF v, clauses, n
  <2>4. table.out[x] = sym.entry
    BY <1>1, <2>3
  <2> QED
    BY <2>1, <2>2, <2>4 DEF v, clauses, n
<1>6. CASE x \in FakeNames(first, at[n])
  <2>1. n \in 0..n
    BY <1>1
  <2>2. PICK i \in 1..n : \E k \in 1..Cols(clauses[i]) : x = FakeName(first + at[i - 1] + k - 1)
    BY <1>6, <2>1, FakeNamesOf
  <2>3. PICK k \in 1..Cols(clauses[i]) : x = FakeName(first + at[i - 1] + k - 1)
    BY <2>2
  <2> DEFINE number == first + at[i - 1] + k - 1
             sym == FakeSym(Oid(v, clauses[i].oid), number)
  <2>4. number \in Nat
    <3>1. i - 1 \in 0..n
      BY <1>1
    <3>2. at[i - 1] \in Nat
      BY <3>1, NumbersFacts
    <3>3. k \in Nat /\ k >= 1
      <4>1. Cols(clauses[i]) \in Nat
        BY ColsNat DEF IsBody
      <4> QED
        BY <4>1
    <3> HIDE DEF at
    <3> QED
      BY <3>2, <3>3
  <2>5. Entered(v, sym)
    BY <1>4
  <2>6. sym.name = FakeName(number)
    BY DEF FakeSym
  <2>7. v.out[sym.name] = sym.entry
    BY <2>5 DEF Entered
  <2>8. table.out[x] = sym.entry
    <3> HIDE DEF v, sym
    <3> QED
      BY <1>1, <2>3, <2>6, <2>7
  <2> QED
    BY <2>2, <2>3, <2>4, <2>8
<1> QED
  BY <1>1, <1>2, <1>5, <1>6

(* A name is never an entry; a type is a name, and so is the parent of an OID.  *)
LEMMA EntryFacts ==
  ASSUME CodegenInv, NEW ref, Has(tables, ref)
  PROVE  LET e == Found(tables, ref)
         IN /\ IsRef(e.type)
            /\ HasOid(e) => /\ e.oid.arcs \in Seq(Nat)
                            /\ e.oid.parent = None \/ IsRef(e.oid.parent)
<1> DEFINE m == ref.module
           x == ref.name
           e == Found(tables, ref)
           text == TextOf(m)
           clauses == text.clauses
           n == Len(clauses)
           table == tables[m]
           v == View(text, table)
<1>1. m \in InCall /\ x \in DOMAIN table.out /\ e = table.out[x]
  BY DEF Has, Found, CodegenInv, TreesInv
<1>2. text \in Texts /\ IsBody(clauses) /\ \E first \in Nat : TableOf(text, table, first)
  BY <1>1, InCallFacts
<1>3. PICK first \in Nat : TableOf(text, table, first)
  BY <1>2
<1> HIDE DEF e, text, table
<1>4. \A oid : (oid.parent = None => Oid(v, oid).parent = None)
               /\ (oid.parent # None => IsRef(Oid(v, oid).parent)) /\ Oid(v, oid).arcs = oid.arcs
  BY RefsAre DEF Oid
<1>5. \A i \in 1..n : clauses[i].kind \notin {"type", "sequence"} => clauses[i].oid.arcs \in Seq(Nat)
  <2>1. \A i \in 1..n : clauses[i] \in ToSet(clauses)
    BY <1>2, SeqFacts DEF IsBody
  <2> QED
    BY <1>2, <2>1, TextsAreParsed
<1> HIDE DEF v
<1>6. CASE \E i \in InBody(clauses, n) : \E sym :
             x = clauses[i].name /\ Describes(v, clauses[i], sym) /\ table.out[x] = sym.entry
  <2>0. PICK i \in InBody(clauses, n) : \E sym :
           x = clauses[i].name /\ Describes(v, clauses[i], sym) /\ table.out[x] = sym.entry
    BY <1>6
  <2>1. PICK sym : x = clauses[i].name /\ Describes(v, clauses[i], sym) /\ table.out[x] = sym.entry
    BY <2>0
  <2>2. i \in 1..n /\ clauses[i].kind # "sequence"
    BY DEF InBody
  <2> QED
    BY <1>1, <1>4, <1>5, <2>1, <2>2 DEF Describes, e
<1>7. CASE \E i \in 1..n : \E k \in 1..Cols(clauses[i]) : \E number \in Nat :
             table.out[x] = FakeSym(Oid(v, clauses[i].oid), number).entry
  <2>1. PICK i \in 1..n : \E k \in 1..Cols(clauses[i]) : \E number \in Nat :
             table.out[x] = FakeSym(Oid(v, clauses[i].oid), number).entry
    BY <1>7
  <2>2. PICK number \in Nat : table.out[x] = FakeSym(Oid(v, clauses[i].oid), number).entry
    BY <2>1
  <2>3. clauses[i].kind = "object"
    BY <2>1 DEF Cols
  <2> DEFINE o == Oid(v, clauses[i].oid)
             p == [parent |-> o.parent, arcs |-> Append(o.arcs, number)]
  <2>4. e = Entry(p, Untyped, Unrestricted)
    BY <1>1, <2>2 DEF FakeSym
  <2>5. e.type = Untyped /\ e.oid = p
    BY <2>4, HasOidOf
  <2>6. o.parent = None \/ IsRef(o.parent)
    BY <1>4
  <2>7. o.arcs \in Seq(Nat)
    BY <1>4, <1>5, <2>3
  <2>8. Append(o.arcs, number) \in Seq(Nat)
    <3> HIDE DEF o
    <3> QED
      BY <2>7, <2>2, AppendProperties
  <2>9. p.arcs = Append(o.arcs, number) /\ p.parent = o.parent
    OBVIOUS
  <2> HIDE DEF o, p
  <2> QED
    BY <1>4, <2>5, <2>6, <2>8, <2>9, RefsAre DEF e
<1>8. \/ \E i \in InBody(clauses, n) : \E sym :
            /\ x = clauses[i].name /\ Describes(v, clauses[i], sym)
            /\ table.out[x] = sym.entry
      \/ \E i \in 1..n : \E k \in 1..Cols(clauses[i]) : \E number \in Nat :
            /\ number = first + Numbers(clauses)[i - 1] + k - 1
            /\ x = FakeName(number)
            /\ table.out[x] = FakeSym(Oid(v, clauses[i].oid), number).entry
  <2> HIDE DEF x
  <2> QED
    BY <1>1, <1>2, <1>3, TableEntry DEF v
<1> QED
  BY <1>6, <1>7, <1>8 DEF e

(* The way of a symbol to its base type goes through what its type reaches, and *)
(* through all of it if it ends; if it does not, the types go in a circle.      *)
LEMMA WayIs ==
  ASSUME Fuel \in Nat, NEW ref
  PROVE  LET way == Way(tables, ref)
         IN /\ DOMAIN way = 0..Fuel /\ way[0] = ref
            /\ \A n \in Nat : n + 1 <= Fuel =>
                 way[n + 1] = IF Ends(tables, way[n]) THEN way[n] ELSE Found(tables, way[n]).type
<1> DEFINE Near(r) == IF Ends(tables, r) THEN r ELSE Found(tables, r).type
           Is(w) == w = [n \in 0..Fuel |-> IF n = 0 THEN ref ELSE Near(w[n - 1])]
           way == CHOOSE w : Is(w)
<1>1. Way(tables, ref) = way
  BY DEF Way, Fuel
<1>2. Is(way)
  <2>1. PICK w : Loops("way", tables, ref, Fuel, w)
    BY LoopExists
  <2>2. \A s, n : Step("way", tables, s, n) = Near(s)
    BY DEF Step
  <2> HIDE DEF Near
  <2>3. Is(w)
    BY <2>1, <2>2 DEF Loops
  <2> HIDE DEF Is
  <2> QED
    BY <2>3
<1> HIDE DEF way, Near
<1>3. DOMAIN way = 0..Fuel
  BY <1>2
<1>4. way[0] = ref
  <2>1. 0 \in 0..Fuel
    OBVIOUS
  <2> QED
    BY <1>2, <2>1
<1>5. ASSUME NEW n \in Nat, n + 1 <= Fuel PROVE way[n + 1] = Near(way[n])
  <2>1. n + 1 \in 0..Fuel /\ n + 1 # 0 /\ (n + 1) - 1 = n
    BY <1>5
  <2>2. way[n + 1] = IF n + 1 = 0 THEN ref ELSE Near(way[(n + 1) - 1])
    BY <1>2, <2>1
  <2> QED
    BY <2>1, <2>2
<1> QED
  BY <1>1, <1>3, <1>4, <1>5 DEF Near

LEMMA WayReaches ==
  ASSUME CodegenInv, NEW ref, IsRef(ref)
  PROVE  LET way == Way(tables, ref)
         IN /\ way[Fuel] \in Range(way)
            /\ Range(way) \subseteq Reach(Types, {ref})
            /\ Ends(tables, way[Fuel]) => Reach(Types, {ref}) \subseteq Range(way)
            /\ ~Ends(tables, way[Fuel]) => Has(tables, ref) /\ Endless(Types, ref)
<1> DEFINE way == Way(tables, ref)
<1>1. Fuel \in Nat
  BY KnownFinite
<1>2. /\ DOMAIN way = 0..Fuel /\ way[0] = ref
      /\ \A n \in Nat : n + 1 <= Fuel =>
           way[n + 1] = IF Ends(tables, way[n]) THEN way[n] ELSE Found(tables, way[n]).type
  BY <1>1, WayIs
<1> HIDE DEF way
<1>3. /\ \A r : Onward("types", r) = Types(r)
      /\ \A refs : Reached("types", refs) = Reach(Types, refs)
  BY DEF Onward, Reached
<1>4. /\ \A r : Ends(tables, r) => Types(r) = {}
      /\ \A r : ~Ends(tables, r) => Has(tables, r) /\ Types(r) = {Found(tables, r).type}
  BY DEF Ends, Types
<1>5. Range(way) = {way[n] : n \in 0..Fuel} /\ way[Fuel] \in Range(way)
  BY <1>1, <1>2 DEF Range
<1>6. Range(way) \subseteq Reach(Types, {ref})
  <2> SUFFICES ASSUME NEW n \in 0..Fuel PROVE way[n] \in Reached("types", {ref})
    BY <1>3, <1>5
  <2>1. \A k \in Nat : k + 1 <= n => way[k + 1] \in Onward("types", way[k]) \cup {way[k]}
    <3>1. \A k \in Nat : k + 1 <= n => k + 1 <= Fuel
      BY <1>1
    <3> QED
      BY <1>2, <1>3, <1>4, <3>1
  <2>2. way[0] \in {ref}
    BY <1>2
  <2> QED
    BY <1>1, <2>1, <2>2, WalkReaches
<1>7. ASSUME Ends(tables, way[Fuel]) PROVE Reach(Types, {ref}) \subseteq Range(way)
  <2>1. {ref} \subseteq Range(way)
    BY <1>1, <1>2, <1>5
  <2>2. ASSUME NEW r \in Range(way) PROVE Onward("types", r) \subseteq Range(way)
    <3>1. PICK n \in 0..Fuel : r = way[n]
      BY <1>5
    <3>2. CASE Ends(tables, r)
      BY <1>3, <1>4, <3>2
    <3>3. CASE ~Ends(tables, r)
      <4>1. n + 1 <= Fuel /\ n \in Nat /\ n + 1 \in 0..Fuel
        <5>1. n # Fuel
          BY <1>7, <3>1, <3>3
        <5> QED
          BY <1>1, <5>1
      <4>2. way[n + 1] = Found(tables, r).type
        BY <1>2, <3>1, <3>3, <4>1
      <4> QED
        BY <1>3, <1>4, <1>5, <3>3, <4>1, <4>2
    <3> QED
      BY <3>2, <3>3
  <2>3. Reached("types", {ref}) \subseteq Range(way)
    BY <1>1, <2>1, <2>2, ReachClosed
  <2> QED
    BY <1>3, <2>3
<1>8. ASSUME ~Ends(tables, way[Fuel]) PROVE Has(tables, ref) /\ Endless(Types, ref)
  <2> DEFINE S == {k \in Nat : k <= Fuel => ~Ends(tables, way[Fuel - k])}
             R == {k \in Nat : k <= Fuel => IsRef(way[k])}
  <2>1. 0 \in S
    BY <1>1, <1>8
  <2>2. ASSUME NEW k \in Nat, k \in S PROVE k + 1 \in S
    <3> SUFFICES ASSUME k + 1 <= Fuel PROVE ~Ends(tables, way[Fuel - (k + 1)])
      BY <2>2
    <3> DEFINE n == Fuel - (k + 1)
    <3>1. n \in Nat /\ n + 1 = Fuel - k /\ n + 1 <= Fuel /\ k <= Fuel
      BY <1>1
    <3> HIDE DEF n
    <3>2. ~Ends(tables, way[n + 1])
      BY <2>2, <3>1
    <3>3. ~Ends(tables, way[n])
      BY <1>2, <3>1, <3>2
    <3> QED
      BY <3>3 DEF n
  <2>3. Nat \subseteq S
    <3> HIDE DEF S
    <3> QED
      BY <2>1, <2>2, SetInduction
  <2>4. ASSUME NEW n \in 0..Fuel PROVE ~Ends(tables, way[n]) /\ Has(tables, way[n])
    <3>1. Fuel - n \in Nat /\ Fuel - n <= Fuel /\ Fuel - (Fuel - n) = n
      BY <1>1
    <3>2. ~Ends(tables, way[Fuel - (Fuel - n)])
      BY <2>3, <3>1
    <3> QED
      BY <1>4, <3>1, <3>2
  <2>5. 0 \in R
    BY <1>2
  <2>6. ASSUME NEW k \in Nat, k \in R PROVE k + 1 \in R
    <3> SUFFICES ASSUME k + 1 <= Fuel PROVE IsRef(way[k + 1])
      BY <2>6
    <3>1. k \in 0..Fuel
      BY <1>1
    <3>2. way[k + 1] = Found(tables, way[k]).type /\ Has(tables, way[k])
      BY <1>2, <2>4, <3>1
    <3> QED
      BY <3>2, EntryFacts
  <2>7. Nat \subseteq R
    <3> HIDE DEF R
    <3> QED
      BY <2>5, <2>6, SetInduction
  <2>8. \A k \in 0..Fuel : IsRef(way[k]) /\ Has(tables, way[k])
    BY <1>1, <2>4, <2>7
  <2>9. ASSUME NEW k \in Nat, k + 1 <= Fuel PROVE way[k + 1] \in Onward("types", way[k])
    <3>1. k \in 0..Fuel
      BY <1>1, <2>9
    <3> QED
      BY <1>2, <1>3, <1>4, <2>4, <2>9, <3>1
  <2>10. \E i \in 0..Fuel : /\ way[i] \in Reached("types", {way[0]})
                            /\ way[i] \in Reached("types", Onward("types", way[i]))
    BY <2>8, <2>9, LongWalkReturns
  <2>11. Endless(Types, ref)
    BY <1>2, <1>3, <2>10 DEF Endless, Circular
  <2>12. 0 \in 0..Fuel
    BY <1>1
  <2> QED
    BY <1>2, <2>8, <2>11, <2>12
<1> QED
  BY <1>5, <1>6, <1>7, <1>8 DEF way

-------------------------------------------------------------------------------
(* Defaults. *)

Nameless(ref) == \E r \in Reach(Types, {ref}) : Has(tables, r) /\ Found(tables, r).type.name = None

LEMMA BaseTypeFacts ==
  ASSUME CodegenInv, NEW ref, IsRef(ref)
  PROVE  LET base == BaseType(tables, ref)
         IN /\ base.error \in {"none", "semantic", "foreign"}
            /\ base.error = "none" => Reach(Types, {ref}) \subseteq Range(Way(tables, ref))
            /\ base.error = "semantic" => Dangling(Types, ref) \/ Nameless(ref)
            /\ base.error = "foreign" => Has(tables, ref) /\ Endless(Types, ref)
<1> DEFINE last == Way(tables, ref)[Fuel]
           base == BaseType(tables, ref)
<1>1. /\ last \in Range(Way(tables, ref))
      /\ Range(Way(tables, ref)) \subseteq Reach(Types, {ref})
      /\ Ends(tables, last) => Reach(Types, {ref}) \subseteq Range(Way(tables, ref))
      /\ ~Ends(tables, last) => Has(tables, ref) /\ Endless(Types, ref)
  BY WayReaches
<1>2. \A x : Good(x).error = "none" /\ Bad(x).error = x
  BY DEF Good, Bad
<1>3. /\ ~Ends(tables, last) => base.error = "foreign"
      /\ Ends(tables, last) /\ (~Has(tables, last) \/ Found(tables, last).type.name = None) =>
           base.error = "semantic"
      /\ Ends(tables, last) /\ ~(~Has(tables, last) \/ Found(tables, last).type.name = None) =>
           base.error = "none"
  BY <1>2 DEF BaseType, Fuel
<1> HIDE DEF last, base
<1>4. Ends(tables, last) /\ (~Has(tables, last) \/ Found(tables, last).type.name = None) =>
        Dangling(Types, ref) \/ Nameless(ref)
  BY <1>1 DEF Dangling, Nameless
<1> QED
  BY <1>1, <1>3, <1>4 DEF base

(* What gen_def_val puts out, and why it fails.                                 *)
LEMMA DefValFacts ==
  ASSUME NEW seen, NEW module, NEW importMap, NEW c
  PROVE  LET v == DefVal(seen, module, importMap, c)
             d == c.default
             self == [name |-> c.name, module |-> module]
             base == BaseType(seen, self)
         IN /\ v.error = "none" /\ v.value # None =>
                 /\ v.value = d /\ d # None /\ base.error = "none"
                 /\ d.sort = "number" => ~Violates(seen, self, "range", d.value)
                 /\ d.sort = "text" => ~Violates(seen, self, "size", d.value)
            /\ v.error # "none" =>
                 /\ d # None
                 /\ base.error = v.error \/ (v.error = "semantic" /\ d.sort \notin {"number", "text"})
<1> DEFINE v == DefVal(seen, module, importMap, c)
           d == c.default
           self == [name |-> c.name, module |-> module]
           base == BaseType(seen, self)
<1>1. \A x : Good(x).error = "none" /\ Good(x).value = x /\ Bad(x).error = x /\ Bad(x).value = None
  BY DEF Good, Bad
<1>2. CASE d = None
  <2>1. v = Good(None)
    BY <1>2 DEF DefVal
  <2> HIDE DEF v, base
  <2> QED
    BY <1>1, <2>1 DEF v
<1>3. CASE d # None /\ base.error # "none"
  <2>1. v = base
    BY <1>3 DEF DefVal
  <2> HIDE DEF v, base
  <2> QED
    BY <1>3, <2>1 DEF v, base
<1>4. CASE d # None /\ base.error = "none" /\ d.sort = "number"
  <2>1. v = Good(None) \/ v = Good(IF Violates(seen, self, "range", d.value) THEN None ELSE d)
    BY <1>4 DEF DefVal
  <2> HIDE DEF v, base
  <2> QED
    BY <1>1, <1>4, <2>1 DEF v, base
<1>5. CASE d # None /\ base.error = "none" /\ d.sort = "text"
  <2>1. v = Good(None) \/ v = Good(IF Violates(seen, self, "size", d.value) THEN None ELSE d)
    BY <1>5 DEF DefVal
  <2> HIDE DEF v, base
  <2> QED
    BY <1>1, <1>5, <2>1 DEF v, base
<1>6. CASE d # None /\ base.error = "none" /\ d.sort \notin {"number", "text"}
  <2>1. v \in {Good(None), Good(d), Bad("semantic")}
    BY <1>6 DEF DefVal
  <2> HIDE DEF v, base
  <2> QED
    BY <1>1, <1>6, <2>1 DEF v, base
<1> QED
  BY <1>2, <1>3, <1>4, <1>5, <1>6

(* A default that is put out satisfies every restriction on the way to its base *)
(* type, whatever the modules of the call declare in between.                   *)
THEOREM RenderedDefaultsFit == Spec => []DefaultsFitSyntax
<1>1. CodegenInv => DefaultsFitSyntax
  <2> SUFFICES ASSUME CodegenInv, NEW m \in Rendered, NEW s \in DOMAIN docs[m].out,
                      docs[m].out[s].default # None,
                      NEW r \in Reach(Types, {[name |-> s, module |-> m]}), Has(tables, r)
               PROVE  LET d == docs[m].out[s].default
                          sub == Found(tables, r).sub
                      IN /\ d.sort = "number" /\ sub.sort = "range" => d.value \in sub.permits
                         /\ d.sort = "text" /\ sub.sort = "size" => d.value \in sub.permits
    BY DEF DefaultsFitSyntax
  <2> DEFINE text == TextOf(m)
             clauses == text.clauses
             n == Len(clauses)
             d == docs[m].out[s].default
             sub == Found(tables, r).sub
             self == [name |-> s, module |-> m]
  <2>1. m \in InCall /\ text.name = m
    BY RenderedFacts, InCallFacts
  <2>2. PICK r0, g : /\ Rendition(text, tables, r0, g) /\ g.error = "none"
                     /\ docs[m] = Document("rendered", tables[m].order, g)
    BY RenderedFacts
  <2> HIDE DEF text
  <2>3. docs[m].out = g.out /\ PutOut(r0, clauses, n, g) /\ r0.tables = tables /\ r0.module = m
    BY <2>1, <2>2 DEF Document, Rendition
  <2>4. Source(r0, clauses, n, s, g.out[s])
    BY <2>3 DEF PutOut
  <2>5. PICK i \in InBody(clauses, n) : s = clauses[i].name /\ ItemOf(r0, clauses[i], g.out[s])
    <3>1. CASE \E i \in 1..n : \E k \in 1..Cols(clauses[i]) :
                 LET number == r0.fakeidx + Numbers(clauses)[i - 1] + k - 1
                 IN s = FakeName(number) /\ g.out[s] = ColumnItem(NumberOf(r0, clauses[i]).value, number)
      <4>1. g.out[s].default = None
        BY <3>1 DEF ColumnItem, Item
      <4> QED
        BY <2>3, <4>1
    <3> QED
      BY <2>4, <3>1 DEF Source
  <2> DEFINE c == clauses[i]
             v == DefVal(tables, m, r0.importMap, c)
  <2>6. v.error = "none" /\ v.value = d /\ d # None
    BY <2>3, <2>5 DEF ItemOf, DefaultOf
  <2> HIDE DEF d
  <2>7. /\ d = c.default /\ BaseType(tables, self).error = "none"
        /\ d.sort = "number" => ~Violates(tables, self, "range", d.value)
        /\ d.sort = "text" => ~Violates(tables, self, "size", d.value)
    <3>1. self = [name |-> c.name, module |-> m]
      BY <2>5
    <3> HIDE DEF self, v
    <3> QED
      BY <2>6, <3>1, DefValFacts DEF v
  <2>8. IsRef(self)
    BY DEF IsRef
  <2> HIDE DEF c, v
  <2>9. r \in OnTheWay(tables, self)
    <3>1. r \in Reach(Types, {self})
      OBVIOUS
    <3> HIDE DEF self
    <3>2. r \in Range(Way(tables, self))
      BY <2>7, <2>8, <3>1, BaseTypeFacts
    <3> QED
      BY <3>2 DEF OnTheWay
  <2>10. sub.sort \in {"range", "size"} => sub \in ValueRanges(tables, self)
    <3> HIDE DEF self
    <3> QED
      BY <2>9 DEF ValueRanges, Bounding
  <2> HIDE DEF sub, self
  <2>11. /\ d.sort = "number" /\ sub.sort = "range" => d.value \in sub.permits
         /\ d.sort = "text" /\ sub.sort = "size" => d.value \in sub.permits
    BY <2>7, <2>10 DEF Violates
  <2> QED
    BY <2>11 DEF d, sub
<1> QED
  BY <1>1, CodegenKeeps, PTL

-------------------------------------------------------------------------------
(* Numbers: those of walks of n symbols, w[n]. *)

Counts(w) ==
  /\ \A ref \in Known(tables) : w[0][ref] = Bad("semantic")
  /\ \A n \in Nat : n + 1 <= Fuel =>
       \A ref \in Known(tables) :
         w[n + 1][ref] = IF ~HasOid(Found(tables, ref)) THEN Bad("foreign")
                         ELSE Numbered(tables, Found(tables, ref).oid, w[n])

LEMMA NumberIs ==
  ASSUME Fuel \in Nat
  PROVE  \E w : Counts(w) /\ \A oid : NumericOid(tables, oid) = Numbered(tables, oid, w[Fuel])
<1> DEFINE Under(s) == [ref \in Known(tables) |->
                          IF ~HasOid(Found(tables, ref)) THEN Bad("foreign")
                          ELSE Numbered(tables, Found(tables, ref).oid, s)]
           Each(w, n) == [ref \in Known(tables) |->
                            IF n = 0 THEN Bad("semantic")
                            ELSE IF ~HasOid(Found(tables, ref)) THEN Bad("foreign")
                            ELSE Numbered(tables, Found(tables, ref).oid, w[n - 1])]
           None0 == [ref \in Known(tables) |-> Bad("semantic")]
           Is(w) == w = [n \in 0..Fuel |-> Each(w, n)]
           number == CHOOSE w : Is(w)
<1>1. \A oid : NumericOid(tables, oid) = Numbered(tables, oid, number[Fuel])
  BY DEF NumericOid, Fuel
<1>2. Is(number)
  <2>1. PICK w : Loops("number", tables, None0, Fuel, w)
    BY LoopExists
  <2>2. \A s, n : Step("number", tables, s, n) = Under(s)
    BY DEF Step
  <2>3. \A n : Each(w, n) = IF n = 0 THEN None0 ELSE Under(w[n - 1])
    OBVIOUS
  <2> HIDE DEF Under, Each, None0
  <2>4. Is(w)
    BY <2>1, <2>2, <2>3 DEF Loops
  <2> HIDE DEF Is
  <2> QED
    BY <2>4
<1> HIDE DEF number
<1>3. ASSUME NEW ref \in Known(tables) PROVE number[0][ref] = Bad("semantic")
  <2>1. 0 \in 0..Fuel
    OBVIOUS
  <2>2. number[0] = Each(number, 0)
    <3> HIDE DEF Each
    <3> QED
      BY <1>2, <2>1
  <2> QED
    BY <2>2
<1>4. ASSUME NEW n \in Nat, n + 1 <= Fuel, NEW ref \in Known(tables)
      PROVE  number[n + 1][ref] = IF ~HasOid(Found(tables, ref)) THEN Bad("foreign")
                                  ELSE Numbered(tables, Found(tables, ref).oid, number[n])
  <2>1. n + 1 \in 0..Fuel /\ n + 1 # 0 /\ (n + 1) - 1 = n
    BY <1>4
  <2>2. number[n + 1] = Each(number, n + 1)
    <3> HIDE DEF Each
    <3> QED
      BY <1>2, <2>1
  <2> QED
    BY <2>1, <2>2
<1> QED
  BY <1>1, <1>3, <1>4 DEF Counts

LEMMA NumberedFacts ==
  ASSUME NEW oid, NEW above
  PROVE  LET x == Numbered(tables, oid, above)
             up == oid.parent
         IN /\ up = None => x = Good(oid.arcs)
            /\ up # None /\ up.name = "iso" => x = Good(<<1>> \o oid.arcs)
            /\ up # None /\ up.name # "iso" /\ ~Has(tables, up) => x = Bad("semantic")
            /\ up # None /\ up.name # "iso" /\ Has(tables, up) =>
                 x = IF above[up].error = "none" THEN Good(above[up].value \o oid.arcs) ELSE above[up]
<1>1. \A x : Good(x).error = "none" /\ Good(x).value = x /\ Bad(x).error = x /\ Bad("semantic").error # "none"
  BY DEF Good, Bad
<1> QED
  BY <1>1 DEF Numbered

(* A walk up from a symbol that leaves the tables, or passes n symbols. *)
Strays(q, ref, n) ==
  /\ q[0] = ref
  /\ \E j \in Nat : /\ \A k \in Nat : k + 1 <= j =>
                         Has(tables, q[k]) /\ IsRef(q[k]) /\ q[k + 1] \in Above(q[k])
                    /\ j >= n \/ ~Has(tables, q[j])

(* A walk up to a symbol without an OID. *)
Errs(q, ref, n) ==
  /\ q[0] = ref
  /\ \E j \in Nat : /\ j < n
                    /\ \A k \in Nat : k + 1 <= j => q[k + 1] \in Above(q[k])
                    /\ Has(tables, q[j]) /\ ~HasOid(Found(tables, q[j]))

LEMMA OneMore ==
  ASSUME NEW ref, IsRef(ref), Has(tables, ref), NEW up \in Above(ref), NEW n \in Nat, NEW q
  PROVE  /\ Strays(q, up, n) => \E p : Strays(p, ref, n + 1)
         /\ Errs(q, up, n) => \E p : Errs(p, ref, n + 1)
<1> DEFINE p == [k \in Nat |-> IF k = 0 THEN ref ELSE q[k - 1]]
<1>1. p[0] = ref /\ \A k \in Nat : p[k + 1] = q[k]
  BY DEF p
<1> HIDE DEF p
<1>2. ASSUME Strays(q, up, n) PROVE Strays(p, ref, n + 1)
  <2>1. PICK j \in Nat : /\ \A k \in Nat : k + 1 <= j =>
                              Has(tables, q[k]) /\ IsRef(q[k]) /\ q[k + 1] \in Above(q[k])
                         /\ j >= n \/ ~Has(tables, q[j])
    BY <1>2 DEF Strays
  <2>2. ASSUME NEW k \in Nat, k + 1 <= j + 1
        PROVE  Has(tables, p[k]) /\ IsRef(p[k]) /\ p[k + 1] \in Above(p[k])
    <3>1. CASE k = 0
      BY <1>1, <1>2, <3>1 DEF Strays
    <3>2. CASE k # 0
      <4> DEFINE i == k - 1
      <4>1. i \in Nat /\ k = i + 1 /\ i + 1 <= j
        BY <2>2, <3>2
      <4> HIDE DEF i
      <4>2. p[k] = q[i] /\ p[k + 1] = q[i + 1]
        BY <1>1, <4>1
      <4> QED
        BY <2>1, <4>1, <4>2
    <3> QED
      BY <3>1, <3>2
  <2>3. j + 1 \in Nat /\ (j >= n => j + 1 >= n + 1) /\ p[j + 1] = q[j]
    BY <1>1
  <2> QED
    BY <1>1, <2>1, <2>2, <2>3 DEF Strays
<1>3. ASSUME Errs(q, up, n) PROVE Errs(p, ref, n + 1)
  <2>1. PICK j \in Nat : /\ j < n
                         /\ \A k \in Nat : k + 1 <= j => q[k + 1] \in Above(q[k])
                         /\ Has(tables, q[j]) /\ ~HasOid(Found(tables, q[j]))
    BY <1>3 DEF Errs
  <2>2. ASSUME NEW k \in Nat, k + 1 <= j + 1 PROVE p[k + 1] \in Above(p[k])
    <3>1. CASE k = 0
      BY <1>1, <1>3, <3>1 DEF Errs
    <3>2. CASE k # 0
      <4> DEFINE i == k - 1
      <4>1. i \in Nat /\ k = i + 1 /\ i + 1 <= j
        BY <2>2, <3>2
      <4> HIDE DEF i
      <4>2. p[k] = q[i] /\ p[k + 1] = q[i + 1]
        BY <1>1, <4>1
      <4> QED
        BY <2>1, <4>1, <4>2
    <3> QED
      BY <3>1, <3>2
  <2>3. j + 1 \in Nat /\ j + 1 < n + 1 /\ p[j + 1] = q[j]
    BY <1>1, <2>1
  <2> QED
    BY <1>1, <2>1, <2>2, <2>3 DEF Errs
<1> QED
  BY <1>2, <1>3

(* Why there is no number, after walks of n symbols. *)
Explains(s, n) ==
  \A r \in Known(tables) :
    /\ s[r].error = "semantic" => \E q : Strays(q, r, n)
    /\ s[r].error \notin {"none", "semantic"} => \E q : Errs(q, r, n)

LEMMA UpFails ==
  ASSUME CodegenInv, NEW ref \in Known(tables), HasOid(Found(tables, ref)),
         NEW n \in Nat, NEW s, Explains(s, n)
  PROVE  LET x == Numbered(tables, Found(tables, ref).oid, s)
         IN /\ x.error = "semantic" => \E q : Strays(q, ref, n + 1)
            /\ x.error \notin {"none", "semantic"} => \E up \in Above(ref) : \E q : Errs(q, up, n)
<1> DEFINE x == Numbered(tables, Found(tables, ref).oid, s)
           up == Found(tables, ref).oid.parent
           arcs == Found(tables, ref).oid.arcs
<1>1. IsRef(ref) /\ Has(tables, ref)
  BY KnownIs
<1>2. up = None \/ IsRef(up)
  BY <1>1, EntryFacts
<1>3. up # None /\ up.name # "iso" => Above(ref) = {up}
  BY <1>1 DEF Above
<1>4. /\ up = None => x = Good(arcs)
      /\ up # None /\ up.name = "iso" => x = Good(<<1>> \o arcs)
      /\ up # None /\ up.name # "iso" /\ ~Has(tables, up) => x = Bad("semantic")
      /\ up # None /\ up.name # "iso" /\ Has(tables, up) =>
           x = IF s[up].error = "none" THEN Good(s[up].value \o arcs) ELSE s[up]
  BY NumberedFacts
<1>5. \A y : Good(y).error = "none" /\ Bad(y).error = y
  BY DEF Good, Bad
<1> HIDE DEF x, up, arcs
<1>6. CASE up = None \/ up.name = "iso"
  BY <1>4, <1>5, <1>6 DEF x
<1>7. CASE up # None /\ up.name # "iso" /\ ~Has(tables, up)
  <2> DEFINE p == [k \in Nat |-> IF k = 0 THEN up ELSE up]
  <2>1. p[0] = up
    OBVIOUS
  <2> HIDE DEF p
  <2>2. Strays(p, up, n)
    <3>1. \A k \in Nat : ~(k + 1 <= 0)
      OBVIOUS
    <3> QED
      BY <1>7, <2>1, <3>1 DEF Strays
  <2>3. \E q : Strays(q, ref, n + 1)
    BY <1>1, <1>3, <1>7, <2>2, OneMore
  <2> QED
    BY <1>4, <1>5, <1>7, <2>3 DEF x
<1>8. CASE up # None /\ up.name # "iso" /\ Has(tables, up)
  <2>1. up \in Known(tables) /\ up \in Above(ref)
    BY <1>2, <1>3, <1>8, KnownIs
  <2>2. ASSUME s[up].error = "semantic" PROVE \E q : Strays(q, ref, n + 1)
    <3>1. PICK q : Strays(q, up, n)
      BY <2>1, <2>2 DEF Explains
    <3> QED
      BY <1>1, <2>1, <3>1, OneMore
  <2>3. ASSUME s[up].error \notin {"none", "semantic"} PROVE \E q : Errs(q, up, n)
    BY <2>1, <2>3 DEF Explains
  <2>4. x = IF s[up].error = "none" THEN Good(s[up].value \o arcs) ELSE s[up]
    BY <1>4, <1>8
  <2>5. x.error = s[up].error
    BY <1>5, <2>4
  <2> QED
    BY <2>1, <2>2, <2>3, <2>5 DEF x
<1> QED
  BY <1>6, <1>7, <1>8

LEMMA CountsExplain ==
  ASSUME CodegenInv, NEW w, Counts(w), NEW n \in Nat, n <= Fuel
  PROVE  Explains(w[n], n)
<1> DEFINE S == {k \in Nat : k <= Fuel => Explains(w[k], k)}
<1>1. Fuel \in Nat
  BY KnownFinite
<1>2. 0 \in S
  <2> SUFFICES ASSUME NEW r \in Known(tables)
               PROVE  w[0][r].error = "semantic" /\ \E q : Strays(q, r, 0)
    BY DEF Explains
  <2> DEFINE p == [k \in Nat |-> IF k = 0 THEN r ELSE r]
  <2>1. p[0] = r
    OBVIOUS
  <2> HIDE DEF p
  <2>2. Strays(p, r, 0)
    <3>1. (\A k \in Nat : ~(k + 1 <= 0)) /\ 0 >= 0
      OBVIOUS
    <3> QED
      BY <2>1, <3>1 DEF Strays
  <2>3. w[0][r] = Bad("semantic")
    BY DEF Counts
  <2> QED
    BY <2>2, <2>3 DEF Bad
<1>3. ASSUME NEW k \in Nat, k \in S PROVE k + 1 \in S
  <2> SUFFICES ASSUME k + 1 <= Fuel, NEW r \in Known(tables)
               PROVE  /\ w[k + 1][r].error = "semantic" => \E q : Strays(q, r, k + 1)
                      /\ w[k + 1][r].error \notin {"none", "semantic"} => \E q : Errs(q, r, k + 1)
    BY <1>3 DEF Explains
  <2>1. Explains(w[k], k)
    BY <1>1, <1>3
  <2>2. w[k + 1][r] = IF ~HasOid(Found(tables, r)) THEN Bad("foreign")
                      ELSE Numbered(tables, Found(tables, r).oid, w[k])
    BY DEF Counts
  <2>3. IsRef(r) /\ Has(tables, r)
    BY KnownIs
  <2>4. CASE ~HasOid(Found(tables, r))
    <3> DEFINE p == [i \in Nat |-> IF i = 0 THEN r ELSE r]
    <3>1. p[0] = r
      OBVIOUS
    <3> HIDE DEF p
    <3>2. Errs(p, r, k + 1)
      <4>1. (\A i \in Nat : ~(i + 1 <= 0)) /\ 0 < k + 1
        OBVIOUS
      <4> QED
        BY <2>3, <2>4, <3>1, <4>1 DEF Errs
    <3>3. w[k + 1][r].error = "foreign"
      BY <2>2, <2>4 DEF Bad
    <3> QED
      BY <3>2, <3>3
  <2>5. CASE HasOid(Found(tables, r))
    <3>1. w[k + 1][r] = Numbered(tables, Found(tables, r).oid, w[k])
      BY <2>2, <2>5
    <3>2. /\ w[k + 1][r].error = "semantic" => \E q : Strays(q, r, k + 1)
          /\ w[k + 1][r].error \notin {"none", "semantic"} => \E up \in Above(r) : \E q : Errs(q, up, k)
      BY <2>1, <2>5, <3>1, UpFails
    <3> QED
      BY <2>3, <3>2, OneMore
  <2> QED
    BY <2>4, <2>5
<1>4. Nat \subseteq S
  <2> HIDE DEF S
  <2> QED
    BY <1>2, <1>3, SetInduction
<1> QED
  BY <1>4

(* A symbol has no number only if its parents lead out of the tables, come back *)
(* to one of them, or come to a type.                                           *)
LEMMA NumberFails ==
  ASSUME CodegenInv, NEW ref \in Known(tables), HasOid(Found(tables, ref))
  PROVE  LET x == NumericOid(tables, Found(tables, ref).oid)
         IN /\ x.error = "semantic" => Dangling(Above, ref) \/ Endless(Above, ref)
            /\ x.error \notin {"none", "semantic"} =>
                 \E r \in Reach(Above, Above(ref)) : Has(tables, r) /\ ~HasOid(Found(tables, r))
<1> DEFINE x == NumericOid(tables, Found(tables, ref).oid)
<1>1. Fuel \in Nat
  BY KnownFinite
<1>2. PICK w : Counts(w) /\ \A oid : NumericOid(tables, oid) = Numbered(tables, oid, w[Fuel])
  BY <1>1, NumberIs
<1>3. Explains(w[Fuel], Fuel)
  BY <1>1, <1>2, CountsExplain
<1>4. /\ x.error = "semantic" => \E q : Strays(q, ref, Fuel + 1)
      /\ x.error \notin {"none", "semantic"} => \E up \in Above(ref) : \E q : Errs(q, up, Fuel)
  BY <1>1, <1>2, <1>3, UpFails
<1> HIDE DEF x
<1>5. /\ \A r : Onward("above", r) = Above(r)
      /\ \A refs : Reached("above", refs) = Reach(Above, refs)
  BY DEF Onward, Reached
<1>6. ASSUME NEW q, Strays(q, ref, Fuel + 1) PROVE Dangling(Above, ref) \/ Endless(Above, ref)
  <2>1. PICK j \in Nat : /\ \A k \in Nat : k + 1 <= j =>
                              Has(tables, q[k]) /\ IsRef(q[k]) /\ q[k + 1] \in Above(q[k])
                         /\ j >= Fuel + 1 \/ ~Has(tables, q[j])
    BY <1>6 DEF Strays
  <2>2. q[0] = ref
    BY <1>6 DEF Strays
  <2>3. CASE j <= Fuel
    <3>1. ~Has(tables, q[j]) /\ j \in 0..Fuel
      BY <1>1, <2>1, <2>3
    <3>2. \A k \in Nat : k + 1 <= j => q[k + 1] \in Onward("above", q[k]) \cup {q[k]}
      BY <1>5, <2>1
    <3> DEFINE here == {ref}
    <3>3. q[0] \in here
      BY <2>2
    <3> HIDE DEF here
    <3>4. q[j] \in Reached("above", here)
      BY <1>1, <3>1, <3>2, <3>3, WalkReaches
    <3> QED
      BY <1>5, <3>1, <3>4 DEF Dangling, here
  <2>4. CASE ~(j <= Fuel)
    <3>1. \A k \in 0..Fuel : k \in Nat /\ k + 1 <= j
      BY <1>1, <2>4
    <3>2. \A k \in 0..Fuel : Has(tables, q[k]) /\ IsRef(q[k])
      BY <2>1, <3>1
    <3>3. \A k \in Nat : k + 1 <= Fuel => q[k + 1] \in Onward("above", q[k])
      <4>1. \A k \in Nat : k + 1 <= Fuel => k + 1 <= j
        BY <1>1, <2>4
      <4> QED
        BY <1>5, <2>1, <4>1
    <3>4. \E i \in 0..Fuel : /\ q[i] \in Reached("above", {q[0]})
                             /\ q[i] \in Reached("above", Onward("above", q[i]))
      BY <3>2, <3>3, LongWalkReturns
    <3> QED
      BY <1>5, <2>2, <3>4 DEF Endless, Circular
  <2> QED
    BY <2>3, <2>4
<1>7. ASSUME NEW up \in Above(ref), NEW q, Errs(q, up, Fuel)
      PROVE  \E r \in Reach(Above, Above(ref)) : Has(tables, r) /\ ~HasOid(Found(tables, r))
  <2>1. PICK j \in Nat : /\ j < Fuel
                         /\ \A k \in Nat : k + 1 <= j => q[k + 1] \in Above(q[k])
                         /\ Has(tables, q[j]) /\ ~HasOid(Found(tables, q[j]))
    BY <1>7 DEF Errs
  <2>2. j \in 0..Fuel
    BY <1>1, <2>1
  <2>3. q[0] \in Above(ref)
    BY <1>7 DEF Errs
  <2>4. \A k \in Nat : k + 1 <= j => q[k + 1] \in Onward("above", q[k]) \cup {q[k]}
    BY <1>5, <2>1
  <2>5. q[j] \in Reached("above", Above(ref))
    BY <1>1, <2>2, <2>3, <2>4, WalkReaches
  <2> QED
    BY <1>5, <2>1, <2>5
<1> QED
  BY <1>4, <1>6, <1>7 DEF x

-------------------------------------------------------------------------------
(* What is not rendered. *)

(* A clause is numbered as its entry in the table is.                           *)
LEMMA ClauseNumber ==
  ASSUME CodegenInv, NEW m \in InCall, NEW i \in InBody(TextOf(m).clauses, Len(TextOf(m).clauses)),
         NEW r, r.module = m, r.tables = tables, r.importMap = JsonImports(TextOf(m), tables[m])
  PROVE  LET c == TextOf(m).clauses[i]
             ref == [name |-> c.name, module |-> m]
         IN /\ ref \in Known(tables) /\ c.name \in DOMAIN Symbols(m)
            /\ c.kind = "type" => ~HasOid(Found(tables, ref))
            /\ c.kind # "type" => HasOid(Found(tables, ref))
                                  /\ NumberOf(r, c) = NumericOid(tables, Found(tables, ref).oid)
<1> DEFINE text == TextOf(m)
           c == text.clauses[i]
           table == tables[m]
           v == View(text, table)
           ref == [name |-> c.name, module |-> m]
<1>1. m \in DOMAIN tables /\ text.name = m /\ \E first \in Nat : TableOf(text, table, first)
  BY InCallFacts
<1>2. PICK first \in Nat : TableOf(text, table, first)
  BY <1>1
<1>3. \E sym : Describes(v, c, sym) /\ Entered(v, sym)
  BY <1>2 DEF TableOf
<1>4. PICK sym : Describes(v, c, sym) /\ Entered(v, sym)
  BY <1>3
<1>5. v.out = table.out /\ v.module = m /\ v.importMap = r.importMap /\ ToSet(v.order) = DOMAIN v.out
  BY <1>1, <1>2 DEF View, TableOf
<1>6. IsSeq(v.order)
  BY <1>2 DEF TableOf
<1> HIDE DEF v, text, c, table
<1>7. c.name \in DOMAIN table.out /\ table.out[c.name] = sym.entry
  <2>1. PICK k \in 1..Len(v.order) : v.order[k] = sym.name /\ v.out[sym.name] = sym.entry
    BY <1>4 DEF Entered
  <2>2. sym.name \in ToSet(v.order)
    BY <1>6, <2>1, SeqFacts
  <2> QED
    BY <1>4, <1>5, <2>1, <2>2 DEF Describes
<1>8. Oid(v, c.oid) = Oid(r, c.oid)
  BY <1>5, OidSame
<1>9. IsRef(ref) /\ Has(tables, ref) /\ Found(tables, ref) = sym.entry
  BY <1>1, <1>7 DEF IsRef, Has, Found, table
<1>10. ref \in Known(tables)
  BY <1>9, KnownIs
<1>11. NumberOf(r, c) = NumericOid(tables, Oid(v, c.oid))
  BY <1>8 DEF NumberOf
<1> HIDE DEF ref
<1> QED
  BY <1>4, <1>7, <1>9, <1>10, <1>11 DEF Describes, Symbols, table, c, text, ref

(* A module without a column for an index has no number taken.                  *)
LEMMA NoNumbers ==
  ASSUME NEW clauses, IsBody(clauses), \A i \in DOMAIN clauses : Columns(clauses[i]) = 0,
         NEW n \in 0..Len(clauses)
  PROVE  \A first \in Nat : FakeNames(first, Numbers(clauses)[n]) = {}
<1> DEFINE at == Numbers(clauses)
           S == {k \in Nat : k <= Len(clauses) => at[k] = 0}
<1>1. Len(clauses) \in Nat /\ DOMAIN clauses = 1..Len(clauses)
  BY SeqFacts DEF IsBody
<1>2. at[0] = 0 /\ \A k \in 1..Len(clauses) : at[k] = at[k - 1] + Cols(clauses[k])
  BY NumbersFacts
<1> HIDE DEF at
<1>3. 0 \in S
  BY <1>2
<1>4. ASSUME NEW k \in Nat, k \in S PROVE k + 1 \in S
  <2> SUFFICES ASSUME k + 1 <= Len(clauses) PROVE at[k + 1] = 0
    BY <1>4
  <2>1. k + 1 \in 1..Len(clauses) /\ (k + 1) - 1 = k /\ k <= Len(clauses)
    BY <1>1
  <2>2. Cols(clauses[k + 1]) = 0
    BY <1>1, <2>1 DEF Cols
  <2>3. at[k] = 0
    BY <1>4, <2>1
  <2> QED
    BY <1>2, <2>1, <2>2, <2>3
<1>5. Nat \subseteq S
  <2> HIDE DEF S
  <2> QED
    BY <1>3, <1>4, SetInduction
<1>6. at[n] = 0
  BY <1>1, <1>5
<1>7. \A first \in Nat : FakeNames(first, 0) = {}
  BY DEF FakeNames
<1> QED
  BY <1>6, <1>7 DEF at

LEMMA DefaultFails ==
  ASSUME CodegenInv, NEW m, NEW importMap, NEW c,
         c.default = None \/ c.default.sort \in {"number", "text", "name", "bits"},
         NEW error, error # "none", DefVal(tables, m, importMap, c).error = error
  PROVE  LET ref == [name |-> c.name, module |-> m]
         IN \/ error = "foreign" /\ Has(tables, ref) /\ Endless(Types, ref)
            \/ /\ error = "semantic" /\ c.default # None
               /\ c.default.sort \in {"name", "bits"} \/ Dangling(Types, ref) \/ Nameless(ref)
<1> DEFINE ref == [name |-> c.name, module |-> m]
           base == BaseType(tables, ref)
<1>1. /\ c.default # None
      /\ base.error = error \/ (error = "semantic" /\ c.default.sort \notin {"number", "text"})
  BY DefValFacts
<1>2. IsRef(ref)
  BY DEF IsRef
<1> HIDE DEF ref
<1>3. /\ base.error \in {"none", "semantic", "foreign"}
      /\ base.error = "semantic" => Dangling(Types, ref) \/ Nameless(ref)
      /\ base.error = "foreign" => Has(tables, ref) /\ Endless(Types, ref)
  BY <1>2, BaseTypeFacts
<1> HIDE DEF base
<1> QED
  BY <1>1, <1>3 DEF ref

LEMMA ClauseFails ==
  ASSUME CodegenInv, NEW m \in InCall,
         NEW r, Begun(r), r.module = m, r.tables = tables, r.importMap = JsonImports(TextOf(m), tables[m]),
         NEW i \in InBody(TextOf(m).clauses, Len(TextOf(m).clauses)),
         NEW error, error # "none", FailsAt(r, TextOf(m).clauses, i, error)
  PROVE  /\ error = "semantic" => Excused(m) \/ HasColumns(m)
         /\ error # "semantic" => Raises(m)
<1> DEFINE text == TextOf(m)
           clauses == text.clauses
           n == Len(clauses)
           c == clauses[i]
           ref == [name |-> c.name, module |-> m]
<1>1. text \in Texts /\ IsBody(clauses) /\ \E first \in Nat : TableOf(text, tables[m], first)
  BY InCallFacts
<1>2. PICK first \in Nat : TableOf(text, tables[m], first)
  BY <1>1
<1>3. n \in Nat /\ DOMAIN clauses = 1..n /\ i \in 1..n /\ c \in ToSet(clauses)
      /\ i \in DOMAIN clauses
  BY <1>1, SeqFacts DEF InBody, IsBody
<1>4. /\ ref \in Known(tables) /\ c.name \in DOMAIN Symbols(m)
      /\ c.kind # "type" => HasOid(Found(tables, ref))
                            /\ NumberOf(r, c) = NumericOid(tables, Found(tables, ref).oid)
  BY ClauseNumber
<1>5. c.default = None \/ c.default.sort \in {"number", "text", "name", "bits"}
  <2> HIDE DEF text, c
  <2> QED
    BY <1>1, <1>3, TextsAreParsed
<1>6. CASE c.kind # "type" /\ NumberOf(r, c).error = error
  <2> DEFINE x == NumericOid(tables, Found(tables, ref).oid)
  <2>1. x.error = error /\ HasOid(Found(tables, ref))
    BY <1>4, <1>6
  <2>2. /\ x.error = "semantic" => Dangling(Above, ref) \/ Endless(Above, ref)
        /\ x.error \notin {"none", "semantic"} =>
              \E u \in Reach(Above, Above(ref)) : Has(tables, u) /\ ~HasOid(Found(tables, u))
    BY <1>4, <2>1, NumberFails
  <2> HIDE DEF x, c
  <2>3. error = "semantic" => Excused(m)
    BY <1>4, <2>1, <2>2 DEF Excused
  <2>4. error # "semantic" => Raises(m)
    BY <1>4, <2>1, <2>2 DEF Raises
  <2> QED
    BY <2>3, <2>4
<1>7. CASE c.kind = "object" /\ DefaultOf(r, c).error = error
  <2>1. DefVal(tables, m, r.importMap, c).error = error
    BY <1>7 DEF DefaultOf
  <2> HIDE DEF c
  <2>2. \/ error = "foreign" /\ Has(tables, ref) /\ Endless(Types, ref)
        \/ /\ error = "semantic" /\ c.default # None
           /\ c.default.sort \in {"name", "bits"} \/ Dangling(Types, ref) \/ Nameless(ref)
    BY <1>5, <2>1, DefaultFails
  <2>3. error = "semantic" => Excused(m)
    <3>1. error = "semantic" =>
            /\ c.default # None
            /\ c.default.sort \in {"name", "bits"} \/ Dangling(Types, ref) \/ Nameless(ref)
      BY <2>2
    <3> QED
      BY <1>3, <3>1 DEF Excused, Nameless, c
  <2>4. error # "semantic" => Raises(m)
    BY <1>4, <2>2 DEF Raises
  <2> QED
    BY <2>3, <2>4
<1>8. CASE error = "foreign" /\ \E v \in Range(c.varied) : Varied(r, v).error = error
  <2>1. PICK v \in Range(c.varied) : Varied(r, v).error = "foreign"
    BY <1>8
  <2> DEFINE d == [name |-> v.object, default |-> v.default]
             self == [name |-> d.name, module |-> m]
  <2>2. DefVal(tables, m, r.importMap, d).error = "foreign"
    BY <2>1 DEF Varied
  <2>3. IsRef(self) /\ self.name = v.object /\ self = [name |-> v.object, module |-> m]
    BY DEF IsRef
  <2>4. BaseType(tables, self).error = "foreign"
    <3> HIDE DEF d
    <3> QED
      BY <2>2, DefValFacts
  <2> HIDE DEF self
  <2>5. Has(tables, self) /\ Endless(Types, self)
    BY <2>3, <2>4, BaseTypeFacts
  <2>6. v.object \in DOMAIN Symbols(m)
    BY <2>3, <2>5 DEF Has, Symbols
  <2>7. Raises(m)
    BY <2>3, <2>5, <2>6 DEF Raises
  <2> QED
    BY <1>8, <2>7
<1>9. CASE /\ error = "semantic" /\ c.kind = "identity"
           /\ \E j \in InBody(clauses, i - 1) : clauses[j].kind = "identity"
  <2>1. PICK j \in 1..(i - 1) : clauses[j].kind = "identity"
    BY <1>9 DEF InBody
  <2>2. j \in DOMAIN clauses /\ j # i
    BY <1>3
  <2>3. Excused(m)
    BY <1>3, <1>9, <2>1, <2>2 DEF Excused
  <2> QED
    BY <1>9, <2>3
<1>10. CASE /\ error = "semantic"
            /\ c.name \in ClauseNames(clauses, i - 1) \cup FakeNames(r.fakeidx, Numbers(clauses)[i - 1])
  <2> SUFFICES ASSUME ~HasColumns(m) PROVE FALSE
    BY <1>10
  <2>1. \A k \in DOMAIN clauses : Columns(clauses[k]) = 0
    BY DEF HasColumns
  <2>2. r.fakeidx \in Nat
    BY DEF Begun
  <2>3. i - 1 \in 0..n
    BY <1>3
  <2>4. FakeNames(r.fakeidx, Numbers(clauses)[i - 1]) = {}
    <3> HIDE DEF clauses
    <3> QED
      BY <1>1, <2>1, <2>2, <2>3, NoNumbers
  <2>5. PICK j \in InBody(clauses, i - 1) : clauses[j].name = c.name
    BY <1>10, <2>4 DEF ClauseNames
  <2>6. j \in InBody(clauses, n) /\ j # i
    BY <1>3 DEF InBody
  <2>7. \A a, b \in InBody(clauses, n) : clauses[a].name = clauses[b].name => a = b
    BY <1>2 DEF TableOf
  <2> QED
    BY <2>5, <2>6, <2>7
<1>11. CASE error = "semantic" /\ Cols(c) # 0
  <2>1. Columns(c) # 0
    BY <1>11 DEF Cols
  <2>2. HasColumns(m)
    BY <1>3, <2>1 DEF HasColumns
  <2> QED
    BY <1>11, <2>2
<1> QED
  BY <1>6, <1>7, <1>8, <1>9, <1>10, <1>11 DEF FailsAt

(* What the symbol table accepted is rendered, for every text and every number  *)
(* of texts in a call, unless an OID or the type of a default leads nowhere or  *)
(* comes back to itself, a default names something, there are two identities,   *)
(* or an index names a base type; and only a circle of types or an OID under a  *)
(* type ends the call.                                                          *)
THEOREM ModulesFailForCause == Spec => []FailsForCause
<1>1. CodegenInv => FailsForCause
  <2> SUFFICES ASSUME CodegenInv, NEW m \in MODULES
               PROVE  /\ docs[m].state = "failed" => Excused(m) \/ HasColumns(m)
                      /\ docs[m].state = "raised" => Raises(m)
    BY DEF FailsForCause
  <2> SUFFICES ASSUME docs[m].state \in {"failed", "raised"}
               PROVE  /\ docs[m].state = "failed" => Excused(m) \/ HasColumns(m)
                      /\ docs[m].state = "raised" => Raises(m)
    OBVIOUS
  <2> DEFINE text == TextOf(m)
             clauses == text.clauses
             n == Len(clauses)
  <2>1. m \in InCall /\ \E r, g : Rendition(text, tables, r, g) /\ docs[m] = Outcome(m, g)
    BY DEF CodegenInv, DocsInv
  <2>2. PICK r, g : Rendition(text, tables, r, g) /\ docs[m] = Outcome(m, g)
    BY <2>1
  <2>3. /\ g.error # "none"
        /\ docs[m].state = "failed" => g.error = "semantic"
        /\ docs[m].state = "raised" => g.error # "semantic"
    BY <2>2 DEF Outcome, Undone, Document
  <2>4. text.name = m /\ IsBody(clauses) /\ \E first \in Nat : TableOf(text, tables[m], first)
    BY <2>1, InCallFacts
  <2>5. PICK first \in Nat : TableOf(text, tables[m], first)
    BY <2>4
  <2>6. /\ Begun(r) /\ r.module = m /\ r.tables = tables /\ r.importMap = JsonImports(text, tables[m])
        /\ \/ \E i \in InBody(clauses, n) : FailsAt(r, clauses, i, g.error)
           \/ /\ g.error = "semantic"
              /\ \E u : PutOut(r, clauses, n, u) /\ ~(ToSet(tables[m].order) \subseteq DOMAIN u.out)
    BY <2>2, <2>3, <2>4 DEF Rendition
  <2>7. CASE \E i \in InBody(clauses, n) : FailsAt(r, clauses, i, g.error)
    <3>1. PICK i \in InBody(clauses, n) : FailsAt(r, clauses, i, g.error)
      BY <2>7
    <3>2. /\ g.error = "semantic" => Excused(m) \/ HasColumns(m)
          /\ g.error # "semantic" => Raises(m)
      BY <2>1, <2>3, <2>6, <3>1, ClauseFails
    <3> QED
      BY <2>3, <3>2
  <2>8. CASE /\ g.error = "semantic"
             /\ \E u : PutOut(r, clauses, n, u) /\ ~(ToSet(tables[m].order) \subseteq DOMAIN u.out)
    <3> SUFFICES ASSUME ~HasColumns(m) PROVE FALSE
      BY <2>3, <2>8
    <3>1. PICK u : PutOut(r, clauses, n, u) /\ ~(ToSet(tables[m].order) \subseteq DOMAIN u.out)
      BY <2>8
    <3>2. \A k \in DOMAIN clauses : Columns(clauses[k]) = 0
      BY DEF HasColumns
    <3>3. n \in 0..n
      BY <2>4, SeqFacts DEF IsBody
    <3>4. r.fakeidx \in Nat
      BY <2>6 DEF Begun
    <3>5. FakeNames(r.fakeidx, Numbers(clauses)[n]) = {} /\ FakeNames(first, Numbers(clauses)[n]) = {}
      <4> HIDE DEF clauses
      <4> QED
        BY <2>4, <3>2, <3>3, <3>4, NoNumbers
    <3>6. ToSet(tables[m].order) = ClauseNames(clauses, n)
      BY <2>5, <3>5 DEF TableOf, View
    <3>7. DOMAIN u.out = ClauseNames(clauses, n)
      BY <3>1, <3>5 DEF PutOut
    <3> QED
      BY <3>1, <3>6, <3>7
  <2> QED
    BY <2>6, <2>7, <2>8
<1> QED
  BY <1>1, CodegenKeeps, PTL

-------------------------------------------------------------------------------
(* What is put out is numbered under its parent. *)

LEMMA AppendConcat ==
  ASSUME NEW a \in Seq(Nat), NEW b \in Seq(Nat), NEW x \in Nat
  PROVE  a \o Append(b, x) = Append(a \o b, x)
<1>1. Append(b, x) = b \o <<x>> /\ Append(a \o b, x) = (a \o b) \o <<x>>
  BY AppendIsConcat, ConcatProperties
<1>2. <<x>> \in Seq(Nat)
  OBVIOUS
<1> QED
  BY <1>1, <1>2, ConcatAssociative

(* A number found by shorter walks is found by longer ones.                     *)
LEMMA Steady ==
  ASSUME CodegenInv, NEW w, Counts(w), NEW n \in Nat, n + 1 <= Fuel,
         NEW ref \in Known(tables), w[n][ref].error = "none"
  PROVE  w[n + 1][ref] = w[n][ref]
<1> DEFINE S == {k \in Nat : k + 1 <= Fuel =>
                   \A r \in Known(tables) : w[k][r].error = "none" => w[k + 1][r] = w[k][r]}
<1>1. Fuel \in Nat
  BY KnownFinite
<1>2. 0 \in S
  BY DEF Counts, Bad
<1>3. ASSUME NEW k \in Nat, k \in S PROVE k + 1 \in S
  <2> DEFINE k1 == k + 1
  <2> SUFFICES ASSUME k1 + 1 <= Fuel, NEW r \in Known(tables), w[k1][r].error = "none"
               PROVE  w[k1 + 1][r] = w[k1][r]
    OBVIOUS
  <2>1. k1 \in Nat /\ k + 1 <= Fuel
    BY <1>1
  <2> DEFINE e == Found(tables, r)
             up == e.oid.parent
  <2>2. /\ w[k1][r] = IF ~HasOid(e) THEN Bad("foreign") ELSE Numbered(tables, e.oid, w[k])
        /\ w[k1 + 1][r] = IF ~HasOid(e) THEN Bad("foreign") ELSE Numbered(tables, e.oid, w[k1])
    <3>1. w[k + 1][r] = IF ~HasOid(e) THEN Bad("foreign") ELSE Numbered(tables, e.oid, w[k])
      BY <2>1 DEF Counts
    <3> HIDE DEF k1
    <3>2. w[k1 + 1][r] = IF ~HasOid(e) THEN Bad("foreign") ELSE Numbered(tables, e.oid, w[k1])
      BY <2>1 DEF Counts
    <3> QED
      BY <3>1, <3>2 DEF k1
  <2>3. HasOid(e)
    BY <2>2 DEF Bad
  <2>4. up = None \/ IsRef(up)
    BY <2>3, KnownIs, EntryFacts
  <2>5. /\ w[k1][r] = Numbered(tables, e.oid, w[k]) /\ w[k1 + 1][r] = Numbered(tables, e.oid, w[k1])
    BY <2>2, <2>3
  <2>6. /\ Numbered(tables, e.oid, w[k]).error = "none"
    BY <2>5
  <2>7. \A r2 \in Known(tables) : w[k][r2].error = "none" => w[k1][r2] = w[k][r2]
    BY <1>3, <2>1
  <2> HIDE DEF k1, e
  <2>8. CASE up # None /\ up.name # "iso" /\ Has(tables, up)
    <3>1. up \in Known(tables)
      BY <2>4, <2>8, KnownIs
    <3>2. \A s : Numbered(tables, e.oid, s) =
                   IF s[up].error = "none" THEN Good(s[up].value \o e.oid.arcs) ELSE s[up]
      BY <2>8, NumberedFacts
    <3>3. w[k][up].error = "none"
      BY <2>6, <3>2
    <3>4. w[k1][up] = w[k][up]
      BY <2>7, <3>1, <3>3
    <3> QED
      BY <2>5, <3>2, <3>4
  <2>9. CASE ~(up # None /\ up.name # "iso" /\ Has(tables, up))
    <3>1. \A s, t : Numbered(tables, e.oid, s) = Numbered(tables, e.oid, t)
      <4>1. CASE up = None
        BY <4>1, NumberedFacts
      <4>2. CASE up # None /\ up.name = "iso"
        BY <4>2, NumberedFacts
      <4>3. CASE up # None /\ up.name # "iso" /\ ~Has(tables, up)
        BY <4>3, NumberedFacts
      <4> QED
        BY <2>9, <4>1, <4>2, <4>3
    <3> QED
      BY <2>5, <3>1
  <2> QED
    BY <2>8, <2>9
<1>4. Nat \subseteq S
  <2> HIDE DEF S
  <2> QED
    BY <1>2, <1>3, SetInduction
<1> QED
  BY <1>4

LEMMA Values ==
  ASSUME CodegenInv, NEW w, Counts(w), NEW n \in Nat, n <= Fuel,
         NEW ref \in Known(tables), w[n][ref].error = "none"
  PROVE  w[n][ref].value \in Seq(Nat)
<1> DEFINE S == {k \in Nat : k <= Fuel =>
                   \A r \in Known(tables) : w[k][r].error = "none" => w[k][r].value \in Seq(Nat)}
<1>1. Fuel \in Nat
  BY KnownFinite
<1>2. 0 \in S
  BY DEF Counts, Bad
<1>3. ASSUME NEW k \in Nat, k \in S PROVE k + 1 \in S
  <2> SUFFICES ASSUME k + 1 <= Fuel, NEW r \in Known(tables), w[k + 1][r].error = "none"
               PROVE  w[k + 1][r].value \in Seq(Nat)
    BY <1>3
  <2> DEFINE e == Found(tables, r)
             up == e.oid.parent
             x == w[k + 1][r]
  <2>1. x = IF ~HasOid(e) THEN Bad("foreign") ELSE Numbered(tables, e.oid, w[k])
    BY DEF Counts
  <2>2. HasOid(e)
    BY <2>1 DEF Bad
  <2>3. (up = None \/ IsRef(up)) /\ e.oid.arcs \in Seq(Nat)
    BY <2>2, KnownIs, EntryFacts
  <2>4. x = Numbered(tables, e.oid, w[k]) /\ x.error = "none"
    BY <2>1, <2>2
  <2>5. \A y : Good(y).value = y /\ Good(y).error = "none" /\ Bad(y).error = y
    BY DEF Good, Bad
  <2>6. \A r2 \in Known(tables) : w[k][r2].error = "none" => w[k][r2].value \in Seq(Nat)
    BY <1>1, <1>3
  <2> DEFINE arcs == e.oid.arcs
  <2>7. /\ up = None => x = Good(arcs)
        /\ up # None /\ up.name = "iso" => x = Good(<<1>> \o arcs)
        /\ up # None /\ up.name # "iso" /\ ~Has(tables, up) => x = Bad("semantic")
        /\ up # None /\ up.name # "iso" /\ Has(tables, up) =>
             x = IF w[k][up].error = "none" THEN Good(w[k][up].value \o arcs) ELSE w[k][up]
    <3> HIDE DEF e, x
    <3> QED
      BY <2>4, NumberedFacts
  <2>8. Has(tables, up) /\ up # None => up \in Known(tables)
    BY <2>3, KnownIs
  <2>9. arcs \in Seq(Nat) /\ <<1>> \in Seq(Nat)
    BY <2>3
  <2>10. \A a \in Seq(Nat) : a \o arcs \in Seq(Nat)
    BY <2>9, ConcatProperties
  <2> HIDE DEF e, x, up, arcs
  <2>11. CASE up = None
    BY <2>5, <2>7, <2>9, <2>11 DEF x
  <2>12. CASE up # None /\ up.name = "iso"
    <3> DEFINE y == <<1>> \o arcs
    <3>1. x = Good(y) /\ y \in Seq(Nat)
      BY <2>7, <2>9, <2>10, <2>12
    <3> HIDE DEF y
    <3>2. x.value = y
      BY <2>5, <3>1
    <3> QED
      BY <3>1, <3>2 DEF x
  <2>13. CASE up # None /\ up.name # "iso"
    <3>1. Has(tables, up)
      BY <2>4, <2>5, <2>7, <2>13
    <3>2. w[k][up].error = "none"
      BY <2>4, <2>7, <2>13, <3>1
    <3>3. w[k][up].value \in Seq(Nat)
      BY <2>6, <2>8, <2>13, <3>1, <3>2
    <3>4. w[k][up].value \o arcs \in Seq(Nat)
      BY <2>10, <3>3
    <3> DEFINE y == w[k][up].value \o arcs
    <3>5. x = Good(y) /\ y \in Seq(Nat)
      BY <2>7, <2>13, <3>1, <3>2, <3>4
    <3> HIDE DEF y
    <3>6. x.value = y
      BY <2>5, <3>5
    <3> QED
      BY <3>5, <3>6 DEF x
  <2> QED
    BY <2>11, <2>12, <2>13
<1>4. Nat \subseteq S
  <2> HIDE DEF S
  <2> QED
    BY <1>2, <1>3, SetInduction
<1> QED
  BY <1>4

(* The number a symbol is used with is the one it is put out with.              *)
LEMMA SettledNumber ==
  ASSUME CodegenInv, NEW w, Counts(w), \A oid : NumericOid(tables, oid) = Numbered(tables, oid, w[Fuel]),
         NEW ref \in Known(tables), w[Fuel][ref].error = "none"
  PROVE  HasOid(Found(tables, ref)) /\ NumericOid(tables, Found(tables, ref).oid) = w[Fuel][ref]
<1> DEFINE e == Found(tables, ref)
           up == e.oid.parent
           arcs == e.oid.arcs
<1>1. Fuel \in Nat
  BY KnownFinite
<1>2. Fuel # 0
  BY DEF Counts, Bad
<1>3. PICK k \in Nat : k + 1 = Fuel
  <2>1. Fuel - 1 \in Nat /\ (Fuel - 1) + 1 = Fuel
    BY <1>1, <1>2
  <2> QED
    BY <2>1
<1>4. w[Fuel][ref] = IF ~HasOid(e) THEN Bad("foreign") ELSE Numbered(tables, e.oid, w[k])
  BY <1>1, <1>3 DEF Counts
<1>5. HasOid(e) /\ w[Fuel][ref] = Numbered(tables, e.oid, w[k])
  BY <1>4 DEF Bad
<1>6. up = None \/ IsRef(up)
  BY <1>5, KnownIs, EntryFacts
<1>7. NumericOid(tables, e.oid) = Numbered(tables, e.oid, w[Fuel])
  OBVIOUS
<1> HIDE DEF e
<1>8. CASE up # None /\ up.name # "iso" /\ Has(tables, up)
  <2>1. up \in Known(tables)
    BY <1>6, <1>8, KnownIs
  <2>2. \A s : Numbered(tables, e.oid, s) =
                 IF s[up].error = "none" THEN Good(s[up].value \o arcs) ELSE s[up]
    BY <1>8, NumberedFacts
  <2>3. w[k][up].error = "none"
    BY <1>5, <2>2
  <2>4. w[Fuel][up] = w[k][up]
    BY <1>1, <1>3, <2>1, <2>3, Steady
  <2> QED
    BY <1>5, <1>7, <2>2, <2>4 DEF e
<1>9. CASE ~(up # None /\ up.name # "iso" /\ Has(tables, up))
  <2>1. \A s, t : Numbered(tables, e.oid, s) = Numbered(tables, e.oid, t)
    <3>1. CASE up = None
      BY <3>1, NumberedFacts
    <3>2. CASE up # None /\ up.name = "iso"
      BY <3>2, NumberedFacts
    <3>3. CASE up # None /\ up.name # "iso" /\ ~Has(tables, up)
      BY <3>3, NumberedFacts
    <3> QED
      BY <1>9, <3>1, <3>2, <3>3
  <2> QED
    BY <1>5, <1>7, <2>1 DEF e
<1> QED
  BY <1>8, <1>9

(* A column is numbered under its row.                                          *)
LEMMA ColumnNumber ==
  ASSUME CodegenInv, NEW oid, oid.arcs \in Seq(Nat), oid.parent = None \/ IsRef(oid.parent),
         NumericOid(tables, oid).error = "none", NEW number \in Nat
  PROVE  LET p == [parent |-> oid.parent, arcs |-> Append(oid.arcs, number)]
         IN NumericOid(tables, p) = Good(Append(NumericOid(tables, oid).value, number))
<1> DEFINE p == [parent |-> oid.parent, arcs |-> Append(oid.arcs, number)]
           up == oid.parent
           x == NumericOid(tables, oid)
           y == NumericOid(tables, p)
<1>1. Fuel \in Nat
  BY KnownFinite
<1>2. PICK w : Counts(w) /\ \A o : NumericOid(tables, o) = Numbered(tables, o, w[Fuel])
  BY <1>1, NumberIs
<1> DEFINE s == w[Fuel]
<1>3. p.parent = up /\ p.arcs = Append(oid.arcs, number)
  OBVIOUS
<1>4. x = Numbered(tables, oid, s) /\ y = Numbered(tables, p, s)
  BY <1>2
<1> HIDE DEF p, x, y
<1>5. /\ up = None => x = Good(oid.arcs)
      /\ up # None /\ up.name = "iso" => x = Good(<<1>> \o oid.arcs)
      /\ up # None /\ up.name # "iso" /\ ~Has(tables, up) => x = Bad("semantic")
      /\ up # None /\ up.name # "iso" /\ Has(tables, up) =>
           x = IF s[up].error = "none" THEN Good(s[up].value \o oid.arcs) ELSE s[up]
  <2> HIDE DEF s
  <2> QED
    BY <1>4, NumberedFacts
<1>6. /\ up = None => y = Good(p.arcs)
      /\ up # None /\ up.name = "iso" => y = Good(<<1>> \o p.arcs)
      /\ up # None /\ up.name # "iso" /\ Has(tables, up) =>
           y = IF s[up].error = "none" THEN Good(s[up].value \o p.arcs) ELSE s[up]
  <2>1. LET z == Numbered(tables, p, s)
        IN /\ p.parent = None => z = Good(p.arcs)
           /\ p.parent # None /\ p.parent.name = "iso" => z = Good(<<1>> \o p.arcs)
           /\ p.parent # None /\ p.parent.name # "iso" /\ Has(tables, p.parent) =>
                z = IF s[p.parent].error = "none" THEN Good(s[p.parent].value \o p.arcs) ELSE s[p.parent]
    <3> HIDE DEF s
    <3> QED
      BY NumberedFacts
  <2> HIDE DEF s
  <2> QED
    BY <1>3, <1>4, <2>1
<1>7. \A v : Good(v).value = v /\ Good(v).error = "none" /\ Bad(v).error = v
  BY DEF Good, Bad
<1>8. x.error = "none"
  BY DEF x
<1>9. <<1>> \in Seq(Nat) /\ \A a \in Seq(Nat) : a \o p.arcs = Append(a \o oid.arcs, number)
  <2>1. <<1>> \in Seq(Nat)
    OBVIOUS
  <2> QED
    BY <1>3, <2>1, AppendConcat
<1>10. CASE up = None
  BY <1>3, <1>5, <1>6, <1>7, <1>10 DEF x, y, p
<1>11. CASE up # None /\ up.name = "iso"
  <2> DEFINE a == <<1>> \o oid.arcs
  <2>1. x = Good(a) /\ y = Good(Append(a, number))
    <3>1. <<1>> \o p.arcs = Append(a, number)
      BY <1>9
    <3> QED
      BY <1>5, <1>6, <1>11, <3>1
  <2> HIDE DEF a
  <2>2. x.value = a
    BY <1>7, <2>1
  <2> QED
    BY <2>1, <2>2 DEF x, y, p
<1>12. CASE up # None /\ up.name # "iso"
  <2>1. Has(tables, up)
    BY <1>5, <1>7, <1>8, <1>12
  <2>2. up \in Known(tables)
    BY <1>12, <2>1, KnownIs
  <2>3. s[up].error = "none"
    BY <1>5, <1>8, <1>12, <2>1
  <2>4. s[up].value \in Seq(Nat)
    BY <1>1, <1>2, <2>2, <2>3, Values
  <2> DEFINE a == s[up].value \o oid.arcs
  <2>5. x = Good(a) /\ y = Good(Append(a, number))
    <3>1. s[up].value \o p.arcs = Append(a, number)
      <4> DEFINE b == s[up].value
      <4>1. b \in Seq(Nat)
        BY <2>4
      <4> HIDE DEF b, s
      <4>2. b \o p.arcs = Append(b \o oid.arcs, number)
        BY <1>9, <4>1
      <4> QED
        BY <4>2 DEF b
    <3> QED
      BY <1>5, <1>6, <1>12, <2>1, <2>3, <3>1
  <2> HIDE DEF a
  <2>6. x.value = a
    BY <1>7, <2>5
  <2> QED
    BY <2>5, <2>6 DEF x, y, p
<1> QED
  BY <1>10, <1>11, <1>12

(* No two columns of a number share a name. *)
Distinct == \A i, j \in Nat : FakeName(i) = FakeName(j) => i = j

(* The columns of the table are among those put out: both counters stood at the *)
(* same number.                                                                 *)
LEMMA SameStart ==
  ASSUME Distinct, NEW a \in Nat, NEW b \in Nat, NEW n \in Nat, n # 0,
         FakeNames(a, n) \subseteq FakeNames(b, n)
  PROVE  a = b
<1>1. 1 \in 1..n /\ n \in 1..n /\ a + 1 - 1 = a
  OBVIOUS
<1>2. FakeName(a) \in FakeNames(b, n) /\ FakeName(a + n - 1) \in FakeNames(b, n)
  <2>1. FakeName(a + 1 - 1) \in FakeNames(a, n) /\ FakeName(a + n - 1) \in FakeNames(a, n)
    BY <1>1 DEF FakeNames
  <2> QED
    BY <1>1, <2>1
<1>3. PICK k \in 1..n : FakeName(a) = FakeName(b + k - 1)
  BY <1>2 DEF FakeNames
<1>4. PICK l \in 1..n : FakeName(a + n - 1) = FakeName(b + l - 1)
  BY <1>2 DEF FakeNames
<1>5. b + k - 1 \in Nat /\ a + n - 1 \in Nat /\ b + l - 1 \in Nat
  OBVIOUS
<1>6. a = b + k - 1 /\ a + n - 1 = b + l - 1
  BY <1>3, <1>4, <1>5 DEF Distinct
<1> QED
  BY <1>6

(* A column is counted. *)
LEMMA ColumnCounted ==
  ASSUME NEW clauses, IsBody(clauses), NEW i \in 1..Len(clauses), NEW k \in 1..Cols(clauses[i])
  PROVE  Numbers(clauses)[Len(clauses)] # 0
<1> DEFINE at == Numbers(clauses)
           n == Len(clauses)
           S == {d \in Nat : i + d <= n => at[i + d] # 0}
<1>1. n \in Nat /\ i \in Nat /\ i >= 1 /\ i <= n
  BY SeqFacts DEF IsBody
<1>2. /\ \A j \in 1..n : at[j] = at[j - 1] + Cols(clauses[j])
      /\ \A j \in 0..n : at[j] \in Nat
  BY NumbersFacts
<1>3. \A j \in 1..n : Cols(clauses[j]) \in Nat
  BY ColsNat DEF IsBody
<1> HIDE DEF at
<1>4. 0 \in S
  <2>1. i \in 1..n /\ i - 1 \in 0..n /\ i + 0 = i
    BY <1>1
  <2>2. at[i] = at[i - 1] + Cols(clauses[i]) /\ at[i - 1] \in Nat /\ Cols(clauses[i]) \in Nat
    BY <1>2, <1>3, <2>1
  <2>3. Cols(clauses[i]) # 0
    BY <2>2
  <2> QED
    BY <2>1, <2>2, <2>3
<1>5. ASSUME NEW d \in Nat, d \in S PROVE d + 1 \in S
  <2> SUFFICES ASSUME i + (d + 1) <= n PROVE at[i + (d + 1)] # 0
    BY <1>5
  <2> DEFINE j == i + (d + 1)
  <2>1. j \in 1..n /\ j - 1 = i + d /\ i + d <= n /\ i + d \in 0..n
    BY <1>1
  <2> HIDE DEF j
  <2>2. at[j] = at[j - 1] + Cols(clauses[j]) /\ Cols(clauses[j]) \in Nat /\ at[i + d] \in Nat
    BY <1>2, <1>3, <2>1
  <2>3. at[i + d] # 0
    BY <1>5, <2>1
  <2>4. at[j] # 0
    BY <2>1, <2>2, <2>3
  <2> QED
    BY <2>4 DEF j
<1>6. Nat \subseteq S
  <2> HIDE DEF S
  <2> QED
    BY <1>4, <1>5, SetInduction
<1>7. n - i \in Nat /\ i + (n - i) = n
  BY <1>1
<1>8. at[n] # 0
  BY <1>1, <1>6, <1>7
<1> QED
  BY <1>8 DEF at

(* A rendered module puts out what is in its table, each under its number.      *)
LEMMA RenderedNumbers ==
  ASSUME CodegenInv, Distinct, NEW m \in Rendered
  PROVE  /\ DOMAIN docs[m].out = DOMAIN Symbols(m)
         /\ \A s \in DOMAIN Symbols(m) : HasOid(Symbols(m)[s]) =>
              LET x == NumericOid(tables, Symbols(m)[s].oid)
              IN x.error = "none" /\ docs[m].out[s].oid = x.value
<1> DEFINE text == TextOf(m)
           clauses == text.clauses
           n == Len(clauses)
           table == tables[m]
           v == View(text, table)
           at == Numbers(clauses)
<1>1. /\ m \in InCall /\ text.name = m /\ text \in Texts /\ IsBody(clauses)
      /\ \E first \in Nat : TableOf(text, table, first)
  BY RenderedFacts, InCallFacts
<1>2. PICK first \in Nat : TableOf(text, table, first)
  BY <1>1
<1>3. PICK r, g : /\ Rendition(text, tables, r, g) /\ g.error = "none"
                  /\ docs[m] = Document("rendered", table.order, g)
  BY RenderedFacts
<1>4. /\ docs[m].out = g.out /\ PutOut(r, clauses, n, g) /\ ToSet(table.order) \subseteq DOMAIN g.out
      /\ r.module = m /\ r.tables = tables /\ r.importMap = JsonImports(text, table) /\ r.fakeidx \in Nat
  BY <1>1, <1>3 DEF Document, Rendition, Begun
<1>5. n \in Nat /\ n \in 0..n /\ at[n] \in Nat
  <2>1. n \in Nat
    BY <1>1, SeqFacts DEF IsBody
  <2>2. at[n] \in Nat
    <3>1. n \in 0..n
      BY <2>1
    <3> QED
      BY <1>1, <3>1, NumbersFacts
  <2> QED
    BY <2>1, <2>2
<1>6. /\ DOMAIN table.out = ClauseNames(clauses, n) \cup FakeNames(first, at[n])
      /\ ClauseNames(clauses, n) \cap FakeNames(first, at[n]) = {}
      /\ ToSet(table.order) = DOMAIN table.out
  BY <1>2 DEF TableOf, View
<1>7. DOMAIN g.out = ClauseNames(clauses, n) \cup FakeNames(r.fakeidx, at[n])
  BY <1>4 DEF PutOut
<1>8. at[n] # 0 => first = r.fakeidx
  <2>1. FakeNames(first, at[n]) \subseteq FakeNames(r.fakeidx, at[n])
    BY <1>4, <1>6, <1>7
  <2> HIDE DEF at
  <2> QED
    BY <1>4, <1>5, <2>1, SameStart
<1>9. DOMAIN docs[m].out = DOMAIN Symbols(m)
  <2>1. FakeNames(first, 0) = {} /\ FakeNames(r.fakeidx, 0) = {}
    BY DEF FakeNames
  <2>2. FakeNames(first, at[n]) = FakeNames(r.fakeidx, at[n])
    <3> HIDE DEF at
    <3>1. CASE at[n] = 0
      BY <2>1, <3>1
    <3>2. CASE at[n] # 0
      BY <1>8, <3>2
    <3> QED
      BY <3>1, <3>2
  <2> QED
    BY <1>4, <1>6, <1>7, <2>2 DEF Symbols
<1>10. ASSUME NEW i \in InBody(clauses, n), clauses[i].kind # "type"
       PROVE  LET c == clauses[i]
                  ref == [name |-> c.name, module |-> m]
              IN /\ HasOid(table.out[c.name]) /\ NumberOf(r, c) = NumericOid(tables, table.out[c.name].oid)
                 /\ NumberOf(r, c).error = "none"
  <2> DEFINE c == clauses[i]
             ref == [name |-> c.name, module |-> m]
  <2>1. HasOid(Found(tables, ref)) /\ NumberOf(r, c) = NumericOid(tables, Found(tables, ref).oid)
    BY <1>1, <1>4, <1>10, ClauseNumber
  <2>2. Found(tables, ref) = table.out[c.name]
    BY DEF Found
  <2>3. NumberOf(r, c).error = "none"
    BY <1>4, <1>10 DEF PutOut
  <2> HIDE DEF c, ref, table
  <2> QED
    BY <2>1, <2>2, <2>3 DEF c
<1>11. ASSUME NEW s \in DOMAIN table.out, HasOid(table.out[s])
       PROVE  LET x == NumericOid(tables, table.out[s].oid)
              IN x.error = "none" /\ g.out[s].oid = x.value
  <2>1. Source(r, clauses, n, s, g.out[s])
    <3>1. s \in DOMAIN g.out
      BY <1>4, <1>6
    <3> QED
      BY <1>4, <3>1 DEF PutOut
  <2>2. CASE \E i \in InBody(clauses, n) : s = clauses[i].name /\ ItemOf(r, clauses[i], g.out[s])
    <3>1. PICK i \in InBody(clauses, n) : s = clauses[i].name /\ ItemOf(r, clauses[i], g.out[s])
      BY <2>2
    <3>2. clauses[i].kind # "type"
      <4>1. CASE clauses[i].kind = "type"
        <5> DEFINE ref == [name |-> clauses[i].name, module |-> m]
        <5>1. ~HasOid(Found(tables, ref))
          BY <1>1, <1>4, <4>1, ClauseNumber
        <5>2. Found(tables, ref) = table.out[s]
          BY <3>1 DEF Found
        <5> QED
          BY <1>11, <5>1, <5>2
      <4> QED
        BY <4>1
    <3>3. /\ NumberOf(r, clauses[i]) = NumericOid(tables, table.out[s].oid)
          /\ NumberOf(r, clauses[i]).error = "none"
      BY <1>10, <3>1, <3>2
    <3>4. g.out[s].oid = NumberOf(r, clauses[i]).value
      BY <3>1, <3>2 DEF ItemOf
    <3> HIDE DEF clauses, table
    <3> QED
      BY <3>3, <3>4
  <2>3. CASE \E i \in 1..n : \E k \in 1..Cols(clauses[i]) :
               LET number == r.fakeidx + at[i - 1] + k - 1
               IN s = FakeName(number) /\ g.out[s] = ColumnItem(NumberOf(r, clauses[i]).value, number)
    <3>1. PICK i \in 1..n : \E k \in 1..Cols(clauses[i]) :
               LET number == r.fakeidx + at[i - 1] + k - 1
               IN s = FakeName(number) /\ g.out[s] = ColumnItem(NumberOf(r, clauses[i]).value, number)
      BY <2>3
    <3>2. PICK k \in 1..Cols(clauses[i]) :
               LET number == r.fakeidx + at[i - 1] + k - 1
               IN s = FakeName(number) /\ g.out[s] = ColumnItem(NumberOf(r, clauses[i]).value, number)
      BY <3>1
    <3> DEFINE number == r.fakeidx + at[i - 1] + k - 1
               c == clauses[i]
               o == Oid(v, c.oid)
               p == [parent |-> o.parent, arcs |-> Append(o.arcs, number)]
    <3>3. s = FakeName(number) /\ g.out[s] = ColumnItem(NumberOf(r, c).value, number)
      BY <3>2
    <3>4. c.kind = "object" /\ i \in InBody(clauses, n)
      <4>1. c.kind = "object"
        BY <3>2 DEF Cols
      <4> QED
        BY <4>1 DEF InBody
    <3>5. at[n] # 0
      BY <1>1, <3>2, ColumnCounted
    <3>6. first = r.fakeidx
      BY <1>8, <3>5
    <3>7. number \in Nat
      <4>1. i - 1 \in 0..n
        BY <1>5
      <4>2. at[i - 1] \in Nat
        BY <1>1, <4>1, NumbersFacts
      <4>3. k \in Nat /\ k >= 1
        <5>1. Cols(clauses[i]) \in Nat
          BY <1>1, ColsNat DEF IsBody
        <5> QED
          BY <5>1
      <4> HIDE DEF at
      <4> QED
        BY <1>4, <4>2, <4>3
    <3>8. Entered(v, FakeSym(o, number))
      <4>1. \A j \in 1..n : \A l \in 1..Cols(clauses[j]) :
              Entered(v, FakeSym(Oid(v, clauses[j].oid), first + at[j - 1] + l - 1))
        BY <1>2 DEF TableOf
      <4>2. Entered(v, FakeSym(Oid(v, clauses[i].oid), first + at[i - 1] + k - 1))
        BY <3>2, <4>1
      <4> QED
        BY <3>6, <4>2
    <3> HIDE DEF number
    <3>9. table.out[s].oid = p
      <4> DEFINE sym == FakeSym(o, number)
      <4>1. sym.name = s /\ sym.entry = Entry(p, Untyped, Unrestricted)
        BY <3>3 DEF FakeSym
      <4>2. v.out[sym.name] = sym.entry
        BY <3>8 DEF Entered
      <4>3. v.out = table.out
        BY DEF View
      <4> HIDE DEF sym, v, table, p
      <4> QED
        BY <4>1, <4>2, <4>3, HasOidOf
    <3>10. NumberOf(r, c) = NumericOid(tables, o) /\ NumberOf(r, c).error = "none"
      <4>1. Oid(r, c.oid) = o
        BY <1>1, <1>4, OidSame DEF View
      <4>2. NumberOf(r, c).error = "none"
        BY <1>10, <3>4
      <4> HIDE DEF o
      <4> QED
        BY <1>4, <4>1, <4>2 DEF NumberOf
    <3>11. o.arcs \in Seq(Nat) /\ (o.parent = None \/ IsRef(o.parent))
      <4>1. c.oid.arcs \in Seq(Nat)
        <5>1. c \in ToSet(clauses)
          BY <1>1, SeqFacts DEF IsBody
        <5> HIDE DEF c, text
        <5> QED
          BY <1>1, <3>4, <5>1, TextsAreParsed
      <4> QED
        BY <4>1, RefsAre DEF Oid
    <3> HIDE DEF o
    <3>12. NumericOid(tables, p) = Good(Append(NumericOid(tables, o).value, number))
      BY <3>7, <3>10, <3>11, ColumnNumber
    <3>13. g.out[s].oid = Append(NumericOid(tables, o).value, number)
      BY <3>3, <3>10 DEF ColumnItem, Item
    <3> HIDE DEF p, c, table
    <3> QED
      BY <3>9, <3>12, <3>13 DEF Good
  <2> QED
    BY <2>1, <2>2, <2>3 DEF Source
<1> HIDE DEF table
<1> QED
  BY <1>4, <1>9, <1>11 DEF Symbols, table

(* Every child is numbered under its parent, in one module or two, whatever the *)
(* modules of the call and their order, where the names of the columns of two   *)
(* numbers differ, as "pysmiFakeCol" and the number do.                         *)
THEOREM RenderedUnderParents == ASSUME Distinct PROVE Spec => []ChildrenExtendParents
<1>1. CodegenInv => ChildrenExtendParents
  <2> SUFFICES ASSUME CodegenInv, NEW m \in Rendered, NEW s \in DOMAIN Symbols(m),
                      HasOid(Symbols(m)[s]),
                      Symbols(m)[s].oid.parent # None, Symbols(m)[s].oid.parent.name # "iso",
                      Symbols(m)[s].oid.parent.module \in Rendered,
                      Symbols(m)[s].oid.parent.name \in DOMAIN docs[Symbols(m)[s].oid.parent.module].out
               PROVE  docs[m].out[s].oid =
                        docs[Symbols(m)[s].oid.parent.module].out[Symbols(m)[s].oid.parent.name].oid
                          \o Symbols(m)[s].oid.arcs
    BY DEF ChildrenExtendParents
  <2> DEFINE e == Symbols(m)[s]
             up == e.oid.parent
             x == NumericOid(tables, e.oid)
             parent == docs[up.module].out[up.name].oid
  <2>1. x.error = "none" /\ docs[m].out[s].oid = x.value
    BY RenderedNumbers
  <2>2. Fuel \in Nat
    BY KnownFinite
  <2>3. PICK w : Counts(w) /\ \A o : NumericOid(tables, o) = Numbered(tables, o, w[Fuel])
    BY <2>2, NumberIs
  <2>4. up.name \in DOMAIN Symbols(up.module) /\ up.module \in DOMAIN tables
    BY RenderedNumbers, RenderedFacts, InCallFacts
  <2>5. Has(tables, up) /\ Found(tables, up) = Symbols(up.module)[up.name]
    <3> HIDE DEF up
    <3> QED
      BY <2>4 DEF Has, Found, Symbols
  <2>6. up \in Known(tables)
    <3> DEFINE ref == [name |-> s, module |-> m]
    <3>1. Has(tables, ref) /\ Found(tables, ref) = e
      <4>1. m \in DOMAIN tables
        BY RenderedFacts, InCallFacts
      <4> QED
        BY <4>1 DEF Has, Found, Symbols
    <3> HIDE DEF ref, e
    <3>2. up = None \/ IsRef(up)
      BY <3>1, EntryFacts DEF e
    <3> QED
      BY <2>5, <3>2, KnownIs DEF e
  <2> DEFINE y == w[Fuel][up]
  <2>7. x = IF y.error = "none" THEN Good(y.value \o e.oid.arcs) ELSE y
    <3>1. x = Numbered(tables, e.oid, w[Fuel])
      BY <2>3
    <3> HIDE DEF e, x
    <3>2. up # None /\ up.name # "iso"
      BY DEF e
    <3> QED
      BY <2>5, <3>1, <3>2, NumberedFacts
  <2>8. y.error = "none"
    <3> HIDE DEF x, y
    <3> QED
      BY <2>1, <2>7
  <2>9. HasOid(Found(tables, up)) /\ NumericOid(tables, Found(tables, up).oid) = y
    <3> HIDE DEF up
    <3> QED
      BY <2>3, <2>6, <2>8, SettledNumber
  <2>10. parent = y.value
    <3>1. up.module \in Rendered
      OBVIOUS
    <3> HIDE DEF up, y, parent
    <3> QED
      BY <2>4, <2>5, <2>9, <3>1, RenderedNumbers DEF parent
  <2>11. x.value = y.value \o e.oid.arcs
    <3> HIDE DEF x, y, e
    <3> QED
      BY <2>7, <2>8 DEF Good
  <2> QED
    BY <2>1, <2>10, <2>11
<1> QED
  BY <1>1, CodegenKeeps, PTL
===============================================================================
