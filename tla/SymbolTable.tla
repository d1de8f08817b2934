------------------------------ MODULE SymbolTable ------------------------------
(* SymtableCodeGen: the clauses of one module are entered in a table in the    *)
(* order of the text; one whose type is not known yet is held back. A module   *)
(* that left out an import its base modules settle is gone through again with  *)
(* the import added.                                                           *)
EXTENDS MibClauses, FiniteSets, SequencesExt, TLC

CONSTANTS Rank,        \* [module -> Nat], the order of the module names
          Canonical,   \* [name -> module], what the base modules export
          Always,      \* the imports every module is given
          Rewritten,   \* [[name, module] -> set of [name, module]], SMIv1 imports and what they became
          FakeName(_)  \* the name of the column of a number, "pysmiFakeCol" and the number

BaseTypes == {"Integer32", "Bits", "ObjectIdentifier", "OctetString"}
Classes == {"MibTable", "MibTableRow", "MibTableColumn"}

(* OBJECT-TYPE, which constImports gives every module, stands for the classes. *)
ASSUME ClassesAreImported == Classes \subseteq {i.name : i \in Always}

(* gen_imports: where each name is imported from; of two modules the later. *)
Imports(imports) ==
  LET v2 == (UNION {IF i \in DOMAIN Rewritten THEN Rewritten[i] ELSE {i} : i \in imports}) \cup Always
  IN [n \in {i.name : i \in v2} |->
        CHOOSE m \in {i.module : i \in v2} :
           /\ [name |-> n, module |-> m] \in v2
           /\ \A i \in v2 : i.name = n => Rank[i.module] <= Rank[m]]

(* the module a name is looked up in *)
Home(importMap, name, module) == IF name \in DOMAIN importMap THEN importMap[name] ELSE module

Ref(importMap, name, module) == [name |-> name, module |-> Home(importMap, name, module)]

Pass(text, importMap, fakeidx) ==
  [module |-> text.name, importMap |-> importMap, out |-> <<>>, order |-> <<>>,
   postponed |-> <<>>, rows |-> {}, parentOids |-> {}, fakeidx |-> fakeidx,
   error |-> FALSE]

AllParentsExist(s, parents) ==
  parents \subseteq DOMAIN s.out \cup DOMAIN s.importMap \cup BaseTypes \cup Classes \cup s.rows

(* f with x bound to v *)
Bind(f, x, v) == [n \in DOMAIN f \cup {x} |-> IF n = x THEN v ELSE f[n]]

Enter(s, sym) == [s EXCEPT !.out = Bind(@, sym.name, sym.entry), !.order = Append(@, sym.name)]

(* reg_postponed_syms: one pass over those held back, in the order they came *)
Retry(s, sym) ==
  IF AllParentsExist(s, sym.parents) THEN Enter(s, sym) ELSE [s EXCEPT !.postponed = Append(@, sym)]
RegPostponed(s) ==
  LET after[n \in 0..Len(s.postponed)] ==
        IF n = 0 THEN [s EXCEPT !.postponed = <<>>] ELSE Retry(after[n - 1], s.postponed[n])
  IN after[Len(s.postponed)]

RegSym(s, name, entry, parents) ==
  LET sym == [name |-> name, entry |-> entry, parents |-> parents]
  IN IF name \in DOMAIN s.out \/ \E i \in DOMAIN s.postponed : s.postponed[i].name = name
     THEN [s EXCEPT !.error = TRUE]
     ELSE IF AllParentsExist(s, parents) THEN RegPostponed(Enter(s, sym))
     ELSE [s EXCEPT !.postponed = Append(@, sym)]

(* gen_oid: the parent by the module it is looked up in *)
Oid(s, oid) ==
  [parent |-> IF oid.parent = None THEN None ELSE Ref(s.importMap, oid.parent, s.module),
   arcs |-> oid.arcs]
NoteOid(s, c) ==
  IF c.oid.parent = None THEN s
  ELSE [s EXCEPT !.parentOids = @ \cup {c.oid.parent}]

(* gen_simple_syntax, gen_row, gen_conceptual_table *)
TypeOf(s, c) ==
  IF c.rowOf # None THEN [name |-> "MibTable", module |-> None]
  ELSE IF c.type \in s.rows THEN [name |-> "MibTableRow", module |-> None]
  ELSE IF c.type \in BaseTypes THEN [name |-> c.type, module |-> None]
  ELSE Ref(s.importMap, c.type, s.module)

(* A type is entered without an OID. *)
TypeEntry(type, sub) == [type |-> type, sub |-> sub]
Entry(oid, type, sub) == [oid |-> oid, type |-> type, sub |-> sub]
HasOid(entry) == "oid" \in DOMAIN entry
Untyped == [name |-> None, module |-> None]

Node(s, c) == RegSym(s, c.name, Entry(Oid(s, c.oid), Untyped, Unrestricted), {})

Type(s, c) == RegSym(s, c.name, TypeEntry(TypeOf(s, c), c.sub), {TypeOf(s, c).name})

(* gen_index_clause and the head of gen_object_type: a column for every index  *)
(* that names a base type. The numbers go on from module to module.            *)
Columns(c) == Cardinality({i \in DOMAIN c.index : c.index[i] \in IndexTypes})
Column(s, oid, number) ==
  RegSym(s, FakeName(number),
         Entry([parent |-> oid.parent, arcs |-> Append(oid.arcs, number)], Untyped, Unrestricted), {})
Fakes(s, c) ==
  LET after[n \in 0..Columns(c)] ==
        IF n = 0 THEN [s EXCEPT !.fakeidx = @ + Columns(c)]
        ELSE Column(after[n - 1], Oid(s, c.oid), s.fakeidx + n - 1)
  IN after[Columns(c)]

(* mutant: the entry an object augments does not hold it back *)
Object_NoAugments(s, c) ==
  LET noted == [s EXCEPT !.rows = IF c.rowOf = None THEN @ ELSE @ \cup {c.rowOf}]
  IN RegSym(Fakes(noted, c), c.name, Entry(Oid(noted, c.oid), TypeOf(noted, c), c.sub), {TypeOf(noted, c).name})

Object(s, c) ==
  LET noted == [s EXCEPT !.rows = IF c.rowOf = None THEN @ ELSE @ \cup {c.rowOf}]
  IN RegSym(Fakes(noted, c), c.name, Entry(Oid(noted, c.oid), TypeOf(noted, c), c.sub),
            {TypeOf(noted, c).name} \cup (IF c.augments = None THEN {} ELSE {c.augments}))

Declare(s, c) ==
  IF s.error \/ c.kind = "sequence" THEN s
  ELSE IF c.kind = "type" THEN Type(s, c)
  ELSE IF c.kind = "object" THEN Object(NoteOid(s, c), c)
  ELSE Node(NoteOid(s, c), c)

Go(text, imports, fakeidx) ==
  LET after[n \in 0..Len(text.clauses)] ==
        IF n = 0 THEN Pass(text, Imports(imports), fakeidx) ELSE Declare(after[n - 1], text.clauses[n])
  IN after[Len(text.clauses)]

(* missing_canonical_imports, as [name, module] *)
Missing(s) ==
  LET unresolved == s.parentOids \cup UNION {s.postponed[i].parents : i \in DOMAIN s.postponed}
  IN {[name |-> n, module |-> Canonical[n]] :
        n \in (unresolved \cap DOMAIN Canonical) \ (DOMAIN s.out \cup DOMAIN s.importMap)}

(* What one run of the generator leaves: the table, or none where it refused   *)
(* the module; the imports it repaired; and its counter.                       *)
Described(text, repair, fakeidx) ==
  LET first == Go(text, text.imports, fakeidx)
      repaired == IF repair /\ ~first.error THEN Missing(first) ELSE {}
      last == IF repaired = {} THEN first ELSE Go(text, text.imports \cup repaired, first.fakeidx)
  IN [ok |-> /\ ~last.error
             /\ last.postponed = <<>>
             /\ last.parentOids \subseteq DOMAIN last.out \cup DOMAIN last.importMap,
      table |-> [out |-> last.out, order |-> last.order, rows |-> last.rows, repaired |-> repaired],
      unknown |-> last.postponed,
      fakeidx |-> last.fakeidx,
      imported |-> {last.importMap[n] : n \in DOMAIN last.importMap}]
===============================================================================
