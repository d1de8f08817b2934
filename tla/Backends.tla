-------------------------------- MODULE Backends --------------------------------
(* JsonCodeGen and PySnmpCodeGen: the clauses of one module are rendered in the *)
(* order of the text, names resolved through the symbol tables of the call, and *)
(* put out in the order of the module's own table. A result is a value or an    *)
(* error: "semantic" compile() takes for a failed module, "foreign" (KeyError,  *)
(* RecursionError) it does not catch.                                           *)
EXTENDS SymbolTable

Good(value) == [error |-> "none", value |-> value]
Bad(error) == [error |-> error, value |-> None]

(* tables: [module -> table], of the modules described in the call *)
Has(tables, ref) == ref.module \in DOMAIN tables /\ ref.name \in DOMAIN tables[ref.module].out
Found(tables, ref) == tables[ref.module].out[ref.name]

(* every symbol there is, as [name, module] *)
Known(tables) ==
  UNION {{[name |-> n, module |-> m] : n \in DOMAIN tables[m].out} : m \in DOMAIN tables}

(* mutant: the imports of the text alone *)
WithRepaired_AsParsed(text, table) == text.imports

(* with_repaired_imports *)
WithRepaired(text, table) == text.imports \cup table.repaired

(* The OID under its parent's number, above[parent]. *)
Numbered(tables, oid, above) ==
  LET up == oid.parent
      base == IF up.name = "iso" THEN Good(<<1>>)
              ELSE IF Has(tables, up) THEN above[up] ELSE Bad("semantic")
  IN IF up = None THEN Good(oid.arcs)
     ELSE IF base.error = "none" THEN Good(base.value \o oid.arcs) ELSE base

(* gen_numeric_oid, number[n] for the walks of n symbols: one that is longer   *)
(* than there are symbols has come back to a symbol the code is walking. A type *)
(* has no "oid" to look up.                                                    *)
NumericOid(tables, oid) ==
  LET number[n \in 0..Cardinality(Known(tables))] ==
        [ref \in Known(tables) |->
           IF n = 0 THEN Bad("semantic")
           ELSE IF ~HasOid(Found(tables, ref)) THEN Bad("foreign")
           ELSE Numbered(tables, Found(tables, ref).oid, number[n - 1])]
  IN Numbered(tables, oid, number[Cardinality(Known(tables))])

(* The way from a symbol from type to type: it ends at one of a base type, or  *)
(* of none, or where there is no symbol.                                       *)
Ends(tables, ref) == ~Has(tables, ref) \/ Found(tables, ref).type.name \in BaseTypes \cup {None}
Way(tables, ref) ==
  LET way[n \in 0..Cardinality(Known(tables))] ==
        IF n = 0 THEN ref
        ELSE LET r == way[n - 1] IN IF Ends(tables, r) THEN r ELSE Found(tables, r).type
  IN way
OnTheWay(tables, ref) == {r \in Range(Way(tables, ref)) : Has(tables, r)}

(* get_base_type: the base type and the names permitted by it and on the way;  *)
(* nothing stops it on types that derive from each other.                      *)
BaseType(tables, ref) ==
  LET last == Way(tables, ref)[Cardinality(Known(tables))]
      named == {r \in OnTheWay(tables, ref) : Found(tables, r).sub.sort = "names"}
  IN IF ~Ends(tables, last) THEN Bad("foreign")
     ELSE IF ~Has(tables, last) \/ Found(tables, last).type.name = None THEN Bad("semantic")
     ELSE Good([type |-> Found(tables, last).type.name,
                names |-> UNION {Found(tables, r).sub.permits : r \in named}])

Bounding(tables, ref) == Found(tables, ref).sub.sort \in {"range", "size"}

(* mutant: the innermost restriction alone *)
ValueRanges_Innermost(tables, ref) ==
  LET way == Way(tables, ref)
      Narrows(n) == Has(tables, way[n]) /\ Bounding(tables, way[n])
  IN {Found(tables, way[n]).sub : n \in {k \in DOMAIN way : Narrows(k) /\ \A j \in 0..(k - 1) : ~Narrows(j)}}

(* get_value_ranges: the restrictions on the way to the base type, each once *)
ValueRanges(tables, ref) ==
  {Found(tables, r).sub : r \in {x \in OnTheWay(tables, ref) : Bounding(tables, x)}}

(* defval_violates_syntax *)
Violates(tables, ref, kind, measure) ==
  \E r \in ValueRanges(tables, ref) : r.sort = kind /\ measure \notin r.permits

(* gen_def_val of both: the default, None where it is dropped, or an error *)
DefVal(tables, module, importMap, c) ==
  LET self == [name |-> c.name, module |-> module]
      base == BaseType(tables, self)
      d == c.default
      oidOf == Ref(importMap, d.value, module)
      Kept(kind) == Good(IF Violates(tables, self, kind, d.value) THEN None ELSE d)
      known == d.sort = "name" /\ (d.value \in DOMAIN importMap \/ d.value \in DOMAIN tables[module].out)
  IN IF d = None THEN Good(None)
     ELSE IF base.error # "none" THEN base
     ELSE IF d.sort = "number" THEN IF base.value.type = "OctetString" THEN Good(None) ELSE Kept("range")
     ELSE IF d.sort = "text"
          THEN IF d.value = 0 /\ base.value.type # "OctetString" THEN Good(None) ELSE Kept("size")
     ELSE IF base.value.type = "ObjectIdentifier" /\ known
          THEN IF Has(tables, oidOf) /\ HasOid(Found(tables, oidOf))
                  /\ NumericOid(tables, Found(tables, oidOf).oid).error = "none"
               THEN Good(d) ELSE Bad("semantic")
     ELSE IF base.value.type = "Integer32" /\ base.value.names # {}
          THEN Good(IF (IF d.sort = "bits" THEN d.value ELSE {d.value}) \cap base.value.names # {}
                    THEN d ELSE None)
     ELSE IF base.value.type = "Bits" /\ d.sort = "bits" /\ d.value \subseteq base.value.names
          THEN Good(d)
     ELSE Bad("semantic")

(* pysnmp's is a second text of the same rules *)
PyDefVal(tables, module, importMap, c) == DefVal(tables, module, importMap, c)

(* gen_imports of each back end, over the repaired imports *)
JsonImports(text, table) == Imports(WithRepaired(text, table))
PyImports(text, table) == JsonImports(text, table)

(* A generator at work on a module; seen and out are emptied for every module. *)
Start(text, tables, importMap, fakeidx, revision) ==
     [module |-> text.name, tables |-> tables, importMap |-> importMap,
      seen |-> DOMAIN importMap, out |-> <<>>, identified |-> FALSE,
      revision |-> revision, fakeidx |-> fakeidx, error |-> "none"]

Failed(g, result) == [g EXCEPT !.error = result.error]
NumberOf(g, c) == NumericOid(g.tables, Oid(g, c.oid))
PyNumberOf(g, c) == NumberOf(g, c)

Item(oid, default, refs, uses) == [oid |-> oid, default |-> default, refs |-> refs, uses |-> uses]
Register(g, name, item) ==
  IF name \in g.seen /\ name \notin DOMAIN g.importMap THEN [g EXCEPT !.error = "semantic"]
  ELSE [g EXCEPT !.seen = @ \cup {name}, !.out = Bind(@, name, item)]

(* reg_sym: a second MODULE-IDENTITY is refused *)
RegIdentity(g, name, item) ==
  IF g.identified THEN [g EXCEPT !.error = "semantic"]
  ELSE Register([g EXCEPT !.identified = TRUE], name, item)

(* the objects of a group, a notification or a trap, by the module they are of *)
References(g, c) == {Ref(g.importMap, c.objects[i], g.module) : i \in DOMAIN c.objects}
(* those of a compliance, by the module the clause names, None for its own *)
Required(g, c) == {[o EXCEPT !.module = IF @ = None THEN g.module ELSE @] : o \in Range(c.objects)}
PyRequired(g, c) == Required(g, c)

RenderNode(g, c, oid, refs) ==
  IF oid.error # "none" THEN Failed(g, oid)
  ELSE Register(g, c.name, Item(oid.value, None, refs, {}))

Plain(g, c) == RenderNode(g, c, NumberOf(g, c), {})
PyPlain(g, c) == RenderNode(g, c, PyNumberOf(g, c), {})

JsonIdentity(g, c) ==
  LET oid == NumberOf(g, c)
      dated == [g EXCEPT !.revision = IF c.revision = None THEN @ ELSE c.revision]
  IN IF oid.error # "none" THEN Failed(g, oid)
     ELSE RegIdentity(dated, c.name, Item(oid.value, None, {}, {}))
PyIdentity(g, c) == JsonIdentity(g, c)

JsonGroup(g, c) == RenderNode(g, c, NumberOf(g, c), References(g, c))
PyGroup(g, c) == RenderNode(g, c, PyNumberOf(g, c), References(g, c))
JsonTrap(g, c) == JsonGroup(g, c)
PyTrap(g, c) == PyGroup(g, c)

JsonCompliance(g, c) == RenderNode(g, c, NumberOf(g, c), Required(g, c))
PyCompliance(g, c) == RenderNode(g, c, PyNumberOf(g, c), PyRequired(g, c))

(* gen_capabilities: a default that does not fit the varied object, or is of   *)
(* another module's, is put out as it is written; pysnmp puts out nothing.     *)
Varied(g, v) == DefVal(g.tables, g.module, g.importMap, [name |-> v.object, default |-> v.default])
JsonCapabilities(g, c) ==
  IF \E v \in Range(c.varied) : Varied(g, v).error = "foreign" THEN [g EXCEPT !.error = "foreign"]
  ELSE RenderNode(g, c, NumberOf(g, c), Range(c.objects))
PyCapabilities(g, c) == PyPlain(g, c)

(* A table or a row is a class of pysnmp's own; any other type is a name the   *)
(* statement uses.                                                             *)
TypeUsed(g, c) ==
  IF c.type = None \/ c.rowOf # None \/ c.type \in g.tables[g.module].rows THEN {} ELSE {c.type}
JsonType(g, c) == Register(g, c.name, Item(None, None, {}, {}))
PyType(g, c) == Register(g, c.name, Item(None, None, {}, TypeUsed(g, c)))

(* gen_table_index and the end of gen_object_type: the columns that stand for  *)
(* base types, numbered by this generator's own counter and put under the row. *)
AddColumn(g, path, number) ==
  Register(g, FakeName(number), Item(Append(path, number), None, {}, {}))
AddColumns(g, first, c, path) ==
  LET after[n \in 0..Columns(c)] == IF n = 0 THEN g ELSE AddColumn(after[n - 1], path, first + n - 1)
  IN after[Columns(c)]

RenderObject(g, c, uses, default) ==
  LET counted == [g EXCEPT !.fakeidx = @ + Columns(c)]
      oid == NumberOf(g, c)
  IN IF oid.error # "none" THEN Failed(counted, oid)
     ELSE IF default.error # "none" THEN Failed(counted, default)
     ELSE AddColumns(Register(counted, c.name, Item(oid.value, default.value, {}, uses)),
                     g.fakeidx, c, oid.value)
JsonObject(g, c) == RenderObject(g, c, {}, DefVal(g.tables, g.module, g.importMap, c))
PyObject(g, c) ==
  RenderObject(g, c, TypeUsed(g, c) \cup (IF c.augments = None THEN {} ELSE {c.augments}),
               PyDefVal(g.tables, g.module, g.importMap, c))

JsonClause(g, c) ==
  IF g.error # "none" \/ c.kind = "sequence" THEN g
  ELSE CASE c.kind = "node" -> Plain(g, c)
         [] c.kind = "identity" -> JsonIdentity(g, c)
         [] c.kind = "group" -> JsonGroup(g, c)
         [] c.kind = "compliance" -> JsonCompliance(g, c)
         [] c.kind = "capabilities" -> JsonCapabilities(g, c)
         [] c.kind = "trap" -> JsonTrap(g, c)
         [] c.kind = "type" -> JsonType(g, c)
         [] c.kind = "object" -> JsonObject(g, c)
PyClause(g, c) ==
  IF g.error # "none" \/ c.kind = "sequence" THEN g
  ELSE CASE c.kind = "node" -> PyPlain(g, c)
         [] c.kind = "identity" -> PyIdentity(g, c)
         [] c.kind = "group" -> PyGroup(g, c)
         [] c.kind = "compliance" -> PyCompliance(g, c)
         [] c.kind = "capabilities" -> PyCapabilities(g, c)
         [] c.kind = "trap" -> PyTrap(g, c)
         [] c.kind = "type" -> PyType(g, c)
         [] c.kind = "object" -> PyObject(g, c)

(* The end of gen_code: the items in the order of the symbol table; a symbol   *)
(* that has none fails the module.                                             *)
Output(g) ==
  IF g.error # "none" \/ ToSet(g.tables[g.module].order) \subseteq DOMAIN g.out THEN g
  ELSE [g EXCEPT !.error = "semantic"]
RenderJson(text, tables, fakeidx, revision) ==
  LET after[n \in 0..Len(text.clauses)] ==
        IF n = 0 THEN Start(text, tables, JsonImports(text, tables[text.name]), fakeidx, revision)
        ELSE JsonClause(after[n - 1], text.clauses[n])
  IN Output(after[Len(text.clauses)])
(* the revision of the module before is forgotten *)
RenderPy(text, tables, fakeidx, revision) ==
  LET after[n \in 0..Len(text.clauses)] ==
        IF n = 0 THEN Start(text, tables, PyImports(text, tables[text.name]), fakeidx, None)
        ELSE PyClause(after[n - 1], text.clauses[n])
  IN Output(after[Len(text.clauses)])
===============================================================================
