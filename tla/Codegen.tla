-------------------------------- MODULE Codegen --------------------------------
(* The symbol table generator and a back end over the calls of compile() of one *)
(* compiler: every text read is described, in the order it is read; then those   *)
(* modules that need it are rendered, in that order, through the tables of the   *)
(* call. The generators outlive the call and keep their counters.                *)
EXTENDS Backends

CONSTANTS Texts,       \* the module texts there are
          MaxReads     \* bound: texts read over all calls

ASSUME ReadsBounded == MaxReads \in Nat

(* what the grammar makes of a text *)
Kinds == {"node", "identity", "group", "compliance", "capabilities", "trap", "type", "object", "sequence"}
ASSUME TextsAreParsed ==
  /\ IsFiniteSet(Texts)
  /\ \A t \in Texts :
       /\ t.clauses \in Seq(ToSet(t.clauses))
       /\ \A c \in ToSet(t.clauses) :
            /\ c.kind \in Kinds
            /\ c.index \in Seq(ToSet(c.index))
            /\ c.kind \in {"type", "sequence"} \/ c.oid.arcs \in Seq(Nat)
            /\ c.default = None \/ c.default.sort \in {"number", "text", "name", "bits"}

VARIABLES backend,     \* "json" or "pysnmp"
          repair,      \* the repairImports option
          phase,       \* "analysing", "rendering", "raised"
          trees,       \* the texts described in this call, one per module, in order
          tables,      \* symbolTableMap: [module -> table]
          refused,     \* modules the symbol table refused, with what it held back
          pending,     \* the modules still to be rendered
          docs,        \* [module -> what became of it in the call]
          symfake,     \* SymtableCodeGen.fakeidx
          genfake,     \* the back end's own
          revision,    \* its _moduleRevision
          reads
vars == <<backend, repair, phase, trees, tables, refused, pending, docs, symfake, genfake,
          revision, reads>>

MODULES == {t.name : t \in Texts}
NoTables == [m \in {} |-> None]

Document(state, order, g) ==
  [state |-> state, order |-> order, out |-> g.out, importMap |-> g.importMap, revision |-> g.revision]
Undone(state) == Document(state, <<>>, [out |-> <<>>, importMap |-> <<>>, revision |-> None])
NoDocs == [m \in MODULES |-> Undone("none")]

Init ==
  /\ backend \in {"json", "pysnmp"} /\ repair \in BOOLEAN
  /\ phase = "analysing" /\ trees = <<>> /\ tables = NoTables /\ refused = {}
  /\ pending = {} /\ docs = NoDocs
  /\ symfake = 1000 /\ genfake = 1000 /\ revision = None /\ reads = 0

NamesOf(texts) == [i \in DOMAIN texts |-> texts[i].name]

(* parsedMibs and symbolTableMap: a module read again keeps its place *)
Kept(text) ==
  IF text.name \in ToSet(NamesOf(trees))
  THEN [i \in DOMAIN trees |-> IF trees[i].name = text.name THEN text ELSE trees[i]]
  ELSE Append(trees, text)

(* mutant: a module read again keeps the first table it was given *)
Describe_FirstTable(text) ==
  LET d == Described(text, repair, symfake)
  IN /\ phase = "analysing" /\ reads < MaxReads
     /\ trees' = IF d.ok THEN Kept(text) ELSE trees
     /\ tables' = IF d.ok /\ text.name \notin DOMAIN tables THEN Bind(tables, text.name, d.table) ELSE tables
     /\ refused' = IF d.ok THEN refused ELSE refused \cup {[text |-> text, unknown |-> d.unknown]}
     /\ symfake' = d.fakeidx
     /\ reads' = reads + 1
     /\ UNCHANGED <<backend, repair, phase, pending, docs, genfake, revision>>

(* the next text of the call goes through SymtableCodeGen.gen_code() *)
Describe(text) ==
  LET d == Described(text, repair, symfake)
  IN /\ phase = "analysing" /\ reads < MaxReads
     /\ trees' = IF d.ok THEN Kept(text) ELSE trees
     /\ tables' = IF d.ok THEN Bind(tables, text.name, d.table) ELSE tables
     /\ refused' = IF d.ok THEN refused ELSE refused \cup {[text |-> text, unknown |-> d.unknown]}
     /\ symfake' = d.fakeidx
     /\ reads' = reads + 1
     /\ UNCHANGED <<backend, repair, phase, pending, docs, genfake, revision>>

(* Those found current, excluded by noDeps or taken down are not rendered. *)
Analysed ==
  /\ phase = "analysing"
  /\ pending' \in (SUBSET ToSet(NamesOf(trees))) \ {{}}
  /\ phase' = "rendering"
  /\ UNCHANGED <<backend, repair, trees, tables, refused, docs, symfake, genfake, revision, reads>>

PlaceOf(m) == CHOOSE i \in DOMAIN trees : trees[i].name = m
TextOf(m) == trees[PlaceOf(m)]

Rendering(m) ==
  IF backend = "json" THEN RenderJson(TextOf(m), tables, genfake, revision)
  ELSE RenderPy(TextOf(m), tables, genfake, revision)

Outcome(m, g) ==
  IF g.error = "none" THEN Document("rendered", tables[m].order, g)
  ELSE Undone(IF g.error = "semantic" THEN "failed" ELSE "raised")

(* gen_code() of the back end, for the first that is left; an error that is    *)
(* not a PySmiError ends the call                                              *)
Render ==
  \E m \in pending :
    LET g == Rendering(m)
    IN /\ phase = "rendering"
       /\ \A other \in pending : PlaceOf(m) <= PlaceOf(other)
       /\ docs' = [docs EXCEPT ![m] = Outcome(m, g)]
       /\ phase' = IF g.error = "foreign" THEN "raised" ELSE phase
       /\ pending' = pending \ {m}
       /\ genfake' = g.fakeidx /\ revision' = g.revision
       /\ UNCHANGED <<backend, repair, trees, tables, refused, symfake, reads>>

(* another compile() of the same compiler *)
Begin ==
  /\ phase = "raised" \/ (phase = "rendering" /\ pending = {})
  /\ phase' = "analysing" /\ trees' = <<>> /\ tables' = NoTables /\ refused' = {}
  /\ pending' = {} /\ docs' = NoDocs
  /\ UNCHANGED <<backend, repair, symfake, genfake, revision, reads>>

Next == (\E text \in Texts : Describe(text)) \/ Analysed \/ Render \/ Begin
Spec == Init /\ [][Next]_vars
--------------------------------------------------------------------------------
Rendered == {m \in MODULES : docs[m].state = "rendered"}
Symbols(m) == tables[m].out

(* What a symbol leads to in the tables: its OID's parent, but for "iso" at the *)
(* top, or its type; and so on, as far as the tables go.                       *)
Above(ref) == IF Has(tables, ref) /\ HasOid(Found(tables, ref))
              THEN {up \in {Found(tables, ref).oid.parent} : up # None /\ up.name # "iso"} ELSE {}
Types(ref) == IF Has(tables, ref) /\ Found(tables, ref).type.name \notin BaseTypes \cup {None}
              THEN {Found(tables, ref).type} ELSE {}
Reach(Lead(_), refs) ==
  LET within[n \in 0..Cardinality(Known(tables))] ==
        IF n = 0 THEN refs
        ELSE LET near == within[n - 1] IN near \cup UNION {Lead(r) : r \in near}
  IN within[Cardinality(Known(tables))]
Circular(Lead(_), ref) == ref \in Reach(Lead, Lead(ref))
Endless(Lead(_), ref) == \E r \in Reach(Lead, {ref}) : Circular(Lead, r)
Dangling(Lead(_), ref) == \E r \in Reach(Lead, {ref}) : ~Has(tables, r)

(* Every child is numbered under its parent: where both are put out in a call, *)
(* in one module or two, the child's OID is the parent's with the child's arcs *)
(* (gen_numeric_oid over the tables of all modules). Only "iso" is 1 whatever  *)
(* a text declares by that name (jsondoc.py:376).                              *)
ChildrenExtendParents ==
  \A m \in Rendered : \A s \in DOMAIN Symbols(m) :
    LET up == Symbols(m)[s].oid.parent
    IN HasOid(Symbols(m)[s]) /\ up # None /\ up.name # "iso" =>
         (up.module \in Rendered /\ up.name \in DOMAIN docs[up.module].out =>
            docs[m].out[s].oid = docs[up.module].out[up.name].oid \o Symbols(m)[s].oid.arcs)

(* The Python a pysnmp module is put out as loads from top to bottom: what a   *)
(* statement uses is a base type, imported or bound by an earlier statement,   *)
(* whatever the order of the declarations in the text (reg_postponed_syms). An *)
(* AUGMENTS that says the type of a row where it should say the row is not     *)
(* held back (symtable.py:303) and uses what is never bound.                   *)
LoadsInOrder ==
  backend = "pysnmp" =>
    \A m \in Rendered : \A i \in DOMAIN docs[m].order :
      docs[m].out[docs[m].order[i]].uses \ tables[m].rows \subseteq
        BaseTypes \cup DOMAIN docs[m].importMap \cup {docs[m].order[j] : j \in 1..(i - 1)}

(* A default that is put out satisfies every restriction on the way to its     *)
(* base type, those of the conventions other modules declare included          *)
(* (defval_violates_syntax): pyasn1 would not load the module otherwise.       *)
DefaultsFitSyntax ==
  \A m \in Rendered : \A s \in DOMAIN docs[m].out :
    LET d == docs[m].out[s].default
    IN d # None => \A r \in Reach(Types, {[name |-> s, module |-> m]}) :
         Has(tables, r) =>
           LET sub == Found(tables, r).sub
           IN /\ d.sort = "number" /\ sub.sort = "range" => d.value \in sub.permits
              /\ d.sort = "text" /\ sub.sort = "size" => d.value \in sub.permits

(* What excuses a module, and what ends the call, as the text has it.           *)
Excused(m) ==
  \/ \E s \in DOMAIN Symbols(m) :
        LET ref == [name |-> s, module |-> m]
        IN Dangling(Above, ref) \/ Endless(Above, ref)
  \/ \E i \in DOMAIN TextOf(m).clauses :
        LET c == TextOf(m).clauses[i]
            ref == [name |-> c.name, module |-> m]
        IN /\ c.default # None
           /\ \/ c.default.sort \in {"name", "bits"}
              \/ Dangling(Types, ref)
              \/ \E r \in Reach(Types, {ref}) : Has(tables, r) /\ Found(tables, r).type.name = None
  \/ \E i, j \in DOMAIN TextOf(m).clauses :
        i # j /\ TextOf(m).clauses[i].kind = "identity" /\ TextOf(m).clauses[j].kind = "identity"
HasColumns(m) == \E i \in DOMAIN TextOf(m).clauses : Columns(TextOf(m).clauses[i]) # 0
Raises(m) ==
  \E s \in DOMAIN Symbols(m) :
    LET ref == [name |-> s, module |-> m]
    IN \/ Endless(Types, ref)
       \/ \E r \in Reach(Above, Above(ref)) : Has(tables, r) /\ ~HasOid(Found(tables, r))

(* What the symbol table accepted is rendered, unless the text itself forbids  *)
(* it: an OID or the type of a default that leads nowhere or comes back to     *)
(* itself, a default that names something, two identities -- or, as            *)
(* HasColumns, a column for an index that names a base type.                   *)
FailsForCause ==
  \A m \in MODULES :
    /\ docs[m].state = "failed" => Excused(m) \/ HasColumns(m)
    /\ docs[m].state = "raised" => Raises(m)

(* tests/test_codegen_fake_index.py:117: a module whose index names a base type *)
(* compiles, since both generators make the same column for it.                *)
ColumnsAgree == \A m \in MODULES : docs[m].state = "failed" => Excused(m)

(* pysnmp.py:2206 says of _moduleRevision that it has to be reset, so that a   *)
(* module without a MODULE-IDENTITY does not inherit the revision of another.  *)
RevisionIsOwn ==
  \A m \in Rendered :
    docs[m].revision \in {None} \cup {c.revision : c \in ToSet(TextOf(m).clauses)}

(* symtable.py:343 says registering one symbol can resolve another: a module   *)
(* is refused for unknown parents only if one of them is not in its text, or   *)
(* the parents go in a circle.                                                 *)
Leads(text, name) ==
  {c.type : c \in {d \in ToSet(text.clauses) : d.name = name /\ d.kind = "type"}}
LeadsTo(text, names) ==
  LET within[n \in 0..Len(text.clauses)] ==
        IF n = 0 THEN names
        ELSE LET near == within[n - 1] IN near \cup UNION {Leads(text, m) : m \in near}
  IN within[Len(text.clauses)]
HeldBackForCause ==
  \A r \in refused : r.unknown # <<>> =>
    \E i \in DOMAIN r.unknown :
      \/ ~(r.unknown[i].parents \subseteq {c.name : c \in ToSet(r.text.clauses)})
      \/ r.unknown[i].name \in LeadsTo(r.text, Leads(r.text, r.unknown[i].name))
================================================================================
