-------------------------------- MODULE OidIndex -------------------------------
(* What a corpus publishes about the modules it compiled, computed from their  *)
(* JSON documents: who owns an OID, what an arc is called, which modules a     *)
(* registrant has, what a module needs in order to load.                       *)
EXTENDS OidTree

CONSTANTS
  Module,        \* numbers, in the order of the modules' names
  Tier, Rfc,     \* Module -> Nat: of the namespace, and of the RFC that has it
  Enterprises,   \* the arc private enterprises are registered under
  SmiRegistry,   \* the arcs IANA's smi-numbers registry names
  Holders,       \* [enterprise numbers of the PEN registry -> BOOLEAN]: named or not
  Cited          \* the arcs cited from standards

ASSUME IndexAssumption ==
  /\ Module \subseteq Nat /\ IsFiniteSet(Module)
  /\ Tier \in [Module -> Nat] /\ Rfc \in [Module -> Nat]
  /\ Enterprises \in Seq(Nat)

(* A document: its symbols in the order of the file, and what it imports; a    *)
(* symbol's stamps are its dates, 0 for one that cannot be read.               *)
Class == {"moduleidentity", "objectidentity", "objecttype", "notificationtype",
          "objectgroup", "textualconvention"}
Symbol == [name : Nat, class : Class, oid : Seq(Nat), obsolete : BOOLEAN,
           stamps : {dates \in SUBSET Nat : IsFiniteSet(dates)}, updated : Nat,
           contact : BOOLEAN]
Document == [symbols : Seq(Symbol), imports : SUBSET Module]

OfClass(doc, classes) == {s \in Range(doc.symbols) : s.class \in classes}
IdentityOf(doc) == OfClass(doc, {"moduleidentity"})

-------------------------------------------------------------------------------
(* Ranking. *)

AnchorRank == [moduleidentity |-> 0, objectidentity |-> 1]
AnchorRankFallback == 2
ObjectClasses == {"objecttype", "notificationtype"}

(* newest_revision() *)
NewestRevision(doc) == Max({0} \cup UNION {s.stamps : s \in IdentityOf(doc)})

Obsolete(doc) ==
  LET objects == OfClass(doc, ObjectClasses) IN
  objects # {} /\ \A s \in objects : s.obsolete

(* oids_of(): what a document claims, and how strongly *)
OidsOf(doc) ==
  LET anchors == {s \in OfClass(doc, DOMAIN AnchorRank) : s.oid # <<>>} IN
  IF anchors # {}
  THEN {[oid |-> s.oid, anchor |-> AnchorRank[s.class]] : s \in anchors}
  ELSE {[oid |-> s.oid, anchor |-> AnchorRankFallback] :
          s \in {s \in Range(doc.symbols) : s.oid # <<>>}}

(* mutant: without the name, two modules may rank alike *)
Rank_NoName(m, doc, anchor) ==
  << IF Obsolete(doc) THEN 1 ELSE 0, Tier[m], anchor, -NewestRevision(doc), -Rfc[m], 0 >>

(* module_rank() with the anchor in its place; the lower one wins *)
Rank(m, doc, anchor) ==
  << IF Obsolete(doc) THEN 1 ELSE 0, Tier[m], anchor, -NewestRevision(doc), -Rfc[m], m >>

RankLess(a, b) == \E i \in 1..6 : a[i] < b[i] /\ \A j \in 1..(i - 1) : a[j] = b[j]

(* anchor_index(): the arcs whose owner owns none above them *)
(* mutant: the arcs with none above them that anybody owns *)
AnchorIndex_AnyAbove(ranked) ==
  LET anchors == {oid \in DOMAIN ranked : Above(oid) \cap DOMAIN ranked = {}}
  IN [oid \in anchors |-> ranked[oid]]
AnchorIndex(ranked) ==
  LET anchors == {oid \in DOMAIN ranked :
                    \A p \in Above(oid) \cap DOMAIN ranked : ranked[p] # ranked[oid]}
  IN [oid \in anchors |-> ranked[oid]]

(* merge_frozen() *)
(* mutant: the rows of a module that is gone stay *)
MergeFrozen_KeepsAll(frozen, ranked, modules) == frozen @@ ranked
MergeFrozen(frozen, ranked, modules) ==
  LET kept == {oid \in DOMAIN frozen : frozen[oid] \in modules} IN
  [oid \in kept \cup DOMAIN ranked |-> IF oid \in kept THEN frozen[oid] ELSE ranked[oid]]

-------------------------------------------------------------------------------
(* Import closures. *)

(* _closure(): edges of the modules that have a document *)
(* mutant: what an import imports is left out *)
Closure_OneDeep(start, edges) ==
  LET named == {start} \cup edges[start] IN
  [files |-> named \cap DOMAIN edges, missing |-> named \ DOMAIN edges]

(* A name off the list: it has a document and adds its imports, or is missing; *)
(* names settled before are passed over.                                       *)
Settle(walk, edges) ==
  LET m == CHOOSE m \in walk.pending : TRUE
      there == {m} \cap DOMAIN edges
      files == walk.files \cup there
      missing == walk.missing \cup ({m} \ there)
      more == IF m \in DOMAIN edges THEN edges[m] ELSE {}
  IN IF walk.pending = {} THEN walk
     ELSE [files |-> files, missing |-> missing,
           pending |-> (walk.pending \cup more) \ (files \cup missing)]

(* the list after each step; there are no more than there are names *)
Walk(start, edges) ==
  LET walk[n \in 0..Cardinality(Module)] ==
        IF n = 0 THEN [files |-> {}, missing |-> {}, pending |-> {start}]
        ELSE Settle(walk[n - 1], edges)
  IN walk

Closure(start, edges) ==
  LET last == Walk(start, edges)[Cardinality(Module)]
  IN [files |-> last.files, missing |-> last.missing]

-------------------------------------------------------------------------------
(* The registration tree. *)

(* _enterprise() and enterprise_of(): -1 for an arc that is none *)
EnterpriseArc(arc) == IF Len(arc) > 1 /\ Parent(arc) = Enterprises THEN arc[Len(arc)] ELSE -1
EnterpriseOf(oid) ==
  IF IsStrictPrefix(Enterprises, oid) THEN oid[Len(Enterprises) + 1] ELSE -1

(* arcs(): every arc on the way to an anchor, and what names it *)
ArcNames(anchors, named) ==
  [arc \in UNION {PathTo(oid) : oid \in anchors} |->
     LET number == EnterpriseArc(arc) IN
     IF arc \in SmiRegistry THEN "registry"
     ELSE IF number \in DOMAIN Holders /\ Holders[number] THEN "registry"
     ELSE IF arc \in Cited THEN "standard"
     ELSE IF arc \in DOMAIN named THEN "module" ELSE ""]

(* structural_arcs() *)
StructuralArcs(anchors) == (UNION {Above(oid) : oid \in anchors}) \ anchors

(* resolve(): the module, and the name to land on where it has one *)
Resolve(oid, anchors, named) ==
  LET arc == LongestPrefix(oid, DOMAIN anchors) IN
  IF arc = Refused THEN [module |-> -1, anchor |-> -1]
  ELSE [module |-> anchors[arc],
        anchor |-> IF arc # oid /\ oid \in DOMAIN named THEN named[oid].name ELSE -1]

-------------------------------------------------------------------------------
(* The rows of a database. *)

NodeClasses == Class \ {"textualconvention"}

(* _node_rows(): a module has one row for an OID, of the name sorted last *)
NodeRows(m, doc) ==
  LET nodes == {s \in OfClass(doc, NodeClasses) : s.oid # <<>>} IN
  {[key |-> OidKey(oid), oid |-> oid, module |-> m,
    name |-> Max({s.name : s \in {s \in nodes : s.oid = oid}})] :
     oid \in {s.oid : s \in nodes}}

(* _module_row(); stored is how many rows the module has *)
(* mutant: the symbols are counted, and one OID may have two *)
ModuleRow_PerSymbol(m, doc, stored) ==
  [name |-> m, tier |-> Tier[m], revision |-> NewestRevision(doc),
   nodes |-> Len(SelectSeq(doc.symbols, LAMBDA s : s.class \in NodeClasses /\ s.oid # <<>>))]
ModuleRow(m, doc, stored) ==
  [name |-> m, tier |-> Tier[m], revision |-> NewestRevision(doc), nodes |-> stored]

===============================================================================
