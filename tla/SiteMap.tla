-------------------------------- MODULE SiteMap --------------------------------
(* The pages of a corpus's site, and what each of them links to.               *)
EXTENDS OidIndex, ListPages

CONSTANT Spelling      \* Module -> the characters of its name

ASSUME SpellingAssumption == Spelling \in [Module -> Seq(Nat) \ {<<>>}]

(* What is listed: modules by name, registrants by number, which no label cuts *)
Names(modules) == {Spelling[m] : m \in modules}
Numerals(numbers) == {<<n>> : n \in numbers}
Lists(names) == IF names = {} THEN <<>> ELSE Buckets(names)

(* A page for each part of a list, and one for the whole of a list in parts;   *)
(* a list that is not split has its one page there                             *)
PartPage(base, bucket) == IF KeyOf(bucket) = NoKey THEN base ELSE Append(base, KeyOf(bucket))
PartPages(base, found) == {PartPage(base, found[i]) : i \in DOMAIN found}
ListPaths(base, found) ==
  PartPages(base, found) \cup (IF Len(found) > 1 THEN {base} ELSE {})

(* key_strip(): the other parts, on each page of a list that has parts *)
KeyStrip(base, found) == {Append(base, key) : key \in KeysOf(found)}

Mib(m) == <<"mib", m>>
Entity(number) == <<"entity", <<number>>>>
Arc(oid) == <<"oid", oid>>
Browse == <<"browse">>
Registrants == <<"entity">>
Tree == <<"oid">>

(* What a site is built from: the documents, the anchors, the named arcs, and  *)
(* the modules of each registrant: c = [docs, anchors, arcs, registered].      *)
Arcs(c) == DOMAIN c.arcs
Top(c) == {oid \in StructuralArcs(DOMAIN c.anchors) : Len(oid) = 1}

ModuleList(c) == Lists(Names(DOMAIN c.docs))
RegistrantList(c) == Lists(Numerals(DOMAIN c.registered))
(* a registrant that holds no module has a page all the same *)
HeldBy(c, n) ==
  IF c.registered[n] = {} THEN << Bucket(<<>>, <<>>, {}) >> ELSE Lists(Names(c.registered[n]))

(* build_site(): every page written *)
ModulePages(c) == {Mib(m) : m \in DOMAIN c.docs}
BrowsePages(c) == ListPaths(Browse, ModuleList(c))
(* mutant: registrants in parts have no page for the whole list *)
RegistrantPages_Parts(c) == PartPages(Registrants, RegistrantList(c))
RegistrantPages(c) == ListPaths(Registrants, RegistrantList(c))
EntityPages(c) ==
  RegistrantPages(c)
  \cup UNION {ListPaths(Entity(n), HeldBy(c, n)) : n \in DOMAIN c.registered}
TreePages(c) ==
  IF Arcs(c) = {} \/ DOMAIN c.anchors = {} THEN {}
  ELSE {Tree} \cup {Arc(oid) : oid \in StructuralArcs(DOMAIN c.anchors)}
Pages(c) == ModulePages(c) \cup BrowsePages(c) \cup EntityPages(c) \cup TreePages(c)

(* arc_html() and _under(): an arc leads to the module registered at it, or to *)
(* a page of its own                                                           *)
ArcLink(c, oid) ==
  IF oid \in DOMAIN c.anchors THEN Mib(c.anchors[oid]) ELSE Arc(oid)

(* _imports() *)
ImportLinks(c, m) == {Mib(i) : i \in c.docs[m].imports \cap DOMAIN c.docs}

ModuleLinks(c, m) ==
  ImportLinks(c, m)
  \cup {Mib(i) : i \in {i \in DOMAIN c.docs : m \in c.docs[i].imports}}
  \cup UNION {{ArcLink(c, child) : child \in ChildrenOf(Arcs(c), oid)} :
                oid \in {oid \in DOMAIN c.anchors : c.anchors[oid] = m}}

EntityLinks(c, n) ==
  {Registrants} \cup {Mib(m) : m \in c.registered[n]} \cup KeyStrip(Entity(n), HeldBy(c, n))

ArcLinks(c, oid) == {Tree} \cup {ArcLink(c, child) : child \in ChildrenOf(Arcs(c), oid)}

(* The lists: what is in them, the other parts, and, on the first page, the    *)
(* modules of late                                                             *)
ListLinks(c) ==
  {Mib(m) : m \in DOMAIN c.docs} \cup KeyStrip(Browse, ModuleList(c))
  \cup {Entity(n) : n \in DOMAIN c.registered} \cup KeyStrip(Registrants, RegistrantList(c))
  \cup (IF Tree \in TreePages(c) THEN {Arc(oid) : oid \in Top(c)} ELSE {})

(* The links on the pages written; the head of each leads to the first *)
Links(c) ==
  (IF Pages(c) = {} THEN {} ELSE {Browse}) \cup ListLinks(c)
  \cup (UNION {ModuleLinks(c, m) : m \in DOMAIN c.docs})
  \cup (UNION {EntityLinks(c, n) : n \in DOMAIN c.registered})
  \cup (IF Tree \in TreePages(c)
        THEN UNION {ArcLinks(c, oid) : oid \in StructuralArcs(DOMAIN c.anchors)} ELSE {})
===============================================================================
