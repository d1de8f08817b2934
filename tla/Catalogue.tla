------------------------------- MODULE Catalogue -------------------------------
(* What a corpus build writes beside the compiled modules. A build reads the   *)
(* JSON documents, folding each into the owners of OIDs, the names of arcs and *)
(* the registrants, then writes the indexes, the database, the registrants,    *)
(* the arcs, the closures and the site, in that order. It may be killed at any *)
(* step; the next one starts over what it left. read_documents() takes files   *)
(* in the order of their names; the folds accept any, and so does the model.   *)
EXTENDS SiteMap

CONSTANTS
  Corpora,     \* the documents a build may find: functions from modules
  MaxBuilds

ASSUME CorporaAssumption ==
  /\ MaxBuilds \in Nat
  /\ \A docs \in Corpora :
       /\ DOMAIN docs \subseteq Module /\ docs \in [DOMAIN docs -> Document]

VARIABLES
  docs,        \* the documents of the latest build
  unread,      \* the modules it has yet to read
  best,        \* rank_index(): [OIDs -> the least rank and its module]
  named,       \* descriptors(): [OIDs -> a name and the module that gives it]
  registered,  \* entities(): [enterprise numbers -> the modules under it]
  speaking,    \* entities(): [enterprise numbers -> the latest contact]
  phase,       \* what the build does next
  frozen,      \* the snapshot an index is merged with
  legacy,      \* the merged index, as published
  db,          \* the database file
  pages,       \* the pages in the directory of the site
  builds

vars == <<docs, unread, best, named, registered, speaking, phase, frozen, legacy,
          db, pages, builds>>
folds == <<unread, best, named, registered, speaking>>
written == <<frozen, legacy, db, pages>>

Nothing == <<>>
NoDatabase == [at |-> "absent", modules |-> {}, nodes |-> {}, index |-> Nothing]

Init ==
  /\ docs = Nothing /\ unread = {} /\ best = Nothing /\ named = Nothing
  /\ registered = Nothing /\ speaking = Nothing
  /\ phase = "idle" /\ frozen = Nothing /\ legacy = Nothing
  /\ db = NoDatabase /\ pages = {} /\ builds = 0

-------------------------------------------------------------------------------
(* Reading. *)

Build ==
  /\ phase = "idle" /\ builds < MaxBuilds
  /\ \E found \in Corpora : docs' = found /\ unread' = DOMAIN found
  /\ best' = Nothing /\ named' = Nothing /\ registered' = Nothing /\ speaking' = Nothing
  /\ phase' = "read" /\ builds' = builds + 1
  /\ UNCHANGED written

(* The ranks of a module for an OID it claims *)
Claims(m, doc, oid) == {Rank(m, doc, a) : a \in {c.anchor : c \in {c \in OidsOf(doc) : c.oid = oid}}}

(* rank_index(), one document *)
Owners(m, doc) ==
  LET claimed == {c.oid : c \in OidsOf(doc)}
      least(oid) == CHOOSE r \in Claims(m, doc, oid) :
                      \A other \in Claims(m, doc, oid) : ~RankLess(other, r)
      better(oid) == oid \notin DOMAIN best \/ RankLess(least(oid), best[oid].rank)
  IN [oid \in DOMAIN best \cup claimed |->
        IF oid \in claimed /\ better(oid) THEN [rank |-> least(oid), module |-> m]
        ELSE best[oid]]

(* descriptors(), one document: its first symbol for an OID, unless a module   *)
(* of an earlier name has given one                                            *)
Descriptors(m, doc) ==
  LET defined == {s.oid : s \in Range(doc.symbols)} \ {<<>>}
      first(oid) == SelectSeq(doc.symbols, LAMBDA s : s.oid = oid)[1].name
  IN [oid \in DOMAIN named \cup defined |->
        IF oid \in defined /\ (oid \notin DOMAIN named \/ m < named[oid].module)
        THEN [name |-> first(oid), module |-> m] ELSE named[oid]]

(* entities(), one document *)
Numbers(doc) == {EnterpriseOf(c.oid) : c \in OidsOf(doc)} \ {-1}
Speaks(doc) == \E s \in IdentityOf(doc) : s.contact
LastUpdated(doc) == Max({0} \cup {s.updated : s \in IdentityOf(doc)})
Later(a, b) == a.updated > b.updated \/ (a.updated = b.updated /\ a.module > b.module)

Under(m, doc) ==
  [n \in DOMAIN registered \cup Numbers(doc) |->
     (IF n \in DOMAIN registered THEN registered[n] ELSE {})
     \cup (IF n \in Numbers(doc) THEN {m} ELSE {})]

(* mutant: the first to speak is heard *)
Contacts_First(m, doc) ==
  LET mine == [updated |-> LastUpdated(doc), module |-> m]
      heard == IF Speaks(doc) THEN Numbers(doc) ELSE {}
  IN [n \in DOMAIN speaking \cup heard |->
        IF n \in DOMAIN speaking THEN speaking[n] ELSE mine]
Contacts(m, doc) ==
  LET mine == [updated |-> LastUpdated(doc), module |-> m]
      heard == IF Speaks(doc) THEN Numbers(doc) ELSE {}
  IN [n \in DOMAIN speaking \cup heard |->
        IF n \in heard /\ (n \notin DOMAIN speaking \/ Later(mine, speaking[n]))
        THEN mine ELSE speaking[n]]

Read(m) ==
  /\ phase = "read" /\ m \in unread
  /\ unread' = unread \ {m}
  /\ best' = Owners(m, docs[m])
  /\ named' = Descriptors(m, docs[m])
  /\ registered' = Under(m, docs[m])
  /\ speaking' = Contacts(m, docs[m])
  /\ UNCHANGED <<docs, phase, builds>> /\ UNCHANGED written

ReadAll ==
  /\ phase = "read" /\ unread = {} /\ phase' = "index"
  /\ UNCHANGED <<docs, builds>> /\ UNCHANGED folds /\ UNCHANGED written

-------------------------------------------------------------------------------
(* Writing. *)

Owner == [oid \in DOMAIN best |-> best[oid].module]
Anchors == AnchorIndex(Owner)
Corpus == [docs |-> docs, anchors |-> Anchors, registered |-> registered,
           arcs |-> ArcNames(DOMAIN Anchors, named)]

(* write_index(); the snapshot is the published index as somebody kept it *)
WriteIndex ==
  /\ phase = "index" /\ phase' = "unlink"
  /\ legacy' = MergeFrozen(frozen, Owner, DOMAIN docs)
  /\ UNCHANGED <<docs, builds, frozen, db, pages>> /\ UNCHANGED folds

Freeze ==
  /\ phase = "idle" /\ frozen' = legacy
  /\ UNCHANGED <<docs, phase, builds, legacy, db, pages>> /\ UNCHANGED folds

(* _connect(): the old file goes, an empty one is made, and marked, and given  *)
(* its tables, each statement a transaction of its own: a file is "partial"    *)
(* from its last mark to the last table a reader asks for                      *)
ConnectSteps ==
  [unlink |-> "absent", create |-> "blank", application |-> "marked",
   version |-> "partial", tables |-> "tables"]
PhaseAfter ==
  [unlink |-> "create", create |-> "application", application |-> "version",
   version |-> "tables", tables |-> "commit"]

Connect ==
  /\ phase \in DOMAIN ConnectSteps
  /\ phase' = PhaseAfter[phase]
  /\ db' = [NoDatabase EXCEPT !.at = ConnectSteps[phase]]
  /\ UNCHANGED <<docs, builds, frozen, legacy, pages>> /\ UNCHANGED folds

(* write_db(): every row in one transaction, none of them where an OID is one  *)
(* that no key can be made of                                                  *)
Rows == UNION {NodeRows(m, docs[m]) : m \in DOMAIN docs}
Encodable == \A row \in Rows : row.key # Refused
Indexable == \A oid \in DOMAIN best : OidKey(oid) # Refused
Filled ==
  [at |-> "whole", nodes |-> Rows, index |-> Owner,
   modules |-> {ModuleRow(m, docs[m], Cardinality(NodeRows(m, docs[m]))) : m \in DOMAIN docs}]

Commit ==
  /\ phase = "commit" /\ Encodable /\ Indexable
  /\ phase' = "vacuum" /\ db' = Filled
  /\ UNCHANGED <<docs, builds, frozen, legacy, pages>> /\ UNCHANGED folds

CommitFails ==
  /\ phase = "commit" /\ ~(Encodable /\ Indexable)
  /\ phase' = "idle"
  /\ UNCHANGED <<docs, builds>> /\ UNCHANGED folds /\ UNCHANGED written

(* ANALYZE and VACUUM write the file again, and no row of it changes *)
Vacuum ==
  /\ phase = "vacuum" /\ phase' = "site"
  /\ UNCHANGED <<docs, builds>> /\ UNCHANGED folds /\ UNCHANGED written

(* A kill within a transaction leaves a journal beside the file, which nobody  *)
(* reads: some of its pages are written, or pages that do not fit together.    *)
Landed(found) ==
  {[at |-> "torn", nodes |-> IF "node" \in kept THEN found.nodes ELSE {},
    modules |-> IF "module" \in kept THEN found.modules ELSE {},
    index |-> IF "oid_index" \in kept THEN found.index ELSE Nothing] :
     kept \in SUBSET {"module", "node", "oid_index"}}

Tear ==
  /\ phase \in {"tables", "commit", "vacuum"} /\ phase' = "idle"
  /\ \/ db' = [NoDatabase EXCEPT !.at = "damaged"]
     \/ phase = "commit" /\ Encodable /\ Indexable /\ db' \in Landed(Filled)
     \/ phase = "vacuum" /\ db' \in Landed(db)
  /\ UNCHANGED <<docs, builds, frozen, legacy, pages>> /\ UNCHANGED folds

(* write_site(): nothing an earlier build left is removed *)
WriteSite ==
  /\ phase = "site" /\ phase' = "idle"
  /\ pages' = pages \cup Pages(Corpus)
  /\ UNCHANGED <<docs, builds, frozen, legacy, db>> /\ UNCHANGED folds

Kill ==
  /\ phase # "idle" /\ phase' = "idle"
  /\ UNCHANGED <<docs, builds>> /\ UNCHANGED folds /\ UNCHANGED written

Next ==
  \/ Build \/ (\E m \in Module : Read(m)) \/ ReadAll
  \/ WriteIndex \/ Freeze \/ Connect \/ Commit \/ CommitFails \/ Vacuum \/ Tear
  \/ WriteSite \/ Kill

Spec == Init /\ [][Next]_vars

-------------------------------------------------------------------------------
(* A reader of the file. *)

(* open_db() refuses what has not the marks of a corpus; of a file it is told  *)
(* not to expect changes of, SQLite looks for no journal                       *)
Opens == db.at \in {"partial", "tables", "whole", "torn", "damaged"}
Interrupted == db.at \in {"torn", "damaged"}

(* validate(): what is wrong with the rows, or that they cannot be read *)
Validate ==
  LET names == {row.name : row \in db.modules} IN
  {p \in {"unreadable", "node", "oid_index", "count", "order"} :
     \/ p = "unreadable" /\ db.at \in {"partial", "damaged"}
     \/ p = "node" /\ \E row \in db.nodes : row.module \notin names
     \/ p = "oid_index" /\ \E oid \in DOMAIN db.index : db.index[oid] \notin names
     \/ p = "count" /\ \E m \in db.modules :
          m.nodes # Cardinality({row \in db.nodes : row.module = m.name})
     \/ p = "order" /\ \E a, b \in db.nodes : Before(a.key, b.key) /\ Before(b.oid, a.oid)}

-------------------------------------------------------------------------------
(* Properties. *)

TypeOK ==
  /\ docs \in Corpora \cup {Nothing} /\ unread \subseteq DOMAIN docs
  /\ \A oid \in DOMAIN best : best[oid].module \in DOMAIN docs \ unread
  /\ DOMAIN registered \subseteq Nat /\ DOMAIN speaking \subseteq DOMAIN registered
  /\ phase \in DOMAIN ConnectSteps \cup {"read", "index", "commit", "vacuum", "site", "idle"}
  /\ db.at \in Range(ConnectSteps) \cup {"whole", "torn", "damaged"}
  /\ builds \in 0..MaxBuilds

HasRead == DOMAIN docs \ unread
AnchorOf(m, oid) == Min({c.anchor : c \in {c \in OidsOf(docs[m]) : c.oid = oid}})
ClaimantsOf(oid) == {m \in HasRead : \E c \in OidsOf(docs[m]) : c.oid = oid}

(* Which of two modules is to own an OID: one that is not obsolete, of the     *)
(* better tier, that registers it more strongly, revised later, of the later   *)
(* RFC, and at last the one of the earlier name.                               *)
Outranks(m, n, oid) ==
  LET Order(first, same, then) == first \/ (same /\ then)
      a == docs[m]  b == docs[n] IN
  Order(~Obsolete(a) /\ Obsolete(b), Obsolete(a) <=> Obsolete(b),
  Order(Tier[m] < Tier[n], Tier[m] = Tier[n],
  Order(AnchorOf(m, oid) < AnchorOf(n, oid), AnchorOf(m, oid) = AnchorOf(n, oid),
  Order(NewestRevision(a) > NewestRevision(b), NewestRevision(a) = NewestRevision(b),
  Order(Rfc[m] > Rfc[n], Rfc[m] = Rfc[n], m < n)))))

(* In whatever order the documents are read, an OID is owned by the module     *)
(* that outranks every other that claims it: rank_index().                     *)
OwnerIsBest ==
  /\ \A oid \in DOMAIN best :
       \A m \in ClaimantsOf(oid) \ {best[oid].module} : Outranks(best[oid].module, m, oid)
  /\ \A m \in HasRead : \A c \in OidsOf(docs[m]) : c.oid \in DOMAIN best

(* A registrant is described by the module of its latest LAST-UPDATED that has *)
(* a contact, whatever the order of reading: entities().                       *)
SpeakerIsLatest ==
  \A n \in DOMAIN registered :
    LET mayspeak == {m \in registered[n] : Speaks(docs[m])} IN
    /\ n \in DOMAIN speaking <=> mayspeak # {}
    /\ n \in DOMAIN speaking =>
         /\ speaking[n].module \in mayspeak
         /\ \A m \in mayspeak \ {speaking[n].module} :
              Later(speaking[n], [updated |-> LastUpdated(docs[m]), module |-> m])

(* A published answer somebody froze stands as long as its module is compiled, *)
(* and no answer names a module this build did not compile: merge_frozen().    *)
FrozenStays ==
  [][ WriteIndex =>
        /\ \A oid \in DOMAIN frozen : frozen[oid] \in DOMAIN docs => legacy'[oid] = frozen[oid]
        /\ \A oid \in DOMAIN legacy' : legacy'[oid] \in DOMAIN docs
        /\ DOMAIN Owner \subseteq DOMAIN legacy' ]_vars

ImportsOf == [m \in DOMAIN docs |-> docs[m].imports]

(* Every module a document needs, however far, is in its closure or told       *)
(* missing, and nothing else is: closures().                                   *)
ClosureIsLeast ==
  \A m \in DOMAIN docs :
    LET c == Closure(m, ImportsOf) IN
    /\ m \in c.files /\ c.files \subseteq DOMAIN docs /\ c.missing \cap DOMAIN docs = {}
    /\ \A f \in c.files : docs[f].imports \subseteq c.files \cup c.missing
    /\ c.missing \subseteq UNION {docs[f].imports : f \in c.files}
    /\ \A S \in SUBSET c.files :
         m \in S /\ (\A f \in S : docs[f].imports \cap c.files \subseteq S) => S = c.files

(* The short index of anchors answers for an OID as the whole index does, for  *)
(* one that its owner registers at or above with no other's arc in between:    *)
(* anchor_index() and resolve().                                               *)
AnchorsAnswer ==
  unread = {} =>
    \A oid \in DOMAIN Owner :
      LET at == LongestPrefix(oid, DOMAIN Anchors) IN
      /\ Owner[at] # Owner[oid] =>
           \E p \in Above(oid) : p \in DOMAIN Owner /\ Owner[p] = Owner[oid] /\ Len(p) < Len(at)
      /\ Resolve(oid, Anchors, named).module = Owner[at]

(* A database that opens has the rows of one whole build or none, unless the   *)
(* build was killed within a transaction: its own validation finds nothing,    *)
(* or that a table is missing, and then there are no rows; and a key leads     *)
(* back to the OID it was made of: write_db().                                 *)
DbSound ==
  Opens /\ ~Interrupted =>
    /\ Validate \subseteq {"unreadable"}
    /\ Validate # {} => db = [NoDatabase EXCEPT !.at = db.at]
    /\ \A row \in db.nodes : OidFromKey(row.key) = row.oid

(* What the code does not do.  What opens is not always sound, and what is     *)
(* found sound not always whole: a build can be killed between the last mark   *)
(* and the last table, and within the transaction of the rows.                 *)
OpensSound == Opens => Validate = {}
SoundIsWhole == Opens /\ Validate = {} => ~Interrupted

(* Asked by key alone, the database gives the next OID and the OIDs under one  *)
(* as the numbers say: oid_key(), subtree_bound() and QUERIES.                 *)
WalkInOrder ==
  LET oids == {row.oid : row \in db.nodes}
      keys == [oid \in oids |-> OidKey(oid)]
  IN \A oid \in oids :
       /\ Subtree(oids, keys, oid) = {x \in oids : IsPrefix(oid, x)}
       /\ LET next == NextNode(oids, keys, keys[oid]) IN
          \A x \in oids : Before(oid, x) => next # Refused /\ ~Before(x, next) /\ Before(oid, next)

(* The pages of a list, of modules or of registrants, have names of their own, *)
(* and an entry is looked for on the page that has it: buckets() and locate(). *)
BucketsPlace ==
  \A names \in {Names(DOMAIN docs), Numerals(DOMAIN registered)} :
    LET found == Lists(names) IN
    /\ \A i, j \in DOMAIN found : KeyOf(found[i]) = KeyOf(found[j]) => i = j
    /\ \A name \in names :
         Locate(name, found) # 0 /\ name \in found[Locate(name, found)].entries

(* A link on a page this build wrote leads to a page it wrote: build_site().   *)
LinksResolve == unread = {} => Links(Corpus) \subseteq Pages(Corpus)
===============================================================================
