--------------------------------- MODULE Corpus ---------------------------------
(* The driver of a corpus build: which modules are compiled into which trees,  *)
(* which of them the corpus publishes, and what is staged and projected from   *)
(* them. A call of the compiler is one step here, with the outcome MibCompile  *)
(* computes; what is written of each module is a set of names. Trees asked for *)
(* stay between builds, scratch trees do not.                                  *)
EXTENDS Integers, Sequences, FiniteSets

CONSTANTS
  Module, Imports,     \* Module -> SUBSET Module
  Spaces,              \* the namespaces in the order of the manifest
  Holds,               \* [namespaces -> SUBSET Module]
  Standard,            \* the namespaces of the standard tier
  Bundled,             \* the modules of the bundled package
  BaseMibs,            \* [format -> SUBSET Module]: those stubbed by default
  Settings,            \* what builds are asked for
  MaxRuns, MaxGone,    \* bounds: builds, and modules whose source goes
  None

Tree == {"notexts", "texts", "json", "json_texts"}
Projection == {"index", "entity", "site"}   \* index: indexes, databases, arcs, closures
Artifact == Tree \cup Projection \cup {"asn1", "standard"}
Destinations == <<"notexts", "texts", "json", "json_texts">>
Format == [notexts |-> "pysnmp", texts |-> "pysnmp", json |-> "json", json_texts |-> "json"]
Space == {Spaces[i] : i \in DOMAIN Spaces}

Setting == [outputs : SUBSET Artifact, publish : SUBSET Space, overlap : BOOLEAN,
            select : {None} \cup SUBSET Module, broken : SUBSET Module,
            bundle : BOOLEAN, rebuild : BOOLEAN]

ASSUME CorpusAssumption ==
  /\ Imports \in [Module -> SUBSET Module] /\ Holds \in [Space -> SUBSET Module]
  /\ Settings \subseteq Setting
  /\ \A S \in SUBSET Module : S # None

VARIABLES
  asked,       \* the settings of the build
  phase,
  sets,        \* _module_sets(), enumerated once
  gone,        \* the modules whose sources are no longer there
  left,        \* the calls of the compiler to come: pairs of tree and namespace
  processed,   \* [Tree -> [modules -> status]]
  kept,        \* [Tree -> SUBSET Module]: the files of trees asked for
  scratch,     \* [scratch trees -> SUBSET Module]
  wrote,       \* the modules this build wrote anywhere
  published,   \* _published_modules(): None for everything
  staged, standard,    \* the ASN.1 tree and the list, as this build wrote them
  carried,     \* [projections -> the modules whose documents they were made of]
  runs

vars == <<asked, phase, sets, gone, left, processed, kept, scratch, wrote, published,
          staged, standard, carried, runs>>

Nothing == <<>>
NoSetting == [outputs |-> {}, publish |-> {}, overlap |-> FALSE, select |-> None,
              broken |-> {}, bundle |-> FALSE, rebuild |-> FALSE]

Init ==
  /\ asked = NoSetting /\ phase = "idle" /\ sets = [s \in Space |-> {}] /\ gone = {}
  /\ left = {} /\ processed = [t \in Tree |-> Nothing]
  /\ kept = [t \in Tree |-> {}] /\ scratch = Nothing /\ wrote = {}
  /\ published = None /\ staged = {} /\ standard = {}
  /\ carried = Nothing /\ runs = 0

-------------------------------------------------------------------------------
(* What a build is about. *)

Picked == asked.select # None
HeldBy(spaces) == UNION {sets[s] : s \in spaces}

(* _resolve_only_modules() *)
ResolveOnly ==
  LET public == HeldBy(asked.publish)
      wanted == IF Picked THEN public \cap asked.select ELSE public
  IN (HeldBy(Space \ asked.publish) \cup (public \ wanted)) \ wanted

(* _compiler_for(): the modules a stub stands for *)
(* mutant: what is only resolved against is compiled like the rest *)
Stubs_ByFormat(tree) ==
  LET base == BaseMibs[Format[tree]]
      promoted == {m \in base \cap Bundled : Picked => m \in asked.select}
  IN IF Format[tree] = "json" /\ asked.bundle THEN base \ promoted ELSE base

Stubs(tree) ==
  LET base == BaseMibs[Format[tree]]
      promoted == {m \in base \cap Bundled : Picked => m \in asked.select}
  IN ResolveOnly \cup
     (IF Format[tree] = "json" /\ asked.bundle THEN base \ promoted ELSE base)

(* run(): the trees staged for the length of the build *)
NeedsJsondoc(outputs) == outputs \cap (Projection \cup {"asn1", "standard"}) # {}
NeedsProse(outputs) == outputs \cap {"site", "entity"} # {}
ScratchOf(outputs) ==
  (IF NeedsJsondoc(outputs) /\ outputs \cap {"json", "json_texts"} = {} THEN {"json"} ELSE {})
  \cup (IF NeedsProse(outputs) /\ "json_texts" \notin outputs THEN {"json_texts"} ELSE {})

(* CorpusOutputs with the scratch trees in their places *)
Outputs == asked.outputs \cup DOMAIN scratch
Files(tree) == IF tree \in DOMAIN scratch THEN scratch[tree] ELSE kept[tree]

(* compile(): a tree at a time, in a fixed order, and for each a published      *)
(* namespace at a time, in the order of the manifest                            *)
Calls(outputs, publish) == (Tree \cap outputs) \X publish
Place(x, order) == CHOOSE i \in DOMAIN order : order[i] = x
Before(c, d) ==
  \/ Place(c[1], Destinations) < Place(d[1], Destinations)
  \/ c[1] = d[1] /\ Place(c[2], Spaces) < Place(d[2], Spaces)

(* CorpusDriver(): what it refuses; check_disjoint() *)
Refuses(a) ==
  \/ a.publish = {} \/ a.select = {} \/ a.overlap

(* A driver is made, and its build enumerates the sources; _check_selection()  *)
(* refuses a name no published namespace holds.                                *)
Start ==
  /\ phase = "idle" /\ runs < MaxRuns
  /\ \E a \in Settings :
       /\ ~Refuses(a)
       /\ asked' = a
       /\ sets' = [s \in Space |-> Holds[s] \ gone]
       /\ scratch' = [t \in ScratchOf(a.outputs) |-> {}]
       /\ LET held == UNION {Holds[s] \ gone : s \in a.publish} IN
          phase' = IF a.select # None /\ ~(a.select \subseteq held) THEN "raised" ELSE "compile"
       /\ left' = Calls(a.outputs \cup ScratchOf(a.outputs), a.publish)
  /\ processed' = [t \in Tree |-> Nothing]
  /\ wrote' = {} /\ published' = None /\ staged' = {} /\ standard' = {}
  /\ carried' = Nothing /\ runs' = runs + 1
  /\ UNCHANGED <<gone, kept>>

(* A source goes while the build runs *)
Vanish(m) ==
  /\ phase # "idle" /\ Cardinality(gone) < MaxGone
  /\ m \notin gone /\ gone' = gone \cup {m}
  /\ UNCHANGED <<asked, phase, sets, left, processed, kept, scratch, wrote, published,
                 staged, standard, carried, runs>>

-------------------------------------------------------------------------------
(* Compiling. *)

Sources == (HeldBy(Space) \cup IF asked.bundle THEN Bundled ELSE {}) \ gone
Parses(m) == m \in Sources \ asked.broken

(* The least set with S and what the step relates to a member of it: where the *)
(* compiler's two loops over names end                                         *)
Grown(S, step(_)) ==
  {m \in Module : \A T \in SUBSET Module :
     S \subseteq T /\ (\A n \in T : step(n) \subseteq T) => m \in T}

Reached(wanted) == Grown(wanted, LAMBDA m : IF Parses(m) THEN Imports[m] ELSE {})

(* AnyFileSearcher over a JSON tree, StubSearcher *)
Fresh(tree, m) ==
  \/ m \in Stubs(tree)
  \/ Format[tree] = "json" /\ ~asked.rebuild /\ m \in Files(tree)

(* what was built over something bad, at whatever distance *)
Tainted(bad, built) == Grown(bad, LAMBDA m : {n \in built : m \in Imports[n]})

(* What a call of the compiler does with errors ignored *)
Outcome(tree, wanted) ==
  LET reached == Reached(wanted)
      bad == {m \in reached : ~Parses(m)}
      built == {m \in reached \ bad : ~Fresh(tree, m)}
  IN [m \in reached |->
        IF m \notin Sources THEN "missing"
        ELSE IF m \in bad THEN "failed"
        ELSE IF m \notin built THEN "untouched"
        ELSE IF m \in Tainted(bad, built) THEN "unprocessed" ELSE "compiled"]

(* what a namespace holds, or is selected of it *)
Wanted(space) == IF Picked THEN sets[space] \cap asked.select ELSE sets[space]

Compile ==
  /\ phase = "compile"
  /\ \E call \in left :
       LET tree == call[1]
           known == DOMAIN processed[tree]
           outcome == Outcome(tree, Wanted(call[2]) \ known)
           new == {m \in DOMAIN outcome : outcome[m] = "compiled"}
       IN /\ \A other \in left \ {call} : Before(call, other)
          /\ processed' = [processed EXCEPT ![tree] =
               [m \in known \cup DOMAIN outcome |->
                  IF m \in DOMAIN outcome THEN outcome[m] ELSE @[m]]]
          /\ IF tree \in DOMAIN scratch
             THEN scratch' = [scratch EXCEPT ![tree] = @ \cup new] /\ UNCHANGED kept
             ELSE kept' = [kept EXCEPT ![tree] = @ \cup new] /\ UNCHANGED scratch
          /\ wrote' = wrote \cup new
          /\ left' = left \ {call}
  /\ UNCHANGED <<asked, phase, sets, gone, published, staged, standard, carried, runs>>

(* mutant: whatever has a status is published *)
PublishedStatuses_Any ==
  {"compiled", "untouched", "borrowed", "unprocessed", "failed", "missing"}
PublishedStatuses == {"compiled", "untouched", "borrowed"}

(* _published_modules() *)
Publish ==
  /\ phase = "compile" /\ left = {}
  /\ phase' = "stage"
  /\ LET held == {m \in DOMAIN processed["json"] : processed["json"][m] \in PublishedStatuses} IN
     published' = IF "json" \in Outputs THEN IF Picked THEN held \cap asked.select ELSE held
                  ELSE asked.select
  /\ UNCHANGED <<asked, sets, gone, left, processed, kept, scratch, wrote, staged,
                 standard, carried, runs>>

-------------------------------------------------------------------------------
(* Staging and projecting. *)

Chosen(S) == IF published = None THEN S ELSE S \cap published

(* stage(): a module that has vanished is passed over *)
(* mutant: every module the namespaces hold *)
Staging_All == HeldBy(asked.publish) \cap Sources
Staging == Chosen(HeldBy(asked.publish)) \cap Sources

Stage ==
  /\ phase = "stage" /\ phase' = "standard"
  /\ staged' = IF "asn1" \in asked.outputs THEN Staging ELSE {}
  /\ UNCHANGED <<asked, sets, gone, left, processed, kept, scratch, wrote, published,
                 standard, carried, runs>>

(* write_standard() *)
WriteStandard ==
  /\ phase = "standard" /\ phase' = "project"
  /\ standard' = IF "standard" \in asked.outputs
                 THEN Chosen(HeldBy(asked.publish \cap Standard)) ELSE {}
  /\ UNCHANGED <<asked, sets, gone, left, processed, kept, scratch, wrote, published,
                 staged, carried, runs>>

(* _read_corpus(), and the tree each projection reads *)
JsondocTree == IF "json" \in Outputs THEN "json" ELSE "json_texts"
ProseTree == IF "json_texts" \in Outputs THEN "json_texts" ELSE "json"
TreeFor(projection) == IF projection = "index" THEN JsondocTree ELSE ProseTree

Project ==
  /\ phase = "project" /\ phase' = "report"
  /\ carried' = [p \in Projection \cap asked.outputs |-> Chosen(Files(TreeFor(p)))]
  /\ UNCHANGED <<asked, sets, gone, left, processed, kept, scratch, wrote, published,
                 staged, standard, runs>>

(* A step of the build raises *)
Raise ==
  /\ phase \notin {"idle", "raised"} /\ phase' = "raised"
  /\ UNCHANGED <<asked, sets, gone, left, processed, kept, scratch, wrote, published,
                 staged, standard, carried, runs>>

(* run() ends, whether or not the build raised *)
(* mutant: only a build that ends well tidies up *)
Finish_IfWell ==
  /\ phase \in {"report", "raised"} /\ phase' = "idle"
  /\ scratch' = IF phase = "report" THEN Nothing ELSE scratch
  /\ UNCHANGED <<asked, sets, gone, left, processed, kept, wrote, published,
                 staged, standard, carried, runs>>

Finish ==
  /\ phase \in {"report", "raised"} /\ phase' = "idle" /\ scratch' = Nothing
  /\ UNCHANGED <<asked, sets, gone, left, processed, kept, wrote, published,
                 staged, standard, carried, runs>>

Next ==
  \/ Start \/ Compile \/ Publish \/ Stage \/ WriteStandard \/ Project \/ Raise \/ Finish
  \/ \E m \in Module : Vanish(m)

Spec == Init /\ [][Next]_vars

-------------------------------------------------------------------------------
(* Properties. *)

Status == {"compiled", "untouched", "unprocessed", "failed", "missing"}

TypeOK ==
  /\ asked \in Setting /\ sets \in [Space -> SUBSET Module] /\ gone \subseteq Module
  /\ phase \in {"idle", "compile", "stage", "standard", "project", "report", "raised"}
  /\ left \subseteq Tree \X Space
  /\ DOMAIN processed = Tree
  /\ \A t \in Tree : /\ DOMAIN processed[t] \subseteq Module
                     /\ \A m \in DOMAIN processed[t] : processed[t][m] \in Status
  /\ kept \in [Tree -> SUBSET Module]
  /\ DOMAIN scratch \subseteq {"json", "json_texts"}
  /\ \A t \in DOMAIN scratch : scratch[t] \subseteq Module
  /\ published \in {None} \cup SUBSET Module /\ runs \in Nat

Everywhere == staged \cup standard \cup UNION {carried[p] : p \in DOMAIN carried}

(* A module the corpus only resolves against is neither written nor staged nor *)
(* listed, whoever imports it, and nothing of it is indexed or sited but a     *)
(* document an earlier build left in a tree this one was asked for:            *)
(* _resolve_only_modules() and _compiler_for().                                *)
NothingUnpublished ==
  runs > 0 =>
    /\ (wrote \cup staged \cup standard) \cap ResolveOnly = {}
    /\ \A p \in DOMAIN carried :
         carried[p] \cap ResolveOnly \subseteq UNION {kept[t] : t \in Tree \cap asked.outputs}

Compiles(m) == m \in DOMAIN processed["json"] /\ processed["json"][m] \in {"compiled", "untouched"}

(* A build from scratch leaves out what does not compile and all that imports  *)
(* it, in every artifact: _published_modules().                                *)
BrokenLeftOut ==
  published # None /\ "json" \in Outputs /\ asked.rebuild /\ gone = {} =>
    \A m \in Everywhere :
      /\ Compiles(m)
      /\ m \notin Stubs("json") => \A i \in Imports[m] : Compiles(i)

(* What this build made a document of, and the stubs its answer names: those,  *)
(* of them, whose document an earlier build left in a tree.                    *)
Selected(S) == IF Picked THEN S \cap asked.select ELSE S
Reported(status) ==
  Selected({m \in DOMAIN processed["json"] : processed["json"][m] = status})
LeftIn(tree) ==
  {m \in Reported("untouched") : runs > 1 /\ tree \notin DOMAIN scratch /\ m \in kept[tree]}

(* One answer for every artifact (_build): a build from scratch projects what  *)
(* it compiled and, of the modules it stubs, those with a document of an       *)
(* earlier build in the tree it reads; and it stages, of the namespaces it     *)
(* publishes, what it compiled and what it stubs.                              *)
OneModuleSet ==
  phase = "report" /\ "json" \in Outputs /\ asked.rebuild /\ gone = {} =>
    /\ Reported("untouched") \subseteq Stubs("json")
    /\ \A p \in DOMAIN carried : carried[p] = Reported("compiled") \cup LeftIn(TreeFor(p))
    /\ "asn1" \in asked.outputs =>
         staged = (Reported("compiled") \cup Reported("untouched")) \cap HeldBy(asked.publish)

(* A build leaves no scratch tree however it ended: run().                     *)
ScratchGone == phase = "idle" => scratch = Nothing

-------------------------------------------------------------------------------
(* What the documentation says. *)

(* "A module that does not compile -- and, by the same result, everything that *)
(* imports it -- is left out": stage().                                        *)
UncompiledLeftOut ==
  \A m \in staged : \A t \in {"json", "json_texts"} :
    m \in DOMAIN processed[t] => processed[t][m] \notin {"failed", "unprocessed"}

(* "nothing of its is staged, compiled or indexed" (Namespace), "not even one  *)
(* left in the output directory by an earlier build" (write_index()). A stub   *)
(* with such a document is named: see LeftIn.                                  *)
StaysUnpublished ==
  \A p \in DOMAIN carried : carried[p] \cap ResolveOnly = {}
===============================================================================
