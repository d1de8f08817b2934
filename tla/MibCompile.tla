------------------------------ MODULE MibCompile ------------------------------
(* MibCompiler.compile(): the pipeline that takes a list of requested names    *)
(* through look-up and parse, the searchers, code generation, the borrowers,   *)
(* the omission of what imports a failed module, the writer, and the report.   *)
(* One action is one iteration of the loop of that phase.  The output          *)
(* directory outlives a call, so a second call meets what the first one wrote. *)
EXTENDS MibSources, Sequences

CONSTANTS
  Mib,      \* Text -> what parser and symbol table make of the text, see MibRecord
  Fake,     \* module names code generation drops from a module's imports (fakeMibs)
  Plain,    \* an output file that carries neither digest nor producer
  Foreign,  \* an output file that another release of pysmi produced
  Calls,    \* the calls made, see CallRecord
  Disks,    \* the output directories the first call may find
  MaxCalls  \* bound: how many calls are made one after the other

(* declares  the modules whose symbol table is built before the text ends or   *)
(*           fails; whole, whether it reaches its end                          *)
(* imports   what each of them imports; appends, the same as one sequence      *)
(* needs     the modules whose symbol tables code generation walks into        *)
(* defects   the declared modules code generation refuses in any case          *)
MibRecord ==
  [declares : SUBSET Name, whole : BOOLEAN, imports : [Name -> SUBSET Name],
   appends : Seq(Name), needs : [Name -> SUBSET Name], defects : SUBSET Name]

Output == Text \cup {Plain, Foreign}

(* touched   the sources (0: the borrowers) with files newer than any output   *)
(* stub      the names a StubSearcher calls current                            *)
(* lends     what the borrowers have for a name                                *)
(* writes    writeMibs and not dryRun                                          *)
CallRecord ==
  [request : Seq(Name), holds : [Source -> [Name -> Answer]],
   local : SUBSET Source, bundled : BOOLEAN, prefer : BOOLEAN,
   strict : BOOLEAN, noDeps : BOOLEAN, rebuild : BOOLEAN, writes : BOOLEAN,
   touched : SUBSET (Source \cup {0}), stub : SUBSET Name,
   lends : [Name -> {None, Plain, Foreign}]]

Status ==
  [st : {"compiled", "untouched", "failed", "unprocessed", "missing", "borrowed"},
   path : Source \cup {0, None}, shadowed : SUBSET Source, rule : Rule]

Plainly(st) == [st |-> st, path |-> None, shadowed |-> {}, rule |-> ""]
StatusBorrowed == [st |-> "borrowed", path |-> 0, shadowed |-> {}, rule |-> ""]

(* a borrowed file stands in for its module with no imports of its own *)
Loan(m, what) == [src |-> 0, text |-> what, alias |-> m]
Loans == [src : {0}, text : {Plain, Foreign}, alias : Name]
Unit == Copy \cup Loans

Shadow == [others : SUBSET Source, rule : Rule, used : Source]

ASSUME CompileAssumption ==
  /\ Fake \subseteq Name
  /\ \A t \in Text : Mib[t] \in MibRecord
  /\ \A t \in Text :
       {Mib[t].appends[i] : i \in 1..Len(Mib[t].appends)}
       = UNION {Mib[t].imports[m] : m \in Mib[t].declares}
  /\ Calls \subseteq CallRecord
  /\ Disks \subseteq [Name -> Output \cup {None}]
  /\ MaxCalls \in Nat
  /\ {Plain, Foreign} \cap (Text \cup {None}) = {}
  /\ Plain # Foreign
  /\ None \notin Status \cup Loans \cup Shadow

VARIABLES
  call,       \* the options and the world of the call under way
  pc,         \* the phase compile() is in
  queue,      \* mibsToParse
  lookup,     \* mibname of the parse loop while its candidates are tried
  tried,      \* the sources whose candidate did not parse
  parsed,     \* parsedMibs: the copy each module was parsed from
  failed,     \* the keys of failedMibs
  borrowed,   \* borrowedMibs
  built,      \* builtMibs
  tables,     \* symbolTableMap: the text each symbol table was built from
  canon,      \* the keys of canonicalMibNames
  shadow,     \* shadowedMibs, precedenceOfMib and usedPathOfMib
  todo,       \* what the loop of the phase has still to visit
  tainted,    \* tainted
  processed,  \* processed: the report
  disk,       \* the output directory
  wrote,      \* history: what this call handed to the writer successfully
  before,     \* history: the output directory when this call began
  round       \* how many calls have begun

vars == <<call, pc, queue, lookup, tried, parsed, failed, borrowed, built,
          tables, canon, shadow, todo, tainted, processed, disk, wrote, before,
          round>>

sourceVars == <<queue, lookup, tried>>
outputVars == <<disk, wrote>>
callVars == <<call, before, round>>

Nothing == [n \in Name |-> None]
Held(f) == {n \in Name : f[n] # None}

Phase == {"parse", "try", "check", "generate", "borrow", "checkBorrowed",
          "taint", "store", "report", "done", "raised"}

-------------------------------------------------------------------------------
(* The call. *)

(* the locals compile() starts with *)
Fresh(c) ==
  /\ call' = c /\ pc' = "parse" /\ queue' = c.request
  /\ lookup' = None /\ tried' = {} /\ failed' = {} /\ tables' = Nothing
  /\ canon' = {} /\ todo' = {} /\ tainted' = {}
  /\ parsed' = Nothing /\ borrowed' = Nothing /\ built' = Nothing
  /\ shadow' = Nothing /\ processed' = Nothing /\ wrote' = Nothing

Init ==
  /\ call \in Calls /\ pc = "parse" /\ queue = call.request
  /\ lookup = None /\ tried = {} /\ failed = {} /\ tables = Nothing
  /\ canon = {} /\ todo = {} /\ tainted = {}
  /\ parsed = Nothing /\ borrowed = Nothing /\ built = Nothing
  /\ shadow = Nothing /\ processed = Nothing /\ wrote = Nothing
  /\ disk \in Disks /\ before = disk /\ round = 1

NextCall ==
  /\ pc \in {"done", "raised"} /\ round < MaxCalls
  /\ \E c \in Calls : Fresh(c)
  /\ before' = disk /\ round' = round + 1
  /\ UNCHANGED disk

-------------------------------------------------------------------------------
(* Look-up and parse. *)

Requested == {call.request[i] : i \in 1..Len(call.request)}

(* mutant: what was parsed is parsed again when it is imported again *)
Settled_OnlyFailed(n) == n \in failed

Settled(n) == parsed[n] # None \/ n \in failed

SkipSettled ==
  /\ pc = "parse" /\ queue # <<>> /\ Settled(Head(queue))
  /\ queue' = Tail(queue)
  /\ UNCHANGED <<pc, lookup, tried, parsed, failed, borrowed, built, tables,
                 canon, shadow, todo, tainted, processed, outputVars, callVars>>

(* an error of a source other than "not found" leaves compile() *)
Escape ==
  /\ pc = "parse" /\ queue # <<>> /\ ~Settled(Head(queue))
  /\ Raises(call, Head(queue))
  /\ pc' = "raised"
  /\ UNCHANGED <<sourceVars, parsed, failed, borrowed, built, tables, canon,
                 shadow, todo, tainted, processed, outputVars, callVars>>

First(n, k) == LET K == Candidates(call, n) IN IsBest(call, K, K, k)

(* mutant: revisions that decide are not a conflict *)
Rivals_Undecided(n, k) ==
  LET K == Candidates(call, n) IN
  IF Precedence(K) = "newest" THEN {} ELSE Differing(K, k.text)

(* the sources of the copies of other content than the one ranked first, k *)
Rivals(n, k) == Differing(Candidates(call, n), k.text)

NoteRivals(n, k) ==
  IF Rivals(n, k) = {} THEN shadow
  ELSE [shadow EXCEPT ![n] =
          [others |-> Rivals(n, k), rule |-> Precedence(Candidates(call, n)), used |-> k.src]]

(* strictSources: more than one text for the name is an error *)
Conflict ==
  /\ pc = "parse" /\ queue # <<>>
  /\ LET n == Head(queue) IN
       /\ ~Settled(n) /\ ~Raises(call, n) /\ call.strict
       /\ \E k \in Candidates(call, n) :
            First(n, k) /\ Rivals(n, k) # {} /\ shadow' = NoteRivals(n, k)
       /\ failed' = failed \cup {n}
       /\ processed' = [processed EXCEPT ![n] = Plainly("failed")]
  /\ queue' = Tail(queue)
  /\ UNCHANGED <<pc, lookup, tried, parsed, borrowed, built, tables, canon,
                 todo, tainted, outputVars, callVars>>

(* mutant: a name nothing holds is remembered but not reported *)
Missing_Unreported ==
  /\ pc = "parse" /\ queue # <<>>
  /\ ~Settled(Head(queue)) /\ ~Raises(call, Head(queue))
  /\ Candidates(call, Head(queue)) = {}
  /\ failed' = failed \cup {Head(queue)} /\ queue' = Tail(queue)
  /\ UNCHANGED <<pc, lookup, tried, parsed, borrowed, built, tables, canon,
                 shadow, todo, tainted, processed, outputVars, callVars>>

Missing ==
  /\ pc = "parse" /\ queue # <<>>
  /\ LET n == Head(queue) IN
       /\ ~Settled(n) /\ ~Raises(call, n)
       /\ Candidates(call, n) = {}
       /\ failed' = failed \cup {n}
       /\ processed' = [processed EXCEPT
            ![n] = IF @ = None THEN Plainly("missing") ELSE @]
  /\ queue' = Tail(queue)
  /\ UNCHANGED <<pc, lookup, tried, parsed, borrowed, built, tables, canon,
                 shadow, todo, tainted, outputVars, callVars>>

PickUp ==
  /\ pc = "parse" /\ queue # <<>>
  /\ LET n == Head(queue) IN
       /\ ~Settled(n) /\ ~Raises(call, n)
       /\ \E k \in Candidates(call, n) :
            /\ First(n, k) /\ ~(call.strict /\ Rivals(n, k) # {})
            /\ shadow' = NoteRivals(n, k)
       /\ lookup' = n
  /\ queue' = Tail(queue) /\ pc' = "try" /\ tried' = {}
  /\ UNCHANGED <<parsed, failed, borrowed, built, tables, canon, todo, tainted,
                 processed, outputVars, callVars>>

Untried ==
  IF lookup = None THEN {}
  ELSE {k \in Candidates(call, lookup) : k.src \notin tried}

(* the candidate the loop is at: the best of those not yet tried *)
Trying(k) == IsBest(call, Candidates(call, lookup), Untried, k)

(* what each module the text declares leaves behind, before any error; the     *)
(* failure of an earlier candidate is forgotten under the name looked up       *)
Declared(k, m) == m \in Mib[k.text].declares

(* mutant: the first text a module is parsed from stays, its table does not *)
TakeDeclared_FirstStays(k) ==
  /\ parsed' = [m \in Name |->
       IF Declared(k, m) /\ parsed[m] = None THEN k ELSE parsed[m]]
  /\ tables' = [m \in Name |-> IF Declared(k, m) THEN k.text ELSE tables[m]]
  /\ queue' = queue \o Mib[k.text].appends
  /\ UNCHANGED <<canon, shadow>>

(* mutant: what was passed over for the first candidate stays noted *)
TakeDeclared_ShadowStays(k) ==
  /\ parsed' = [m \in Name |-> IF Declared(k, m) THEN k ELSE parsed[m]]
  /\ tables' = [m \in Name |-> IF Declared(k, m) THEN k.text ELSE tables[m]]
  /\ queue' = queue \o Mib[k.text].appends
  /\ canon' = IF k.alias \in Requested
              THEN canon \cup Mib[k.text].declares ELSE canon
  /\ UNCHANGED shadow

TakeDeclared(k) ==
  /\ parsed' = [m \in Name |-> IF Declared(k, m) THEN k ELSE parsed[m]]
  /\ tables' = [m \in Name |-> IF Declared(k, m) THEN k.text ELSE tables[m]]
  /\ queue' = queue \o Mib[k.text].appends
  /\ canon' = IF k.alias \in Requested
              THEN canon \cup Mib[k.text].declares ELSE canon
  /\ shadow' = [m \in Name |->
       IF Declared(k, m) /\ shadow[lookup] # None
       THEN [others |-> Differing(Candidates(call, lookup), k.text),
             rule |-> shadow[lookup].rule, used |-> k.src]
       ELSE shadow[m]]

Forget(k, S) == IF Mib[k.text].declares = {} THEN S ELSE S \ {lookup}

(* mutant: the failure of an earlier candidate stays in the report *)
Unreport_Never(k) == processed

Unreport(k) ==
  IF Mib[k.text].declares = {} THEN processed
  ELSE [processed EXCEPT ![lookup] = None]

(* the text is read to its end: the name looked up is dealt with *)
Accept(k) ==
  /\ pc = "try" /\ Trying(k) /\ Mib[k.text].whole
  /\ TakeDeclared(k)
  /\ failed' = Forget(k, failed)
  /\ processed' = Unreport(k)
  /\ lookup' = None /\ tried' = {} /\ pc' = "parse"
  /\ UNCHANGED <<borrowed, built, todo, tainted, outputVars, callVars>>

(* parser or symbol table gives up on the text: the next candidate is tried,   *)
(* and when there is none the last error stands                                *)
Reject(k) ==
  /\ pc = "try" /\ Trying(k) /\ ~Mib[k.text].whole
  /\ TakeDeclared(k)
  /\ failed' = failed \cup {lookup}
  /\ processed' = [processed EXCEPT ![lookup] = Plainly("failed")]
  /\ IF Untried = {k}
     THEN pc' = "parse" /\ lookup' = None /\ tried' = {}
     ELSE UNCHANGED <<pc, lookup>> /\ tried' = tried \cup {k.src}
  /\ UNCHANGED <<borrowed, built, todo, tainted, outputVars, callVars>>

EndParse ==
  /\ pc = "parse" /\ queue = <<>>
  /\ pc' = "check" /\ todo' = Held(parsed)
  /\ UNCHANGED <<sourceVars, parsed, failed, borrowed, built, tables, canon,
                 shadow, tainted, processed, outputVars, callVars>>

(* mutant: whatever was read counts as asked for *)
Excluded_Unread(m) == call.noDeps /\ tables[m] = None

(* noDeps: only what was found under a requested name is generated or borrowed *)
Excluded(m) == call.noDeps /\ m \notin canon

-------------------------------------------------------------------------------
(* The searchers: a StubSearcher, then one over the output directory. *)

(* mutant: output of another release is as good as any *)
Current_AnyRelease(d, m, k, digest) ==
  \/ m \in call.stub
  \/ /\ ~call.rebuild
     /\ d[m] # None
     /\ k.src \notin call.touched
     /\ digest /\ d[m] # Plain => d[m] = k.text

(* mutant: a file that carries no digest is never current *)
Current_StampedOnly(d, m, k, digest) ==
  \/ m \in call.stub
  \/ /\ ~call.rebuild
     /\ d[m] \notin {None, Foreign, Plain}
     /\ k.src \notin call.touched
     /\ digest => d[m] = k.text

(* the output file d[m] is current for a unit; digest says whether the caller  *)
(* passed the digest of its text                                               *)
Current(d, m, k, digest) ==
  \/ m \in call.stub
  \/ /\ ~call.rebuild
     /\ d[m] \notin {None, Foreign}
     /\ k.src \notin call.touched
     /\ digest /\ d[m] # Plain => d[m] = k.text

CheckParsed(m) ==
  /\ pc = "check" /\ m \in todo
  /\ todo' = todo \ {m}
  /\ IF Current(disk, m, parsed[m], TRUE) \/ Excluded(m)
     THEN /\ parsed' = [parsed EXCEPT ![m] = None]
          /\ processed' = [processed EXCEPT ![m] = Plainly("untouched")]
     ELSE UNCHANGED <<parsed, processed>>
  /\ UNCHANGED <<pc, sourceVars, failed, borrowed, built, tables, canon, shadow,
                 tainted, outputVars, callVars>>

EndCheck ==
  /\ pc = "check" /\ todo = {}
  /\ pc' = "generate"
  /\ UNCHANGED <<sourceVars, parsed, failed, borrowed, built, tables, canon,
                 shadow, todo, tainted, processed, outputVars, callVars>>

-------------------------------------------------------------------------------
(* Code generation. *)

(* An OID or a type is followed from symbol table to symbol table: there must  *)
(* be one for each module on the way, whatever became of the module since.     *)
Resolvable(m) ==
  \E S \in SUBSET Held(tables) :
    m \in S /\ \A n \in S : Mib[tables[n]].needs[n] \subseteq S

(* mutant: a symbol table that is not there is passed over *)
Generates_Anyway(m) == m \notin Mib[parsed[m].text].defects

Generates(m) == m \notin Mib[parsed[m].text].defects /\ Resolvable(m)

Generate(m) ==
  /\ pc = "generate" /\ parsed[m] # None
  /\ parsed' = [parsed EXCEPT ![m] = None]
  /\ IF Generates(m)
     THEN /\ built' = [built EXCEPT ![m] = parsed[m]]
          /\ UNCHANGED <<failed, processed>>
     ELSE /\ failed' = failed \cup {m}
          /\ processed' = [processed EXCEPT ![m] = Plainly("failed")]
          /\ UNCHANGED built
  /\ UNCHANGED <<pc, sourceVars, borrowed, tables, canon, shadow, todo, tainted,
                 outputVars, callVars>>

EndGenerate ==
  /\ pc = "generate" /\ parsed = Nothing
  /\ pc' = "borrow" /\ todo' = failed
  /\ UNCHANGED <<sourceVars, parsed, failed, borrowed, built, tables, canon,
                 shadow, tainted, processed, outputVars, callVars>>

-------------------------------------------------------------------------------
(* The borrowers. *)

Borrow(m) ==
  /\ pc = "borrow" /\ m \in todo
  /\ todo' = todo \ {m}
  /\ IF Excluded(m) \/ call.lends[m] = None
     THEN UNCHANGED <<borrowed, failed>>
     ELSE /\ borrowed' = [borrowed EXCEPT ![m] = Loan(m, call.lends[m])]
          /\ failed' = failed \ {m}
  /\ UNCHANGED <<pc, sourceVars, parsed, built, tables, canon, shadow, tainted,
                 processed, outputVars, callVars>>

EndBorrow ==
  /\ pc = "borrow" /\ todo = {}
  /\ pc' = "checkBorrowed"
  /\ UNCHANGED <<sourceVars, parsed, failed, borrowed, built, tables, canon,
                 shadow, todo, tainted, processed, outputVars, callVars>>

(* What is borrowed has passed the noDeps test of Borrow, so the same test     *)
(* here never holds.                                                           *)
CheckBorrowed(m) ==
  /\ pc = "checkBorrowed" /\ borrowed[m] # None
  /\ borrowed' = [borrowed EXCEPT ![m] = None]
  /\ IF Current(disk, m, borrowed[m], FALSE) \/ Excluded(m)
     THEN /\ processed' = [processed EXCEPT ![m] = Plainly("untouched")]
          /\ UNCHANGED built
     ELSE /\ processed' = [processed EXCEPT ![m] = StatusBorrowed]
          /\ built' = [built EXCEPT ![m] = borrowed[m]]
  /\ UNCHANGED <<pc, sourceVars, parsed, failed, tables, canon, shadow, todo,
                 tainted, outputVars, callVars>>

EndCheckBorrowed ==
  /\ pc = "checkBorrowed" /\ borrowed = Nothing
  /\ pc' = "taint" /\ tainted' = failed
  /\ UNCHANGED <<sourceVars, parsed, failed, borrowed, built, tables, canon,
                 shadow, todo, processed, outputVars, callVars>>

-------------------------------------------------------------------------------
(* The omission of what imports a failed module. *)

(* what code generation reports as imported, nothing for a borrowed file *)
ImportsOf(m, k) == IF k.text \in Text THEN Mib[k.text].imports[m] \ Fake ELSE {}

(* mutant: one round, only what imports a failed module itself *)
Spreading_OneRound ==
  {m \in Held(built) \ tainted : ImportsOf(m, built[m]) \cap failed # {}}

Spreading ==
  {m \in Held(built) \ tainted : ImportsOf(m, built[m]) \cap tainted # {}}

Spread ==
  /\ pc = "taint" /\ Spreading # {}
  /\ tainted' = tainted \cup Spreading
  /\ UNCHANGED <<pc, sourceVars, parsed, failed, borrowed, built, tables, canon,
                 shadow, todo, processed, outputVars, callVars>>

(* mutant: one failure discards the whole call *)
Omit_WholeCall ==
  /\ pc = "taint" /\ Spreading = {}
  /\ processed' = [m \in Name |->
       IF tainted # {} /\ built[m] # None THEN Plainly("unprocessed")
       ELSE processed[m]]
  /\ built' = IF tainted = {} THEN built ELSE Nothing
  /\ pc' = "store"
  /\ UNCHANGED <<sourceVars, parsed, failed, borrowed, tables, canon, shadow,
                 todo, tainted, outputVars, callVars>>

(* mutant: the old output of what is omitted is removed on the way *)
Omit_Cleanup ==
  /\ pc = "taint" /\ Spreading = {}
  /\ built' = [m \in Name |-> IF m \in tainted THEN None ELSE built[m]]
  /\ disk' = [m \in Name |-> IF m \in tainted THEN None ELSE disk[m]]
  /\ pc' = "store"
  /\ UNCHANGED <<sourceVars, parsed, failed, borrowed, tables, canon, shadow,
                 todo, tainted, processed, wrote, callVars>>

Omit ==
  /\ pc = "taint" /\ Spreading = {}
  /\ processed' = [m \in Name |->
       IF m \in tainted \cap Held(built) THEN Plainly("unprocessed")
       ELSE processed[m]]
  /\ built' = [m \in Name |-> IF m \in tainted THEN None ELSE built[m]]
  /\ pc' = "store"
  /\ UNCHANGED <<sourceVars, parsed, failed, borrowed, tables, canon, shadow,
                 todo, tainted, outputVars, callVars>>

-------------------------------------------------------------------------------
(* The writer, and the report. *)

(* mutant: a module no other copy was found of has no rule, not an empty one *)
ShadowOf_NoDefault(m) ==
  IF shadow[m] = None THEN [others |-> {}, rule |-> None]
  ELSE [others |-> shadow[m].others, rule |-> shadow[m].rule]

ShadowOf(m) ==
  IF shadow[m] = None THEN [others |-> {}, rule |-> ""]
  ELSE [others |-> shadow[m].others, rule |-> shadow[m].rule]

Compiled(m, k) ==
  [st |-> "compiled", path |-> k.src,
   shadowed |-> ShadowOf(m).others, rule |-> ShadowOf(m).rule]

Store(m) ==
  /\ pc = "store" /\ built[m] # None
  /\ built' = [built EXCEPT ![m] = None]
  /\ processed' = [processed EXCEPT
       ![m] = IF @ = None THEN Compiled(m, built[m]) ELSE @]
  /\ IF call.writes
     THEN /\ disk' = [disk EXCEPT ![m] = built[m].text]
          /\ wrote' = [wrote EXCEPT ![m] = built[m]]
     ELSE UNCHANGED outputVars
  /\ UNCHANGED <<pc, sourceVars, parsed, failed, borrowed, tables, canon, shadow,
                 todo, tainted, callVars>>

(* The writer raises: before the old file was replaced, or after it, when what *)
(* could not be byte-compiled is unlinked again.                               *)
StoreFails(m) ==
  /\ pc = "store" /\ built[m] # None /\ call.writes
  /\ built' = [built EXCEPT ![m] = None]
  /\ failed' = failed \cup {m}
  /\ processed' = [processed EXCEPT ![m] = Plainly("failed")]
  /\ disk' \in {disk, [disk EXCEPT ![m] = None]}
  /\ UNCHANGED <<pc, sourceVars, parsed, borrowed, tables, canon, shadow, todo,
                 tainted, wrote, callVars>>

EndStore ==
  /\ pc = "store" /\ built = Nothing
  /\ pc' = "report"
  /\ UNCHANGED <<sourceVars, parsed, failed, borrowed, built, tables, canon,
                 shadow, todo, tainted, processed, outputVars, callVars>>

(* the copies passed over are added to a status that does not name any *)
Annotated(m) ==
  LET p == processed[m] IN
  IF p = None \/ shadow[m] = None THEN p
  ELSE IF shadow[m].others = {} \/ p.shadowed # {} THEN p
  ELSE [p EXCEPT !.shadowed = shadow[m].others, !.rule = shadow[m].rule,
                 !.path = IF @ = None THEN shadow[m].used ELSE @]

Report ==
  /\ pc = "report"
  /\ processed' = [m \in Name |-> Annotated(m)]
  /\ pc' = "done"
  /\ UNCHANGED <<sourceVars, parsed, failed, borrowed, built, tables, canon,
                 shadow, todo, tainted, outputVars, callVars>>

-------------------------------------------------------------------------------
Next ==
  \/ SkipSettled \/ Escape \/ Conflict \/ Missing \/ PickUp
  \/ \E k \in Untried : Accept(k) \/ Reject(k)
  \/ EndParse
  \/ \E m \in Name : CheckParsed(m)
  \/ EndCheck
  \/ \E m \in Name : Generate(m)
  \/ EndGenerate
  \/ \E m \in Name : Borrow(m)
  \/ EndBorrow
  \/ \E m \in Name : CheckBorrowed(m)
  \/ EndCheckBorrowed \/ Spread \/ Omit
  \/ \E m \in Name : Store(m) \/ StoreFails(m)
  \/ EndStore \/ Report \/ NextCall

Spec == Init /\ [][Next]_vars

(* compile() runs to its end by itself; only the next call is the caller's *)
FairSpec == Spec /\ WF_vars(Next /\ round' = round)

-------------------------------------------------------------------------------
(* The state has the types the code's dictionaries and lists have; in          *)
(* particular a status other than "borrowed" is never given a borrowed path.   *)
TypeOK ==
  /\ call \in CallRecord /\ pc \in Phase /\ round \in Nat
  /\ queue \in Seq(Name) /\ lookup \in Name \cup {None} /\ tried \subseteq Source
  /\ failed \subseteq Name /\ canon \subseteq Name
  /\ todo \subseteq Name /\ tainted \subseteq Name
  /\ parsed \in [Name -> Copy \cup {None}]
  /\ borrowed \in [Name -> Loans \cup {None}]
  /\ built \in [Name -> Unit \cup {None}]
  /\ wrote \in [Name -> Unit \cup {None}]
  /\ tables \in [Name -> Text \cup {None}]
  /\ shadow \in [Name -> Shadow \cup {None}]
  /\ processed \in [Name -> Status \cup {None}]
  /\ disk \in [Name -> Output \cup {None}]
  /\ before \in [Name -> Output \cup {None}]

-------------------------------------------------------------------------------
(* Safety. *)

Has(m, st) == processed[m] # None /\ processed[m].st = st

(* sources whose files hold no module but the one they are asked for by *)
OwnNames ==
  \A n \in Name : \A k \in Candidates(call, n) : Mib[k.text].declares \subseteq {n}

(* ... and hold it whole or not at all *)
OneModuleEach ==
  \A n \in Name : \A k \in Candidates(call, n) :
    Mib[k.text].declares = IF Mib[k.text].whole THEN {n} ELSE {}

(* "What cannot be kept is a module that imports one that failed": no module   *)
(* the writer got is, or imports, one that had failed or was omitted when the  *)
(* writing began.                                                              *)
CleanOutput ==
  \A m \in Held(wrote) :
    m \notin tainted /\ ImportsOf(m, wrote[m]) \cap tainted = {}

Omitted == {m \in Name : Has(m, "unprocessed")}

TableImports(m) ==
  IF tables[m] = None THEN {} ELSE Mib[tables[m]].imports[m] \ Fake

(* "... and nothing else": every module omitted for what it imports is the     *)
(* start of a chain of imports, through other omitted modules, that ends in a  *)
(* failed one; no set of omitted modules is held back by itself alone.         *)
OmittedForCause ==
  \A S \in SUBSET Omitted : S # {} =>
    \E m \in S : m \in failed \/ TableImports(m) \cap ((failed \cup Omitted) \ S) # {}

(* A module can have failed and still be read: its text broke off after the    *)
(* declaration, or a file of another name held it too.  When it is lent as     *)
(* well, the report tells of the loan and the writer gets what was read.       *)
Blurred(m) == call.lends[m] # None /\ ~OneModuleEach

(* The report and the output directory agree: what is reported compiled or     *)
(* borrowed is what the writer took, except in a call that writes nothing.     *)
ReportMatchesOutput ==
  pc = "done" =>
    \A m \in Name : ~Blurred(m) =>
      ((wrote[m] # None) <=> (call.writes /\ (Has(m, "compiled") \/ Has(m, "borrowed"))))

(* Every name asked for has a status when the call returns, or was found in a  *)
(* file that was read to its end and each of whose modules has one.            *)
EveryRequestAnswered ==
  pc = "done" =>
    \A n \in Requested :
      \/ processed[n] # None
      \/ \E k \in Candidates(call, n) :
           Mib[k.text].whole /\ \A m \in Mib[k.text].declares : processed[m] # None

(* A module reported compiled names the file its text came from, and with it   *)
(* exactly the sources whose copy of the module holds another text: no copy is *)
(* passed over silently and none is named that agrees with the one used.       *)
ShadowsAreTold ==
  pc = "done" /\ OwnNames =>
    \A m \in Name : Has(m, "compiled") =>
      \E k \in Candidates(call, m) :
        /\ k.src = processed[m].path
        /\ processed[m].shadowed = Differing(Candidates(call, m), k.text)
        /\ call.writes => wrote[m] = k

(* strictSources: a module with two different copies is never written from     *)
(* one of them; only a borrowed file can stand in for it.                      *)
StrictTakesNoSide ==
  call.strict =>
    \A m \in Held(wrote) : wrote[m].text \in Text =>
      \A k \in Candidates(call, m) : k.text = wrote[m].text

(* m is declared by a text in a file of a name that was asked for, or was not *)
AskedFor(m, text) ==
  \E n \in Name : \E k \in Candidates(call, n) :
    m \in Mib[k.text].declares /\ k.text = text /\ k.alias \in Requested

Unasked(m, text) ==
  \E n \in Name : \E k \in Candidates(call, n) :
    m \in Mib[k.text].declares /\ k.text = text /\ k.alias \notin Requested

(* noDeps: nothing is written but what a file of a requested name declares.    *)
NoDepsWritesRequests ==
  call.noDeps => \A m \in Held(wrote) : \E text \in Text : AskedFor(m, text)

(* "untouched" is only said of a module whose output is there and current, is  *)
(* in the stub list, or is a dependency noDeps leaves out.                     *)
UntouchedIsCurrent ==
  \A m \in Name : Has(m, "untouched") /\ ~Blurred(m) =>
    \/ m \in call.stub
    \/ call.noDeps /\ Unasked(m, tables[m])
    \/ /\ disk[m] = before[m] /\ disk[m] \notin {None, Foreign}
       /\ disk[m] \in {Plain, tables[m]} \/ call.lends[m] # None

(* Incremental: an output file that already holds what this call would put     *)
(* there is not written again, unless rebuild asks for it or a source is newer.*)
NoNeedlessRewrite ==
  ~call.rebuild =>
    \A m \in Held(wrote) :
      /\ m \notin call.stub
      /\ wrote[m].src \notin call.touched /\ wrote[m].text # Foreign =>
           before[m] # wrote[m].text

(* A module is generated from the text its own symbol table was built from,    *)
(* also when a later file declared it again.                                   *)
GeneratedFromItsTable ==
  \A m \in Name :
    /\ parsed[m] # None => tables[m] = parsed[m].text
    /\ wrote[m] # None => tables[m] = wrote[m].text \/ wrote[m].text \notin Text

-------------------------------------------------------------------------------
(* The outcome. *)

(* What compile() writes, said without its queues, its phases and the order of *)
(* the request, where every file holds its module whole or not at all.         *)
Used(n) ==
  LET whole == {k \in Candidates(call, n) : Mib[k.text].whole} IN
  IF whole = {} \/ (call.strict /\ Rivals(n, Resolve(call, n)) # {}) THEN None
  ELSE Best(call, Candidates(call, n), whole)

Imports(n) == IF Used(n) = None THEN {} ELSE Mib[Used(n).text].imports[n]

Least(P(_)) == {n \in Name : \A S \in SUBSET Name : P(S) => n \in S}

Reached == LET closed(S) == /\ Requested \subseteq S
                            /\ \A n \in S : Imports(n) \subseteq S
           IN Least(closed)

LeftOut(n) == call.noDeps /\ Used(n).alias \notin Requested

Sound(n) ==
  /\ Used(n) # None
  /\ n \notin Mib[Used(n).text].defects
  /\ \E S \in SUBSET {m \in Reached : Used(m) # None} :
       n \in S /\ \A m \in S : Mib[Used(m).text].needs[m] \subseteq S

Idle(n) == Used(n) # None /\ (LeftOut(n) \/ Current(before, n, Used(n), TRUE))

OnLoan(n) ==
  /\ ~Idle(n) /\ ~Sound(n) /\ call.lends[n] # None
  /\ call.noDeps => Used(n) # None /\ ~LeftOut(n)

Broken ==
  LET held(S) ==
        \A n \in {m \in Reached : ~Idle(m) /\ ~OnLoan(m)} :
          ~Sound(n) \/ (Imports(n) \ Fake) \cap S # {} => n \in S
  IN Least(held)

Expected ==
  {n \in Reached \ Broken :
     /\ ~Idle(n)
     /\ OnLoan(n) => ~Current(before, n, Loan(n, call.lends[n]), FALSE)}

(* What is written is exactly that, whatever the order of the request and of   *)
(* the modules within each phase, except what the writer itself could not take.*)
WritesAsExpected ==
  pc = "done" /\ OneModuleEach /\ call.writes =>
    Held(wrote) = {n \in Expected : ~Has(n, "failed")}

-------------------------------------------------------------------------------
(* Progress. *)

(* The output directory changes one module at a time, while the writer runs,   *)
(* and never under a module whose turn has passed in this call.                *)
OnlyTheWriterWrites ==
  [][\A m \in Name : disk'[m] # disk[m] =>
       /\ pc = "store" /\ built[m] # None
       /\ \A n \in Name \ {m} : disk'[n] = disk[n]
       /\ wrote[m] = None]_vars

(* "Once no more unresolved dependencies remain, compiler will call its        *)
(* writer": a call always returns, also when modules import each other.        *)
Returns == pc = "parse" ~> pc \in {"done", "raised"}

===============================================================================
