# A formal model of pysmi

pysmi reads SNMP MIB modules in ASN.1, resolves what they import, and writes
Python modules, JSON documents, or a whole published corpus of them.  This
directory holds TLA+ modules that model how it does that, TLC configurations that
check them on small instances, and theorems about them that the TLA+ proof system
checks for every value of the constants.

Nearly everything here is sequential code: the difficulty is less in
interleavings than in *stages* that hand each other dictionaries keyed by names
that need not agree, in state that outlives a call, and in data (orders, OIDs,
restrictions, layouts) whose odd cases a test hardly reaches.  Processes meet in
two places only, the output directory and the directory of parse trees, and both
are modelled one system call at a time.

## The system

### Components

| component | state it keeps | operations | modules |
|---|---|---|---|
| `compiler.py` | sources, searchers, borrowers; per call: the work list, parsed, failed, borrowed and built modules, symbol tables, shadow records, the report | `compile`, `resolve`, `list_mibs`, `build_index`, `prune` | `MibSources`, `MibCompile`, `MibPrune` |
| `reader/` | directory listings and an index of file names | `get_data`, `list_mibs`, `clear_cache` | `MibPrune`, `MibSources` |
| `searcher/` | none; they read the output directory or a package | `file_exists` | `Searchers`, `OutputStore` |
| `borrower/` | a reader | `get_data` | `MibCompile` |
| `writer/` | the output directory | `put_data`, `list_data`, `del_data` | `OutputStore`, `AtomicStore` |
| `lexer/`, `parser/` | the lexer's state, shared by all texts one parser reads | `parse`, `reset` | `MibLexer`, `ParseSession`, `MibClauses` |
| `cache/` | trees by key, in memory (bounded, least recently used) or in a directory | `get`, `set`, `clear` | `ParseSession` |
| `codegen/symtable.py` | per module: symbols, those postponed until their parents are known, imports; a counter of made up columns | `gen_code` | `SymbolTable`, `Codegen` |
| `codegen/jsondoc.py`, `pysnmp.py`, `base.py` | per module: the output under construction; across modules: the counter, the revision | `gen_code` | `Backends`, `Codegen` |
| `corpus/driver.py`, `namespace.py`, `precedence.py` | trees, warmed compilers, scratch directories, settings | `compile`, `stage`, `write_*`, `run` | `Corpus` |
| `corpus/index.py`, `closure.py`, `arcs.py`, `entity.py` | ranks, names and contacts while documents are folded in | `rank_index`, `merge_frozen`, `anchor_index`, `closures`, `entities` | `OidIndex`, `Catalogue` |
| `corpus/db.py`, `conformance.py` | one SQLite file | `write_db`, `validate`, the standard queries | `OidTree`, `Catalogue` |
| `corpus/buckets.py`, `pages.py`, `site/` | the files of a site | `buckets`, `locate`, `build_site` | `ListPages`, `SiteMap`, `Catalogue` |
| `patches.py`, `patchgen.py`, `scripts/mibpatch.py` | texts and patch files | derive, parse, apply, check, stage | `PatchFormat`, `ImportRepair`, `PatchTree` |
| `contribute.py`, `registry/`, maintenance scripts, support | little | see below | none |

`PROJECT.json` lists every component with its files, its modules and what is
left out, and the hazards of the code at their lines, each with the properties
that would notice it going wrong.

### How they interact

`compile()` is a pipeline in one thread.  It calls the readers in source order,
the parser (through the parse cache), the symbol table generator, the searchers,
the code generator, the borrowers and the writer, each in a loop of its own over
a dictionary the previous loop filled.  Components talk by return values and by
exceptions, and an exception decides to which dictionary a module goes.  State
outlives a call in the output directory, in what readers remember, in the parse
cache, in the lexer and in the code generators.  `mibdump` calls `compile()`,
`build_index()` and `prune()` one after the other on one compiler.  `mibcorpus`
calls `compile()` once per namespace and destination, then reads what was
published back and projects it into indexes, a database and a site.  `mibpatch`
edits the texts that a corpus is built from.

### What is hard

- **Failure of a part.**  Each module fails alone, and takes down what imports
  it, through chains and cycles.
- **Names.**  A module is named in its text, a file only guesses at it; several
  files and namespaces declare one name.
- **Order.**  Requests, imports, declarations within a text, documents of a
  corpus: the outcome should not depend on it.
- **Stale state.**  Output is reused when it is current; readers, lexers and
  generators remember; a frozen index is replayed; a patch outlives its text.
- **Processes and kills** around the two shared directories and the database.
- **Boundaries.**  Widths of arcs in a key, lengths of labels, restrictions
  narrowed twice, lines of context in a patch.
- **Termination.**  The work list grows while it is consumed.

## The modules

A definition whose comment begins with *mutant* is a broken variant of the
definition below it: with it in place, the property `PROJECT.json` names for it
fails.

### `MibSources`: choosing a copy

Pure operators over a call record.  `Candidates` is `_candidate_sources()` before
its sort: `Asked` says which sources the walk reaches, `Raises` that one of them
ends the call by an error.  `Better`, `AllDated`, `Precedence` are
`rank_by_revision()` with the stable sort and `preferConfiguredSources`;
`Differing` is the list of copies passed over, and `Resolve` is `resolve()`.  A
text stands for a file's content and its digest.  A copy's source stands for its
path.

### `MibCompile`: one call of `compile()` and the next

| state | code |
|---|---|
| `queue` | `mibsToParse` |
| `parsed`, `failed`, `borrowed`, `built` | `parsedMibs`, `failedMibs`, `borrowedMibs`, `builtMibs` |
| `tables`, `canon` | `symbolTableMap`, the keys of `canonicalMibNames` |
| `shadow` | `shadowedMibs`, `precedenceOfMib`, `usedPathOfMib` |
| `processed` | the dictionary returned |
| `lookup`, `tried` | the loop over the candidates of one name |
| `disk` | the output directory, by module: a text, `Plain` (a file without markers), `Foreign` (made by another release) or nothing |
| `call` | the options and the world of the call |
| `wrote`, `before`, `round` | history |

| actions | code |
|---|---|
| `SkipSettled`, `Escape`, `Conflict`, `Missing`, `PickUp` | one turn of the `while mibsToParse` loop up to the loop over candidates |
| `Accept`, `Reject` | one candidate: parse and symbol table of all its modules, and its error |
| `CheckParsed` | the searchers and `noDeps` over `parsedMibs` |
| `Generate` | code generation of one module |
| `Borrow`, `CheckBorrowed` | the two loops of the borrowers |
| `Spread`, `Omit` | the `tainted` loop and the omission |
| `Store`, `StoreFails` | the writer |
| `Report` | the completion of statuses with the copies passed over |
| `NextCall` | the caller calls again, in a changed world |

The loops over dictionaries visit modules in any order; the code's order is one
of them.  The parse loop keeps the order of the code, a queue, because what is
looked up first matters there.  `WritesAsExpected` compares the outcome with a
definition that has no queue and no phases (`Reached`, `Sound`, `Idle`, `OnLoan`,
`Broken`, `Expected`): least sets over the imports.

### `MibPrune`: `prune()` between other calls

Directories (`tree`), what their readers remember (`listing` is `_dirCache`,
`learned` is `_mibIndex`), the output directory and the loops of `prune()`.
`FileComes` and `FileGoes` change a directory at any moment.  `Compile` keeps of
`compile()` only what `prune()` can see.

### `Searchers`, `OutputStore`, `AtomicStore`: the output directory

`Searchers` has one operator per `file_exists()`: markers, modification times,
byte code headers, packages in eggs and directories, stubs.  `OutputStore` is the
directory under several processes.

| state | code |
|---|---|
| `dir`, `cached` | the files of the directory, by module; the byte code in `__pycache__` |
| `temp`, `left` | the temporary file a process works on; those nobody works on any more |
| `proc` | where each process stands in `file_exists()`, `put_data()` or `del_data()` |
| `now`, `short` | the clock; whether `os.write()` ever stored less than it was given |

`Begin`, `Stat`, `Read`, `AskPackage`, `AskStubs` are the searchers in the order
`mibdump` gives them (`Stat` and `Read` are two looks at one file, which may have
been replaced in between); `Create`, `Write`, `Replace`, `Tidy` are `put_data()`,
`Compile` and `Remove` the byte compilation of `PyFileWriter` and the `unlink()` after
one that failed; `Prune`, `PruneStray`, `Delete`, `Uncache` are `list_data()` and
`del_data()`.  Each system call has its failure as an action beside it
(`ReplaceFails` stands for `close()` and `os.replace()`), and each failure goes the
code's way: to the tidying `unlink()`, which may fail in its turn, out of the call, or
on as if nothing had happened where the error is suppressed.  `Kill` may strike
between any two of these.

`AtomicStore` is what a directory promises its readers: under each name nothing,
or one document, replaced in one step by somebody who was building it, and whole
unless a write fell short.  `OutputStore` implements it: `shown` forgets times,
markers and temporary files, and `building` is what a process between the choice
to build and the renaming is about to publish.

### `MibLexer`, `ParseSession`: parsing and remembering parses

`MibLexer` is the lexer's exclusive states over a text of tokens: what opens and
closes `macro`, `exports` and `choice`, what is skipped in them, and what a parse
makes of a text from a given state (`Outcome`).  `ParseSession` has processes, each
with one parser (`lex`, `raised`), a cache in memory (`entries`) or a directory
they share (`files`); `Hit`, `Miss`, `Parse`, `Store`, `StoreFails`, `Clear` with one
`Unlink` per entry, and `Kill`.  The key has the text's digest and the parser's
dialect, as `_parse_cache_key()` has.

### `MibClauses`, `SymbolTable`, `Backends`, `Codegen`: code generation

`MibClauses` is what a parse tree holds: one record per kind of clause.
`SymbolTable` is `SymtableCodeGen`: each handler as what it declares, the
postponement of symbols, made up columns for an INDEX of a base type, the repair
of imports.  `Backends` is `JsonCodeGen` and `PySnmpCodeGen` clause by clause: the
walk of a parent chain to a numeric OID, base types through the tables of other
modules, ranges and defaults, what is registered and exported, and every error.
`Codegen` drives them as `compile()` does: `Describe` a text, `Analysed`, `Render` the
modules one after the other with one generator, `Begin` again; `symfake`, `genfake`
and `revision` are the state the generators carry on.

A loop over clauses, columns or postponed symbols is a recursive function on the
positions of a sequence.  The two walks of the code that recurse from symbol to
symbol, `gen_numeric_oid()` and `get_base_type()`, are functions on the number of
steps, and take at most as many as there are symbols (`Known`): a longer walk has
come back to a symbol, which the first notices and the second does not.  The name
of a made up column is a constant operator, `FakeName`: "pysmiFakeCol" and the
number.

### `Corpus`: a published corpus

| state | code |
|---|---|
| `asked` | the `CorpusSettings` of the build |
| `sets`, `gone` | `_module_sets()`; the modules whose sources have vanished since |
| `left`, `processed` | the calls of `compile()` to come, one per tree and namespace, in the order `Before`; their statuses |
| `kept`, `scratch` | the modules in trees asked for and in scratch trees |
| `published` | `_published_modules()` |
| `staged`, `standard`, `carried` | the ASN.1 tree, the list of the standard set, and what indexes, database and site were made of |

`Start`, `Compile`, `Publish`, `Stage`, `WriteStandard`, `Project` and `Finish` are the
steps of `run()`; `Raise` ends one anywhere; `Vanish` removes a source.

### `OidTree`, `OidIndex`, `ListPages`, `SiteMap`, `Catalogue`: what a corpus is projected into

`OidTree` has the key that orders OIDs in the database and the standard queries by
key alone; its arithmetic is in base `Base` with sub-identifiers of up to `MaxWidth`
digits, where the code has base 256 and, by `MAX_ARC`, four bytes.  `OidIndex` has the ranking of owners, the folds of `rank_index()`,
`descriptors()` and `entities()`, closures, anchors and the replay of a frozen
index.  `ListPages` is the division of a long list into pages and the labels that
lead to them.  `SiteMap` says which pages a site has and what they link: a page for
each module, registrant and arc, and the lists of modules, of registrants and of a
registrant's modules, each on one page or in parts with a page for the whole, with
the strip of keys that leads from part to part.  A list of registrants goes by their
numbers, which no label cuts.  `PageSize` stands for both sizes of `PageSizes`.
`Catalogue` composes them: a build `Read`s documents in any order into the folds,
then `WriteIndex`, `Freeze`, `Connect`, `Commit` or `CommitFails`, `Vacuum`, and
`WriteSite`, and may be killed at any step.

`Connect` is a step for each statement of `_connect()` that changes what a reader
sees, since each is a transaction of its own: the old file goes, an empty one comes,
it is marked with an application and then a version, and given its tables.  `Kill`
strikes between statements, `Tear` within a transaction: what it wrote so far stays in
the file, and the journal that would undo it is not looked for by a reader who opens
the file with `immutable=1`.

### `PatchFormat`, `ImportRepair`, `PatchTree`: repairing texts

A text is a sequence of lines of a few kinds.  `PatchFormat` cuts a diff with
`Context` lines around each change, reads one, and applies one forwards and
backwards.  Reading is not the inverse of cutting: `parse_patch()` skips each line
that begins `--- `, and so does a removed comment, `-- x`, when it is printed with its
mark.  A hunk on disk has the lines lost so (`lost`), and whether a line in it is none
of a diff's (`torn`); `Parsed` is what the program makes of it, `Unreadable` and
`Overlapping` what it refuses.  The same of `+++ ` is left out, as no line of a module
begins `++ `.
`ImportRepair` finds what a text uses without importing it and writes the imports
into its IMPORTS clause.  `PatchTree` is a tree of texts and the patches beside it:
`Publish` (the publisher replaces a text), `WriteByHand` (a person writes a patch),
`Explain` (adds a note to its header), `Withdraw` (removes it), `Repair` (a caller
applies it to a text), and `Mibpatch`, which checks, or writes what it derived and
may apply it; `Staged` is the outcome of `patch_asn1()`.

### The rest

`MCCompile`, `MCAlias`, `MCPrune`, `MCStore`, `MCSession`, `MCCodegen`, `MCCorpus`,
`MCCatalogue` and `MCPatches` define the small worlds for TLC.  The proofs are in
`MibCompileProofs`, `CodegenProofs`, `MibPruneProofs`, `StoreProofs`, `SessionProofs`,
`CorpusProofs`, `CatalogueProofs` and `PatchProofs`.
`CompileClaims` states what comments say of `compile()` and the code does not do.

## What is checked

| run | what it asks |
|---|---|
| `compile` | one call over three sources and every option: nothing written imports a failure, whatever is omitted has a cause, report and output agree, every request is answered, the copies passed over are told, and what is written is what is expected |
| `again` | two calls on one directory: what is called untouched is current, nothing current is written again, only the writer writes, every call returns |
| `alias` | files and modules of different names: `noDeps` writes only what was asked for; text and symbol table belong together |
| `prune` | any order of calls with files coming and going: `prune()` removes nothing that kept its source, keeps nothing without one, and leaves other people's files alone |
| `store` | two processes in one output directory, any call failing and any process killed: the directory is an `AtomicStore` to its readers, a leftover was left by a kill or by an `unlink()` that failed, and what is kept is current by its own markers |
| `session` | three parsers over well-formed and broken texts: entries are parses of their texts in their dialect, a cache in memory keeps the latest, and only an error reaches the next text |
| `symbols` | both generators over several calls: children are numbered under their parents, the Python loads from top to bottom, defaults satisfy every restriction, a module fails only for a cause |
| `corpus` | builds one after another with vanishing sources: what is only resolved against is neither written nor staged, and carried only as a document an earlier build left; what does not compile is nowhere; artifacts carry one set of modules, those documents included; scratch trees are gone |
| `catalogue` | every order of reading, builds killed at any step: owners and speakers do not depend on the order, closures are least, anchors answer, a database that opens is whole, or has no rows, or was torn within a transaction; it walks in order; labels lead to the right page; links, of lists too, lead to pages; frozen answers stand |
| `patches` | seven layouts of an IMPORTS clause, with remarks in them, publishers and people who edit, and whose patches may come out wrong: a clean check means that staging succeeds, and what the tools write settles what they touched |
| `claim_columns`, `claim_revision` | two sentences of the repository that do not hold, see `PROJECT.json` |

### Bounds, and why they are enough

- **`compile`, `again`, `alias`.**  Three modules: a chain of imports, a fork and
  a shared dependency, a cycle, and a module that is read but not involved.  Up to
  three sources, so that a fall back, a conflict, and a non-local source behind a
  hit all occur.  `MaxCalls = 2` in `again`: what a call leaves behind reaches
  another only through the output directory.  Files that hold modules of other
  names, and a half parsable text together with a borrower, occur too.
- **`prune`.**  `MaxEdits = 2`: a file goes and another comes, before or during
  the call.
- **`store`.**  Two processes, a module without a suffix (for which temporary
  files are listed as modules) and a Python one, an old text and a newer one.
  `MaxPuts = 1` per process, `MaxMishaps = 2`, `MaxTime = 1`: a look by one process,
  a replacement by the other, and a mishap in each, or a call that fails and the
  `unlink()` after it, too.  971,066 states.  Byte code beside a module,
  packages and stubs are chosen at every look.
- **`session`.**  Texts that end in, and run into, each state of the lexer;
  `Bound = 2` entries and `MaxAsks = 4` questions, so that an entry is dropped and
  asked for again; `MaxKills = 1`.
- **`symbols`.**  `MaxReads = 3` texts read in all, over one call or several, from
  a pool with declarations in opposite orders, restrictions narrowed twice, an
  index of a base type, and OIDs and types that come back to themselves.
- **`corpus`.**  Three namespaces that share names, four modules, two builds
  (`MaxRuns`), the second on the trees the first left, one vanished source
  (`MaxGone`).
- **`catalogue`.**  Three modules, each in two forms or absent; arcs up to 5 in base
  4 with `MaxWidth = 2`, so that an arc needs more than one digit; pages of so few
  entries that every list is met whole and in parts; two builds, the second over the
  files the first left, possibly in part.
- **`patches`.**  Two files, `Context = 1`, so that two changes are near and far;
  a text with a comment that its repair takes away; the state space is closed
  without a bound on steps (35,464 states).

Deadlock is not checked: after the last call, build or kill a bound allows, the
systems stop.

### Fairness

`FairSpec` of `MibCompile` adds weak fairness of every step of `compile()` and none
of `NextCall`.  `compile()` is a sequential function: as long as it has a next
statement it runs it, and no step of it waits for anyone.  Whether the caller
calls again is up to the caller.  `Returns` is checked under `FairSpec` in `again`.
The other systems state no fairness: their processes may be killed anywhere, and
nothing in them waits for another.

### Refinement

`ImplementsAtomicStore` is checked as a property of `store` and proved as
`StoreIsAtomic`.  It is the composition the rest of the project relies on: where
`MibCompile` and `Corpus` write a module in one step, `OutputStore` takes several
system calls, and to whoever reads the directory they look like that one step.
`OutputStore` instantiates the abstract module under the mapping
(`Atomic == INSTANCE AtomicStore WITH file <- shown, ...`), and the proof maps the
initial states to initial states and each step to a step or a stutter.

## What is proved

For all values of the constants, under the named assumptions of the modules.  These
give the constants their types, say that the markers for "nothing" are not values,
and that what the program holds in memory is finite: the modules of a corpus, the
dates of a module, the places of a cache.  `OutputStore`, `MibPrune` and `ParseSession`
have any number of processes, directories and texts.

Each theorem rests on an inductive invariant, which TLC checked on the run of the
system before it was proved; but for `CodegenInv`, which speaks of some state of a
generator and is more than TLC can enumerate: there it checked what follows from it.

- **`compile()`: output** (`MibCompileProofs`).  `TypeCorrect`.  `BetterDecides`,
  `BetterIsTransitive`: the ranking is a strict total order on copies of different
  sources.  `OutputIsClean`: `CleanOutput` is not inductive; `OutputInv` adds that
  nothing is built before code generation and nothing written before the writer
  runs, and that between omission and report every module in `built` is clean; the
  last round of `Spread`, where `Spreading` is empty, establishes it.
  `TablesMatch`: `GeneratedFromItsTable`, by `TextsFollowTables`.  `WriterOnly`:
  `OnlyTheWriterWrites`.  `OmissionHasCause`: `OmittedForCause`, by `Grounded`: no set
  of tainted modules that did not fail is held there by itself; a round of `Spread`
  keeps it, because what the round adds imports something older.
- **`compile()`: report and outcome** (the second half of `MibCompileProofs`).
  `RequestsAreAnswered` (`EveryRequestAnswered`, by `AnswerInv`): a request that left
  the queue was failed, read or found in a file whose modules all were, and what
  was read gets a status in a later loop, whichever of them drops it.
  `ReportIsTrue` (`ReportMatchesOutput`, by `ReportInv`): each loop hands a module on
  to one dictionary or gives it a status, but for one lent beside a text of its own
  (`Blurred`).  `NoDepsKeepsOut`, `UntouchedIsThere` and `NothingRewritten`, by
  `RestInv`: what is built was not found current, and what is reported untouched was;
  the last two speak of the directory the previous call left.
  `ShadowsAreReported` (`ShadowsAreTold`, by `ShadowInv`): a copy passed over is noted
  before anything can fail, and survives until the report of its module.
  `OutcomeIsExpected` (`WritesAsExpected`, by `OutcomeInv`): a call without failures of
  the writer writes exactly `Expected`.  This is the work list shown to compute the
  least set the imports define: everything queued is reached (`LookupFollows`), an
  emptied queue is closed, and each loop after it filters by a condition on the
  sources alone (`TablesFollow`, `WorkFollows`, `TaintFollows`, `WriterFollows`).
- **Code generation** (`CodegenProofs`), for any texts the grammar can make, read in
  any order over any number of calls, by either back end, with or without repaired
  imports.  `CodegenKeeps`: `CodegenInv` holds.  It says that a call has one text and
  one table for each module; that a table is that of its text (`TableOf`: each name
  entered once, after what it is derived from, with the clause or the column it
  stands for); and that what became of a module is what its text and the tables make
  of it, from some value of the generator's counter (`Rendition`).  All else is about
  one module and the tables of its call.
  `RenderedLoadsInOrder`: `LoadsInOrder`: what a clause uses, its symbol was held back
  for (`UsesEarlier`), and the repaired imports are the same to both generators.
  `RenderedDefaultsFit`: `DefaultsFitSyntax`: all that a symbol reaches by its types lies
  on the one way the code walks (`WayReaches`), so no restriction is passed by.
  `ModulesFailForCause`: `FailsForCause`: a walk of more steps than there are symbols
  meets one twice, by the pigeonhole theorem, so it is a circle (`LongWalkReturns`);
  a walk that ends early ends at a name that leads nowhere or at a type
  (`NumberFails`); then error by error, clause by clause (`ClauseFails`).  What is
  left is a name of the table that no clause of the text puts out, which only made
  up columns can be (`CountsExplain`).
  `RenderedUnderParents`: `ChildrenExtendParents`: a number that comes out does not depend
  on how many steps are allowed beyond those it takes (`Steady`), so a child's is its
  parent's and its own arcs (`SettledNumber`); and a module that renders without a
  failure has numbered its made up columns as its table did (`SameStart`,
  `ColumnNumber`).  This one has a hypothesis, `Distinct`: two numbers give two names
  `FakeName`.  Decimal numerals do; what turns a number into text is nothing the
  prover knows of.
- **`prune()`** (`MibPruneProofs`), for any number of directories changing at any
  moment.  `PruneTypeCorrect`.  `PruneIsSafe`: `RemovesOnlyTheSourceless`: what a source
  held since the call began is in its reader's listing whenever that was made, so a
  source the loop has passed holds nothing the name leads to.  `KeptIsSourced`:
  `KeepsOnlyTheSourced`, since what a listing shows was there during the call
  (`KeepInv`).  `OthersAreLeftAlone`: `LeavesOthersAlone`, as only files with the
  writer's suffix are visited (`OursToVisit`).
- **The output directory** (`StoreProofs`).  `StoreTypeCorrect`, `NobodySeesHalf`,
  `StoreIsAtomic`, `LeftoversHaveCause`, `KeptAreCurrent`, for any number of processes,
  modules and mishaps, with every call failing where it can.  One fact carries the first three: what a process is about
  to rename is the text it was asked to build, and whole unless a write fell short
  (`AboutToPublish`).  `KeptAreCurrent` needs what markers are worth
  (`MarkersAreTrue`): a file with a digest was made of that text and no earlier, so
  a file without one lay there before whoever looks at it looked.
- **Parsing** (`SessionProofs`).  `TextsAreReadAfresh`: `OnlyErrorsLinger`, since a
  lexer is in a state of its own only after a parse that raised.
  `HeldTreesAreParses` and `SharedTreesAreParses`: whatever a process is handed, and
  whatever lies in the shared directory, is a parse of its text in its dialect
  (`Shelves`).  `RecentTreesAreKept`: `KeepsTheMostRecent`: the list a process keeps is
  the start of the history of what it used, without repetitions (`MemoryInv`,
  `Mirrors`), so that what is dropped is the oldest.  That reading a text ends in one
  of the lexer's states is a lemma here: reading is a recursive function on the
  positions of the text, and `SetInduction`, which follows from the pigeonhole
  theorem of the library, replaces the induction theorem that cannot be
  instantiated.
- **The corpus** (`CorpusProofs`).  `CorpusTypeCorrect`.  `RestStaysUnpublished`:
  `NothingUnpublished`: what is written and staged, by `Decided`: once it is decided what
  to publish, a selection is not exceeded; what is carried, by `OnlyEarlier`: a call
  lends a stub no document, so one that is there was left by an earlier build.  `NoScratchLeft`: `ScratchGone`.  `BrokenIsLeftOut`: `BrokenLeftOut`, and
  `OneSetIsCarried`: `OneModuleSet`, by `BuildInv`: each call adds to the statuses what
  its namespace adds to a verdict that does not depend on the tree (`Judged`,
  `Doomed` is the least set of what cannot compile), so that the trees of one build
  hold the same modules.  `OneModuleSet` says what index, database and site carry, with
  no exception: what was compiled, and of the stubs those an earlier build left a
  document of in the tree at hand, which is not what the comments promise
  (`StaysUnpublished`, below).
- **The catalogue** (`CatalogueProofs`).  `CatalogueTypeCorrect`.  `OwnersAreBest` and
  `SpeakersAreLatest`: the folds over documents give the same owner of an OID, and the
  same module speaking for a registrant, in whatever order documents are read
  (`FoldInv`): ranks, with the name last, are a strict total order on any modules.
  `FrozenRowsStand`: `FrozenStays`.  `AnchorsAnswerForAll`: `AnchorsAnswer`, since of the
  anchors above an OID the deepest decides.  `EveryLinkResolves`: `LinksResolve`, page by
  page: a list in parts has a page for the whole, so that the head of a page leads
  somewhere, and the strip of keys names the parts that were written.  `ClosuresAreLeast`: `ClosureIsLeast`: the walk over a list of names settles one
  name in each step and never one twice (`Walking`), hence has ended after as many
  steps as there are modules; imports may be cyclic and lead out of the corpus.
  `EntriesAreFound`: `BucketsPlace`, for a list and a page of any length: a label is the
  start of its entry and comes after the entry before (`LabelsArePlaced`), runs
  cover the sorted list without overlap (`RunsFollow`, `RunsCover`), so that of the
  labels not after a name the last is that of its page.
  `WalksAreInOrder`: `WalkInOrder`, for sub-identifiers of any width and OIDs of any
  length.  Where two OIDs part, so do their keys, in the same order and within both
  (`KeysPart`): a longer code begins with a greater width, and of two codes of one
  width the first quotients by a power of `Base` that differ decide (`CodesPart`).  So
  the order of keys is that of OIDs, a key begins as another where its OID does, and
  a bound takes in exactly the keys that begin as the one it bounds
  (`BoundsPrefixes`).  `DatabasesAreSound`: `DbSound`, by `DbInv` (unless it was torn, the
  file has no rows or holds one corpus whole) and `KeysLeadBack` (a key is read back
  code by code).
- **Patches** (`PatchProofs`).  `CleanTreesAreStaged`: `CleanMeansStaged`: what the check
  called clean applies, until somebody changes a text or a patch (`VerdictInv`).
  `CutDiffsApply`: for texts whose lines differ from each other and whose common lines
  stand in one order (`Comparable`), and of which no line that goes is a comment at the
  margin (`Legible`), the hunks `make_patch()` cuts are read as they were cut and run
  forwards, applying them gives the other text, and offered to that one they are not
  refused.  Without `Legible` it is not so: `CutsAreInverse`, below.  The
  argument: the runs of lines shown come in order and what lies between them is in
  both texts without a gap (`RunsInOrder`, `HiddenGoesOn`), so runs and what is between
  them part both texts alike (`CutsAlign`), and a loop that puts one side of each hunk
  for the other builds the other text a part at a time (`SpliceTurns`).  `WritesSettle`:
  what `_write()` derived for a file that is the only one of its module is what lies
  there when it is through, whatever it wrote for other files (`WhatIsWrittenStays`);
  so `--check` has nothing against the module, and `--apply` leaves the repaired text.
  It is the first half of `SettlesWhatItTouches` for `mibpatch`, for any texts, files
  and patches there are.

Only model-checked:

- `Returns`: liveness is out of the prover's reach.
- `SettlesWhatItTouches` as a whole.  `WritesSettle` leaves out that a repaired text
  keeps its name and needs nothing more, and what a caller applies by hand.  Neither is
  a matter of any constants: that a repair mends a text holds of the layouts of an
  IMPORTS clause in `MCPatches`, and not of every sequence of lines, and a patch by a
  person may hold any hunks.  That every text `MCPatches` repairs is `Comparable` to its
  repair, and `Legible` (`RepairsAreLegible`: the repair of imports takes no comment
  away), so that the hypotheses of `WritesSettle` are met there, was checked with TLC.

## Where code and words differ

Two disagreements are runs of their own, `claim_columns` and `claim_revision`.
The following were met while modelling.  Those with a definition are reproduced by
checking that definition as the one property of the configuration named.

| definition, configuration | what happens |
|---|---|
| `NoOutputImportsAFailure`, `MCCompile.cfg` | a module fails in the writer; what imports it is kept and reported compiled |
| `NewestOnlyForBundledNames`, `MCCompile.cfg` | the newest revision decides for modules that are not bundled, too |
| `ResolveAgreesWithCompile`, `MCCompile.cfg` | `resolve()` names a copy that does not parse, `compile()` used the next |
| `OmittedDidNotFail`, `MCAlias.cfg` | a module requested before the file that declares it is read stays failed, and is omitted although it was generated |
| `ReportMatchesOutput` without `Blurred`, `MCAlias.cfg` | a module with a build of its own is also borrowed, the borrowed file is current: status *untouched*, and the build is written |
| `Returns`, `MCAlias.cfg` under `FairSpec` | a module that imports the name its own file is found under is read for ever |
| `IndexSurvives`, `MCPrune.cfg` | `prune()` removes the index built just before |
| `AsksAfresh`, `MCPrune.cfg` | the index `list_mibs()` fills survives `clear_cache()`; `prune()` removes output whose own file is there |
| `NothingHalfWritten`, `MCStore.cfg` | `os.write()` may store a part and say so; nobody asks (`writer/localfile.py:97`).  Without a marker and with an old time, the part can be kept as current |
| `OneTreePerModule`, `MCSession.cfg` | a text read after one that raised is parsed from that lexer's state, and its trees are cached |
| `HeldBackForCause`, `MCCodegen.cfg` | postponed symbols are gone over once; one more round would have settled some (`symtable.py:340`) |
| `UncompiledLeftOut`, `MCCorpus.cfg` | the ASN.1 of a module that did not compile is staged when the corpus has no JSON tree |
| `StaysUnpublished`, `MCCorpus.cfg` | of a namespace that is not published "nothing ... is staged, compiled or indexed" (`corpus/namespace.py:72`), and an index cannot name a module "left in the output directory by an earlier build" (`corpus/driver.py:1513`): a stub is *untouched*, which is published, so one with such a document is indexed and sited |
| `OpensSound`, `MCCatalogue.cfg` | marks and tables of the database are transactions of their own (`corpus/db.py:550`): killed in between, the build leaves a file that `open_db()` accepts and `validate()` faults |
| `SoundIsWhole`, `MCCatalogue.cfg` | the file is opened with `immutable=1` (`corpus/db.py:778`), so the journal of a build killed within a transaction is not read back, and what is torn may open and pass `validate()`, which promises a *sound* corpus (`corpus/db.py:912`) |
| `CutsAreInverse`, `MCPatches.cfg` | `make_patch()` is "the inverse of" `apply_patch()` (`patches.py:383`); a removed line `-- x` is printed `--- x` and skipped when the patch is read (`patches.py:259`), so the patch does not apply, or leaves the line |
| `EveryRepairMends`, `MCPatches.cfg` | symbols on the line of IMPORTS itself: the repair writes a second IMPORTS clause |

Read in the code and not stated as definitions:

- *Searchers and writers.*  Bytes 4 to 8 of byte code are read as a time, where
  current Python puts flags (`searcher/pyfile.py:96`).  A failed byte compilation
  removes what is under the name now, whoever put it there.
- *Code generation.*  A type declared by way of itself recurses until Python ends
  the call; an OID registered under a type raises `KeyError` out of `compile()`.
  Restrictions by enumeration are united where both would have to hold.  A symbol
  is not held back for the type of a row (`symtable.py:303`), so an AUGMENTS that
  names that type where it should name the row is accepted, and the Python uses what
  nothing binds; `LoadsInOrder` leaves such a use out.  A parent called `iso` is 1
  whatever declares it (`jsondoc.py:376`); `ChildrenExtendParents` leaves it out.
- *Corpus.*  With `rebuild` off, a module whose import fails now stays published.
  `directories()` leaves out the site (`driver.py:188`).  Stubbed base modules are
  staged although they have no document.
- *Catalogue.*  Nothing calls `retired()`.  A closure is sorted by name where the
  page says dependencies come first (`render.py:291`).  A site rebuilt in place
  keeps the pages of modules that are gone.  A build killed between the tables of
  the database and its commit leaves an empty one that `validate()` calls sound.
  `llms.txt` links the tree of OIDs and the list of modules whether or not they
  were written (`site/build.py:462`).
- *Patches.*  Two files that declare one module share a patch, so that the tree is
  never clean.  `mibpatch` without `--check` drops hand-written hunks that the check
  tolerates.  A hunk by hand that changes the number of lines above a derived one
  makes the derived one count as stale.

## What is not modelled

- **Data a property does not tell apart.**  The grammar within a clause, the
  layout of generated Python, JSON and HTML, texts of descriptions, log messages,
  option parsing.  A text is what its modules declare, import and need, and where
  reading it fails.
- **I/O behind an answer.**  How a file name is guessed from a module's, how an
  archive is unpacked, a URL fetched, SQL executed.  A source answers a copy, not
  found, or an error.
- **Options of `compile()` that only change content** (`genTexts`, `textFilter`).
- **Changes of the sources within one call of `compile()`**; `MibPrune` has them for
  `prune()`, and `Corpus` between calls.
- **`contribute.py`** asks a service about one module at a time and keeps nothing in
  between.  **`registry/`** is a one-pass reader whose outcome `Catalogue` takes as a
  constant.  **Maintenance scripts** run against the network, outside the program.
- **The crawler's files**: sitemaps, `robots.txt` and `llms.txt`.
- `Successors` and `Retired` of `ListPages` are translated and evaluated by no run:
  nothing in the code calls `retired()`.

## Plan

What would add most, in this order.

1. `SettlesWhatItTouches` for what a caller applies, for patches cut by hand from the
   text they are offered to; and texts whose lines repeat, where the comparison has to
   choose which lines it takes to be the same.
2. An abstract specification of a module's way from name to status, and
   `MibCompile` shown to implement it.
3. `Readers`: file names, archives within archives, HTTP answers, and the `prune()`
   of a module that lives in a file of another name.
4. The submission of contributions, if it comes to keep state.
