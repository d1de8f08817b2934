------------------------------- MODULE MibPrune -------------------------------
(* One MibCompiler object over directories that change under it: compile(),    *)
(* list_mibs(), build_index() and prune(), with what a FileReader remembers of *)
(* its directory in between.  prune() is a loop over what the writer lists,    *)
(* and over the sources for each name; one action is one step of either loop.  *)
(* Of compile() this module keeps what prune() can see of it: what it makes    *)
(* the readers remember and what it leaves in the output directory.            *)
EXTENDS Integers, FiniteSets

CONSTANTS
  Module,      \* names of MIB modules
  Index,       \* the name the writer knows the index by
  File,        \* the files that may turn up in a source directory
  Declares,    \* File -> the modules its text declares
  Spelled,     \* File -> the modules whose name leads to it by spelling
  NumSources,  \* how many sources are configured, asked in the order 1, 2, ...
  Package,     \* the sources that never change and remember nothing
  Trees,       \* what the sources may hold at first
  Outputs,     \* what the output directory may hold at first
  None,        \* "nothing there"
  MaxEdits     \* bound: how often a file comes or goes

Source == 1..NumSources
Slot == Module \cup {Index}

(* ours: a file with this package's "Produced by" marker; theirs: any other *)
Output == {"ours", "theirs", None}

ASSUME PruneAssumption ==
  /\ Index \notin Module
  /\ None \notin File \cup Slot \cup {"ours", "theirs", "untouched", "pruned", "failed"}
  /\ Declares \in [File -> SUBSET Module] /\ Spelled \in [File -> SUBSET Module]
  /\ NumSources \in Nat /\ Package \subseteq Source /\ MaxEdits \in Nat
  /\ Trees \subseteq [Source -> SUBSET File]
  /\ Outputs \subseteq [Slot -> Output]

VARIABLES
  tree,      \* the files each source holds now
  listing,   \* _dirCache: the files it held when the reader listed it, or None
  learned,   \* _mibIndex: the file list_mibs() found a module in, or None
  output,    \* the output directory
  phase,     \* "ready" between calls; in prune() "next", "ask" or "remove"
  todo,      \* what list_data() returned, names not visited yet
  name,      \* mibname of the loop
  at,        \* the source the inner loop is at
  dry,       \* the option dryRun of the prune() under way
  ignore,    \* its option ignoreErrors
  report,    \* processed: what prune() says of each name
  steady,    \* history: <<s, f>> where s held f ever since this prune() began
  seen,      \* history: <<s, f>> where s held f at any time since then
  edits      \* how often a file came or went

vars == <<tree, listing, learned, output, phase, todo, name, at, dry, ignore,
          report, steady, seen, edits>>

callVars == <<dry, ignore>>
historyVars == <<steady, seen, edits>>
readerVars == <<listing, learned>>

Holdings(t) == {h \in Source \X File : h[2] \in t[h[1]]}

Init ==
  /\ tree \in Trees /\ output \in Outputs
  /\ listing = [s \in Source |-> None]
  /\ learned = [s \in Source |-> [m \in Slot |-> None]]
  /\ phase = "ready" /\ todo = {} /\ name = None /\ at = 0
  /\ dry = FALSE /\ ignore = FALSE
  /\ report = [m \in Slot |-> None]
  /\ steady = {} /\ seen = {} /\ edits = 0

-------------------------------------------------------------------------------
(* The directories. *)

Change(t) ==
  /\ edits < MaxEdits /\ edits' = edits + 1
  /\ tree' = t
  /\ steady' = steady \cap Holdings(t) /\ seen' = seen \cup Holdings(t)
  /\ UNCHANGED <<readerVars, output, phase, todo, name, at, callVars, report>>

FileComes(s, f) ==
  /\ s \notin Package /\ f \notin tree[s]
  /\ Change([tree EXCEPT ![s] = @ \cup {f}])

FileGoes(s, f) ==
  /\ s \notin Package /\ f \in tree[s]
  /\ Change([tree EXCEPT ![s] = @ \ {f}])

-------------------------------------------------------------------------------
(* The readers. *)

Listed(s) == IF listing[s] = None THEN tree[s] ELSE listing[s]

(* what a look-up in s makes its reader remember *)
Remember(s) ==
  IF s \in Package THEN listing ELSE [listing EXCEPT ![s] = Listed(s)]

(* An entry of the index is the only file tried for its module. *)
LeadsTo(s, m) ==
  {f \in Listed(s) :
     IF learned[s][m] # None THEN f = learned[s][m]
     ELSE m \in Module /\ m \in Spelled[f]}

Finds(s, m) == \E f \in LeadsTo(s, m) : f \in tree[s]

(* the file was there when the directory was listed, and cannot be opened *)
Fails(s, m) == LeadsTo(s, m) # {} /\ ~Finds(s, m)

(* the file list_mibs() enters for m, None if it enters none: only a module no *)
(* spelling leads to is entered *)
Learnt(s, m) ==
  LET in == {f \in Listed(s) \cap tree[s] : m \in Declares[f]} IN
  IF in = {} \/ \E f \in Listed(s) : m \in Spelled[f] THEN None
  ELSE CHOOSE f \in in : TRUE

(* list_mibs() on every source *)
ListMibs ==
  /\ phase = "ready"
  /\ listing' = [s \in Source |-> IF s \in Package THEN None ELSE Listed(s)]
  /\ learned' = [s \in Source |-> [m \in Slot |->
       IF s \in Package \/ learned[s][m] # None THEN learned[s][m] ELSE Learnt(s, m)]]
  /\ UNCHANGED <<tree, output, phase, todo, name, at, callVars, report, historyVars>>

-------------------------------------------------------------------------------
(* compile() of one name, and build_index(). *)

(* every source is asked; an error of one leaves compile(); of the modules in  *)
(* the file taken some may be current, or fail, and stay as they are           *)
Compile(m) ==
  /\ phase = "ready" /\ m \in Module
  /\ listing' = [s \in Source |-> IF s \in Package THEN None ELSE Listed(s)]
  /\ \/ /\ \E s \in Source : Fails(s, m)
        /\ UNCHANGED output
     \/ /\ \A s \in Source : ~Fails(s, m) /\ ~Finds(s, m)
        /\ UNCHANGED output
     \/ /\ \A s \in Source : ~Fails(s, m)
        /\ \E s \in Source : \E f \in LeadsTo(s, m) :
             /\ f \in tree[s]
             /\ \E S \in SUBSET Declares[f] :
                  output' = [n \in Slot |-> IF n \in S THEN "ours" ELSE output[n]]
  /\ UNCHANGED <<tree, learned, phase, todo, name, at, callVars, report, historyVars>>

BuildIndex ==
  /\ phase = "ready"
  /\ output' = [output EXCEPT ![Index] = "ours"]
  /\ UNCHANGED <<tree, readerVars, phase, todo, name, at, callVars, report, historyVars>>

-------------------------------------------------------------------------------
(* prune(). *)

(* mutant: everything in the directory is listed *)
ListData_All == {m \in Slot : output[m] # None}

(* list_data(): only files with the marker *)
ListData == {m \in Slot : output[m] = "ours"}

(* mutant: what the readers remember of the directories is kept *)
ClearCaches_Not == UNCHANGED listing

ClearCaches == listing' = [s \in Source |-> None]

Prune(d, i) ==
  /\ phase = "ready"
  /\ ClearCaches
  /\ dry' = d /\ ignore' = i
  /\ todo' = ListData
  /\ phase' = "next" /\ report' = [m \in Slot |-> None]
  /\ steady' = Holdings(tree) /\ seen' = Holdings(tree)
  /\ UNCHANGED <<tree, learned, output, name, at, edits>>

Take(m) ==
  /\ phase = "next" /\ m \in todo
  /\ todo' = todo \ {m} /\ name' = m
  /\ IF NumSources = 0 THEN phase' = "remove" /\ at' = 0
                       ELSE phase' = "ask" /\ at' = 1
  /\ UNCHANGED <<tree, readerVars, output, callVars, report, historyVars>>

Say(status) ==
  /\ report' = [report EXCEPT ![name] = status]
  /\ phase' = "next" /\ name' = None /\ at' = 0

(* the error leaves prune(), and with it what was still to visit *)
Raise ==
  /\ phase' = "ready" /\ todo' = {} /\ name' = None /\ at' = 0
  /\ UNCHANGED report

(* a source has it, or could not say *)
Keep ==
  /\ phase = "ask" /\ listing' = Remember(at)
  /\ \/ Finds(at, name) /\ Say("untouched") /\ UNCHANGED todo
     \/ Fails(at, name) /\ ignore /\ Say("untouched") /\ UNCHANGED todo
     \/ Fails(at, name) /\ ~ignore /\ Raise
  /\ UNCHANGED <<tree, learned, output, callVars, historyVars>>

(* mutant: the first source that does not have it decides *)
AskNext_FirstDecides ==
  /\ phase = "ask" /\ LeadsTo(at, name) = {}
  /\ listing' = Remember(at)
  /\ phase' = "remove" /\ at' = 0
  /\ UNCHANGED <<tree, learned, output, todo, name, callVars, report, historyVars>>

(* mutant: the loop over the sources runs one too far *)
AskNext_PastTheEnd ==
  /\ phase = "ask" /\ LeadsTo(at, name) = {}
  /\ listing' = Remember(at) /\ at' = at + 1
  /\ phase' = IF at > NumSources THEN "remove" ELSE "ask"
  /\ UNCHANGED <<tree, learned, output, todo, name, callVars, report, historyVars>>

AskNext ==
  /\ phase = "ask" /\ LeadsTo(at, name) = {}
  /\ listing' = Remember(at)
  /\ IF at = NumSources THEN phase' = "remove" /\ at' = 0
                        ELSE UNCHANGED phase /\ at' = at + 1
  /\ UNCHANGED <<tree, learned, output, todo, name, callVars, report, historyVars>>

Remove ==
  /\ phase = "remove"
  /\ output' = IF dry THEN output ELSE [output EXCEPT ![name] = None]
  /\ Say("pruned")
  /\ UNCHANGED <<tree, readerVars, todo, callVars, historyVars>>

(* del_data() raises: the file stays *)
RemoveFails ==
  /\ phase = "remove" /\ ~dry
  /\ IF ignore THEN Say("failed") /\ UNCHANGED todo ELSE Raise
  /\ UNCHANGED <<tree, readerVars, output, callVars, historyVars>>

EndPrune ==
  /\ phase = "next" /\ todo = {}
  /\ phase' = "ready"
  /\ UNCHANGED <<tree, readerVars, output, todo, name, at, callVars, report, historyVars>>

-------------------------------------------------------------------------------
Environment == \E s \in Source, f \in File : FileComes(s, f) \/ FileGoes(s, f)

Calls ==
  \/ ListMibs \/ BuildIndex
  \/ \E m \in Module : Compile(m)
  \/ \E d, i \in BOOLEAN : Prune(d, i)

Loop ==
  \/ \E m \in Slot : Take(m)
  \/ Keep \/ AskNext \/ Remove \/ RemoveFails \/ EndPrune

Next == Environment \/ Calls \/ Loop

Spec == Init /\ [][Next]_vars

-------------------------------------------------------------------------------
(* What the reader, the writer and the loop hold is what their types say.      *)
TypeOK ==
  /\ tree \in [Source -> SUBSET File]
  /\ listing \in [Source -> (SUBSET File) \cup {None}]
  /\ learned \in [Source -> [Slot -> File \cup {None}]]
  /\ output \in [Slot -> Output]
  /\ phase \in {"ready", "next", "ask", "remove"}
  /\ todo \subseteq Slot /\ name \in Slot \cup {None} /\ at \in Source \cup {0}
  /\ phase = "ask" => at # 0
  /\ phase \in {"ask", "remove"} => name # None
  /\ dry \in BOOLEAN /\ ignore \in BOOLEAN
  /\ report \in [Slot -> {"untouched", "pruned", "failed", None}]
  /\ steady \subseteq Source \X File /\ seen \subseteq Source \X File
  /\ edits \in Nat

(* "A name none of them have any more is removed": what is removed is nothing  *)
(* a source held under its name from the beginning of this prune() on, however *)
(* the directories change meanwhile and whatever was looked up before; only a  *)
(* module the index leads elsewhere is another matter.                         *)
RemovesOnlyTheSourceless ==
  [][phase # "ready" =>
       \A m \in Slot : output[m] = "ours" /\ output'[m] = None =>
         \A h \in steady :
           m \notin Spelled[h[2]] \/ learned[h[1]][m] \notin {None, h[2]}]_vars

(* What prune() says still has a source was held by one since the call began:  *)
(* a reader warmed up earlier does not mask a removal.                         *)
KeepsOnlyTheSourced ==
  \A m \in Slot : report[m] = "untouched" =>
    \E h \in seen : m \in Spelled[h[2]] \/ learned[h[1]][m] = h[2]

(* "a file the writer holds that this tool did not generate is left alone"     *)
LeavesOthersAlone ==
  [][phase # "ready" =>
       \A m \in Slot : output[m] = "theirs" => output'[m] = "theirs"]_vars

-------------------------------------------------------------------------------
(* Claims that do not hold. *)

(* prune() removes output "whose source MIB no longer exists": the index is    *)
(* the output of no MIB.                                                       *)
IndexSurvives ==
  [][phase # "ready" /\ output[Index] = "ours" => output'[Index] = "ours"]_vars

(* "a reader already warmed up [...] reports what exists right now rather than *)
(* what existed when it was first asked": the index list_mibs() fills is kept. *)
AsksAfresh ==
  [][phase # "ready" =>
       \A m \in Slot : output[m] = "ours" /\ output'[m] = None =>
         \A h \in steady : m \notin Spelled[h[2]]]_vars

===============================================================================
