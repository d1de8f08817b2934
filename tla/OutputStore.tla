----------------------------- MODULE OutputStore ------------------------------
(* The output directory: several processes that build into it, each asking a   *)
(* searcher first, writing under a temporary name and renaming, or pruning it, *)
(* and that may be killed between any two system calls.                        *)
EXTENDS Searchers, Functions

CONSTANTS
  Process,
  Kind,           \* who stores a module: "json" and "bare", a FileWriter with
                  \* and without a suffix; "py", a PyFileWriter
  SourceTime,     \* Text -> Nat: the modification time of a source text
  Beside,         \* Name -> byte code that may lie beside a module, not in __pycache__
  Package,        \* Name -> what an importable package may hold of a module
  StubLists,      \* the modules a caller may ask never to build
  MaxTime,        \* bound on the clock
  MaxPuts,        \* bound on the modules a process starts to build
  MaxMishaps      \* bound on kills, failing system calls and short writes

ASSUME StoreAssumption ==
  /\ Name # {} /\ Text # {}
  /\ None \notin [name : Name, text : Text]
  /\ Kind \in [Name -> {"json", "bare", "py"}]
  /\ SourceTime \in [Text -> Nat]
  /\ StubLists \subseteq SUBSET Name
  /\ MaxTime \in Nat /\ MaxPuts \in Nat /\ MaxMishaps \in Nat

VARIABLES
  dir,        \* what is stored under each module's name
  cached,     \* the modules with byte code in __pycache__
  temp,       \* the temporary file of each process, the one it works on last
  left,       \* temporary files nobody works on any more
  proc,       \* what each process is doing
  now,        \* the clock
  puts,       \* how many modules each process has started to build
  mishaps,    \* how much went wrong
  short,      \* whether a write stored less than it was given
  untidied    \* whether a temporary file was ever left: a kill, an unlink() that failed
vars == <<dir, cached, temp, left, proc, now, puts, mishaps, short, untidied>>

Amount == {"none", "part", "whole"}       \* how much of the text is stored
File == [text : Text, amount : Amount, time : 0..MaxTime,
         producer : Producer, digest : Text \cup {None}]

(* where a process stands: in file_exists(), in put_data(), in prune() *)
Step == {"idle", "stat", "read", "package", "stub", "create", "write", "replace", "compile", "remove",
         "tidy", "delete", "uncache", "dead"}
Job == [at : Step, name : Name, text : Text]

Idle == [at |-> "idle", name |-> CHOOSE n \in Name : TRUE, text |-> CHOOSE t \in Text : TRUE]
Go(p, step) ==
  proc' = [proc EXCEPT ![p] = IF step = "idle" THEN Idle ELSE [@ EXCEPT !.at = step]]
At(p, step) == proc[p].at = step

(* text t stored at this time, with the markers or cut off before them *)
Stored(t, amount, marked) ==
  [text |-> t, amount |-> amount, time |-> now,
   producer |-> IF marked THEN "this" ELSE None,
   digest |-> IF marked THEN t ELSE None]

Init ==
  /\ dir \in [Name -> {None} \cup
                [text : Text, amount : {"whole"}, time : {0},
                 producer : {"other", None}, digest : {None}]]
  /\ cached = {}
  /\ temp = [p \in Process |-> None]
  /\ left = {}
  /\ proc = [p \in Process |-> Idle]
  /\ now = 0
  /\ puts = [p \in Process |-> 0]
  /\ mishaps = 0
  /\ short = FALSE
  /\ untidied = FALSE

Mishap == mishaps < MaxMishaps /\ mishaps' = mishaps + 1

-------------------------------------------------------------------------------
(* compile() asks its searchers in turn: the one of the output directory, which *)
(* looks at the file twice while it may change, for a Python module those of    *)
(* the packages, and the stubs. Only the stubs answer when asked to rebuild.    *)

Question(p) ==
  [name |-> proc[p].name, text |-> proc[p].text,
   mtime |-> SourceTime[proc[p].text], rebuild |-> FALSE]

Begin(p, n, t, rebuild) ==
  /\ At(p, "idle")
  /\ puts[p] < MaxPuts
  /\ SourceTime[t] <= now
  /\ puts' = [puts EXCEPT ![p] = @ + 1]
  /\ proc' = [proc EXCEPT ![p] = [at |-> IF rebuild THEN "stub" ELSE "stat",
                                  name |-> n, text |-> t]]
  /\ UNCHANGED <<dir, cached, temp, left, now, mishaps, short, untidied>>

(* isfile() and stat(), after the byte code of a Python module *)
Stat(p) ==
  LET n == proc[p].name IN
  /\ At(p, "stat")
  /\ \E code \in IF Kind[n] = "py" THEN Beside[n] ELSE {None} :
       IF Decides(code)
       THEN Go(p, IF code.word >= Question(p).mtime THEN "idle" ELSE "package")
       ELSE Go(p, IF Fresh(dir[n], Question(p)) THEN "read" ELSE "package")
  /\ UNCHANGED <<dir, cached, temp, left, now, puts, mishaps, short, untidied>>

(* A file gone by now is an error of this searcher, and the next one is asked. *)
Read(p) ==
  LET f == dir[proc[p].name] IN
  /\ At(p, "read")
  /\ Go(p, IF IsFile(f) /\ MarkersAgree(f, Question(p)) THEN "idle" ELSE "package")
  /\ UNCHANGED <<dir, cached, temp, left, now, puts, mishaps, short, untidied>>

AskPackage(p) ==
  LET n == proc[p].name IN
  /\ At(p, "package")
  /\ \E holds \in Package[n] :
       Go(p, IF Kind[n] = "py" /\ PackageCurrent(holds, Question(p)) THEN "idle" ELSE "stub")
  /\ UNCHANGED <<dir, cached, temp, left, now, puts, mishaps, short, untidied>>

AskStubs(p) ==
  /\ At(p, "stub")
  /\ \E stubs \in StubLists :
       Go(p, IF StubCurrent(stubs, Question(p)) THEN "idle" ELSE "create")
  /\ UNCHANGED <<dir, cached, temp, left, now, puts, mishaps, short, untidied>>

-------------------------------------------------------------------------------
(* put_data() *)

(* mutant: the module is written under its own name *)
Create_InPlace(p) ==
  /\ At(p, "create")
  /\ dir' = [dir EXCEPT ![proc[p].name] = Stored(proc[p].text, "none", FALSE)]
  /\ temp' = [temp EXCEPT ![p] = Stored(proc[p].text, "none", FALSE)]
  /\ Go(p, "write")
  /\ UNCHANGED <<cached, left, now, puts, mishaps, short, untidied>>

(* open_new_file(): a name nobody else holds *)
Create(p) ==
  /\ At(p, "create")
  /\ temp' = [temp EXCEPT ![p] = Stored(proc[p].text, "none", FALSE)]
  /\ Go(p, "write")
  /\ UNCHANGED <<dir, cached, left, now, puts, mishaps, short, untidied>>

CreateFails(p) ==
  /\ At(p, "create")
  /\ Mishap
  /\ Go(p, "idle")
  /\ UNCHANGED <<dir, cached, temp, left, now, puts, short, untidied>>

Write(p) ==
  /\ At(p, "write")
  /\ temp' = [temp EXCEPT ![p] = Stored(proc[p].text, "whole", TRUE)]
  /\ Go(p, "replace")
  /\ UNCHANGED <<dir, cached, left, now, puts, mishaps, short, untidied>>

(* os.write() stores what there is room for and says how much; nobody asks.    *)
WriteShort(p) ==
  /\ At(p, "write")
  /\ Mishap
  /\ short' = TRUE
  /\ \E marked \in BOOLEAN :
       temp' = [temp EXCEPT ![p] = Stored(proc[p].text, "part", marked)]
  /\ Go(p, "replace")
  /\ UNCHANGED <<dir, cached, left, now, puts, untidied>>

WriteFails(p) ==
  /\ At(p, "write")
  /\ Mishap
  /\ Go(p, "tidy")
  /\ UNCHANGED <<dir, cached, temp, left, now, puts, short, untidied>>

Replace(p) ==
  /\ At(p, "replace")
  /\ IsFile(temp[p])
  /\ dir' = [dir EXCEPT ![proc[p].name] = temp[p]]
  /\ temp' = [temp EXCEPT ![p] = None]
  /\ Go(p, IF Kind[proc[p].name] = "py" THEN "compile" ELSE "idle")
  /\ UNCHANGED <<cached, left, now, puts, mishaps, short, untidied>>

(* mutant: only the write is tidied up after *)
ReplaceFails_Untidied(p) ==
  /\ At(p, "replace")
  /\ IF IsFile(temp[p]) THEN Mishap ELSE UNCHANGED mishaps
  /\ Go(p, "idle")
  /\ UNCHANGED <<dir, cached, temp, left, now, puts, short, untidied>>

(* os.close() or os.replace() fails, the latter also where another process has *)
(* removed the temporary file                                                  *)
ReplaceFails(p) ==
  /\ At(p, "replace")
  /\ IF IsFile(temp[p]) THEN Mishap ELSE UNCHANGED mishaps
  /\ Go(p, "tidy")
  /\ UNCHANGED <<dir, cached, temp, left, now, puts, short, untidied>>

(* Nobody works on the temporary file any more, and it may still be there.     *)
Leave(p) ==
  /\ left' = left \cup ({temp[p]} \ {None})
  /\ temp' = [temp EXCEPT ![p] = None]
  /\ untidied' = (untidied \/ IsFile(temp[p]))

(* unlink() of the temporary file; its failure is suppressed *)
Tidy(p) ==
  /\ At(p, "tidy")
  /\ temp' = [temp EXCEPT ![p] = None]
  /\ Go(p, "idle")
  /\ UNCHANGED <<dir, cached, left, now, puts, mishaps, short, untidied>>

TidyFails(p) ==
  /\ At(p, "tidy")
  /\ Mishap
  /\ Leave(p)
  /\ Go(p, "idle")
  /\ UNCHANGED <<dir, cached, now, puts, short>>

(* py_compile; a syntax error is let pass and leaves no byte code *)
Compile(p) ==
  /\ At(p, "compile")
  /\ cached' \in {cached} \cup
                 (IF IsFile(dir[proc[p].name]) THEN {cached \cup {proc[p].name}} ELSE {})
  /\ Go(p, "idle")
  /\ UNCHANGED <<dir, temp, left, now, puts, mishaps, short, untidied>>

(* After any other failure unlink() removes what is under the name by now,     *)
(* whoever put it there; where that fails too, the module stays.               *)
CompileFails(p) ==
  /\ At(p, "compile")
  /\ Mishap
  /\ Go(p, "remove")
  /\ UNCHANGED <<dir, cached, temp, left, now, puts, short, untidied>>

Remove(p) ==
  /\ At(p, "remove")
  /\ dir' = [dir EXCEPT ![proc[p].name] = None]
  /\ Go(p, "idle")
  /\ UNCHANGED <<cached, temp, left, now, puts, mishaps, short, untidied>>

RemoveFails(p) ==
  /\ At(p, "remove")
  /\ Mishap
  /\ Go(p, "idle")
  /\ UNCHANGED <<dir, cached, temp, left, now, puts, short, untidied>>

-------------------------------------------------------------------------------
(* prune(): list_data(), then del_data() of a module without a source *)

Ours(f) == IsFile(f) /\ f.producer # None

Prune(p, n) ==
  /\ At(p, "idle")
  /\ Ours(dir[n])
  /\ proc' = [proc EXCEPT ![p] = [Idle EXCEPT !.at = "delete", !.name = n]]
  /\ UNCHANGED <<dir, cached, temp, left, now, puts, mishaps, short, untidied>>

(* Without a suffix every file of the directory is taken for a module.         *)
Stray == left \cup ({temp[p] : p \in Process} \ {None})

PruneStray(p, f) ==
  /\ At(p, "idle")
  /\ "bare" \in Range(Kind) /\ f \in Stray /\ Ours(f)
  /\ left' = left \ {f}
  /\ temp' = [q \in Process |-> IF temp[q] = f THEN None ELSE temp[q]]
  /\ UNCHANGED <<dir, cached, proc, now, puts, mishaps, short, untidied>>

Delete(p) ==
  /\ At(p, "delete")
  /\ dir' = [dir EXCEPT ![proc[p].name] = None]
  /\ Go(p, IF Kind[proc[p].name] = "py" /\ IsFile(dir[proc[p].name])
           THEN "uncache" ELSE "idle")
  /\ UNCHANGED <<cached, temp, left, now, puts, mishaps, short, untidied>>

(* An unlink() that fails is an error of del_data(), which leaves the byte code *)
(* alone then; one of the byte code is suppressed.                             *)
DeleteFails(p) ==
  /\ At(p, "delete")
  /\ Mishap
  /\ Go(p, "idle")
  /\ UNCHANGED <<dir, cached, temp, left, now, puts, short, untidied>>

Uncache(p) ==
  /\ At(p, "uncache")
  /\ cached' = cached \ {proc[p].name}
  /\ Go(p, "idle")
  /\ UNCHANGED <<dir, temp, left, now, puts, mishaps, short, untidied>>

UncacheFails(p) ==
  /\ At(p, "uncache")
  /\ Mishap
  /\ Go(p, "idle")
  /\ UNCHANGED <<dir, cached, temp, left, now, puts, short, untidied>>

-------------------------------------------------------------------------------
(* The world. *)

Tick ==
  /\ now < MaxTime
  /\ now' = now + 1
  /\ UNCHANGED <<dir, cached, temp, left, proc, puts, mishaps, short, untidied>>

(* A process killed where it stands, and started again later. *)
Kill(p) ==
  /\ ~At(p, "idle") /\ ~At(p, "dead")
  /\ Mishap
  /\ Leave(p)
  /\ Go(p, "dead")
  /\ UNCHANGED <<dir, cached, now, puts, short>>

Restart(p) ==
  /\ At(p, "dead")
  /\ Go(p, "idle")
  /\ UNCHANGED <<dir, cached, temp, left, now, puts, mishaps, short, untidied>>

Next ==
  \/ Tick
  \/ \E p \in Process :
       \/ \E n \in Name : \/ Prune(p, n)
                          \/ \E t \in Text, rebuild \in BOOLEAN : Begin(p, n, t, rebuild)
       \/ \E f \in Stray : PruneStray(p, f)
       \/ Stat(p) \/ Read(p) \/ AskPackage(p) \/ AskStubs(p)
       \/ Create(p) \/ CreateFails(p)
       \/ Write(p) \/ WriteShort(p) \/ WriteFails(p)
       \/ Replace(p) \/ ReplaceFails(p) \/ Tidy(p) \/ TidyFails(p)
       \/ Compile(p) \/ CompileFails(p) \/ Remove(p) \/ RemoveFails(p)
       \/ Delete(p) \/ DeleteFails(p) \/ Uncache(p) \/ UncacheFails(p)
       \/ Kill(p) \/ Restart(p)

Spec == Init /\ [][Next]_vars

-------------------------------------------------------------------------------
(* Properties. *)

TypeOK ==
  /\ dir \in [Name -> File \cup {None}]
  /\ cached \subseteq Name
  /\ temp \in [Process -> File \cup {None}]
  /\ left \subseteq File
  /\ proc \in [Process -> Job]
  /\ now \in 0..MaxTime
  /\ puts \in [Process -> 0..MaxPuts]
  /\ mishaps \in 0..MaxMishaps
  /\ short \in BOOLEAN
  /\ untidied \in BOOLEAN

(* writer/localfile.py:68: unless a write fell short, whoever opens a module   *)
(* finds all of it, whichever processes were killed and at which call.         *)
ReadersSeeWhole ==
  ~short => \A n \in Name : IsFile(dir[n]) => dir[n].amount = "whole"

(* The directory as its readers see it. *)
shown == [n \in Name |-> IF dir[n] = None THEN None
                         ELSE [text |-> dir[n].text, whole |-> dir[n].amount = "whole"]]
building == [p \in Process |-> IF proc[p].at \in {"create", "write", "replace"}
                               THEN [name |-> proc[p].name, text |-> proc[p].text] ELSE None]
Atomic == INSTANCE AtomicStore WITH shown <- shown, building <- building, short <- short

(* To its readers the directory is an AtomicStore. Processes that write        *)
(* under temporary names, rename, byte-compile, tidy up, prune and are killed  *)
(* between any two system calls do nothing else to it.                         *)
ImplementsAtomicStore == Atomic!Spec

(* put_data() tidies up on each of its ways out, also where close(), rename() or *)
(* the byte-compiler fails: a temporary file that is not on its way to being     *)
(* renamed or removed was left by a kill in the midst of the call, or by an      *)
(* unlink() that failed.                                                         *)
LeftoversExplained ==
  /\ left # {} => untidied
  /\ \A p \in Process : temp[p] # None => proc[p].at \in {"write", "replace", "tidy"}

(* A module found to need no building carries the digest of the text on offer,  *)
(* or none and -- unless a write fell short -- is no older than that text: even *)
(* where the file was replaced between the look at its time and the look at its *)
(* markers (AnyFileSearcher.file_exists).                                       *)
KeptIsCurrent ==
  [][\A p \in Process :
       At(p, "read") /\ proc'[p].at = "idle" =>
         LET f == dir[proc[p].name] IN
         /\ f.digest = None \/ f.text = proc[p].text
         /\ ~short => f.time >= SourceTime[proc[p].text]]_vars

(* writer/localfile.py:68 as it is worded: no half-written module is left. *)
NothingHalfWritten == \A n \in Name : IsFile(dir[n]) => dir[n].amount = "whole"

===============================================================================
