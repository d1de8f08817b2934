------------------------------ MODULE StoreProofs ------------------------------
(* The output directory is an AtomicStore to its readers, for any number of     *)
(* processes, modules and texts, and for any bound on the clock, on the modules *)
(* built and on what goes wrong.                                                *)
EXTENDS OutputStore, TLAPS

LEMMA IdleIsJob == Idle \in Job
  BY StoreAssumption DEF Idle, Job, Step

LEMMA GoKeepsJobs ==
  ASSUME NEW p \in Process, NEW step \in Step, proc \in [Process -> Job], Go(p, step)
  PROVE  proc' \in [Process -> Job]
  BY IdleIsJob DEF Go, Job

LEMMA GoMoves ==
  ASSUME NEW p \in Process, NEW step \in Step, proc \in [Process -> Job], Go(p, step)
  PROVE  /\ \A q \in Process : q # p => proc'[q] = proc[q]
         /\ proc'[p].at = step
         /\ step # "idle" => proc'[p].name = proc[p].name /\ proc'[p].text = proc[p].text
  BY DEF Go, Job, Idle

LEMMA StoredIsFile ==
  ASSUME NEW t \in Text, NEW amount \in Amount, NEW marked \in BOOLEAN, now \in 0..MaxTime
  PROVE  /\ Stored(t, amount, marked) \in File
         /\ Stored(t, amount, marked).text = t
         /\ Stored(t, amount, marked).amount = amount
  BY DEF Stored, File, Producer

(* What a process is about to put under a module's name: the text it was asked  *)
(* to build, and all of it unless a write has fallen short. Nothing else is put *)
(* under a name, so this carries both theorems.                                 *)
AboutToPublish ==
  \A p \in Process : At(p, "replace") /\ temp[p] # None =>
    /\ temp[p].text = proc[p].text
    /\ ~short => temp[p].amount = "whole"

IInv == TypeOK /\ AboutToPublish /\ ReadersSeeWhole

LEMMA InitIsSound == Init => IInv
<1> SUFFICES ASSUME Init PROVE IInv
  OBVIOUS
<1>1. TypeOK
  <2>1. dir \in [Name -> File \cup {None}]
    BY StoreAssumption DEF Init, File, Amount, Producer
  <2>2. proc \in [Process -> Job]
    BY IdleIsJob DEF Init
  <2>3. /\ now \in 0..MaxTime /\ mishaps \in 0..MaxMishaps
        /\ puts \in [Process -> 0..MaxPuts]
    BY StoreAssumption DEF Init
  <2>4. /\ temp \in [Process -> File \cup {None}]
        /\ cached \subseteq Name /\ left \subseteq File
        /\ short \in BOOLEAN /\ untidied \in BOOLEAN
    BY DEF Init
  <2> QED
    BY <2>1, <2>2, <2>3, <2>4 DEF TypeOK
<1>2. AboutToPublish
  BY DEF Init, AboutToPublish
<1>3. ReadersSeeWhole
  BY DEF Init, ReadersSeeWhole, IsFile
<1> QED
  BY <1>1, <1>2, <1>3 DEF IInv

(* A step that leaves a process anywhere but before the renaming, or without a  *)
(* temporary file, disturbs nothing.                                            *)
LEMMA ElsewhereIsSound ==
  ASSUME NEW p \in Process, AboutToPublish, UNCHANGED short,
         \A q \in Process : q # p => proc'[q] = proc[q] /\ temp'[q] \in {temp[q], None},
         temp'[p] = None \/ proc'[p].at # "replace"
  PROVE  AboutToPublish'
  BY DEF AboutToPublish, At

(* The temporary files move within their type. *)
LEMMA TempKeepsType ==
  ASSUME NEW p \in Process, temp \in [Process -> File \cup {None}],
         NEW f \in File \cup {None}, temp' = [temp EXCEPT ![p] = f]
  PROVE  /\ temp' \in [Process -> File \cup {None}]
         /\ temp'[p] = f
         /\ \A q \in Process : q # p => temp'[q] = temp[q]
  OBVIOUS

LEMMA DirKeepsType ==
  ASSUME NEW n \in Name, dir \in [Name -> File \cup {None}],
         NEW f \in File \cup {None}, dir' = [dir EXCEPT ![n] = f]
  PROVE  /\ dir' \in [Name -> File \cup {None}]
         /\ dir'[n] = f
         /\ \A m \in Name : m # n => dir'[m] = dir[m]
  OBVIOUS

LEMMA MishapIsCounted ==
  ASSUME mishaps \in 0..MaxMishaps, Mishap
  PROVE  mishaps' \in 0..MaxMishaps
  BY StoreAssumption DEF Mishap

(* A process in the midst of something, its temporary file and its directory    *)
(* unchanged or gone: the steps that only move on, tidy up or fail.             *)
LEMMA MovingOn ==
  ASSUME IInv, NEW p \in Process, NEW step \in Step \ {"replace"}, Go(p, step),
         UNCHANGED <<now, puts, short>>, untidied' \in BOOLEAN,
         mishaps' = mishaps \/ Mishap,
         temp' = temp \/ temp' = [temp EXCEPT ![p] = None],
         left' \subseteq left \cup ({temp[p]} \ {None}),
         dir' = dir \/ dir' = [dir EXCEPT ![proc[p].name] = None],
         cached' \subseteq cached \cup {proc[p].name}
  PROVE  IInv'
<1>1. proc[p].name \in Name
  BY DEF IInv, TypeOK, Job
<1>2. TypeOK'
  <2>1. dir' \in [Name -> File \cup {None}]
    BY <1>1, DirKeepsType DEF IInv, TypeOK
  <2>2. temp' \in [Process -> File \cup {None}]
    BY TempKeepsType DEF IInv, TypeOK
  <2>3. proc' \in [Process -> Job]
    BY GoKeepsJobs DEF IInv, TypeOK
  <2>4. mishaps' \in 0..MaxMishaps
    BY MishapIsCounted DEF IInv, TypeOK
  <2>5. cached' \subseteq Name
    BY <1>1 DEF IInv, TypeOK
  <2>6. left' \subseteq File
    BY DEF IInv, TypeOK
  <2> QED
    BY <2>1, <2>2, <2>3, <2>4, <2>5, <2>6 DEF IInv, TypeOK
<1>3. AboutToPublish'
  <2>1. /\ \A q \in Process : q # p => proc'[q] = proc[q]
        /\ proc'[p].at # "replace"
    BY GoMoves DEF IInv, TypeOK
  <2>2. \A q \in Process : temp'[q] \in {temp[q], None}
    BY TempKeepsType DEF IInv, TypeOK
  <2> QED
    BY <2>1, <2>2, ElsewhereIsSound DEF IInv
<1>4. ReadersSeeWhole'
  <2>1. \A n \in Name : dir'[n] \in {dir[n], None}
    BY <1>1, DirKeepsType DEF IInv, TypeOK
  <2> QED
    BY <2>1 DEF IInv, ReadersSeeWhole, IsFile
<1> QED
  BY <1>2, <1>3, <1>4 DEF IInv

(* Every step of a process, of the clock and of a kill keeps types, what is      *)
(* about to be published, and modules whole.                                    *)
THEOREM StepIsSound == IInv /\ [Next]_vars => IInv'
<1> SUFFICES ASSUME IInv, [Next]_vars
             PROVE  IInv'
  OBVIOUS
<1>1. CASE Tick
  <2>1. TypeOK'
    BY <1>1, StoreAssumption DEF Tick, IInv, TypeOK
  <2>2. AboutToPublish' /\ ReadersSeeWhole'
    BY <1>1 DEF Tick, IInv, AboutToPublish, ReadersSeeWhole, At, IsFile
  <2> QED
    BY <2>1, <2>2 DEF IInv
<1>2. ASSUME NEW p \in Process, NEW n \in Name, Prune(p, n)
      PROVE  IInv'
  <2>1. proc' \in [Process -> Job]
    BY <1>2, IdleIsJob DEF Prune, IInv, TypeOK, Job, Step
  <2>2. TypeOK'
    BY <1>2, <2>1 DEF Prune, IInv, TypeOK
  <2>3. \A q \in Process : q # p => proc'[q] = proc[q]
    BY <1>2 DEF Prune, IInv, TypeOK
  <2>4. proc'[p].at # "replace"
    BY <1>2 DEF Prune, IInv, TypeOK, Idle
  <2>5. AboutToPublish'
    BY <1>2, <2>3, <2>4, ElsewhereIsSound DEF Prune, IInv
  <2> QED
    BY <1>2, <2>2, <2>5 DEF Prune, IInv, ReadersSeeWhole, IsFile
<1>3. ASSUME NEW p \in Process, NEW n \in Name, NEW t \in Text, NEW rebuild \in BOOLEAN,
             Begin(p, n, t, rebuild)
      PROVE  IInv'
  <2>1. proc' \in [Process -> Job]
    BY <1>3 DEF Begin, IInv, TypeOK, Job, Step
  <2>2. puts' \in [Process -> 0..MaxPuts]
    BY <1>3, StoreAssumption DEF Begin, IInv, TypeOK
  <2>3. TypeOK'
    BY <1>3, <2>1, <2>2 DEF Begin, IInv, TypeOK
  <2>4. /\ \A q \in Process : q # p => proc'[q] = proc[q]
        /\ proc'[p].at # "replace"
    BY <1>3 DEF Begin, IInv, TypeOK
  <2>5. AboutToPublish'
    BY <1>3, <2>4, ElsewhereIsSound DEF Begin, IInv
  <2> QED
    BY <1>3, <2>3, <2>5 DEF Begin, IInv, ReadersSeeWhole, IsFile
<1>4. ASSUME NEW p \in Process, NEW f \in Stray, PruneStray(p, f)
      PROVE  IInv'
  <2>1. /\ temp' \in [Process -> File \cup {None}]
        /\ \A q \in Process : temp'[q] \in {temp[q], None}
    BY <1>4 DEF PruneStray, IInv, TypeOK
  <2>2. TypeOK'
    BY <1>4, <2>1 DEF PruneStray, IInv, TypeOK
  <2>3. AboutToPublish'
    BY <1>4, <2>1 DEF PruneStray, IInv, AboutToPublish, At
  <2> QED
    BY <1>4, <2>2, <2>3 DEF PruneStray, IInv, ReadersSeeWhole, IsFile
<1>5. ASSUME NEW p \in Process, Stat(p) \/ Read(p) \/ AskPackage(p) \/ AskStubs(p)
                                \/ CreateFails(p) \/ WriteFails(p) \/ ReplaceFails(p)
                                \/ Tidy(p) \/ TidyFails(p)
      PROVE  IInv'
  BY <1>5, MovingOn DEF Stat, Read, AskPackage, AskStubs, CreateFails, WriteFails, ReplaceFails,
                        Tidy, TidyFails, Leave, IsFile, Step, IInv, TypeOK
<1>6. ASSUME NEW p \in Process, Compile(p) \/ CompileFails(p) \/ Remove(p) \/ RemoveFails(p)
                                \/ Delete(p) \/ DeleteFails(p) \/ Uncache(p) \/ UncacheFails(p)
                                \/ Kill(p) \/ Restart(p)
      PROVE  IInv'
  BY <1>6, MovingOn DEF Compile, CompileFails, Remove, RemoveFails, Delete, DeleteFails,
                        Uncache, UncacheFails, Kill, Restart, Leave, IsFile, Step, IInv, TypeOK
<1>7. ASSUME NEW p \in Process, Create(p)
      PROVE  IInv'
  <2>1. proc[p].text \in Text
    BY DEF IInv, TypeOK, Job
  <2>2. Stored(proc[p].text, "none", FALSE) \in File
    BY <2>1, StoredIsFile DEF IInv, TypeOK, Amount
  <2>3. /\ temp' \in [Process -> File \cup {None}]
        /\ \A q \in Process : q # p => temp'[q] = temp[q]
    BY <1>7, <2>2, TempKeepsType DEF Create, IInv, TypeOK
  <2>4. proc' \in [Process -> Job]
    BY <1>7, GoKeepsJobs DEF Create, IInv, TypeOK, Step
  <2>5. TypeOK'
    BY <1>7, <2>3, <2>4 DEF Create, IInv, TypeOK
  <2>6. /\ \A q \in Process : q # p => proc'[q] = proc[q]
        /\ proc'[p].at # "replace"
    BY <1>7, GoMoves DEF Create, IInv, TypeOK, Step
  <2>7. AboutToPublish'
    BY <1>7, <2>3, <2>6, ElsewhereIsSound DEF Create, IInv
  <2> QED
    BY <1>7, <2>5, <2>7 DEF Create, IInv, ReadersSeeWhole, IsFile
<1>8. ASSUME NEW p \in Process, Write(p) \/ WriteShort(p)
      PROVE  IInv'
  <2>1. proc[p].text \in Text
    BY DEF IInv, TypeOK, Job
  <2>2. PICK amount \in {"part", "whole"}, marked \in BOOLEAN :
          /\ temp' = [temp EXCEPT ![p] = Stored(proc[p].text, amount, marked)]
          /\ amount = "whole" \/ short' = TRUE
    BY <1>8 DEF Write, WriteShort
  <2>3. /\ Stored(proc[p].text, amount, marked) \in File
        /\ Stored(proc[p].text, amount, marked).text = proc[p].text
        /\ Stored(proc[p].text, amount, marked).amount = amount
    BY <2>1, <2>2, StoredIsFile DEF IInv, TypeOK, Amount
  <2>4. /\ temp' \in [Process -> File \cup {None}]
        /\ temp'[p] = Stored(proc[p].text, amount, marked)
        /\ \A q \in Process : q # p => temp'[q] = temp[q]
    BY <2>2, <2>3, TempKeepsType DEF IInv, TypeOK
  <2>5. /\ Go(p, "replace")
        /\ UNCHANGED <<dir, cached, left, now, puts, untidied>>
        /\ short' \in BOOLEAN
        /\ short => short' = TRUE
        /\ mishaps' = mishaps \/ Mishap
    BY <1>8 DEF Write, WriteShort, IInv, TypeOK
  <2>6. proc' \in [Process -> Job]
    BY <2>5, GoKeepsJobs DEF IInv, TypeOK, Step
  <2>7. TypeOK'
    BY <2>4, <2>5, <2>6, MishapIsCounted DEF IInv, TypeOK
  <2>8. /\ \A q \in Process : q # p => proc'[q] = proc[q]
        /\ proc'[p].text = proc[p].text
    BY <2>5, GoMoves DEF IInv, TypeOK, Step
  <2>9. AboutToPublish'
    <3> SUFFICES ASSUME NEW q \in Process, At(q, "replace")', temp'[q] # None
                 PROVE  /\ temp'[q].text = proc'[q].text
                        /\ ~short' => temp'[q].amount = "whole"
      BY DEF AboutToPublish
    <3>1. CASE q = p
      BY <3>1, <2>2, <2>3, <2>4, <2>8
    <3>2. CASE q # p
      BY <3>2, <2>4, <2>5, <2>8 DEF IInv, AboutToPublish, At
    <3> QED
      BY <3>1, <3>2
  <2>10. ReadersSeeWhole'
    BY <2>5 DEF IInv, TypeOK, ReadersSeeWhole, IsFile
  <2> QED
    BY <2>7, <2>9, <2>10 DEF IInv
<1>9. ASSUME NEW p \in Process, Replace(p)
      PROVE  IInv'
  <2>1. /\ temp[p] # None
        /\ dir' = [dir EXCEPT ![proc[p].name] = temp[p]]
        /\ temp' = [temp EXCEPT ![p] = None]
        /\ UNCHANGED <<cached, left, now, puts, mishaps, short, untidied>>
    BY <1>9 DEF Replace, IsFile
  <2>2. PICK step \in {"compile", "idle"} : Go(p, step)
    BY <1>9 DEF Replace
  <2>3. proc[p].name \in Name /\ temp[p] \in File
    BY <2>1 DEF IInv, TypeOK, Job
  <2>4. /\ dir' \in [Name -> File \cup {None}]
        /\ dir'[proc[p].name] = temp[p]
        /\ \A m \in Name : m # proc[p].name => dir'[m] = dir[m]
    BY <2>1, <2>3, DirKeepsType DEF IInv, TypeOK
  <2>5. /\ temp' \in [Process -> File \cup {None}]
        /\ temp'[p] = None
        /\ \A q \in Process : q # p => temp'[q] = temp[q]
    BY <2>1, TempKeepsType DEF IInv, TypeOK
  <2>6. proc' \in [Process -> Job]
    BY <2>2, GoKeepsJobs DEF IInv, TypeOK, Step
  <2>7. \A q \in Process : q # p => proc'[q] = proc[q]
    BY <2>2, GoMoves DEF IInv, TypeOK, Step
  <2>8. TypeOK'
    BY <2>1, <2>4, <2>5, <2>6 DEF IInv, TypeOK
  <2>9. AboutToPublish'
    BY <2>1, <2>5, <2>7, ElsewhereIsSound DEF IInv
  <2>10. ~short => temp[p].amount = "whole"
    BY <1>9, <2>1 DEF IInv, AboutToPublish, Replace
  <2>11. ReadersSeeWhole'
    BY <2>1, <2>4, <2>10 DEF IInv, ReadersSeeWhole, IsFile
  <2> QED
    BY <2>8, <2>9, <2>11 DEF IInv
<1>10. CASE UNCHANGED vars
  <2>1. TypeOK'
    BY <1>10 DEF vars, IInv, TypeOK
  <2> QED
    BY <1>10, <2>1 DEF vars, IInv, AboutToPublish, ReadersSeeWhole, At, IsFile
<1> QED
  BY <1>1, <1>2, <1>3, <1>4, <1>5, <1>6, <1>7, <1>8, <1>9, <1>10 DEF Next

-------------------------------------------------------------------------------
(* So they hold in every state of the output directory.                         *)
THEOREM Soundness == Spec => []IInv
<1>1. IInv /\ [Next]_vars => IInv'
  BY StepIsSound
<1> QED
  BY <1>1, InitIsSound, PTL DEF Spec

(* The state of the directory and of its processes keeps its types.             *)
THEOREM StoreTypeCorrect == Spec => []TypeOK
<1>1. IInv => TypeOK
  BY DEF IInv
<1> QED
  BY <1>1, Soundness, PTL

(* No reader finds half a module unless a write of the operating system fell    *)
(* short: however many build, fail and are killed, at whatever call.            *)
THEOREM NobodySeesHalf == Spec => []ReadersSeeWhole
<1>1. IInv => ReadersSeeWhole
  BY DEF IInv
<1> QED
  BY <1>1, Soundness, PTL

(* What a job is as the readers see it. *)
LEMMA BuildingIsATask ==
  ASSUME TypeOK, NEW p \in Process
  PROVE  /\ At(p, "create") \/ At(p, "write") \/ At(p, "replace") =>
              /\ building[p] = [name |-> proc[p].name, text |-> proc[p].text]
              /\ building[p] # None
              /\ building[p].name = proc[p].name /\ building[p].text = proc[p].text
         /\ ~(At(p, "create") \/ At(p, "write") \/ At(p, "replace")) => building[p] = None
<1>1. [name |-> proc[p].name, text |-> proc[p].text] \in [name : Name, text : Text]
  BY DEF TypeOK, Job
<1> QED
  BY <1>1, StoreAssumption DEF building, At

LEMMA BuildingOfOthers ==
  ASSUME NEW p \in Process, \A q \in Process : q # p => proc'[q] = proc[q]
  PROVE  building' = [building EXCEPT ![p] = building'[p]]
  BY DEF building

(* Where no module is renamed and no write falls short, what a process does to  *)
(* the AtomicStore is what it does to what it is building.                      *)
LEMMA BuildingOnly ==
  ASSUME NEW p \in Process, \A q \in Process : q # p => proc'[q] = proc[q],
         UNCHANGED <<dir, short>>,
         \/ building'[p] = building[p]
         \/ building[p] # None /\ building'[p] = None
         \/ building[p] = None /\ building'[p] \in [name : Name, text : Text]
  PROVE  [Atomic!Next]_(Atomic!avars)
<1>1. building' = [building EXCEPT ![p] = building'[p]]
  BY BuildingOfOthers
<1>2. UNCHANGED shown
  BY DEF shown
<1>3. CASE building'[p] = building[p]
  <2>1. building' = building
    BY <1>1, <1>3 DEF building
  <2> QED
    BY <2>1, <1>2 DEF Atomic!avars
<1>4. CASE building[p] # None /\ building'[p] = None
  <2>1. Atomic!GiveUp(p)
    BY <1>1, <1>2, <1>4 DEF Atomic!GiveUp
  <2> QED
    BY <2>1 DEF Atomic!Next
<1>5. CASE building[p] = None /\ building'[p] \in [name : Name, text : Text]
  <2>1. Atomic!Undertake(p)
    BY <1>1, <1>2, <1>5 DEF Atomic!Undertake, Atomic!Task
  <2> QED
    BY <2>1 DEF Atomic!Next
<1> QED
  BY <1>3, <1>4, <1>5

(* Where a module is removed, nobody's building is touched. *)
LEMMA WithdrawalOnly ==
  ASSUME TypeOK, NEW n \in Name, dir' = [dir EXCEPT ![n] = None],
         UNCHANGED <<building, short>>
  PROVE  [Atomic!Next]_(Atomic!avars)
<1>1. shown' = [shown EXCEPT ![n] = None]
  BY DEF shown, TypeOK
<1>2. Atomic!Withdraw(n)
  BY <1>1 DEF Atomic!Withdraw
<1> QED
  BY <1>2 DEF Atomic!Next

LEMMA InitsMatch == Init => Atomic!Init
<1> SUFFICES ASSUME Init PROVE Atomic!Init
  OBVIOUS
<1>1. shown \in [Name -> {None} \cup [text : Text, whole : {TRUE}]]
  BY DEF Init, shown
<1>2. building = [p \in Process |-> None]
  BY DEF Init, building, Idle
<1> QED
  BY <1>1, <1>2 DEF Init, Atomic!Init

(* Where a process goes says what becomes of what it is building. *)
LEMMA GoBuilds ==
  ASSUME TypeOK, NEW p \in Process, NEW step \in Step, Go(p, step)
  PROVE  /\ step \notin {"create", "write", "replace"} => building'[p] = None
         /\ step \in {"create", "write", "replace"} =>
              building'[p] = [name |-> proc[p].name, text |-> proc[p].text]
  BY GoMoves DEF TypeOK, building

LEMMA StepsMatch == IInv /\ [Next]_vars => [Atomic!Next]_(Atomic!avars)
<1> SUFFICES ASSUME IInv, [Next]_vars
             PROVE  [Atomic!Next]_(Atomic!avars)
  OBVIOUS
<1> TypeOK
  BY DEF IInv
<1>1. CASE Tick
  BY <1>1 DEF Tick, Atomic!avars, shown, building
<1>2. ASSUME NEW p \in Process, NEW n \in Name, Prune(p, n)
      PROVE  [Atomic!Next]_(Atomic!avars)
  <2>1. /\ \A q \in Process : q # p => proc'[q] = proc[q]
        /\ proc'[p].at = "delete"
    BY <1>2 DEF Prune, TypeOK, Idle
  <2>2. building[p] = None /\ building'[p] = None
    BY <1>2, <2>1 DEF Prune, building, At
  <2> QED
    BY <1>2, <2>1, <2>2, BuildingOnly DEF Prune
<1>3. ASSUME NEW p \in Process, NEW n \in Name, NEW t \in Text, NEW rebuild \in BOOLEAN,
             Begin(p, n, t, rebuild)
      PROVE  [Atomic!Next]_(Atomic!avars)
  <2>1. /\ \A q \in Process : q # p => proc'[q] = proc[q]
        /\ proc'[p].at \in {"stub", "stat"}
        /\ proc'[p].name = n /\ proc'[p].text = t
    BY <1>3 DEF Begin, TypeOK
  <2>2. building[p] = None
    BY <1>3 DEF Begin, building, At
  <2>3. building'[p] = None \/ building'[p] \in [name : Name, text : Text]
    BY <2>1 DEF building
  <2> QED
    BY <1>3, <2>1, <2>2, <2>3, BuildingOnly DEF Begin
<1>4. ASSUME NEW p \in Process, NEW f \in Stray, PruneStray(p, f)
      PROVE  [Atomic!Next]_(Atomic!avars)
  BY <1>4 DEF PruneStray, Atomic!avars, shown, building
<1>5. ASSUME NEW p \in Process, Stat(p) \/ Read(p) \/ AskPackage(p) \/ AskStubs(p)
      PROVE  [Atomic!Next]_(Atomic!avars)
  <2>1. PICK step \in {"read", "package", "stub", "idle", "create"} : Go(p, step)
    BY <1>5 DEF Stat, Read, AskPackage, AskStubs
  <2>2. \A q \in Process : q # p => proc'[q] = proc[q]
    BY <2>1, GoMoves DEF TypeOK, Step
  <2>3. building[p] = None
    BY <1>5, BuildingIsATask DEF Stat, Read, AskPackage, AskStubs, At
  <2>4. building'[p] = None \/ building'[p] \in [name : Name, text : Text]
    <3>1. [name |-> proc[p].name, text |-> proc[p].text] \in [name : Name, text : Text]
      BY DEF TypeOK, Job
    <3>2. building'[p] \in {None, [name |-> proc[p].name, text |-> proc[p].text]}
      BY <2>1, GoBuilds DEF Step
    <3> QED
      BY <3>1, <3>2
  <2> QED
    BY <1>5, <2>2, <2>3, <2>4, BuildingOnly DEF Stat, Read, AskPackage, AskStubs
<1>6. ASSUME NEW p \in Process, CreateFails(p) \/ WriteFails(p) \/ ReplaceFails(p) \/ Kill(p)
      PROVE  [Atomic!Next]_(Atomic!avars)
  <2>1. PICK step \in {"idle", "tidy", "dead"} : Go(p, step)
    BY <1>6 DEF CreateFails, WriteFails, ReplaceFails, Kill
  <2>2. \A q \in Process : q # p => proc'[q] = proc[q]
    BY <2>1, GoMoves DEF TypeOK, Step
  <2>3. building'[p] = None
    BY <2>1, GoBuilds DEF Step
  <2> QED
    BY <1>6, <2>2, <2>3, BuildingOnly DEF CreateFails, WriteFails, ReplaceFails, Kill
<1>7. ASSUME NEW p \in Process, Create(p)
      PROVE  [Atomic!Next]_(Atomic!avars)
  <2>1. \A q \in Process : q # p => proc'[q] = proc[q]
    BY <1>7, GoMoves DEF Create, TypeOK, Step
  <2>2. building'[p] = building[p]
    BY <1>7, GoBuilds, BuildingIsATask DEF Create, Step
  <2> QED
    BY <1>7, <2>1, <2>2, BuildingOnly DEF Create
<1>8. ASSUME NEW p \in Process, Write(p) \/ WriteShort(p)
      PROVE  [Atomic!Next]_(Atomic!avars)
  <2>1. \A q \in Process : q # p => proc'[q] = proc[q]
    BY <1>8, GoMoves DEF Write, WriteShort, TypeOK, Step
  <2>2. building'[p] = building[p]
    BY <1>8, GoBuilds, BuildingIsATask DEF Write, WriteShort, Step
  <2>3. CASE Write(p)
    BY <2>1, <2>2, <2>3, BuildingOnly DEF Write
  <2>4. CASE WriteShort(p)
    <3>1. UNCHANGED <<shown, building>>
      BY <2>1, <2>2, <2>4, BuildingOfOthers DEF WriteShort, shown, building
    <3>2. Atomic!FallShort
      BY <2>4, <3>1 DEF WriteShort, Atomic!FallShort
    <3> QED
      BY <3>2 DEF Atomic!Next
  <2> QED
    BY <1>8, <2>3, <2>4
<1>9. ASSUME NEW p \in Process, Replace(p)
      PROVE  [Atomic!Next]_(Atomic!avars)
  <2>1. PICK step \in {"compile", "idle"} : Go(p, step)
    BY <1>9 DEF Replace
  <2>2. \A q \in Process : q # p => proc'[q] = proc[q]
    BY <2>1, GoMoves DEF TypeOK, Step
  <2>3. building'[p] = None
    BY <2>1, GoBuilds DEF Step
  <2>4. /\ building[p] # None
        /\ building[p].name = proc[p].name /\ building[p].text = proc[p].text
    BY <1>9, BuildingIsATask DEF Replace
  <2>5. /\ temp[p] # None
        /\ dir' = [dir EXCEPT ![proc[p].name] = temp[p]]
        /\ UNCHANGED short
    BY <1>9 DEF Replace, IsFile
  <2>6. /\ temp[p].text = building[p].text
        /\ (temp[p].amount = "whole") \in {TRUE, ~short}
    BY <1>9, <2>4, <2>5 DEF IInv, TypeOK, AboutToPublish, Replace
  <2>7. shown' = [shown EXCEPT ![building[p].name] =
                    [text |-> building[p].text, whole |-> temp[p].amount = "whole"]]
    BY <2>4, <2>5, <2>6 DEF shown, TypeOK, Job
  <2>8. building' = [building EXCEPT ![p] = None]
    BY <2>2, <2>3, BuildingOfOthers
  <2>9. Atomic!Publish(p)
    BY <2>4, <2>5, <2>6, <2>7, <2>8 DEF Atomic!Publish
  <2> QED
    BY <2>9 DEF Atomic!Next
<1>10. ASSUME NEW p \in Process, Tidy(p) \/ TidyFails(p) \/ Compile(p) \/ CompileFails(p)
                                 \/ RemoveFails(p) \/ DeleteFails(p) \/ Uncache(p)
                                 \/ UncacheFails(p) \/ Restart(p)
       PROVE  [Atomic!Next]_(Atomic!avars)
  <2>1. PICK step \in {"idle", "remove"} : Go(p, step)
    BY <1>10 DEF Tidy, TidyFails, Compile, CompileFails, RemoveFails, DeleteFails, Uncache,
                 UncacheFails, Restart
  <2>2. \A q \in Process : q # p => proc'[q] = proc[q]
    BY <2>1, GoMoves DEF TypeOK, Step
  <2>3. ~(At(p, "create") \/ At(p, "write") \/ At(p, "replace"))
    BY <1>10 DEF At, Tidy, TidyFails, Compile, CompileFails, RemoveFails, DeleteFails, Uncache,
                 UncacheFails, Restart
  <2>4. building'[p] = None /\ building[p] = None
    BY <2>1, <2>3, GoBuilds, BuildingIsATask DEF Step
  <2>5. UNCHANGED <<dir, short>>
    BY <1>10 DEF Tidy, TidyFails, Compile, CompileFails, RemoveFails, DeleteFails, Uncache,
                 UncacheFails, Restart
  <2> QED
    BY <2>2, <2>4, <2>5, BuildingOnly
<1>11. ASSUME NEW p \in Process, Remove(p) \/ Delete(p)
       PROVE  [Atomic!Next]_(Atomic!avars)
  <2>1. PICK step \in {"uncache", "idle"} : Go(p, step)
    BY <1>11 DEF Remove, Delete
  <2>2. \A q \in Process : q # p => proc'[q] = proc[q]
    BY <2>1, GoMoves DEF TypeOK, Step
  <2>3. building'[p] = None /\ building[p] = None
    BY <1>11, <2>1, GoBuilds, BuildingIsATask DEF Step, At, Remove, Delete
  <2>4. building' = building
    <3>1. building' = [building EXCEPT ![p] = building[p]]
      BY <2>2, <2>3, BuildingOfOthers
    <3> QED
      BY <3>1 DEF building
  <2>5. proc[p].name \in Name
    BY DEF TypeOK, Job
  <2> QED
    BY <1>11, <2>4, <2>5, WithdrawalOnly DEF Remove, Delete
<1>12. CASE UNCHANGED vars
  BY <1>12 DEF vars, Atomic!avars, shown, building
<1> QED
  BY <1>1, <1>2, <1>3, <1>4, <1>5, <1>6, <1>7, <1>8, <1>9, <1>10, <1>11, <1>12 DEF Next

(* The directory keeps the promise of AtomicStore: whatever the processes do,   *)
(* its readers see single modules come, change and go whole.                    *)
THEOREM StoreIsAtomic == Spec => ImplementsAtomicStore
<1>1. IInv /\ [Next]_vars => [Atomic!Next]_(Atomic!avars)
  BY StepsMatch
<1> QED
  BY <1>1, InitsMatch, Soundness, PTL DEF Spec, ImplementsAtomicStore, Atomic!Spec

-------------------------------------------------------------------------------
(* A temporary file belongs to a process on its way to renaming or removing it; *)
(* what is left over was left by a kill or by an unlink() that failed: whichever *)
(* of create, write, close, rename, byte-compile and unlink fail, and how often. *)
THEOREM LeftoversHaveCause == Spec => []LeftoversExplained
<1>1. Init => LeftoversExplained
  BY DEF Init, LeftoversExplained
<1>2. IInv /\ LeftoversExplained /\ [Next]_vars => LeftoversExplained'
  <2> SUFFICES ASSUME IInv, LeftoversExplained, [Next]_vars
               PROVE  LeftoversExplained'
    OBVIOUS
  <2> TypeOK
    BY DEF IInv
  <2>1. CASE Tick
    BY <2>1 DEF Tick, LeftoversExplained
  <2>2. ASSUME NEW p \in Process, NEW n \in Name, Prune(p, n)
        PROVE  LeftoversExplained'
    BY <2>2 DEF Prune, LeftoversExplained, TypeOK, At
  <2>3. ASSUME NEW p \in Process, NEW n \in Name, NEW t \in Text, NEW rebuild \in BOOLEAN,
               Begin(p, n, t, rebuild)
        PROVE  LeftoversExplained'
    BY <2>3 DEF Begin, LeftoversExplained, TypeOK, At
  <2>4. ASSUME NEW p \in Process, NEW f \in Stray, PruneStray(p, f)
        PROVE  LeftoversExplained'
    BY <2>4 DEF PruneStray, LeftoversExplained, TypeOK
  <2>5. ASSUME NEW p \in Process, NEW step \in Step, Go(p, step),
               \/ temp' = [temp EXCEPT ![p] = None]
               \/ step \in {"write", "replace", "tidy"}
                  /\ \A q \in Process : q # p => temp'[q] = temp[q]
               \/ temp' = temp /\ ~(At(p, "write") \/ At(p, "replace") \/ At(p, "tidy")),
               left' # {} => untidied'
        PROVE  LeftoversExplained'
    <3>1. \A q \in Process : temp'[q] # None => proc'[q].at \in {"write", "replace", "tidy"}
      BY <2>5, GoMoves DEF LeftoversExplained, TypeOK, At
    <3> QED
      BY <2>5, <3>1 DEF LeftoversExplained
  <2>6. ASSUME NEW p \in Process, Leave(p)
        PROVE  left' # {} => untidied'
    BY <2>6 DEF Leave, LeftoversExplained, IsFile
  <2>7. ASSUME NEW p \in Process, Stat(p) \/ Read(p) \/ AskPackage(p) \/ AskStubs(p)
                                  \/ Create(p) \/ CreateFails(p) \/ Write(p) \/ WriteShort(p)
                                  \/ WriteFails(p) \/ Replace(p) \/ ReplaceFails(p) \/ Tidy(p)
        PROVE  LeftoversExplained'
    <3>1. left' # {} => untidied'
      BY <2>7 DEF Stat, Read, AskPackage, AskStubs, Create, CreateFails, Write, WriteShort,
                  WriteFails, Replace, ReplaceFails, Tidy, LeftoversExplained
    <3> QED
      BY <2>7, <2>5, <3>1 DEF Stat, Read, AskPackage, AskStubs, Create, CreateFails, Write,
                  WriteShort, WriteFails, Replace, ReplaceFails, Tidy, Step, At, TypeOK
  <2>8. ASSUME NEW p \in Process, Compile(p) \/ CompileFails(p) \/ Remove(p) \/ RemoveFails(p)
                                  \/ Delete(p) \/ DeleteFails(p) \/ Uncache(p)
                                  \/ UncacheFails(p) \/ Restart(p)
        PROVE  LeftoversExplained'
    <3>1. left' # {} => untidied'
      BY <2>8 DEF Compile, CompileFails, Remove, RemoveFails, Delete, DeleteFails, Uncache,
                  UncacheFails, Restart, LeftoversExplained
    <3> QED
      BY <2>8, <2>5, <3>1 DEF Compile, CompileFails, Remove, RemoveFails, Delete, DeleteFails,
                  Uncache, UncacheFails, Restart, Step, At, TypeOK
  <2>9. ASSUME NEW p \in Process, TidyFails(p) \/ Kill(p)
        PROVE  LeftoversExplained'
    <3>1. PICK step \in {"idle", "dead"} : Go(p, step) /\ Leave(p)
      BY <2>9 DEF TidyFails, Kill
    <3>2. temp' = [temp EXCEPT ![p] = None]
      BY <3>1 DEF Leave
    <3> QED
      BY <2>5, <2>6, <3>1, <3>2 DEF Step
  <2>10. CASE UNCHANGED vars
    BY <2>10 DEF vars, LeftoversExplained
  <2> QED
    BY <2>1, <2>2, <2>3, <2>4, <2>7, <2>8, <2>9, <2>10 DEF Next
<1> QED
  BY <1>1, <1>2, Soundness, PTL DEF Spec

-------------------------------------------------------------------------------
(* What markers are worth: a file that carries a digest was made of the text of *)
(* that digest, no earlier than that text was; and a file about to be renamed   *)
(* carries one unless a write fell short. So where a file without a digest lies *)
(* under a name, it has lain there since before whoever looks at it looked.     *)
Honest(f) == f.digest # None => f.digest = f.text /\ f.time >= SourceTime[f.text]

Underway == {"stat", "read", "package", "stub", "create", "write"}
USE DEF Underway

MarkersAreTrue ==
  /\ \A n \in Name : dir[n] # None => Honest(dir[n])
  /\ \A p \in Process :
       /\ temp[p] # None => Honest(temp[p])
       /\ proc[p].at \in Underway => SourceTime[proc[p].text] <= now
       /\ At(p, "replace") /\ temp[p] # None /\ ~short => temp[p].digest # None
       /\ At(p, "read") /\ dir[proc[p].name] # None /\ ~short =>
            \/ dir[proc[p].name].digest # None
            \/ dir[proc[p].name].time >= SourceTime[proc[p].text]

LEMMA StoredIsHonest ==
  ASSUME NEW t \in Text, NEW amount, NEW marked \in BOOLEAN, SourceTime[t] <= now
  PROVE  /\ Honest(Stored(t, amount, marked))
         /\ marked => Stored(t, amount, marked).digest # None
  BY SearchersAssumption DEF Honest, Stored

LEMMA MarkersBegin == Init => MarkersAreTrue
<1> SUFFICES ASSUME Init PROVE MarkersAreTrue
  OBVIOUS
<1>1. \A n \in Name : dir[n] # None => dir[n].digest = None
  BY DEF Init
<1>2. \A p \in Process : temp[p] = None /\ proc[p].at = "idle"
  BY DEF Init, Idle
<1> QED
  BY <1>1, <1>2 DEF MarkersAreTrue, Honest, At

(* The steps after which a process is not about to rename or to read, and no    *)
(* file is new.                                                                 *)
LEMMA NothingNew ==
  ASSUME TypeOK, MarkersAreTrue, NEW p \in Process,
         \A q \in Process : q # p => proc'[q] = proc[q],
         proc'[p].at \notin Underway \cup {"replace"},
         \A q \in Process : temp'[q] \in {temp[q], None},
         \A n \in Name : dir'[n] \in {dir[n], None},
         UNCHANGED <<now, short>>
  PROVE  MarkersAreTrue'
<1>1. \A q \in Process : proc[q].name \in Name
  BY DEF TypeOK, Job
<1>2. \A n \in Name : dir'[n] # None => Honest(dir[n])'
  BY DEF MarkersAreTrue, Honest
<1>3. ASSUME NEW q \in Process
      PROVE  /\ temp'[q] # None => Honest(temp[q])'
             /\ proc'[q].at \in Underway =>
                  SourceTime[proc'[q].text] <= now'
             /\ At(q, "replace")' /\ temp'[q] # None /\ ~short' => temp'[q].digest # None
             /\ At(q, "read")' /\ dir'[proc'[q].name] # None /\ ~short' =>
                  \/ dir'[proc'[q].name].digest # None
                  \/ dir'[proc'[q].name].time >= SourceTime[proc'[q].text]
  <2>1. CASE q = p
    BY <2>1 DEF MarkersAreTrue, At, Honest
  <2>2. CASE q # p
    <3>1. proc'[q] = proc[q] /\ dir'[proc[q].name] \in {dir[proc[q].name], None}
      BY <2>2, <1>1
    <3> QED
      BY <3>1 DEF MarkersAreTrue, At, Honest
  <2> QED
    BY <2>1, <2>2
<1> QED
  BY <1>2, <1>3 DEF MarkersAreTrue

(* A step that leaves the directory and the temporary files alone. *)
LEMMA Looking ==
  ASSUME TypeOK, MarkersAreTrue, NEW p \in Process,
         \A q \in Process : q # p => proc'[q] = proc[q],
         UNCHANGED <<dir, temp, now, short>>,
         proc'[p].at # "replace",
         proc'[p].at \in Underway => SourceTime[proc'[p].text] <= now,
         At(p, "read")' /\ dir[proc'[p].name] # None =>
           dir[proc'[p].name].time >= SourceTime[proc'[p].text]
  PROVE  MarkersAreTrue'
<1>1. \A n \in Name : dir'[n] # None => Honest(dir[n])'
  BY DEF MarkersAreTrue, Honest
<1>2. ASSUME NEW q \in Process
      PROVE  /\ temp'[q] # None => Honest(temp[q])'
             /\ proc'[q].at \in Underway =>
                  SourceTime[proc'[q].text] <= now'
             /\ At(q, "replace")' /\ temp'[q] # None /\ ~short' => temp'[q].digest # None
             /\ At(q, "read")' /\ dir'[proc'[q].name] # None /\ ~short' =>
                  \/ dir'[proc'[q].name].digest # None
                  \/ dir'[proc'[q].name].time >= SourceTime[proc'[q].text]
  <2>1. CASE q = p
    BY <2>1 DEF MarkersAreTrue, At, Honest
  <2>2. CASE q # p
    BY <2>2 DEF MarkersAreTrue, At, Honest
  <2> QED
    BY <2>1, <2>2
<1> QED
  BY <1>1, <1>2 DEF MarkersAreTrue

LEMMA MarkersStayTrue == IInv /\ MarkersAreTrue /\ [Next]_vars => MarkersAreTrue'
<1> SUFFICES ASSUME IInv, MarkersAreTrue, [Next]_vars
             PROVE  MarkersAreTrue'
  OBVIOUS
<1> TypeOK
  BY DEF IInv
<1>1. CASE Tick
  <2>1. \A p \in Process : proc[p].text \in Text
    BY DEF TypeOK, Job
  <2>2. \A p \in Process : SourceTime[proc[p].text] <= now => SourceTime[proc[p].text] <= now'
    BY <1>1, <2>1, StoreAssumption DEF Tick, TypeOK
  <2>3. UNCHANGED <<dir, temp, proc, short>>
    BY <1>1 DEF Tick
  <2> QED
    BY <2>2, <2>3 DEF MarkersAreTrue, Honest, At
<1>2. ASSUME NEW p \in Process, NEW n \in Name, Prune(p, n)
      PROVE  MarkersAreTrue'
  <2>1. /\ \A q \in Process : q # p => proc'[q] = proc[q]
        /\ proc'[p].at = "delete"
    BY <1>2 DEF Prune, TypeOK, Idle
  <2> QED
    BY <1>2, <2>1, NothingNew DEF Prune
<1>3. ASSUME NEW p \in Process, NEW n \in Name, NEW t \in Text, NEW rebuild \in BOOLEAN,
             Begin(p, n, t, rebuild)
      PROVE  MarkersAreTrue'
  <2>1. /\ \A q \in Process : q # p => proc'[q] = proc[q]
        /\ proc'[p].at \in {"stub", "stat"} /\ proc'[p].text = t
    BY <1>3 DEF Begin, TypeOK
  <2>2. UNCHANGED <<dir, temp, now, short>> /\ SourceTime[t] <= now
    BY <1>3 DEF Begin
  <2> QED
    BY <2>1, <2>2, Looking DEF At
<1>4. ASSUME NEW p \in Process, NEW f \in Stray, PruneStray(p, f)
      PROVE  MarkersAreTrue'
  <2>1. /\ \A q \in Process : temp'[q] \in {temp[q], None}
        /\ UNCHANGED <<dir, proc, now, short>>
    BY <1>4 DEF PruneStray, TypeOK
  <2> QED
    BY <2>1 DEF MarkersAreTrue, At, Honest
<1>5. ASSUME NEW p \in Process, Stat(p) \/ Read(p) \/ AskPackage(p) \/ AskStubs(p)
      PROVE  MarkersAreTrue'
  <2>1. PICK step \in {"read", "package", "stub", "idle", "create"} :
          Go(p, step) /\ (step = "read" => Fresh(dir[proc[p].name], Question(p)))
    BY <1>5 DEF Stat, Read, AskPackage, AskStubs
  <2>2. /\ \A q \in Process : q # p => proc'[q] = proc[q]
        /\ proc'[p].at = step
        /\ step # "idle" => proc'[p].name = proc[p].name /\ proc'[p].text = proc[p].text
    BY <2>1, GoMoves DEF TypeOK, Step
  <2>3. /\ UNCHANGED <<dir, temp, now, short>>
        /\ At(p, "stat") \/ At(p, "read") \/ At(p, "package") \/ At(p, "stub")
    BY <1>5 DEF Stat, Read, AskPackage, AskStubs
  <2>4. SourceTime[proc[p].text] <= now
    BY <2>3 DEF MarkersAreTrue, At
  <2>5. step = "read" => dir[proc[p].name].time >= SourceTime[proc[p].text]
    BY <2>1 DEF Fresh, Question
  <2> QED
    BY <2>2, <2>3, <2>4, <2>5, Looking DEF At
<1>6. ASSUME NEW p \in Process, CreateFails(p) \/ WriteFails(p) \/ ReplaceFails(p) \/ Tidy(p)
                                \/ TidyFails(p) \/ Compile(p) \/ CompileFails(p) \/ Remove(p)
                                \/ RemoveFails(p) \/ Delete(p) \/ DeleteFails(p) \/ Uncache(p)
                                \/ UncacheFails(p) \/ Kill(p) \/ Restart(p)
      PROVE  MarkersAreTrue'
  <2>1. PICK step \in {"idle", "tidy", "remove", "uncache", "dead"} : Go(p, step)
    BY <1>6 DEF CreateFails, WriteFails, ReplaceFails, Tidy, TidyFails, Compile, CompileFails,
                Remove, RemoveFails, Delete, DeleteFails, Uncache, UncacheFails, Kill, Restart,
                Leave
  <2>2. /\ \A q \in Process : q # p => proc'[q] = proc[q]
        /\ proc'[p].at = step
    BY <2>1, GoMoves DEF TypeOK, Step
  <2>3. /\ dir' = dir \/ dir' = [dir EXCEPT ![proc[p].name] = None]
        /\ temp' = temp \/ temp' = [temp EXCEPT ![p] = None]
        /\ UNCHANGED <<now, short>>
    BY <1>6 DEF CreateFails, WriteFails, ReplaceFails, Tidy, TidyFails, Compile, CompileFails,
                Remove, RemoveFails, Delete, DeleteFails, Uncache, UncacheFails, Kill, Restart,
                Leave
  <2>4. \A q \in Process : temp'[q] \in {temp[q], None}
    BY <2>3 DEF TypeOK
  <2>5. \A n \in Name : dir'[n] \in {dir[n], None}
    BY <2>3 DEF TypeOK
  <2> QED
    BY <2>1, <2>2, <2>3, <2>4, <2>5, NothingNew
<1>7. ASSUME NEW p \in Process, Create(p) \/ Write(p) \/ WriteShort(p)
      PROVE  MarkersAreTrue'
  <2>1. PICK amount \in Amount, marked \in BOOLEAN :
          /\ temp' = [temp EXCEPT ![p] = Stored(proc[p].text, amount, marked)]
          /\ marked \/ short' = TRUE \/ ~At(p, "write")
    BY <1>7 DEF Create, Write, WriteShort, Amount, At
  <2>2. PICK step \in {"write", "replace"} :
          Go(p, step) /\ (At(p, "write") <=> step = "replace")
    BY <1>7 DEF Create, Write, WriteShort, At
  <2>3. /\ At(p, "create") \/ At(p, "write")
        /\ UNCHANGED <<dir, now>> /\ (short => short' = TRUE)
    BY <1>7 DEF Create, Write, WriteShort, TypeOK
  <2>4. /\ proc[p].text \in Text
        /\ SourceTime[proc[p].text] <= now
    BY <2>3 DEF MarkersAreTrue, At, TypeOK, Job
  <2>5. /\ Honest(Stored(proc[p].text, amount, marked))
        /\ marked => Stored(proc[p].text, amount, marked).digest # None
    BY <2>4, StoredIsHonest
  <2>6. /\ \A q \in Process : q # p => proc'[q] = proc[q] /\ temp'[q] = temp[q]
        /\ proc'[p].at = step /\ proc'[p].text = proc[p].text
        /\ temp'[p] = Stored(proc[p].text, amount, marked)
    BY <2>1, <2>2, GoMoves DEF TypeOK, Step
  <2>7. \A n \in Name : dir'[n] # None => Honest(dir[n])'
    BY <2>3 DEF MarkersAreTrue, Honest
  <2>8. ASSUME NEW q \in Process
        PROVE  /\ temp'[q] # None => Honest(temp[q])'
               /\ proc'[q].at \in Underway =>
                    SourceTime[proc'[q].text] <= now'
               /\ At(q, "replace")' /\ temp'[q] # None /\ ~short' => temp'[q].digest # None
               /\ At(q, "read")' /\ dir'[proc'[q].name] # None /\ ~short' =>
                    \/ dir'[proc'[q].name].digest # None
                    \/ dir'[proc'[q].name].time >= SourceTime[proc'[q].text]
    <3>1. CASE q = p
      BY <3>1, <2>1, <2>2, <2>3, <2>4, <2>5, <2>6 DEF At, Honest
    <3>2. CASE q # p
      BY <3>2, <2>3, <2>6 DEF MarkersAreTrue, At, Honest
    <3> QED
      BY <3>1, <3>2
  <2> QED
    BY <2>7, <2>8 DEF MarkersAreTrue
<1>8. ASSUME NEW p \in Process, Replace(p)
      PROVE  MarkersAreTrue'
  <2>1. PICK step \in {"compile", "idle"} : Go(p, step)
    BY <1>8 DEF Replace
  <2>2. /\ \A q \in Process : q # p => proc'[q] = proc[q]
        /\ proc'[p].at = step
    BY <2>1, GoMoves DEF TypeOK, Step
  <2>3. /\ temp[p] # None
        /\ dir' = [dir EXCEPT ![proc[p].name] = temp[p]]
        /\ temp' = [temp EXCEPT ![p] = None]
        /\ UNCHANGED <<now, short>>
    BY <1>8 DEF Replace, IsFile
  <2>4. Honest(temp[p]) /\ (~short => temp[p].digest # None)
    BY <1>8, <2>3 DEF MarkersAreTrue, Replace
  <2>5. proc[p].name \in Name
    BY DEF TypeOK, Job
  <2>6. \A n \in Name : dir'[n] = dir[n] \/ dir'[n] = temp[p]
    BY <2>3, <2>5 DEF TypeOK
  <2>7. \A q \in Process : temp'[q] \in {temp[q], None}
    BY <2>3 DEF TypeOK
  <2>8. \A n \in Name : dir'[n] # None => Honest(dir[n])'
    BY <2>4, <2>6 DEF MarkersAreTrue, Honest
  <2>9. ASSUME NEW q \in Process
        PROVE  /\ temp'[q] # None => Honest(temp[q])'
               /\ proc'[q].at \in Underway =>
                    SourceTime[proc'[q].text] <= now'
               /\ At(q, "replace")' /\ temp'[q] # None /\ ~short' => temp'[q].digest # None
               /\ At(q, "read")' /\ dir'[proc'[q].name] # None /\ ~short' =>
                    \/ dir'[proc'[q].name].digest # None
                    \/ dir'[proc'[q].name].time >= SourceTime[proc'[q].text]
    <3>1. CASE q = p
      BY <3>1, <2>1, <2>2, <2>3 DEF At, TypeOK
    <3>2. CASE q # p
      <4>1. /\ proc'[q] = proc[q] /\ proc[q].name \in Name
            /\ dir'[proc[q].name] = dir[proc[q].name] \/ dir'[proc[q].name] = temp[p]
        BY <3>2, <2>2, <2>6 DEF TypeOK, Job
      <4> QED
        BY <4>1, <2>3, <2>4, <2>7 DEF MarkersAreTrue, At, Honest
    <3> QED
      BY <3>1, <3>2
  <2> QED
    BY <2>8, <2>9 DEF MarkersAreTrue
<1>9. CASE UNCHANGED vars
  BY <1>9 DEF vars, MarkersAreTrue, At, Honest
<1> QED
  BY <1>1, <1>2, <1>3, <1>4, <1>5, <1>6, <1>7, <1>8, <1>9 DEF Next

(* The one step that finds a module current is Read, and what it reads is worth *)
(* what the markers are.                                                        *)
LEMMA OnlyReadKeeps ==
  ASSUME TypeOK, [Next]_vars, NEW p \in Process, At(p, "read"), proc'[p].at = "idle"
  PROVE  Read(p)
<1>1. CASE UNCHANGED vars
  BY <1>1 DEF vars, At
<1>2. CASE Tick
  BY <1>2 DEF Tick, At
<1>3. ASSUME NEW q \in Process, NEW n \in Name, Prune(q, n)
      PROVE  FALSE
  BY <1>3 DEF Prune, At, TypeOK
<1>4. ASSUME NEW q \in Process, NEW n \in Name, NEW t \in Text, NEW rebuild \in BOOLEAN,
             Begin(q, n, t, rebuild)
      PROVE  FALSE
  BY <1>4 DEF Begin, At, TypeOK
<1>5. ASSUME NEW q \in Process, NEW f \in Stray, PruneStray(q, f)
      PROVE  FALSE
  BY <1>5 DEF PruneStray, At
<1>6. ASSUME NEW q \in Process, NEW step \in Step, Go(q, step), ~At(q, "read")
      PROVE  FALSE
  <2>1. q # p
    BY <1>6
  <2>2. proc'[p] = proc[p]
    BY <1>6, <2>1, GoMoves DEF TypeOK
  <2> QED
    BY <2>2 DEF At
<1>7. ASSUME NEW q \in Process, Stat(q) \/ AskPackage(q) \/ AskStubs(q) \/ Create(q) \/ CreateFails(q) \/ Write(q) \/ WriteShort(q)
                                \/ WriteFails(q) \/ Replace(q) \/ ReplaceFails(q)
                                \/ Tidy(q) \/ TidyFails(q)
      PROVE  FALSE
  BY <1>7, <1>6 DEF Stat, AskPackage, AskStubs, Create, CreateFails, Write, WriteShort, WriteFails,
                    Replace, ReplaceFails, Tidy, TidyFails, Step, At
<1>8. ASSUME NEW q \in Process, Compile(q) \/ CompileFails(q) \/ Remove(q) \/ RemoveFails(q)
                                \/ Delete(q) \/ DeleteFails(q) \/ Uncache(q) \/ UncacheFails(q)
                                \/ Restart(q)
      PROVE  FALSE
  BY <1>8, <1>6 DEF Compile, CompileFails, Remove, RemoveFails, Delete, DeleteFails, Uncache,
                    UncacheFails, Restart, Step, At
<1>9. ASSUME NEW q \in Process, Kill(q)
      PROVE  FALSE
  <2>1. Go(q, "dead")
    BY <1>9 DEF Kill
  <2>2. proc'[q].at = "dead" /\ \A r \in Process : r # q => proc'[r] = proc[r]
    BY <2>1, GoMoves DEF TypeOK, Step
  <2> QED
    BY <2>2 DEF At
<1>10. ASSUME NEW q \in Process, Read(q)
       PROVE  q = p
  <2>1. PICK step \in {"idle", "package"} : Go(q, step)
    BY <1>10 DEF Read
  <2>2. \A r \in Process : r # q => proc'[r] = proc[r]
    BY <2>1, GoMoves DEF TypeOK, Step
  <2> QED
    BY <2>2 DEF At
<1> QED
  BY <1>1, <1>2, <1>3, <1>4, <1>5, <1>7, <1>8, <1>9, <1>10 DEF Next

(* A module is found current by true markers: of the text on offer, or of no    *)
(* text and then no older than it, unless a write fell short.                   *)
THEOREM KeptAreCurrent == Spec => KeptIsCurrent
<1> DEFINE Keeps ==
      \A p \in Process :
        At(p, "read") /\ proc'[p].at = "idle" =>
          LET f == dir[proc[p].name] IN
          /\ f.digest = None \/ f.text = proc[p].text
          /\ ~short => f.time >= SourceTime[proc[p].text]
<1>1. IInv /\ MarkersAreTrue /\ [Next]_vars => Keeps
  <2> SUFFICES ASSUME IInv, MarkersAreTrue, [Next]_vars,
                      NEW p \in Process, At(p, "read"), proc'[p].at = "idle"
               PROVE  /\ dir[proc[p].name].digest = None \/ dir[proc[p].name].text = proc[p].text
                      /\ ~short => dir[proc[p].name].time >= SourceTime[proc[p].text]
    OBVIOUS
  <2>1. Read(p) /\ proc[p].name \in Name
    BY OnlyReadKeeps DEF IInv, TypeOK, Job
  <2>2. IsFile(dir[proc[p].name]) /\ MarkersAgree(dir[proc[p].name], Question(p))
    <3>1. ~Go(p, "package")
      BY GoMoves DEF IInv, TypeOK, Step
    <3> QED
      BY <2>1, <3>1 DEF Read
  <2>3. dir[proc[p].name].digest \in {None, proc[p].text}
    BY <2>2 DEF MarkersAgree, Question
  <2>4. Honest(dir[proc[p].name])
    BY <2>1, <2>2 DEF MarkersAreTrue, IsFile
  <2>5. dir[proc[p].name].digest # None =>
          /\ dir[proc[p].name].text = proc[p].text
          /\ dir[proc[p].name].time >= SourceTime[proc[p].text]
    BY <2>3, <2>4 DEF Honest
  <2> QED
    BY <2>2, <2>5 DEF MarkersAreTrue, IsFile
<1>2. Init => MarkersAreTrue
  BY MarkersBegin
<1>3. IInv /\ MarkersAreTrue /\ [Next]_vars => MarkersAreTrue'
  BY MarkersStayTrue
<1>4. IInv /\ MarkersAreTrue /\ [Next]_vars => [Keeps]_vars
  BY <1>1
<1> QED
  BY <1>2, <1>3, <1>4, Soundness, PTL DEF Spec, KeptIsCurrent
===============================================================================
