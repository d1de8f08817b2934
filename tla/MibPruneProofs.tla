---------------------------- MODULE MibPruneProofs ----------------------------
(* What prune() removes had no source, for any number of sources, files and    *)
(* modules, and with the directories changing at any moment.                   *)
EXTENDS MibPrune, TLAPS

LEMMA InitTyped == Init => TypeOK
<1> SUFFICES ASSUME Init PROVE TypeOK
  OBVIOUS
<1>1. tree \in [Source -> SUBSET File] /\ output \in [Slot -> Output]
  BY PruneAssumption DEF Init
<1>2. /\ listing \in [Source -> (SUBSET File) \cup {None}]
      /\ learned \in [Source -> [Slot -> File \cup {None}]]
      /\ report \in [Slot -> {"untouched", "pruned", "failed", None}]
  BY DEF Init
<1> QED
  BY <1>1, <1>2 DEF Init, TypeOK

LEMMA ListedTyped ==
  ASSUME TypeOK, NEW s \in Source
  PROVE  /\ Listed(s) \in SUBSET File
         /\ Remember(s) \in [Source -> (SUBSET File) \cup {None}]
<1>1. Listed(s) \in SUBSET File
  BY DEF TypeOK, Listed
<1> QED
  BY <1>1 DEF TypeOK, Remember

(* what list_mibs() and compile() make the readers remember *)
LEMMA AllListedTyped ==
  ASSUME TypeOK, listing' = [s \in Source |-> IF s \in Package THEN None ELSE Listed(s)]
  PROVE  listing' \in [Source -> (SUBSET File) \cup {None}]
<1>1. \A s \in Source : Listed(s) \in SUBSET File
  BY ListedTyped
<1> QED
  BY <1>1


LEMMA NextTyped == TypeOK /\ [Next]_vars => TypeOK'
<1> SUFFICES ASSUME TypeOK, [Next]_vars PROVE TypeOK'
  OBVIOUS
<1> USE DEF historyVars, readerVars, callVars
<1>1. ASSUME NEW s \in Source, NEW f \in File, FileComes(s, f) \/ FileGoes(s, f)
      PROVE  TypeOK'
  <2>1. tree' \in [Source -> SUBSET File]
    BY <1>1 DEF FileComes, FileGoes, Change, TypeOK
  <2>2. /\ UNCHANGED <<listing, learned, output, phase, todo, name, at, dry, ignore, report>>
        /\ edits' = edits + 1 /\ steady' \subseteq steady
        /\ seen' \subseteq seen \cup (Source \X File)
    BY <1>1 DEF FileComes, FileGoes, Change, Holdings
  <2> QED
    BY <2>1, <2>2 DEF TypeOK
<1>2. CASE ListMibs
  <2>1. learned' \in [Source -> [Slot -> File \cup {None}]]
    <3>1. ASSUME NEW s \in Source, NEW m \in Slot PROVE Learnt(s, m) \in File \cup {None}
      <4> DEFINE in == {f \in Listed(s) \cap tree[s] : m \in Declares[f]}
      <4>1. in \subseteq File
        BY ListedTyped
      <4>2. in # {} => (CHOOSE f \in in : TRUE) \in in
        OBVIOUS
      <4> QED
        BY <4>1, <4>2 DEF Learnt
    <3>2. learned' = [s \in Source |-> [m \in Slot |->
             IF s \in Package \/ learned[s][m] # None THEN learned[s][m] ELSE Learnt(s, m)]]
      BY <1>2 DEF ListMibs
    <3> QED
      BY <3>1, <3>2 DEF TypeOK
  <2>2. listing' \in [Source -> (SUBSET File) \cup {None}]
    BY <1>2, AllListedTyped DEF ListMibs
  <2> QED
    BY <1>2, <2>1, <2>2 DEF ListMibs, TypeOK
<1>3. ASSUME NEW m \in Module, Compile(m) PROVE TypeOK'
  <2>1. listing' \in [Source -> (SUBSET File) \cup {None}]
    BY <1>3, AllListedTyped DEF Compile
  <2>2. output' \in [Slot -> Output]
    BY <1>3 DEF Compile, TypeOK, Output
  <2> QED
    BY <1>3, <2>1, <2>2 DEF Compile, TypeOK
<1>4. CASE BuildIndex
  BY <1>4 DEF BuildIndex, TypeOK, Output, Slot
<1>5. ASSUME NEW d \in BOOLEAN, NEW i \in BOOLEAN, Prune(d, i) PROVE TypeOK'
  <2>1. listing' \in [Source -> (SUBSET File) \cup {None}]
    BY <1>5 DEF Prune, ClearCaches
  <2>2. todo' \subseteq Slot /\ Holdings(tree) \subseteq Source \X File
    BY <1>5 DEF Prune, ListData, Holdings
  <2>3. report' \in [Slot -> {"untouched", "pruned", "failed", None}]
    BY <1>5 DEF Prune
  <2> QED
    BY <1>5, <2>1, <2>2, <2>3 DEF Prune, TypeOK
<1>6. ASSUME NEW m \in Slot, Take(m) PROVE TypeOK'
  BY <1>6, PruneAssumption DEF Take, TypeOK, Source
<1>7. CASE Keep
  BY <1>7, ListedTyped DEF Keep, Say, Raise, TypeOK
<1>8. CASE AskNext
  <2>1. at \in Source
    BY <1>8 DEF AskNext, TypeOK
  <2>2. listing' \in [Source -> (SUBSET File) \cup {None}]
    BY <1>8, <2>1, ListedTyped DEF AskNext
  <2>3. at' \in Source \cup {0} /\ (phase' = "ask" => at' # 0)
    BY <1>8, <2>1, PruneAssumption DEF AskNext, Source
  <2> QED
    BY <1>8, <2>2, <2>3 DEF AskNext, TypeOK
<1>9. CASE Remove
  BY <1>9 DEF Remove, Say, TypeOK, Output
<1>10. CASE RemoveFails
  BY <1>10 DEF RemoveFails, Say, Raise, TypeOK
<1>11. CASE EndPrune
  BY <1>11 DEF EndPrune, TypeOK
<1>12. CASE UNCHANGED vars
  BY <1>12 DEF vars, TypeOK
<1> QED
  BY <1>1, <1>2, <1>3, <1>4, <1>5, <1>6, <1>7, <1>8, <1>9, <1>10, <1>11, <1>12
  DEF Next, Environment, Calls, Loop

(* The state of a MibCompiler and its readers keeps its types.                 *)
THEOREM PruneTypeCorrect == Spec => []TypeOK
BY InitTyped, NextTyped, PTL DEF Spec

-------------------------------------------------------------------------------
(* Why nothing with a source is removed.  What a source held ever since the    *)
(* call began is in its reader's listing, whenever that was made; so a source  *)
(* the loop has passed holds nothing the name leads to.                        *)

Answers(h, m) == m \in Spelled[h[2]] /\ learned[h[1]][m] \in {None, h[2]}

SteadyIsListed ==
  /\ steady \subseteq Holdings(tree)
  /\ phase # "ready" => \A h \in steady : h[2] \in Listed(h[1])

PassedHoldsNothing ==
  /\ phase = "ask" => \A h \in steady : h[1] < at => ~Answers(h, name)
  /\ phase = "remove" => \A h \in steady : ~Answers(h, name)

PruneInv == TypeOK /\ SteadyIsListed /\ PassedHoldsNothing

LEMMA PruneInit == Init => PruneInv
BY InitTyped DEF Init, PruneInv, SteadyIsListed, PassedHoldsNothing

LEMMA ListingKept ==
  ASSUME PruneInv, phase = "ask", listing' = Remember(at), UNCHANGED <<tree, steady>>
  PROVE  SteadyIsListed'
<1>1. \A s \in Source : Listed(s)' = Listed(s) \/ Listed(s)' = tree[s]
  BY DEF PruneInv, TypeOK, Listed, Remember
<1> QED
  BY <1>1 DEF PruneInv, SteadyIsListed, Holdings, TypeOK

LEMMA PruneNext == PruneInv /\ [Next]_vars => PruneInv'
<1> SUFFICES ASSUME PruneInv, [Next]_vars PROVE PruneInv'
  OBVIOUS
<1>t. TypeOK /\ TypeOK'
  BY NextTyped DEF PruneInv
<1> USE DEF historyVars, readerVars, callVars
<1>1. ASSUME NEW s \in Source, NEW f \in File, FileComes(s, f) \/ FileGoes(s, f)
      PROVE  PruneInv'
  <2>1. /\ steady' = steady \cap Holdings(tree')
        /\ UNCHANGED <<listing, learned, phase, name, at>>
    BY <1>1 DEF FileComes, FileGoes, Change
  <2>2. SteadyIsListed'
    BY <2>1, <1>t DEF PruneInv, SteadyIsListed, Holdings, Listed, TypeOK
  <2>3. PassedHoldsNothing'
    BY <2>1 DEF PruneInv, PassedHoldsNothing, Answers
  <2> QED
    BY <1>t, <2>2, <2>3 DEF PruneInv
<1>2. CASE ListMibs \/ BuildIndex \/ \E m \in Module : Compile(m)
  <2>1. phase' = "ready" /\ UNCHANGED <<steady, tree>>
    BY <1>2 DEF ListMibs, BuildIndex, Compile
  <2> QED
    BY <1>t, <2>1 DEF PruneInv, SteadyIsListed, PassedHoldsNothing
<1>3. ASSUME NEW d \in BOOLEAN, NEW i \in BOOLEAN, Prune(d, i) PROVE PruneInv'
  <2>1. steady' = Holdings(tree) /\ tree' = tree /\ phase' = "next"
        /\ \A s \in Source : Listed(s)' = tree[s]
    BY <1>3 DEF Prune, ClearCaches, Listed
  <2> QED
    BY <1>t, <2>1 DEF PruneInv, SteadyIsListed, PassedHoldsNothing, Holdings
<1>4. ASSUME NEW m \in Slot, Take(m) PROVE PruneInv'
  <2>1. SteadyIsListed'
    BY <1>4 DEF Take, PruneInv, SteadyIsListed, Listed
  <2>2. \A h \in steady : h[1] \in Source
    BY <1>t DEF TypeOK
  <2>3. PassedHoldsNothing'
    BY <1>4, <2>2, PruneAssumption DEF Take, PassedHoldsNothing, Source
  <2> QED
    BY <1>t, <2>1, <2>3 DEF PruneInv
<1>5. CASE Keep
  <2>1. SteadyIsListed'
    BY <1>5, ListingKept DEF Keep
  <2>2. phase' \in {"next", "ready"}
    BY <1>5 DEF Keep, Say, Raise
  <2> QED
    BY <1>t, <2>1, <2>2 DEF PruneInv, PassedHoldsNothing
<1>6. CASE AskNext
  <2>1. SteadyIsListed'
    BY <1>6, ListingKept DEF AskNext
  <2>2. at \in Source /\ name \in Slot /\ UNCHANGED <<steady, learned, name>>
    BY <1>6, <1>t DEF AskNext, TypeOK
  <2>3. ASSUME NEW h \in steady, h[1] = at PROVE ~Answers(h, name)
    <3>1. h[2] \in Listed(at) /\ h[2] \notin LeadsTo(at, name) /\ h[2] \in File
      BY <1>6, <1>t, <2>3 DEF AskNext, PruneInv, SteadyIsListed, TypeOK
    <3>2. Spelled[h[2]] \subseteq Module
      BY <3>1, PruneAssumption
    <3> QED
      BY <2>3, <3>1, <3>2 DEF LeadsTo, Answers
  <2>4. \A h \in steady : h[1] <= at => ~Answers(h, name)
    BY <1>6, <1>t, <2>2, <2>3, PruneAssumption
    DEF AskNext, PruneInv, PassedHoldsNothing, TypeOK, Source
  <2>5. PassedHoldsNothing'
    BY <1>6, <1>t, <2>2, <2>4, PruneAssumption
    DEF AskNext, PassedHoldsNothing, Answers, TypeOK, Source
  <2> QED
    BY <1>t, <2>1, <2>5 DEF PruneInv
<1>7. CASE Remove \/ RemoveFails \/ EndPrune
  <2>1. phase' \in {"next", "ready"} /\ UNCHANGED <<steady, tree, listing>>
    BY <1>7 DEF Remove, RemoveFails, EndPrune, Say, Raise
  <2>2. phase # "ready"
    BY <1>7 DEF Remove, RemoveFails, EndPrune
  <2> QED
    BY <1>t, <2>1, <2>2 DEF PruneInv, SteadyIsListed, PassedHoldsNothing, Listed
<1>8. CASE UNCHANGED vars
  BY <1>8, <1>t DEF vars, PruneInv, SteadyIsListed, PassedHoldsNothing, Listed, Answers
<1> QED
  BY <1>1, <1>2, <1>3, <1>4, <1>5, <1>6, <1>7, <1>8 DEF Next, Environment, Calls, Loop

(* prune() removes nothing that one source held, under its name, from the      *)
(* beginning of the call on.                                                   *)
THEOREM PruneIsSafe == Spec => RemovesOnlyTheSourceless
<1> DEFINE Safely == phase # "ready" =>
             \A m \in Slot : output[m] = "ours" /\ output'[m] = None =>
               \A h \in steady :
                 m \notin Spelled[h[2]] \/ learned[h[1]][m] \notin {None, h[2]}
<1>1. PruneInv /\ [Next]_vars => [Safely]_vars
  <2> SUFFICES ASSUME PruneInv, Next PROVE Safely
    BY DEF vars
  <2> USE DEF historyVars, readerVars, callVars
  <2>1. CASE Remove
    <3>1. \A m \in Slot : output'[m] # output[m] => m = name
      BY <2>1 DEF Remove, PruneInv, TypeOK
    <3>2. \A h \in steady : ~Answers(h, name)
      BY <2>1 DEF Remove, PruneInv, PassedHoldsNothing
    <3>3. None # "ours"
      BY PruneAssumption
    <3> QED
      BY <3>1, <3>2, <3>3 DEF Answers
  <2>2. CASE phase = "ready" \/ UNCHANGED output
    BY <2>2, PruneAssumption
  <2> QED
    BY <2>1, <2>2 DEF Next, Environment, Calls, Loop, FileComes, FileGoes, Change,
       ListMibs, Compile, BuildIndex, Prune, Take, Keep, AskNext, RemoveFails, EndPrune
<1> QED
  BY <1>1, PruneInit, PruneNext, PTL DEF Spec, RemovesOnlyTheSourceless

-------------------------------------------------------------------------------
(* Why prune() leaves alone what this package did not write: the names it still *)
(* has to visit, and the one it is at, were listed with the marker, and nothing *)
(* but its own Remove touches the directory while it runs.                      *)
OursToVisit ==
  phase # "ready" =>
    /\ \A m \in todo : output[m] = "ours"
    /\ phase # "next" => name \notin todo /\ output[name] = "ours"

LEMMA VisitInit == Init => OursToVisit
BY DEF Init, OursToVisit

LEMMA VisitNext == TypeOK /\ OursToVisit /\ [Next]_vars => OursToVisit'
<1> SUFFICES ASSUME TypeOK, OursToVisit, [Next]_vars PROVE OursToVisit'
  OBVIOUS
<1> USE DEF historyVars, readerVars, callVars
<1>0. None \notin Slot /\ name \in Slot \cup {None} /\ todo \subseteq Slot
  BY PruneAssumption DEF TypeOK
<1>1. CASE Environment
  BY <1>1 DEF Environment, FileComes, FileGoes, Change, OursToVisit
<1>2. CASE ListMibs \/ BuildIndex \/ \E m \in Module : Compile(m)
  BY <1>2 DEF ListMibs, BuildIndex, Compile, OursToVisit
<1>3. ASSUME NEW d \in BOOLEAN, NEW i \in BOOLEAN, Prune(d, i) PROVE OursToVisit'
  <2>1. todo' = {m \in Slot : output[m] = "ours"} /\ output' = output /\ phase' = "next"
        /\ name' = name
    BY <1>3 DEF Prune, ListData
  <2> QED
    BY <2>1 DEF OursToVisit
<1>4. ASSUME NEW m \in Slot, Take(m) PROVE OursToVisit'
  <2>1. phase = "next" /\ m \in todo /\ todo' = todo \ {m} /\ name' = m /\ output' = output
    BY <1>4 DEF Take
  <2> QED
    BY <2>1 DEF OursToVisit
<1>5. CASE Keep
  BY <1>0, <1>5 DEF Keep, Say, Raise, OursToVisit, TypeOK
<1>6. CASE AskNext
  BY <1>6 DEF AskNext, OursToVisit
<1>7. CASE Remove
  <2>1. /\ todo' = todo /\ phase = "remove" /\ phase' = "next" /\ name' = None
        /\ \A m \in Slot : m # name => output'[m] = output[m]
    BY <1>7 DEF Remove, Say, TypeOK
  <2>2. name \notin todo /\ \A m \in todo : output[m] = "ours" /\ m \in Slot
    BY <2>1 DEF OursToVisit, TypeOK
  <2> QED
    BY <1>0, <2>1, <2>2 DEF OursToVisit
<1>8. CASE RemoveFails \/ EndPrune
  BY <1>0, <1>8 DEF RemoveFails, EndPrune, Say, Raise, OursToVisit, TypeOK
<1>9. CASE UNCHANGED vars
  BY <1>9 DEF vars, OursToVisit
<1> QED
  BY <1>1, <1>2, <1>3, <1>4, <1>5, <1>6, <1>7, <1>8, <1>9 DEF Next, Calls, Loop

(* A file of the output directory that this package did not generate outlives   *)
(* every prune(), whatever sources it has or has not.                           *)
THEOREM OthersAreLeftAlone == Spec => LeavesOthersAlone
<1> DEFINE Spared == phase # "ready" =>
             \A m \in Slot : output[m] = "theirs" => output'[m] = "theirs"
<1>1. TypeOK /\ OursToVisit /\ [Next]_vars => [Spared]_vars
  <2> SUFFICES ASSUME TypeOK, OursToVisit, Next PROVE Spared
    BY DEF vars
  <2> USE DEF historyVars, readerVars, callVars
  <2>1. CASE Remove
    <3>1. \A m \in Slot : m # name => output'[m] = output[m]
      BY <2>1 DEF Remove, TypeOK
    <3>2. output[name] = "ours"
      BY <2>1 DEF Remove, OursToVisit
    <3> QED
      BY <3>1, <3>2
  <2>2. CASE phase = "ready" \/ UNCHANGED output
    BY <2>2
  <2> QED
    BY <2>1, <2>2 DEF Next, Environment, Calls, Loop, FileComes, FileGoes, Change,
       ListMibs, Compile, BuildIndex, Prune, Take, Keep, AskNext, RemoveFails, EndPrune
<1> QED
  BY <1>1, InitTyped, NextTyped, VisitInit, VisitNext, PTL DEF Spec, LeavesOthersAlone

-------------------------------------------------------------------------------
(* Why what is kept had a source.  What a reader remembers of a directory while *)
(* prune() runs was there at some time since the call began, so a file that can *)
(* no longer be opened was there too; and an entry of the index never changes.  *)

Sourced(m) == \E h \in seen : m \in Spelled[h[2]] \/ learned[h[1]][m] = h[2]

ListedIsSeen ==
  phase # "ready" => \A s \in Source, f \in File : f \in Listed(s) \cup tree[s] => <<s, f>> \in seen

KeptHadSource == \A m \in Slot : report[m] = "untouched" => Sourced(m)

KeepInv == TypeOK /\ ListedIsSeen /\ KeptHadSource

LEMMA KeepInit == Init => KeepInv
<1> SUFFICES ASSUME Init PROVE KeepInv
  OBVIOUS
<1>1. \A m \in Slot : report[m] = None
  BY DEF Init
<1> QED
  BY <1>1, InitTyped, PruneAssumption DEF Init, KeepInv, ListedIsSeen, KeptHadSource

(* Nothing already reported loses its source. *)
LEMMA SourcedStays ==
  ASSUME TypeOK, seen \subseteq seen',
         \A s \in Source, m \in Slot : learned[s][m] # None => learned'[s][m] = learned[s][m],
         NEW m \in Slot, Sourced(m)
  PROVE  Sourced(m)'
<1>1. PICK h \in seen : m \in Spelled[h[2]] \/ learned[h[1]][m] = h[2]
  BY DEF Sourced
<1>2. h[1] \in Source /\ h[2] \in File
  BY DEF TypeOK
<1>3. h[2] # None
  BY <1>2, PruneAssumption
<1>4. m \in Spelled[h[2]] \/ learned'[h[1]][m] = h[2]
  BY <1>1, <1>2, <1>3
<1> QED
  BY <1>1, <1>4 DEF Sourced

LEMMA LeadsToSource ==
  ASSUME TypeOK, ListedIsSeen, phase = "ask", LeadsTo(at, name) # {}
  PROVE  Sourced(name)
<1>1. at \in Source /\ name \in Slot
  BY DEF TypeOK
<1>2. PICK f \in LeadsTo(at, name) : TRUE
  OBVIOUS
<1>3. f \in Listed(at) /\ f \in File
  BY <1>1, <1>2, ListedTyped DEF LeadsTo
<1>4. name \in Spelled[f] \/ learned[at][name] = f
  BY <1>2 DEF LeadsTo
<1>5. <<at, f>> \in seen
  BY <1>1, <1>3 DEF ListedIsSeen
<1> QED
  BY <1>4, <1>5 DEF Sourced

LEMMA KeepNext == KeepInv /\ [Next]_vars => KeepInv'
<1> SUFFICES ASSUME KeepInv, [Next]_vars PROVE KeepInv'
  OBVIOUS
<1>t. TypeOK /\ TypeOK'
  BY NextTyped DEF KeepInv
<1> USE DEF historyVars, readerVars, callVars
<1>a. ASSUME UNCHANGED <<report, learned>>, seen \subseteq seen' PROVE KeptHadSource'
  BY <1>a, <1>t, SourcedStays DEF KeepInv, KeptHadSource
<1>b. ASSUME UNCHANGED seen, UNCHANGED learned, phase = "ask",
             LeadsTo(at, name) # {} \/ report' = report,
             \A m \in Slot : m # name => report'[m] = report[m]
      PROVE  KeptHadSource'
  <2>1. \A m \in Slot : Sourced(m) => Sourced(m)'
    BY <1>b DEF Sourced
  <2>2. LeadsTo(at, name) # {} => Sourced(name)
    BY <1>b, <1>t, LeadsToSource DEF KeepInv
  <2> QED
    BY <1>b, <2>1, <2>2 DEF KeepInv, KeptHadSource
<1>c. ASSUME phase = "ask", listing' = Remember(at), UNCHANGED <<tree, seen>>
      PROVE  ListedIsSeen'
  <2>1. \A s \in Source : Listed(s)' = Listed(s) \/ Listed(s)' = tree[s]
    BY <1>c, <1>t DEF TypeOK, Listed, Remember
  <2> QED
    BY <1>c, <2>1 DEF KeepInv, ListedIsSeen
<1>1. ASSUME NEW s \in Source, NEW f \in File, FileComes(s, f) \/ FileGoes(s, f)
      PROVE  KeepInv'
  <2>1. /\ seen' = seen \cup Holdings(tree')
        /\ UNCHANGED <<listing, learned, phase, report>>
    BY <1>1 DEF FileComes, FileGoes, Change
  <2>2. ListedIsSeen'
    BY <2>1, <1>t DEF KeepInv, ListedIsSeen, Holdings, Listed
  <2>3. KeptHadSource'
    BY <1>a, <2>1
  <2> QED
    BY <1>t, <2>2, <2>3 DEF KeepInv
<1>2. CASE ListMibs
  <2>1. phase' = "ready" /\ UNCHANGED <<seen, report>>
    BY <1>2 DEF ListMibs
  <2>2. \A s \in Source, m \in Slot : learned[s][m] # None => learned'[s][m] = learned[s][m]
    BY <1>2 DEF ListMibs
  <2>3. KeptHadSource'
    BY <1>t, <2>1, <2>2, SourcedStays DEF KeepInv, KeptHadSource
  <2> QED
    BY <1>t, <2>1, <2>3 DEF KeepInv, ListedIsSeen
<1>3. CASE BuildIndex \/ \E m \in Module : Compile(m)
  <2>1. phase' = "ready" /\ UNCHANGED <<seen, learned, report>>
    BY <1>3 DEF BuildIndex, Compile
  <2> QED
    BY <1>a, <1>t, <2>1 DEF KeepInv, ListedIsSeen
<1>4. ASSUME NEW d \in BOOLEAN, NEW i \in BOOLEAN, Prune(d, i) PROVE KeepInv'
  <2>1. /\ seen' = Holdings(tree) /\ tree' = tree
        /\ \A s \in Source : Listed(s)' = tree[s]
        /\ report' = [m \in Slot |-> None]
    BY <1>4 DEF Prune, ClearCaches, Listed
  <2>2. ListedIsSeen'
    BY <1>t, <2>1 DEF ListedIsSeen, Holdings
  <2>3. KeptHadSource'
    BY <2>1, PruneAssumption DEF KeptHadSource
  <2> QED
    BY <1>t, <2>2, <2>3 DEF KeepInv
<1>5. CASE (\E m \in Slot : Take(m)) \/ EndPrune
  <2>1. UNCHANGED <<tree, listing, seen, learned, report>> /\ phase # "ready"
    BY <1>5 DEF Take, EndPrune
  <2>2. ListedIsSeen'
    BY <2>1 DEF KeepInv, ListedIsSeen, Listed
  <2> QED
    BY <1>a, <1>t, <2>1, <2>2 DEF KeepInv
<1>6. CASE Keep
  <2>1. /\ UNCHANGED <<seen, learned, tree>> /\ phase = "ask" /\ listing' = Remember(at)
        /\ LeadsTo(at, name) # {}
        /\ \A m \in Slot : m # name => report'[m] = report[m]
    BY <1>6, <1>t DEF Keep, Say, Raise, Finds, Fails, TypeOK
  <2> QED
    BY <1>b, <1>c, <1>t, <2>1 DEF KeepInv
<1>7. CASE AskNext
  BY <1>a, <1>c, <1>t, <1>7 DEF AskNext, KeepInv
<1>8. CASE Remove \/ RemoveFails
  <2>1. UNCHANGED <<tree, listing, seen, learned>> /\ phase # "ready"
        /\ \A m \in Slot : report'[m] \in {report[m], "pruned", "failed"}
    BY <1>8, <1>t DEF Remove, RemoveFails, Say, Raise, TypeOK
  <2>2. ListedIsSeen'
    BY <2>1 DEF KeepInv, ListedIsSeen, Listed
  <2>3. \A m \in Slot : Sourced(m) => Sourced(m)'
    BY <2>1 DEF Sourced
  <2>4. KeptHadSource'
    BY <2>1, <2>3 DEF KeepInv, KeptHadSource
  <2> QED
    BY <1>t, <2>2, <2>4 DEF KeepInv
<1>9. CASE UNCHANGED vars
  <2>1. UNCHANGED <<tree, listing, phase, seen, learned, report>>
    BY <1>9 DEF vars
  <2>2. ListedIsSeen'
    BY <2>1 DEF KeepInv, ListedIsSeen, Listed
  <2> QED
    BY <1>a, <1>t, <2>1, <2>2 DEF KeepInv
<1> QED
  BY <1>1, <1>2, <1>3, <1>4, <1>5, <1>6, <1>7, <1>8, <1>9 DEF Next, Environment, Calls, Loop

(* What prune() reports as still having a source was led to, in some source, by *)
(* a file that source held at some time since the call began.                   *)
THEOREM KeptIsSourced == Spec => []KeepsOnlyTheSourced
<1>1. KeepInv => KeepsOnlyTheSourced
  BY DEF KeepInv, KeptHadSource, Sourced, KeepsOnlyTheSourced
<1> QED
  BY <1>1, KeepInit, KeepNext, PTL DEF Spec

===============================================================================
