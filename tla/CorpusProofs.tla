------------------------------ MODULE CorpusProofs ------------------------------
(* What a build of a corpus may publish, for any modules, namespaces, settings   *)
(* and number of builds.                                                         *)
EXTENDS Corpus, TLAPS

(* What was compiled in a call was not stubbed. *)
LEMMA CompiledIsNoStub ==
  ASSUME NEW tree, NEW wanted, NEW m \in DOMAIN Outcome(tree, wanted),
         Outcome(tree, wanted)[m] = "compiled"
  PROVE  m \notin Stubs(tree)
<1> DEFINE reached == Reached(wanted)
           bad == {n \in reached : ~Parses(n)}
           built == {n \in reached \ bad : ~Fresh(tree, n)}
<1>1. Outcome(tree, wanted) =
        [n \in reached |->
           IF n \notin Sources THEN "missing"
           ELSE IF n \in bad THEN "failed"
           ELSE IF n \notin built THEN "untouched"
           ELSE IF n \in Tainted(bad, built) THEN "unprocessed" ELSE "compiled"]
  BY DEF Outcome
<1>2. m \in built
  BY <1>1
<1> QED
  BY <1>2 DEF Fresh

LEMMA StubsCoverTheRest ==
  ASSUME NEW tree
  PROVE  ResolveOnly \subseteq Stubs(tree)
  BY DEF Stubs

(* A published namespace's module that the selection, if there is one, picked   *)
(* is not only resolved against.                                                *)
LEMMA WantedIsNotTheRest ==
  ASSUME NEW m, m \in HeldBy(asked.publish), Picked => m \in asked.select
  PROVE  m \notin ResolveOnly
  BY DEF ResolveOnly

-------------------------------------------------------------------------------
(* Once it is decided what to publish, a build with a selection publishes none  *)
(* but the selected; and nothing written, staged or listed is one of the rest.  *)
Decided ==
  phase \in {"stage", "standard", "project", "report"} /\ Picked =>
    published # None /\ published \subseteq asked.select

Started == phase # "idle" => runs > 0

RestUnwritten == runs > 0 => (wrote \cup staged \cup standard) \cap ResolveOnly = {}

Selects == Picked => asked.select \in SUBSET Module

IInv == Decided /\ Started /\ Selects /\ RestUnwritten /\ runs \in Nat

(* What is chosen of the published namespaces is not of the rest. *)
LEMMA ChosenIsNotTheRest ==
  ASSUME Decided, phase \in {"stage", "standard"},
         NEW spaces, spaces \subseteq asked.publish
  PROVE  Chosen(HeldBy(spaces)) \cap ResolveOnly = {}
<1> SUFFICES ASSUME NEW m \in Chosen(HeldBy(spaces)) PROVE m \notin ResolveOnly
  OBVIOUS
<1>1. m \in HeldBy(asked.publish)
  BY DEF Chosen, HeldBy
<1>2. Picked => m \in asked.select
  BY DEF Decided, Chosen
<1> QED
  BY <1>1, <1>2, WantedIsNotTheRest

LEMMA InitIsSound == Init => IInv
  BY DEF Init, IInv, Decided, Started, Selects, Picked, NoSetting, RestUnwritten

LEMMA RestIsFixed ==
  ASSUME UNCHANGED <<asked, sets>>
  PROVE  ResolveOnly' = ResolveOnly
  BY DEF ResolveOnly, HeldBy, Picked

LEMMA StepIsSound == IInv /\ [Next]_vars => IInv'
<1> SUFFICES ASSUME IInv, [Next]_vars
             PROVE  IInv'
  OBVIOUS
<1>1. CASE Start
  <2>1. wrote' = {} /\ staged' = {} /\ standard' = {} /\ phase' \in {"raised", "compile"}
    BY <1>1 DEF Start
  <2>2. runs' \in Nat /\ runs' > 0
    BY <1>1 DEF Start, IInv
  <2>3. Selects'
    BY <1>1, CorpusAssumption DEF Start, Selects, Picked, Setting
  <2> QED
    BY <2>1, <2>2, <2>3 DEF IInv, Decided, Started, RestUnwritten
<1>2. CASE Compile
  <2>1. /\ UNCHANGED <<asked, sets, runs, staged, standard>>
        /\ phase = "compile" /\ phase' = "compile"
    BY <1>2 DEF Compile
  <2>2. PICK tree, wanted :
          wrote' = wrote \cup {m \in DOMAIN Outcome(tree, wanted) : Outcome(tree, wanted)[m] = "compiled"}
    <3>1. PICK call \in left :
            LET outcome == Outcome(call[1], Wanted(call[2]) \ DOMAIN processed[call[1]]) IN
            wrote' = wrote \cup {m \in DOMAIN outcome : outcome[m] = "compiled"}
      BY <1>2 DEF Compile
    <3> QED
      BY <3>1
  <2>3. \A m \in wrote' : m \in wrote \/ m \notin ResolveOnly
    BY <2>2, CompiledIsNoStub, StubsCoverTheRest
  <2>4. RestUnwritten'
    BY <2>1, <2>3, RestIsFixed DEF IInv, Started, RestUnwritten
  <2> QED
    BY <2>1, <2>4 DEF IInv, Decided, Started, Selects, Picked
<1>3. CASE Publish
  <2>1. UNCHANGED <<asked, sets, runs, wrote, staged, standard>> /\ phase = "compile"
    BY <1>3 DEF Publish
  <2>2. Decided'
    <3> SUFFICES ASSUME Picked' PROVE published' # None /\ published' \subseteq asked.select
      BY <2>1 DEF Decided
    <3> DEFINE held == {m \in DOMAIN processed["json"] : processed["json"][m] \in PublishedStatuses}
    <3>1. Picked /\ asked.select # None /\ asked.select \in SUBSET Module
      BY <2>1 DEF Picked, IInv, Selects
    <3>2. published' = (held \cap asked.select) \/ published' = asked.select
      BY <1>3, <3>1 DEF Publish
    <3>3. published' \in SUBSET Module /\ published' \subseteq asked.select
      BY <3>1, <3>2
    <3> QED
      BY <3>3, CorpusAssumption
  <2>3. RestUnwritten'
    BY <2>1, RestIsFixed DEF IInv, RestUnwritten
  <2> QED
    BY <1>3, <2>1, <2>2, <2>3 DEF IInv, Started, Selects, Picked
<1>4. CASE Stage
  <2>1. /\ UNCHANGED <<asked, sets, runs, wrote, standard, published>>
        /\ phase = "stage" /\ phase' = "standard"
        /\ staged' \subseteq Chosen(HeldBy(asked.publish))
    BY <1>4 DEF Stage, Staging
  <2>2. staged' \cap ResolveOnly = {}
    BY <2>1, ChosenIsNotTheRest DEF IInv
  <2>3. RestUnwritten'
    BY <2>1, <2>2, RestIsFixed DEF IInv, Started, RestUnwritten
  <2> QED
    BY <2>1, <2>3 DEF IInv, Decided, Started, Selects, Picked
<1>5. CASE WriteStandard
  <2>1. /\ UNCHANGED <<asked, sets, runs, wrote, staged, published>>
        /\ phase = "standard" /\ phase' = "project"
        /\ standard' \subseteq Chosen(HeldBy(asked.publish \cap Standard))
    BY <1>5 DEF WriteStandard
  <2>2. standard' \cap ResolveOnly = {}
    BY <2>1, ChosenIsNotTheRest DEF IInv
  <2>3. RestUnwritten'
    BY <2>1, <2>2, RestIsFixed DEF IInv, Started, RestUnwritten
  <2> QED
    BY <2>1, <2>3 DEF IInv, Decided, Started, Selects, Picked
<1>6. CASE Project \/ Raise \/ Finish \/ (\E m \in Module : Vanish(m)) \/ UNCHANGED vars
  <2>1. UNCHANGED <<asked, sets, runs, wrote, staged, standard, published>>
    BY <1>6 DEF Project, Raise, Finish, Vanish, vars
  <2>2. /\ phase' # "idle" => phase # "idle"
        /\ phase' \in {"stage", "standard", "project", "report"} =>
             phase \in {"stage", "standard", "project", "report"}
    BY <1>6 DEF Project, Raise, Finish, Vanish, vars
  <2> QED
    BY <2>1, <2>2, RestIsFixed DEF IInv, Decided, Started, Selects, RestUnwritten, Picked
<1> QED
  BY <1>1, <1>2, <1>3, <1>4, <1>5, <1>6 DEF Next

(* However a build ends, it leaves no scratch tree. *)
THEOREM NoScratchLeft == Spec => []ScratchGone
<1>1. Init => ScratchGone
  BY DEF Init, ScratchGone
<1>2. ScratchGone /\ [Next]_vars => ScratchGone'
  BY DEF ScratchGone, Next, vars, Start, Compile, Publish, Stage, WriteStandard, Project, Raise,
         Finish, Vanish
<1> QED
  BY <1>1, <1>2, PTL DEF Spec

-------------------------------------------------------------------------------
(* Types. *)

LEMMA CorpusInitTyped == Init => TypeOK
<1> SUFFICES ASSUME Init PROVE TypeOK
  OBVIOUS
<1>1. NoSetting \in Setting
  BY DEF NoSetting, Setting
<1>2. DOMAIN Nothing = {}
  BY DEF Nothing
<1>3. DOMAIN scratch = {}
  BY DEF Init, Nothing
<1> QED
  BY <1>1, <1>2, <1>3 DEF Init, TypeOK

(* The least set: what it holds, that it is closed, and that it is least. *)
LEMMA ReachedIsLeast ==
  ASSUME NEW wanted \in SUBSET Module
  PROVE  /\ Reached(wanted) \subseteq Module /\ wanted \subseteq Reached(wanted)
         /\ \A m \in Reached(wanted) : Parses(m) => Imports[m] \subseteq Reached(wanted)
         /\ \A T \in SUBSET Module :
              wanted \subseteq T /\ (\A m \in T : Parses(m) => Imports[m] \subseteq T)
                => Reached(wanted) \subseteq T
<1> DEFINE step(m) == IF Parses(m) THEN Imports[m] ELSE {}
           Closed(T) == wanted \subseteq T /\ \A n \in T : step(n) \subseteq T
<1>1. Reached(wanted) = {m \in Module : \A T \in SUBSET Module : Closed(T) => m \in T}
  BY DEF Reached, Grown
<1>2. \A m \in Module : step(m) \subseteq Module
  BY CorpusAssumption
<1>3. \A T : Closed(T) <=> (wanted \subseteq T /\ \A m \in T : Parses(m) => Imports[m] \subseteq T)
  OBVIOUS
<1> HIDE DEF step
<1>4. \A m \in Reached(wanted) : step(m) \subseteq Reached(wanted)
  BY <1>1, <1>2
<1> USE DEF step
<1>5. \A m \in Reached(wanted) : Parses(m) => Imports[m] \subseteq Reached(wanted)
  BY <1>4
<1> HIDE DEF step, Closed
<1>6. wanted \subseteq Reached(wanted) /\ Reached(wanted) \subseteq Module
  BY <1>1 DEF Closed
<1>7. \A T \in SUBSET Module : Closed(T) => Reached(wanted) \subseteq T
  BY <1>1
<1> QED
  BY <1>3, <1>5, <1>6, <1>7

LEMMA TaintedIsLeast ==
  ASSUME NEW bad \in SUBSET Module, NEW built \in SUBSET Module
  PROVE  /\ bad \subseteq Tainted(bad, built)
         /\ \A n \in built : \A m \in Imports[n] \cap Tainted(bad, built) : n \in Tainted(bad, built)
         /\ \A T \in SUBSET Module :
              bad \subseteq T /\ (\A n \in built : \A m \in Imports[n] \cap T : n \in T)
                => Tainted(bad, built) \subseteq T
<1> DEFINE step(m) == {n \in built : m \in Imports[n]}
           Closed(T) == bad \subseteq T /\ \A m \in T : step(m) \subseteq T
<1>1. Tainted(bad, built) = {m \in Module : \A T \in SUBSET Module : Closed(T) => m \in T}
  BY DEF Tainted, Grown
<1>2. \A T : Closed(T) <=> (bad \subseteq T /\ \A n \in built : \A m \in Imports[n] \cap T : n \in T)
  OBVIOUS
<1> HIDE DEF Closed
<1>3. bad \subseteq Tainted(bad, built)
  BY <1>1, <1>2
<1>4. ASSUME NEW n \in built, NEW m \in Imports[n] \cap Tainted(bad, built)
      PROVE  n \in Tainted(bad, built)
  BY <1>1, <1>2
<1>5. \A T \in SUBSET Module : Closed(T) => Tainted(bad, built) \subseteq T
  BY <1>1
<1> QED
  BY <1>2, <1>3, <1>4, <1>5

-------------------------------------------------------------------------------
(* What a rebuild of the documents makes of a module depends on the sources and *)
(* the settings only, and on no call: the module is doomed when it cannot be    *)
(* parsed, and when it is built and imports one that is doomed.                 *)

Dooms(T) ==
  /\ \A n \in Module : ~Parses(n) => n \in T
  /\ \A n \in Module \ Stubs("json") : Imports[n] \cap T # {} => n \in T

Doomed == {m \in Module : \A T \in SUBSET Module : Dooms(T) => m \in T}

Verdict(m) ==
  IF m \notin Sources THEN "missing"
  ELSE IF m \in asked.broken THEN "failed"
  ELSE IF m \in Stubs("json") THEN "untouched"
  ELSE IF m \in Doomed THEN "unprocessed" ELSE "compiled"

Documents == {"json", "json_texts"}

LEMMA DoomedDooms == Dooms(Doomed)
<1>1. \A n \in Module : ~Parses(n) => n \in Doomed
  BY DEF Doomed, Dooms
<1>2. ASSUME NEW n \in Module \ Stubs("json"), NEW i \in Imports[n] \cap Doomed
      PROVE  n \in Doomed
  <2>1. \A T \in SUBSET Module : Dooms(T) => i \in T
    BY DEF Doomed
  <2> QED
    BY <2>1 DEF Doomed, Dooms
<1> QED
  BY <1>1, <1>2 DEF Dooms

LEMMA DocumentStubs ==
  ASSUME NEW t \in Documents
  PROVE  Stubs(t) = Stubs("json") /\ Format[t] = "json" /\ t \in Tree
  BY DEF Documents, Stubs, Format, Tree

(* A call that rebuilds gives every module it reaches its verdict. *)
LEMMA OutcomeIsVerdict ==
  ASSUME asked.rebuild, NEW t \in Documents, NEW wanted \in SUBSET Module,
         NEW m \in DOMAIN Outcome(t, wanted)
  PROVE  Outcome(t, wanted)[m] = Verdict(m)
<1> DEFINE reached == Reached(wanted)
           bad == {n \in reached : ~Parses(n)}
           built == {n \in reached \ bad : ~Fresh(t, n)}
<1>1. Outcome(t, wanted) =
        [n \in reached |->
           IF n \notin Sources THEN "missing"
           ELSE IF n \in bad THEN "failed"
           ELSE IF n \notin built THEN "untouched"
           ELSE IF n \in Tainted(bad, built) THEN "unprocessed" ELSE "compiled"]
  BY DEF Outcome
<1>2. /\ reached \subseteq Module /\ bad \in SUBSET Module /\ built \in SUBSET Module
      /\ \A n \in reached : Parses(n) => Imports[n] \subseteq reached
  BY ReachedIsLeast
<1>3. \A n \in reached : n \in built <=> (Parses(n) /\ n \notin Stubs("json"))
  BY DocumentStubs DEF Fresh
<1>4. m \in reached
  BY <1>1
<1> HIDE DEF reached
<1>5. \A n \in reached : n \in bad <=> ~Parses(n)
  OBVIOUS
<1> HIDE DEF bad, built
<1>6. Tainted(bad, built) \subseteq Doomed
  <2>1. Doomed \in SUBSET Module /\ bad \subseteq Doomed
    BY <1>2, <1>5, DoomedDooms DEF Dooms, Doomed, bad
  <2>2. \A n \in built : \A i \in Imports[n] \cap Doomed : n \in Doomed
    BY <1>2, <1>3, DoomedDooms DEF Dooms, built
  <2> QED
    BY <1>2, <2>1, <2>2, TaintedIsLeast
<1>7. Doomed \cap reached \subseteq Tainted(bad, built)
  <2> DEFINE T == (Tainted(bad, built) \cap Module) \cup (Module \ reached)
  <2>1. \A n \in Module : ~Parses(n) => n \in T
    BY <1>2, <1>5, TaintedIsLeast
  <2>2. ASSUME NEW n \in Module \ Stubs("json"), NEW i \in Imports[n] \cap T
        PROVE  n \in T
    <3>1. CASE n \notin reached
      BY <3>1
    <3>2. CASE n \in reached /\ ~Parses(n)
      BY <2>1, <3>2
    <3>3. CASE n \in reached /\ Parses(n)
      <4>1. n \in built /\ i \in reached
        BY <1>2, <1>3, <3>3
      <4>2. i \in Tainted(bad, built)
        BY <4>1
      <4> QED
        BY <1>2, <4>1, <4>2, TaintedIsLeast
    <3> QED
      BY <3>1, <3>2, <3>3
  <2>3. Dooms(T)
    BY <2>1, <2>2 DEF Dooms
  <2>4. T \in SUBSET Module
    OBVIOUS
  <2> QED
    BY <2>3, <2>4 DEF Doomed
<1>8. Outcome(t, wanted)[m] =
        IF m \notin Sources THEN "missing"
        ELSE IF m \in bad THEN "failed"
        ELSE IF m \notin built THEN "untouched"
        ELSE IF m \in Tainted(bad, built) THEN "unprocessed" ELSE "compiled"
  BY <1>1, <1>4
<1>9. /\ m \in Sources => (m \in bad <=> m \in asked.broken)
      /\ m \in Sources \ asked.broken => (m \in built <=> m \notin Stubs("json"))
  BY <1>3, <1>4, <1>5 DEF Parses
<1>10. m \in Tainted(bad, built) <=> m \in Doomed
  BY <1>4, <1>6, <1>7
<1> QED
  BY <1>8, <1>9, <1>10 DEF Verdict

LEMMA OutcomeTyped ==
  ASSUME NEW t, NEW wanted \in SUBSET Module
  PROVE  /\ DOMAIN Outcome(t, wanted) = Reached(wanted)
         /\ \A m \in DOMAIN Outcome(t, wanted) : Outcome(t, wanted)[m] \in Status
  BY DEF Outcome, Status

(* A call of the compiler: what it says is added to what its tree's calls said, *)
(* and what it compiled to its tree's files.                                    *)
Does(t, s, outcome) ==
  /\ DOMAIN processed' = Tree
  /\ \A u \in Tree \ {t} : processed'[u] = processed[u] /\ Files(u)' = Files(u)
  /\ processed'[t] = [m \in DOMAIN processed[t] \cup DOMAIN outcome |->
                        IF m \in DOMAIN outcome THEN outcome[m] ELSE processed[t][m]]
  /\ Files(t)' = Files(t) \cup {m \in DOMAIN outcome : outcome[m] = "compiled"}
  /\ <<t, s>> \in left /\ left' = left \ {<<t, s>>}

LEMMA CompileStep ==
  ASSUME TypeOK, Compile
  PROVE  \E t \in Tree, s \in Space :
           /\ Wanted(s) \ DOMAIN processed[t] \in SUBSET Module
           /\ Does(t, s, Outcome(t, Wanted(s) \ DOMAIN processed[t]))
           /\ kept' \in [Tree -> SUBSET Module] /\ DOMAIN scratch' = DOMAIN scratch
           /\ \A u \in DOMAIN scratch' : scratch'[u] \subseteq Module
<1>1. PICK call \in left :
        LET tree == call[1]
            known == DOMAIN processed[tree]
            outcome == Outcome(tree, Wanted(call[2]) \ known)
            new == {m \in DOMAIN outcome : outcome[m] = "compiled"}
        IN /\ processed' = [processed EXCEPT ![tree] =
                [m \in known \cup DOMAIN outcome |->
                   IF m \in DOMAIN outcome THEN outcome[m] ELSE @[m]]]
           /\ IF tree \in DOMAIN scratch
              THEN scratch' = [scratch EXCEPT ![tree] = @ \cup new] /\ UNCHANGED kept
              ELSE kept' = [kept EXCEPT ![tree] = @ \cup new] /\ UNCHANGED scratch
           /\ left' = left \ {call}
  BY DEF Compile
<1> DEFINE t == call[1]
           s == call[2]
           outcome == Outcome(t, Wanted(s) \ DOMAIN processed[t])
           new == {m \in DOMAIN outcome : outcome[m] = "compiled"}
<1>2. t \in Tree /\ s \in Space /\ call = <<t, s>>
  BY DEF TypeOK
<1>3. Wanted(s) \ DOMAIN processed[t] \in SUBSET Module
  BY <1>2 DEF TypeOK, Wanted
<1>4. DOMAIN outcome \subseteq Module /\ new \subseteq Module
  BY <1>3, OutcomeTyped, ReachedIsLeast
<1>5. /\ processed' = [processed EXCEPT ![t] =
           [m \in DOMAIN processed[t] \cup DOMAIN outcome |->
              IF m \in DOMAIN outcome THEN outcome[m] ELSE processed[t][m]]]
      /\ IF t \in DOMAIN scratch
         THEN scratch' = [scratch EXCEPT ![t] = @ \cup new] /\ UNCHANGED kept
         ELSE kept' = [kept EXCEPT ![t] = @ \cup new] /\ UNCHANGED scratch
      /\ left' = left \ {<<t, s>>}
  BY <1>1, <1>2
<1> HIDE DEF outcome, new, t, s
<1>6. kept' \in [Tree -> SUBSET Module] /\ DOMAIN scratch' = DOMAIN scratch
      /\ \A u \in DOMAIN scratch' : scratch'[u] \subseteq Module
  BY <1>2, <1>4, <1>5 DEF TypeOK
<1>7. Files(t)' = Files(t) \cup new /\ \A u \in Tree \ {t} : Files(u)' = Files(u)
  BY <1>2, <1>5 DEF TypeOK, Files
<1>8. DOMAIN processed' = Tree /\ \A u \in Tree \ {t} : processed'[u] = processed[u]
  BY <1>2, <1>5 DEF TypeOK
<1>9. processed'[t] = [m \in DOMAIN processed[t] \cup DOMAIN outcome |->
              IF m \in DOMAIN outcome THEN outcome[m] ELSE processed[t][m]]
  BY <1>2, <1>5 DEF TypeOK
<1>10. Does(t, s, outcome)
  BY <1>1, <1>2, <1>5, <1>7, <1>8, <1>9 DEF Does, new
<1> QED
  BY <1>2, <1>3, <1>6, <1>10 DEF outcome

LEMMA CorpusNextTyped == TypeOK /\ [Next]_vars => TypeOK'
<1> SUFFICES ASSUME TypeOK, [Next]_vars PROVE TypeOK'
  OBVIOUS
<1>1. CASE Start
  <2>1. PICK a \in Settings :
          /\ asked' = a
          /\ sets' = [s \in Space |-> Holds[s] \ gone]
          /\ scratch' = [t \in ScratchOf(a.outputs) |-> {}]
          /\ phase' \in {"raised", "compile"}
          /\ left' = Calls(a.outputs \cup ScratchOf(a.outputs), a.publish)
    BY <1>1 DEF Start
  <2>2. asked' \in Setting /\ a.publish \subseteq Space
    BY <2>1, CorpusAssumption DEF Setting
  <2>3. sets' \in [Space -> SUBSET Module]
    BY <2>1, CorpusAssumption
  <2>4. /\ DOMAIN scratch' \subseteq {"json", "json_texts"}
        /\ \A t \in DOMAIN scratch' : scratch'[t] \subseteq Module
    BY <2>1 DEF ScratchOf
  <2>5. left' \subseteq Tree \X Space
    BY <2>1, <2>2 DEF Calls
  <2>6. /\ DOMAIN processed' = Tree
        /\ \A t \in Tree : DOMAIN processed'[t] = {}
    BY <1>1 DEF Start, Nothing
  <2>7. UNCHANGED <<gone, kept>> /\ published' = None /\ runs' = runs + 1
    BY <1>1 DEF Start
  <2>8. published' \in {None} \cup SUBSET Module
    BY <2>7
  <2>9. gone' \subseteq Module /\ kept' \in [Tree -> SUBSET Module] /\ runs' \in Nat
    BY <2>7 DEF TypeOK
  <2> QED
    BY <2>1, <2>2, <2>3, <2>4, <2>5, <2>6, <2>8, <2>9 DEF TypeOK
<1>2. CASE Compile
  <2>1. PICK t \in Tree, s \in Space :
           /\ Wanted(s) \ DOMAIN processed[t] \in SUBSET Module
           /\ Does(t, s, Outcome(t, Wanted(s) \ DOMAIN processed[t]))
           /\ kept' \in [Tree -> SUBSET Module] /\ DOMAIN scratch' = DOMAIN scratch
           /\ \A u \in DOMAIN scratch' : scratch'[u] \subseteq Module
    BY <1>2, CompileStep
  <2> DEFINE outcome == Outcome(t, Wanted(s) \ DOMAIN processed[t])
  <2>2. DOMAIN outcome \subseteq Module /\ \A m \in DOMAIN outcome : outcome[m] \in Status
    BY <2>1, OutcomeTyped, ReachedIsLeast
  <2> HIDE DEF outcome
  <2>6. \A u \in Tree : /\ DOMAIN processed'[u] \subseteq Module
                        /\ \A m \in DOMAIN processed'[u] : processed'[u][m] \in Status
    <3>1. /\ DOMAIN processed'[t] = DOMAIN processed[t] \cup DOMAIN outcome
          /\ \A m \in DOMAIN processed'[t] : processed'[t][m] \in {outcome[m], processed[t][m]}
          /\ \A m \in DOMAIN processed'[t] : m \in DOMAIN outcome => processed'[t][m] = outcome[m]
          /\ \A m \in DOMAIN processed'[t] : m \notin DOMAIN outcome => processed'[t][m] = processed[t][m]
      BY <2>1 DEF Does, outcome
    <3>2. \A u \in Tree \ {t} : processed'[u] = processed[u]
      BY <2>1 DEF Does
    <3> QED
      BY <2>2, <3>1, <3>2 DEF TypeOK
  <2>7. left' \subseteq Tree \X Space /\ DOMAIN processed' = Tree
    BY <2>1 DEF Does, TypeOK
  <2> QED
    BY <1>2, <2>1, <2>6, <2>7 DEF Compile, TypeOK
<1>3. CASE Publish
  <2>1. published' \in {None} \cup SUBSET Module
    <3> DEFINE held == {m \in DOMAIN processed["json"] : processed["json"][m] \in PublishedStatuses}
    <3>1. held \subseteq Module
      BY DEF TypeOK, Tree
    <3>2. asked.select \in {None} \cup SUBSET Module
      BY DEF TypeOK, Setting
    <3> HIDE DEF held
    <3>3. published' \in {held, held \cap asked.select, asked.select}
      BY <1>3 DEF Publish, held
    <3> QED
      BY <3>1, <3>2, <3>3
  <2> QED
    BY <1>3, <2>1 DEF Publish, TypeOK
<1>4. CASE Stage \/ WriteStandard \/ Project \/ Raise
  BY <1>4 DEF Stage, WriteStandard, Project, Raise, TypeOK
<1>5. CASE Finish
  <2>1. DOMAIN scratch' = {}
    BY <1>5 DEF Finish, Nothing
  <2> QED
    BY <1>5, <2>1 DEF Finish, TypeOK
<1>6. ASSUME NEW m \in Module, Vanish(m) PROVE TypeOK'
  BY <1>6 DEF Vanish, TypeOK
<1>7. CASE UNCHANGED vars
  BY <1>7 DEF vars, TypeOK
<1> QED
  BY <1>1, <1>2, <1>3, <1>4, <1>5, <1>6, <1>7 DEF Next

(* The state of a driver keeps its types. *)
THEOREM CorpusTypeCorrect == Spec => []TypeOK
  BY CorpusInitTyped, CorpusNextTyped, PTL DEF Spec

-------------------------------------------------------------------------------
(* What a build decides, and in which order: nothing is carried before it is    *)
(* decided what to publish, only published modules are carried after, and those *)
(* are what the documents' calls said the corpus has.                           *)

AfterCompile == {"stage", "standard", "project", "report"}

Ordered ==
  /\ phase = "compile" => published = None /\ Everywhere = {}
  /\ phase \in AfterCompile => left = {} /\ ("json" \in Outputs => published # None)
  /\ published # None => Everywhere \subseteq published
  /\ published # None /\ "json" \in Outputs =>
       \A m \in published : /\ m \in DOMAIN processed["json"]
                            /\ processed["json"][m] \in PublishedStatuses

(* What was staged and projected is still what would be. *)
Derived ==
  /\ phase \in {"standard", "project", "report"} /\ gone = {} /\ "asn1" \in asked.outputs =>
       staged = Staging
  /\ phase = "report" =>
       carried = [p \in Projection \cap asked.outputs |-> Chosen(Files(TreeFor(p)))]

(* The calls still to come, and what those made so far leave in the trees of    *)
(* documents: what they compiled, and, in a tree that is new, no stub.          *)
Filed ==
  /\ left \subseteq Tree \X asked.publish
  /\ \A t \in Documents \cap Outputs, s \in asked.publish :
       <<t, s>> \in left \/ Wanted(s) \subseteq DOMAIN processed[t]
  /\ runs = 0 => phase = "idle" /\ \A t \in Tree : kept[t] = {}
  /\ phase # "idle" =>
       \A t \in Documents :
         /\ \A m \in DOMAIN processed[t] : processed[t][m] = "compiled" => m \in Files(t)
         /\ runs = 1 \/ t \in DOMAIN scratch => Files(t) \cap Stubs("json") = {}

(* While nothing has gone, every status a rebuild reports is the verdict, and   *)
(* the modules with one are what the calls so far reach.                        *)
AllWanted == UNION {Wanted(s) : s \in asked.publish}

Judged ==
  asked.rebuild /\ gone = {} =>
    \A t \in Documents :
      /\ DOMAIN processed[t] \subseteq Reached(AllWanted)
      /\ \A m \in DOMAIN processed[t] :
           /\ processed[t][m] = Verdict(m)
           /\ Parses(m) => Imports[m] \subseteq DOMAIN processed[t]

(* What a build with documents publishes is its answer, to the end.             *)
Held == {m \in DOMAIN processed["json"] : processed["json"][m] \in PublishedStatuses}
Answered == published # None /\ "json" \in Outputs => published = Selected(Held)

LEMMA AnsweredNext == TypeOK /\ Ordered /\ Answered /\ [Next]_vars => Answered'
<1> SUFFICES ASSUME TypeOK, Ordered, Answered, [Next]_vars PROVE Answered'
  OBVIOUS
<1>1. CASE Start
  BY <1>1 DEF Start, Answered
<1>2. CASE Compile
  BY <1>2 DEF Compile, Ordered, Answered
<1>3. CASE Publish
  <2>1. UNCHANGED <<asked, scratch, processed>>
    BY <1>3 DEF Publish
  <2>2. Outputs' = Outputs /\ Selected(Held)' = Selected(Held)
    BY <2>1 DEF Outputs, Selected, Held, Picked
  <2>3. "json" \in Outputs => published' = Selected(Held)
    BY <1>3 DEF Publish, Selected, Held
  <2> QED
    BY <2>2, <2>3 DEF Answered
<1>4. CASE Stage \/ WriteStandard \/ Project \/ Raise \/ Finish \/ (\E m \in Module : Vanish(m))
           \/ UNCHANGED vars
  <2>1. UNCHANGED <<asked, processed, published>> /\ DOMAIN scratch' \subseteq DOMAIN scratch
    BY <1>4 DEF Stage, WriteStandard, Project, Raise, Finish, Vanish, vars, Nothing
  <2>2. Selected(Held)' = Selected(Held) /\ Outputs' \subseteq Outputs
    BY <2>1 DEF Outputs, Selected, Held, Picked
  <2> QED
    BY <2>1, <2>2 DEF Answered
<1> QED
  BY <1>1, <1>2, <1>3, <1>4 DEF Next

LEMMA OrderedInit == Init => Ordered
<1> SUFFICES ASSUME Init PROVE Ordered
  OBVIOUS
<1>1. phase = "idle" /\ published = None
  BY DEF Init
<1> QED
  BY <1>1 DEF Ordered, AfterCompile

LEMMA OrderedNext == TypeOK /\ Ordered /\ [Next]_vars => Ordered'
<1> SUFFICES ASSUME TypeOK, Ordered, [Next]_vars PROVE Ordered'
  OBVIOUS
<1>1. CASE Start
  <2>1. phase' \in {"raised", "compile"} /\ published' = None /\ staged' = {} /\ standard' = {}
        /\ carried' = Nothing
    BY <1>1 DEF Start
  <2>2. Everywhere' = {}
    BY <2>1 DEF Everywhere, Nothing
  <2> QED
    BY <2>1, <2>2 DEF Ordered, AfterCompile
<1>2. CASE Compile
  <2>1. phase = "compile" /\ phase' = "compile" /\ UNCHANGED <<published, staged, standard, carried>>
    BY <1>2 DEF Compile
  <2> QED
    BY <2>1 DEF Ordered, AfterCompile, Everywhere
<1>3. CASE Publish
  <2>1. /\ phase = "compile" /\ phase' = "stage" /\ left = {} /\ left' = left
        /\ UNCHANGED <<asked, scratch, processed, staged, standard, carried>>
    BY <1>3 DEF Publish
  <2>2. Everywhere' = {} /\ Outputs' = Outputs
    BY <2>1 DEF Ordered, Everywhere, Outputs
  <2> DEFINE held == {m \in DOMAIN processed["json"] : processed["json"][m] \in PublishedStatuses}
  <2>3. "json" \in Outputs => published' \subseteq held /\ published' # None
    <3>1. held \in SUBSET Module
      BY DEF TypeOK, Tree
    <3> HIDE DEF held
    <3>2. "json" \in Outputs => published' = held \/ published' = held \cap asked.select
      BY <1>3 DEF Publish, held
    <3> QED
      BY <3>1, <3>2, CorpusAssumption
  <2> QED
    BY <2>1, <2>2, <2>3 DEF Ordered, AfterCompile
<1>4. CASE Stage \/ WriteStandard \/ Project
  <2>1. /\ phase \in AfterCompile /\ phase' \in AfterCompile
        /\ UNCHANGED <<asked, left, scratch, processed, published>>
    BY <1>4 DEF Stage, WriteStandard, Project, AfterCompile
  <2>2. published # None => \A S : Chosen(S) \subseteq published
    BY DEF Chosen
  <2>3. published # None => Everywhere' \subseteq published
    <3> SUFFICES ASSUME published # None PROVE Everywhere' \subseteq published
      OBVIOUS
    <3>0. Everywhere \subseteq published
      BY DEF Ordered
    <3>1. CASE Stage
      <4>1. staged' \subseteq published /\ UNCHANGED <<standard, carried>>
        BY <2>2, <3>1 DEF Stage, Staging
      <4> QED
        BY <3>0, <4>1 DEF Everywhere
    <3>2. CASE WriteStandard
      <4>1. standard' \subseteq published /\ UNCHANGED <<staged, carried>>
        BY <2>2, <3>2 DEF WriteStandard
      <4> QED
        BY <3>0, <4>1 DEF Everywhere
    <3>3. CASE Project
      <4>1. \A p \in DOMAIN carried' : carried'[p] \subseteq published
        BY <2>2, <3>3 DEF Project
      <4>2. UNCHANGED <<staged, standard>>
        BY <3>3 DEF Project
      <4> QED
        BY <3>0, <4>1, <4>2 DEF Everywhere
    <3> QED
      BY <1>4, <3>1, <3>2, <3>3
  <2> QED
    BY <2>1, <2>3 DEF Ordered, AfterCompile, Outputs
<1>5. CASE Raise \/ Finish \/ (\E m \in Module : Vanish(m)) \/ UNCHANGED vars
  <2>1. /\ UNCHANGED <<asked, left, processed, published, staged, standard, carried>>
        /\ (phase' = phase /\ scratch' = scratch) \/ phase' \in {"idle", "raised"}
        /\ DOMAIN scratch' \subseteq DOMAIN scratch
    BY <1>5 DEF Raise, Finish, Vanish, vars, Nothing
  <2>2. Everywhere' = Everywhere /\ ("json" \in Outputs' => "json" \in Outputs)
    BY <2>1 DEF Everywhere, Outputs
  <2> QED
    BY <2>1, <2>2 DEF Ordered, AfterCompile, Outputs
<1> QED
  BY <1>1, <1>2, <1>3, <1>4, <1>5 DEF Next

LEMMA DerivedNext == TypeOK /\ Derived /\ [Next]_vars => Derived'
<1> SUFFICES ASSUME TypeOK, Derived, [Next]_vars PROVE Derived'
  OBVIOUS
<1>1. CASE Start \/ Compile \/ Publish \/ Raise \/ Finish
  <2>1. phase' \notin {"standard", "project", "report"}
    BY <1>1 DEF Start, Compile, Publish, Raise, Finish
  <2> QED
    BY <2>1 DEF Derived
<1>2. CASE Stage
  <2>1. phase' = "standard" /\ UNCHANGED <<asked, sets, gone, published>>
    BY <1>2 DEF Stage
  <2>2. Staging' = Staging
    BY <2>1 DEF Staging, Chosen, HeldBy, Sources
  <2> QED
    BY <1>2, <2>1, <2>2 DEF Stage, Derived
<1>3. CASE WriteStandard
  <2>1. phase = "standard" /\ phase' = "project" /\ UNCHANGED <<asked, sets, gone, published, staged>>
    BY <1>3 DEF WriteStandard
  <2>2. Staging' = Staging
    BY <2>1 DEF Staging, Chosen, HeldBy, Sources
  <2> QED
    BY <2>1, <2>2 DEF Derived
<1>4. CASE Project
  <2>1. phase = "project" /\ phase' = "report"
        /\ UNCHANGED <<asked, sets, gone, published, staged, kept, scratch>>
    BY <1>4 DEF Project
  <2>2. Staging' = Staging
    BY <2>1 DEF Staging, Chosen, HeldBy, Sources
  <2>3. \A p \in Projection : Chosen(Files(TreeFor(p)))' = Chosen(Files(TreeFor(p)))
    BY <2>1 DEF Chosen, Files, TreeFor, JsondocTree, ProseTree, Outputs
  <2>4. carried' = [p \in Projection \cap asked.outputs |-> Chosen(Files(TreeFor(p)))]
    BY <1>4 DEF Project
  <2>5. carried' = [p \in Projection \cap asked'.outputs |-> Chosen(Files(TreeFor(p)))']
    BY <2>1, <2>3, <2>4
  <2> QED
    BY <2>1, <2>2, <2>5 DEF Derived
<1>5. ASSUME NEW m \in Module, Vanish(m) PROVE Derived'
  <2>1. gone' # {} /\ UNCHANGED <<phase, asked, published, kept, scratch, carried>>
    BY <1>5 DEF Vanish
  <2>2. \A p \in Projection : Chosen(Files(TreeFor(p)))' = Chosen(Files(TreeFor(p)))
    BY <2>1 DEF Chosen, Files, TreeFor, JsondocTree, ProseTree, Outputs
  <2> QED
    BY <2>1, <2>2 DEF Derived
<1>6. CASE UNCHANGED vars
  <2>1. \A p \in Projection : Chosen(Files(TreeFor(p)))' = Chosen(Files(TreeFor(p)))
    BY <1>6 DEF vars, Chosen, Files, TreeFor, JsondocTree, ProseTree, Outputs
  <2>2. Staging' = Staging
    BY <1>6 DEF vars, Staging, Chosen, HeldBy, Sources
  <2> QED
    BY <1>6, <2>1, <2>2 DEF vars, Derived
<1> QED
  BY <1>1, <1>2, <1>3, <1>4, <1>5, <1>6 DEF Next

LEMMA FiledInit == Init => Filed
<1> SUFFICES ASSUME Init PROVE Filed
  OBVIOUS
<1>1. asked.publish = {}
  BY DEF Init, NoSetting
<1> QED
  BY <1>1 DEF Init, Filed

(* What a stub is follows from the settings and the enumeration. *)
LEMMA StubsFixed ==
  ASSUME UNCHANGED <<asked, sets>>
  PROVE  \A t : Stubs(t)' = Stubs(t)
  BY RestIsFixed DEF Stubs, Picked

LEMMA FiledNext == TypeOK /\ Filed /\ [Next]_vars => Filed'
<1> SUFFICES ASSUME TypeOK, Filed, [Next]_vars PROVE Filed'
  OBVIOUS
<1>1. CASE Start
  <2>1. PICK a \in Settings :
          /\ asked' = a
          /\ scratch' = [t \in ScratchOf(a.outputs) |-> {}]
          /\ left' = Calls(a.outputs \cup ScratchOf(a.outputs), a.publish)
    BY <1>1 DEF Start
  <2>2. /\ runs' = runs + 1 /\ kept' = kept /\ phase = "idle"
        /\ processed' = [t \in Tree |-> Nothing]
    BY <1>1 DEF Start
  <2>3. Outputs' = a.outputs \cup ScratchOf(a.outputs)
    BY <2>1 DEF Outputs
  <2>4. /\ left' \subseteq Tree \X asked'.publish
        /\ \A t \in Documents \cap Outputs', s \in asked'.publish : <<t, s>> \in left'
    BY <2>1, <2>3 DEF Calls, Documents, Tree
  <2>5. \A t \in Documents : DOMAIN processed'[t] = {}
    BY <2>2 DEF Documents, Tree, Nothing
  <2>6. ASSUME NEW t \in Documents, runs' = 1 \/ t \in DOMAIN scratch'
        PROVE  Files(t)' = {}
    <3>1. CASE t \in DOMAIN scratch'
      BY <2>1, <3>1 DEF Files
    <3>2. CASE t \notin DOMAIN scratch'
      <4>1. runs = 0
        BY <2>2, <2>6, <3>2 DEF TypeOK
      <4> QED
        BY <2>2, <3>2, <4>1 DEF Filed, Files, Documents, Tree
    <3> QED
      BY <3>1, <3>2
  <2>7. runs' # 0
    BY <2>2 DEF TypeOK
  <2> QED
    BY <2>4, <2>5, <2>6, <2>7 DEF Filed
<1>2. CASE Compile
  <2>0. phase = "compile" /\ phase' = "compile" /\ UNCHANGED <<asked, sets, runs>>
    BY <1>2 DEF Compile
  <2>1. PICK t \in Tree, s \in Space :
           /\ Wanted(s) \ DOMAIN processed[t] \in SUBSET Module
           /\ Does(t, s, Outcome(t, Wanted(s) \ DOMAIN processed[t]))
           /\ DOMAIN scratch' = DOMAIN scratch
    BY <1>2, CompileStep
  <2> DEFINE wanted == Wanted(s) \ DOMAIN processed[t]
             outcome == Outcome(t, wanted)
             new == {m \in DOMAIN outcome : outcome[m] = "compiled"}
  <2>2. /\ DOMAIN processed'[t] = DOMAIN processed[t] \cup DOMAIN outcome
        /\ \A m \in DOMAIN outcome : processed'[t][m] = outcome[m]
        /\ \A m \in DOMAIN processed[t] \ DOMAIN outcome : processed'[t][m] = processed[t][m]
        /\ Files(t)' = Files(t) \cup new
        /\ \A u \in Tree \ {t} : processed'[u] = processed[u] /\ Files(u)' = Files(u)
        /\ left' = left \ {<<t, s>>}
    BY <2>1 DEF Does
  <2>3. wanted \subseteq DOMAIN outcome
    BY <2>1, OutcomeTyped, ReachedIsLeast
  <2>4. \A w : Wanted(w)' = Wanted(w)
    BY <2>0 DEF Wanted, Picked
  <2>5. Outputs' = Outputs
    BY <2>0, <2>1 DEF Outputs
  <2>6. \A m \in new : m \notin Stubs(t)
    BY CompiledIsNoStub
  <2> HIDE DEF outcome
  <2>7. \A u \in Documents \cap Outputs', w \in asked'.publish :
          <<u, w>> \in left' \/ Wanted(w)' \subseteq DOMAIN processed'[u]
    <3> SUFFICES ASSUME NEW u \in Documents \cap Outputs, NEW w \in asked.publish, <<u, w>> \notin left'
                 PROVE  Wanted(w) \subseteq DOMAIN processed'[u]
      BY <2>0, <2>4, <2>5
    <3>1. u \in Tree
      BY DocumentStubs
    <3>2. CASE <<u, w>> = <<t, s>>
      BY <2>2, <2>3, <3>2
    <3>3. CASE <<u, w>> # <<t, s>>
      <4>1. <<u, w>> \notin left
        BY <2>2, <3>3
      <4>2. Wanted(w) \subseteq DOMAIN processed[u]
        BY <4>1 DEF Filed
      <4> QED
        BY <2>2, <3>1, <4>2
    <3> QED
      BY <3>2, <3>3
  <2>8. ASSUME NEW u \in Documents
        PROVE  /\ \A m \in DOMAIN processed'[u] : processed'[u][m] = "compiled" => m \in Files(u)'
               /\ runs' = 1 \/ u \in DOMAIN scratch' => Files(u)' \cap Stubs("json") = {}
    <3>1. u \in Tree /\ Stubs(u) = Stubs("json")
      BY DocumentStubs
    <3>2. /\ \A m \in DOMAIN processed[u] : processed[u][m] = "compiled" => m \in Files(u)
          /\ runs = 1 \/ u \in DOMAIN scratch => Files(u) \cap Stubs("json") = {}
      BY <2>0 DEF Filed
    <3>3. CASE u # t
      BY <2>0, <2>1, <2>2, <3>1, <3>2, <3>3
    <3>4. CASE u = t
      BY <2>0, <2>1, <2>2, <2>6, <3>1, <3>2, <3>4
    <3> QED
      BY <3>3, <3>4
  <2>9. runs' = 0 => FALSE
    BY <2>0 DEF Filed
  <2>10. left' \subseteq Tree \X asked'.publish
    BY <2>0, <2>2 DEF Filed
  <2>11. Stubs("json")' = Stubs("json")
    BY <2>0, StubsFixed
  <2> QED
    BY <2>7, <2>8, <2>9, <2>10, <2>11 DEF Filed
<1>3. CASE Publish \/ Stage \/ WriteStandard \/ Project \/ Raise \/ (\E m \in Module : Vanish(m))
           \/ UNCHANGED vars
  <2>1. /\ UNCHANGED <<asked, sets, left, processed, kept, scratch, runs>>
        /\ phase' # "idle" => phase # "idle"
        /\ phase' = "idle" => phase = "idle"
    BY <1>3 DEF Publish, Stage, WriteStandard, Project, Raise, Vanish, vars
  <2>2. Stubs("json")' = Stubs("json") /\ Outputs' = Outputs
    BY <2>1, StubsFixed DEF Outputs
  <2>3. \A t : Files(t)' = Files(t) /\ Wanted(t)' = Wanted(t)
    BY <2>1 DEF Files, Wanted, Picked
  <2> QED
    BY <2>1, <2>2, <2>3 DEF Filed
<1>4. CASE Finish
  <2>1. /\ UNCHANGED <<asked, sets, left, processed, kept, runs>>
        /\ phase' = "idle" /\ Outputs' \subseteq Outputs /\ phase # "idle"
    BY <1>4 DEF Finish, Outputs, Nothing
  <2>2. \A s : Wanted(s)' = Wanted(s)
    BY <2>1 DEF Wanted, Picked
  <2> QED
    BY <2>1, <2>2 DEF Filed
<1> QED
  BY <1>1, <1>2, <1>3, <1>4 DEF Next

LEMMA JudgedInit == Init => Judged
<1> SUFFICES ASSUME Init PROVE Judged
  OBVIOUS
<1>1. ~asked.rebuild
  BY DEF Init, NoSetting
<1> QED
  BY <1>1 DEF Judged

(* The verdict follows from the settings, the enumeration and what has gone. *)
LEMMA VerdictFixed ==
  ASSUME UNCHANGED <<asked, sets, gone>>
  PROVE  /\ \A m : Verdict(m)' = Verdict(m) /\ Parses(m)' = Parses(m)
         /\ Reached(AllWanted)' = Reached(AllWanted)
<1>1. Sources' = Sources
  BY DEF Sources, HeldBy
<1>2. \A m : Parses(m)' = Parses(m)
  BY <1>1 DEF Parses
<1>3. Stubs("json")' = Stubs("json")
  BY StubsFixed
<1>4. \A T : Dooms(T)' = Dooms(T)
  BY <1>2, <1>3 DEF Dooms
<1>5. Doomed' = Doomed
  BY <1>4 DEF Doomed
<1>6. \A m : Verdict(m)' = Verdict(m)
  BY <1>1, <1>3, <1>5 DEF Verdict
<1>7. AllWanted' = AllWanted
  BY DEF AllWanted, Wanted, Picked
<1>8. Reached(AllWanted)' = Reached(AllWanted)
  BY <1>2, <1>7 DEF Reached, Grown
<1> QED
  BY <1>2, <1>6, <1>8

LEMMA JudgedNext == TypeOK /\ Filed /\ Judged /\ [Next]_vars => Judged'
<1> SUFFICES ASSUME TypeOK, Filed, Judged, [Next]_vars PROVE Judged'
  OBVIOUS
<1>1. CASE Start
  <2>1. \A t \in Documents : DOMAIN processed'[t] = {}
    BY <1>1 DEF Start, Documents, Tree, Nothing
  <2> QED
    BY <2>1 DEF Judged
<1>2. CASE Compile
  <2> SUFFICES ASSUME asked.rebuild, gone = {}, NEW u \in Documents
               PROVE  /\ DOMAIN processed'[u] \subseteq Reached(AllWanted)
                      /\ \A m \in DOMAIN processed'[u] :
                           /\ processed'[u][m] = Verdict(m)
                           /\ Parses(m) => Imports[m] \subseteq DOMAIN processed'[u]
    <3>1. UNCHANGED <<asked, sets, gone>>
      BY <1>2 DEF Compile
    <3> QED
      BY <3>1, VerdictFixed DEF Judged
  <2>1. PICK t \in Tree, s \in Space :
           /\ Wanted(s) \ DOMAIN processed[t] \in SUBSET Module
           /\ Does(t, s, Outcome(t, Wanted(s) \ DOMAIN processed[t]))
    BY <1>2, CompileStep
  <2>2. /\ DOMAIN processed[u] \subseteq Reached(AllWanted)
        /\ \A m \in DOMAIN processed[u] :
             /\ processed[u][m] = Verdict(m)
             /\ Parses(m) => Imports[m] \subseteq DOMAIN processed[u]
    BY DEF Judged
  <2>3. u \in Tree
    BY DocumentStubs
  <2>4. CASE u # t
    <3>1. processed'[u] = processed[u]
      BY <2>1, <2>3, <2>4 DEF Does
    <3> QED
      BY <2>2, <3>1
  <2>5. CASE u = t
    <3> DEFINE wanted == Wanted(s) \ DOMAIN processed[t]
               outcome == Outcome(t, wanted)
    <3>1. DOMAIN outcome = Reached(wanted)
      BY <2>1, OutcomeTyped
    <3>2. \A m \in DOMAIN outcome : outcome[m] = Verdict(m)
      BY <2>1, <2>5, OutcomeIsVerdict
    <3>3. s \in asked.publish
      BY <2>1 DEF Does, Filed
    <3>4. wanted \subseteq AllWanted
      BY <3>3 DEF AllWanted
    <3>5. AllWanted \in SUBSET Module
      <4>1. \A w \in asked.publish : Wanted(w) \subseteq Module
        BY DEF TypeOK, Setting, Wanted
      <4> QED
        BY <4>1 DEF AllWanted
    <3>6. Reached(wanted) \subseteq Reached(AllWanted)
      BY <2>1, <3>4, <3>5, ReachedIsLeast
    <3>7. \A m \in DOMAIN outcome : Parses(m) => Imports[m] \subseteq DOMAIN outcome
      BY <2>1, <3>1, ReachedIsLeast
    <3>8. processed'[t] = [m \in DOMAIN processed[t] \cup DOMAIN outcome |->
                             IF m \in DOMAIN outcome THEN outcome[m] ELSE processed[t][m]]
      BY <2>1 DEF Does
    <3> HIDE DEF outcome
    <3> QED
      BY <2>2, <2>5, <3>1, <3>2, <3>6, <3>7, <3>8
  <2> QED
    BY <2>4, <2>5
<1>3. ASSUME NEW m \in Module, Vanish(m) PROVE Judged'
  <2>1. gone' # {}
    BY <1>3 DEF Vanish
  <2> QED
    BY <2>1 DEF Judged
<1>4. CASE Publish \/ Stage \/ WriteStandard \/ Project \/ Raise \/ Finish \/ UNCHANGED vars
  <2>1. UNCHANGED <<asked, sets, gone, processed>>
    BY <1>4 DEF Publish, Stage, WriteStandard, Project, Raise, Finish, vars
  <2> QED
    BY <2>1, VerdictFixed DEF Judged
<1> QED
  BY <1>1, <1>2, <1>3, <1>4 DEF Next

-------------------------------------------------------------------------------

BuildInv == TypeOK /\ Ordered /\ Answered /\ Derived /\ Filed /\ Judged

LEMMA BuildInit == Init => BuildInv
<1>1. Init => Derived /\ Answered
  BY DEF Init, Derived, Answered
<1> QED
  BY <1>1, CorpusInitTyped, OrderedInit, FiledInit, JudgedInit DEF BuildInv

LEMMA BuildNext == BuildInv /\ [Next]_vars => BuildInv'
  BY CorpusNextTyped, OrderedNext, AnsweredNext, DerivedNext, FiledNext, JudgedNext DEF BuildInv

(* Of a rebuild with documents, a module published either was compiled or is a  *)
(* stub, and what it imports is published or a stub in the same way.            *)
LEMMA PublishedCompiles ==
  ASSUME BuildInv, published # None, "json" \in Outputs, asked.rebuild, gone = {},
         NEW m \in published
  PROVE  /\ Compiles(m) /\ processed["json"][m] = Verdict(m)
         /\ m \notin Stubs("json") => /\ Verdict(m) = "compiled"
                                      /\ \A i \in Imports[m] : Compiles(i)
<1>1. m \in DOMAIN processed["json"] /\ processed["json"][m] \in PublishedStatuses
  BY DEF BuildInv, Ordered
<1>2. /\ \A n \in DOMAIN processed["json"] :
           /\ processed["json"][n] = Verdict(n)
           /\ Parses(n) => Imports[n] \subseteq DOMAIN processed["json"]
      /\ DOMAIN processed["json"] \subseteq Module
  BY DEF BuildInv, Judged, Documents, TypeOK, Tree
<1>3. Verdict(m) \in {"compiled", "untouched"}
  BY <1>1, <1>2 DEF PublishedStatuses, Verdict
<1>4. Compiles(m)
  BY <1>1, <1>2, <1>3 DEF Compiles
<1>5. ASSUME m \notin Stubs("json")
      PROVE  Verdict(m) = "compiled" /\ \A i \in Imports[m] : Compiles(i)
  <2>1. Verdict(m) = "compiled" /\ Parses(m) /\ m \notin Doomed
    BY <1>3, <1>5 DEF Verdict, Parses
  <2> SUFFICES ASSUME NEW i \in Imports[m] PROVE Compiles(i)
    BY <2>1
  <2>2. i \in DOMAIN processed["json"]
    BY <1>1, <1>2, <2>1
  <2>3. i \notin Doomed /\ Parses(i)
    BY <1>1, <1>2, <1>5, <2>1, <2>2, DoomedDooms DEF Dooms
  <2>4. Verdict(i) \in {"compiled", "untouched"}
    BY <2>3 DEF Verdict, Parses
  <2> QED
    BY <1>2, <2>2, <2>4 DEF Compiles
<1> QED
  BY <1>1, <1>2, <1>4, <1>5

(* A build from scratch leaves what does not compile, and all that imports it,  *)
(* out of every artifact, in however many namespaces, calls and trees.          *)
THEOREM BrokenIsLeftOut == Spec => []BrokenLeftOut
<1>1. BuildInv => BrokenLeftOut
  <2> SUFFICES ASSUME BuildInv, published # None, "json" \in Outputs, asked.rebuild, gone = {},
                      NEW m \in Everywhere
               PROVE  /\ Compiles(m)
                      /\ m \notin Stubs("json") => \A i \in Imports[m] : Compiles(i)
    BY DEF BrokenLeftOut
  <2>1. m \in published
    BY DEF BuildInv, Ordered
  <2> QED
    BY <2>1, PublishedCompiles
<1> QED
  BY <1>1, BuildInit, BuildNext, PTL DEF Spec

(* Once no call is left, the two trees of documents say the same of the same    *)
(* modules.                                                                     *)
LEMMA TreesAgree ==
  ASSUME BuildInv, left = {}, asked.rebuild, gone = {},
         NEW t \in Documents \cap Outputs
  PROVE  DOMAIN processed[t] = Reached(AllWanted)
<1>1. AllWanted \subseteq DOMAIN processed[t]
  BY DEF BuildInv, Filed, AllWanted
<1>2. /\ DOMAIN processed[t] \subseteq Reached(AllWanted)
      /\ \A m \in DOMAIN processed[t] : Parses(m) => Imports[m] \subseteq DOMAIN processed[t]
  BY DEF BuildInv, Judged
<1>3. DOMAIN processed[t] \in SUBSET Module
  BY DEF BuildInv, TypeOK, Documents, Tree
<1>4. Reached(AllWanted) \subseteq DOMAIN processed[t]
  BY <1>1, <1>2, <1>3, ReachedIsLeast
<1> QED
  BY <1>2, <1>4

(* What a build projects is what its answer names of the trees it reads: what   *)
(* it compiled, and the stubs an earlier build left a document of; and what it  *)
(* stages is what the answer names of the namespaces it publishes.              *)
THEOREM OneSetIsCarried == Spec => []OneModuleSet
<1>1. BuildInv => OneModuleSet
  <2> SUFFICES ASSUME BuildInv, phase = "report", "json" \in Outputs, asked.rebuild, gone = {}
               PROVE  OneModuleSet
    BY DEF OneModuleSet
  <2> DEFINE made == Reported("compiled")
             stubs == Reported("untouched")
  <2>1. published # None /\ left = {} /\ runs \in Nat /\ runs # 0
    BY DEF BuildInv, Ordered, AfterCompile, Filed, TypeOK
  <2>2. /\ carried = [p \in Projection \cap asked.outputs |-> Chosen(Files(TreeFor(p)))]
        /\ "asn1" \in asked.outputs => staged = Staging
    BY DEF BuildInv, Derived
  <2>4. published = made \cup stubs
    <3>1. \A m \in DOMAIN processed["json"] : processed["json"][m] \in Status
      BY DEF BuildInv, TypeOK, Tree
    <3>2. \A m \in DOMAIN processed["json"] :
            processed["json"][m] \in PublishedStatuses <=>
              processed["json"][m] \in {"compiled", "untouched"}
      BY <3>1 DEF Status, PublishedStatuses
    <3>3. published = Selected(Held)
      BY <2>1 DEF BuildInv, Answered
    <3> QED
      BY <3>2, <3>3 DEF Reported, Selected, Held
  <2>5. stubs \subseteq Stubs("json") /\ made \cap Stubs("json") = {}
    <3>1. \A m \in DOMAIN processed["json"] : processed["json"][m] = Verdict(m)
      BY DEF BuildInv, Judged, Documents
    <3>2. /\ \A m \in stubs : m \in DOMAIN processed["json"] /\ processed["json"][m] = "untouched"
          /\ \A m \in made : m \in DOMAIN processed["json"] /\ processed["json"][m] = "compiled"
      BY DEF Reported, Selected
    <3> HIDE DEF made, stubs
    <3>3. \A m : Verdict(m) = "untouched" => m \in Stubs("json")
      BY DEF Verdict
    <3>4. \A m : Verdict(m) = "compiled" => m \notin Stubs("json")
      BY DEF Verdict
    <3> QED
      BY <3>1, <3>2, <3>3, <3>4
  <2> HIDE DEF made, stubs
  <2>6. ASSUME NEW p \in DOMAIN carried
        PROVE  carried[p] = made \cup LeftIn(TreeFor(p))
    <3> DEFINE t == TreeFor(p)
    <3>1. t \in Documents \cap Outputs
      BY DEF TreeFor, JsondocTree, ProseTree, Documents
    <3>2. carried[p] = Files(t) \cap published
      BY <2>1, <2>2 DEF Chosen
    <3> HIDE DEF t
    <3>3. ASSUME NEW m \in made
          PROVE  m \in Files(t)
      <4>1. Verdict(m) = "compiled" /\ m \in DOMAIN processed["json"]
        BY <2>1, <2>4, <2>5, PublishedCompiles DEF Compiles
      <4>2. m \in DOMAIN processed[t]
        BY <2>1, <3>1, <4>1, TreesAgree DEF Documents
      <4>3. processed[t][m] = Verdict(m)
        BY <3>1, <4>2 DEF BuildInv, Judged
      <4> QED
        BY <3>1, <4>1, <4>2, <4>3 DEF BuildInv, Filed
    <3>4. runs = 1 \/ t \in DOMAIN scratch => Files(t) \cap Stubs("json") = {}
      BY <3>1 DEF BuildInv, Filed
    <3>5. LeftIn(t) = {m \in stubs : runs > 1 /\ t \notin DOMAIN scratch /\ m \in kept[t]}
      BY DEF LeftIn, stubs
    <3>6. ASSUME NEW m \in stubs
          PROVE  m \in Files(t) <=> m \in LeftIn(t)
      <4>1. CASE runs = 1 \/ t \in DOMAIN scratch
        <5>1. m \notin Files(t)
          BY <2>5, <3>4, <4>1
        <5> QED
          BY <3>5, <4>1, <5>1
      <4>2. CASE ~(runs = 1 \/ t \in DOMAIN scratch)
        <5>1. runs > 1 /\ Files(t) = kept[t]
          BY <2>1, <4>2 DEF Files
        <5> QED
          BY <3>5, <4>2, <5>1
      <4> QED
        BY <4>1, <4>2
    <3>7. LeftIn(t) \subseteq stubs
      BY <3>5
    <3>8. carried[p] = made \cup LeftIn(t)
      BY <2>4, <3>2, <3>3, <3>6, <3>7
    <3> QED
      BY <3>8 DEF t
  <2>7. ASSUME "asn1" \in asked.outputs
        PROVE  staged = (made \cup stubs) \cap HeldBy(asked.publish)
    <3>1. staged = published \cap HeldBy(asked.publish) \cap Sources
      BY <2>1, <2>2, <2>7 DEF Staging, Chosen
    <3>2. HeldBy(asked.publish) \subseteq Sources
      BY DEF BuildInv, TypeOK, Setting, Sources, HeldBy
    <3> QED
      BY <2>4, <3>1, <3>2
  <2> QED
    BY <2>5, <2>6, <2>7 DEF OneModuleSet, made, stubs
<1> QED
  BY <1>1, BuildInit, BuildNext, PTL DEF Spec

-------------------------------------------------------------------------------
(* What reaches the artifacts of the modules that are only resolved against.    *)

(* The scratch trees of a build are the ones its settings call for, and what is *)
(* projected of such a module is a document in a tree that was asked for.       *)
Lends == phase # "idle" => DOMAIN scratch = ScratchOf(asked.outputs)

OnlyEarlier ==
  \A p \in DOMAIN carried :
    carried[p] \cap ResolveOnly \subseteq UNION {kept[t] : t \in Tree \cap asked.outputs}

LEMMA LendsNext == TypeOK /\ Lends /\ [Next]_vars => Lends'
<1> SUFFICES ASSUME TypeOK, Lends, [Next]_vars PROVE Lends'
  OBVIOUS
<1>1. CASE Start
  BY <1>1 DEF Start, Lends
<1>2. CASE Compile
  <2>1. PICK t \in Tree, s \in Space :
          /\ Wanted(s) \ DOMAIN processed[t] \in SUBSET Module
          /\ Does(t, s, Outcome(t, Wanted(s) \ DOMAIN processed[t]))
          /\ DOMAIN scratch' = DOMAIN scratch
    BY <1>2, CompileStep
  <2>2. UNCHANGED <<asked, phase>>
    BY <1>2 DEF Compile
  <2> QED
    BY <2>1, <2>2 DEF Lends
<1>3. CASE Publish \/ Stage \/ WriteStandard \/ Project \/ Raise \/ (\E m \in Module : Vanish(m))
           \/ UNCHANGED vars
  <2>1. UNCHANGED <<asked, scratch>> /\ (phase' # "idle" => phase # "idle")
    BY <1>3 DEF Publish, Stage, WriteStandard, Project, Raise, Vanish, vars
  <2> QED
    BY <2>1 DEF Lends
<1>4. CASE Finish
  BY <1>4 DEF Finish, Lends
<1> QED
  BY <1>1, <1>2, <1>3, <1>4 DEF Next

(* The tree a projection reads is one asked for or a scratch tree. *)
LEMMA TreesToRead ==
  ASSUME Lends, phase = "project", NEW p \in Projection \cap asked.outputs
  PROVE  /\ TreeFor(p) \in Documents
         /\ TreeFor(p) \in asked.outputs \/ TreeFor(p) \in DOMAIN scratch
<1>1. DOMAIN scratch = ScratchOf(asked.outputs)
  BY DEF Lends
<1>2. NeedsJsondoc(asked.outputs)
  BY DEF NeedsJsondoc
<1>3. CASE p = "index"
  <2>1. "json" \in Outputs \/ "json_texts" \in asked.outputs
    BY <1>1, <1>2 DEF Outputs, ScratchOf
  <2> QED
    BY <1>3, <2>1 DEF TreeFor, JsondocTree, Documents, Outputs
<1>4. CASE p # "index"
  <2>1. NeedsProse(asked.outputs)
    BY <1>4 DEF NeedsProse, Projection
  <2>2. "json_texts" \in Outputs
    BY <1>1, <2>1 DEF Outputs, ScratchOf
  <2> QED
    BY <1>4, <2>2 DEF TreeFor, ProseTree, Documents, Outputs
<1> QED
  BY <1>3, <1>4

LEMMA OnlyEarlierNext == BuildInv /\ Lends /\ OnlyEarlier /\ [Next]_vars => OnlyEarlier'
<1> SUFFICES ASSUME BuildInv, Lends, OnlyEarlier, [Next]_vars PROVE OnlyEarlier'
  OBVIOUS
<1>1. CASE Start
  BY <1>1 DEF Start, OnlyEarlier, Nothing
<1>2. CASE Compile
  <2>1. \A p \in DOMAIN carried : carried[p] = {}
    BY <1>2 DEF Compile, BuildInv, Ordered, Everywhere
  <2>2. carried' = carried
    BY <1>2 DEF Compile
  <2> QED
    BY <2>1, <2>2 DEF OnlyEarlier
<1>3. CASE Project
  <2>1. phase = "project" /\ UNCHANGED <<asked, sets, kept>>
        /\ carried' = [p \in Projection \cap asked.outputs |-> Chosen(Files(TreeFor(p)))]
    BY <1>3 DEF Project
  <2>2. ResolveOnly' = ResolveOnly
    BY <2>1, RestIsFixed
  <2> SUFFICES ASSUME NEW p \in Projection \cap asked.outputs,
                      NEW m \in Files(TreeFor(p)) \cap ResolveOnly
               PROVE  \E t \in Tree \cap asked.outputs : m \in kept[t]
    BY <2>1, <2>2 DEF OnlyEarlier, Chosen
  <2> DEFINE t == TreeFor(p)
  <2>3. t \in Documents /\ (t \in asked.outputs \/ t \in DOMAIN scratch)
    BY <2>1, TreesToRead
  <2>4. m \in Stubs("json")
    BY StubsCoverTheRest
  <2> HIDE DEF t
  <2>5. m \in Files(t)
    BY DEF t
  <2>6. t \notin DOMAIN scratch
    BY <2>1, <2>3, <2>4, <2>5 DEF BuildInv, Filed
  <2>7. t \in Tree /\ m \in kept[t]
    BY <2>3, <2>5, <2>6, DocumentStubs DEF Files
  <2> QED
    BY <2>3, <2>6, <2>7
<1>4. CASE Publish \/ Stage \/ WriteStandard \/ Raise \/ Finish \/ (\E m \in Module : Vanish(m))
           \/ UNCHANGED vars
  <2>1. UNCHANGED <<asked, sets, kept, carried>>
    BY <1>4 DEF Publish, Stage, WriteStandard, Raise, Finish, Vanish, vars
  <2> QED
    BY <2>1, RestIsFixed DEF OnlyEarlier
<1> QED
  BY <1>1, <1>2, <1>3, <1>4 DEF Next

(* A module the corpus only resolves against is neither written nor staged nor  *)
(* listed, whatever imports it, whatever is selected, fails or vanishes; and    *)
(* what is indexed or sited of it is a document an earlier build left in a tree *)
(* this one was asked for.                                                      *)
THEOREM RestStaysUnpublished == Spec => []NothingUnpublished
<1>1. RestUnwritten /\ OnlyEarlier => NothingUnpublished
  BY DEF RestUnwritten, OnlyEarlier, NothingUnpublished
<1>2. Spec => []RestUnwritten
  <2>1. IInv => RestUnwritten
    BY DEF IInv
  <2> QED
    BY <2>1, InitIsSound, StepIsSound, PTL DEF Spec
<1>3. Init => Lends /\ OnlyEarlier
  BY DEF Init, Lends, OnlyEarlier, Nothing
<1>4. BuildInv => TypeOK
  BY DEF BuildInv
<1> QED
  BY <1>1, <1>2, <1>3, <1>4, BuildInit, BuildNext, LendsNext, OnlyEarlierNext, PTL DEF Spec

================================================================================
