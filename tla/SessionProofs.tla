------------------------------ MODULE SessionProofs -----------------------------
(* What a parser makes of a text after others, and what processes find in the    *)
(* directory of parse trees they share, for any number of processes, texts and   *)
(* kills.                                                                        *)
EXTENDS ParseSession, FiniteSetTheorems, SequenceTheorems, TLAPS

(* A lexer is in a state of its own only after a parse that raised. *)
Clean == \A p \in Process : ~raised[p] => lex[p] = "INITIAL"

Shape == /\ DOMAIN lex = Process
         /\ DOMAIN raised = Process /\ DOMAIN job = Process /\ DOMAIN answer = Process

IInv == Shape /\ Clean

LEMMA InitIsClean == Init => IInv
  BY DEF Init, IInv, Shape, Clean

LEMMA ParseIsClean ==
  ASSUME IInv, NEW p \in Process, Parse(p)
  PROVE  IInv'
<1> DEFINE r == Outcome(job[p].text, lex[p], Relaxed[p])
<1> HIDE DEF r
<1>1. /\ lex' = [lex EXCEPT ![p] = IF r.error = "none" THEN "INITIAL" ELSE r.lex]
      /\ raised' = [raised EXCEPT ![p] = r.error # "none"]
  BY DEF Parse, r
<1>2. DOMAIN job' = Process /\ DOMAIN answer' = Process
  BY DEF Parse, Answered, IInv, Shape
<1>3. DOMAIN lex' = Process /\ DOMAIN raised' = Process
  BY <1>1 DEF IInv, Shape
<1>4. \A q \in Process : ~raised'[q] => lex'[q] = "INITIAL"
  <2> SUFFICES ASSUME NEW q \in Process, ~raised'[q]
               PROVE  lex'[q] = "INITIAL"
    OBVIOUS
  <2>1. CASE q = p
    BY <1>1, <2>1 DEF IInv, Shape
  <2>2. CASE q # p
    BY <1>1, <2>2 DEF IInv, Shape, Clean
  <2> QED
    BY <2>1, <2>2
<1> QED
  BY <1>2, <1>3, <1>4 DEF IInv, Shape, Clean

LEMMA StepIsClean == IInv /\ [Next]_vars => IInv'
<1> SUFFICES ASSUME IInv, [Next]_vars
             PROVE  IInv'
  OBVIOUS
<1>1. ASSUME NEW p \in Process, NEW t \in Text, Hit(p, t) \/ Miss(p, t)
      PROVE  IInv'
  BY <1>1 DEF Hit, Miss, Answered, IInv, Shape, Clean
<1>2. ASSUME NEW p \in Process, Store(p) \/ StoreFails(p) \/ Clear(p) \/ Unlink(p)
      PROVE  IInv'
  BY <1>2 DEF Store, StoreFails, Clear, Unlink, IInv, Shape, Clean
<1>3. ASSUME NEW p \in Process, Kill(p)
      PROVE  IInv'
  BY <1>3 DEF Kill, IInv, Shape, Clean
<1>4. CASE UNCHANGED vars
  BY <1>4 DEF vars, IInv, Shape, Clean
<1> QED
  BY <1>1, <1>2, <1>3, <1>4, ParseIsClean DEF Next

(* At the start of a parse the answer of a process changes by that parse, or    *)
(* with the process.                                                            *)
LEMMA OnlyParseAnswers ==
  ASSUME IInv, [Next]_vars, NEW p \in Process, At(p, "parse"), answer'[p] # answer[p], answer'[p] # {}
  PROVE  Parse(p)
<1>1. ASSUME NEW q \in Process, NEW t \in Text, Hit(q, t)
      PROVE  FALSE
  BY <1>1 DEF Hit, Answered, IInv, Shape, At
<1>2. ASSUME NEW q \in Process, NEW t \in Text, Miss(q, t)
      PROVE  FALSE
  BY <1>2 DEF Miss
<1>3. ASSUME NEW q \in Process, Store(q) \/ StoreFails(q) \/ Clear(q) \/ Unlink(q)
      PROVE  FALSE
  BY <1>3 DEF Store, StoreFails, Clear, Unlink
<1>4. ASSUME NEW q \in Process, Kill(q)
      PROVE  FALSE
  BY <1>4 DEF Kill, IInv, Shape
<1>5. ASSUME NEW q \in Process, Parse(q)
      PROVE  q = p
  BY <1>5 DEF Parse, Answered, IInv, Shape
<1>6. CASE UNCHANGED vars
  BY <1>6 DEF vars
<1> QED
  BY <1>1, <1>2, <1>3, <1>4, <1>5, <1>6 DEF Next

(* A text read after one that raised no error gives what it gives on its own,   *)
(* however many texts were read before.                                         *)
THEOREM TextsAreReadAfresh == Spec => OnlyErrorsLinger
<1> DEFINE Afresh ==
      \A p \in Process :
        At(p, "parse") /\ ~raised[p] /\ answer'[p] # answer[p] /\ answer'[p] # {} =>
          LET a == Outcome(job[p].text, "INITIAL", Relaxed[p]) IN
          \A b \in answer'[p] :
            b.trees = a.trees /\ b.raised = (a.error # "none")
<1>1. IInv /\ [Next]_vars => Afresh
  <2> SUFFICES ASSUME IInv, [Next]_vars, NEW p \in Process, At(p, "parse"), ~raised[p],
                      answer'[p] # answer[p], answer'[p] # {}, NEW b \in answer'[p]
               PROVE  LET a == Outcome(job[p].text, "INITIAL", Relaxed[p]) IN
                      b.trees = a.trees /\ b.raised = (a.error # "none")
    OBVIOUS
  <2> DEFINE a == Outcome(job[p].text, "INITIAL", Relaxed[p])
  <2> HIDE DEF a
  <2>1. Parse(p)
    BY OnlyParseAnswers
  <2>2. Outcome(job[p].text, lex[p], Relaxed[p]) = a
    BY DEF IInv, Clean, a
  <2>3. answer'[p] = {[text |-> job[p].text, by |-> "parser", trees |-> a.trees,
                       raised |-> a.error # "none"]}
    BY <2>1, <2>2 DEF Parse, Answered, IInv, Shape
  <2> QED
    BY <2>3 DEF a
<1>2. IInv /\ [Next]_vars => [Afresh]_vars
  BY <1>1
<1> QED
  BY <1>2, InitIsClean, StepIsClean, PTL DEF Spec, OnlyErrorsLinger

-------------------------------------------------------------------------------
(* What a set of numbers has with 0 and with every successor of a number it has, *)
(* it has of every number: for the least number it lacks, the interval up to it  *)
(* would be mapped one to one into a smaller one.                                *)
LEMMA SetInduction ==
  ASSUME NEW S, 0 \in S, \A n \in Nat : n \in S => n + 1 \in S
  PROVE  Nat \subseteq S
<1> SUFFICES ASSUME NEW n \in Nat, n \notin S PROVE FALSE
  OBVIOUS
<1> DEFINE from == 0..n
           to == 1..n
           f == [i \in from |-> IF i \in S THEN i + 1 ELSE i]
<1>1. \A i \in from : f[i] \in to
  OBVIOUS
<1>2. f \in [from -> to]
  BY <1>1
<1>3. IsFiniteSet(from) /\ Cardinality(from) = n + 1
  <2>1. 0 \in Int /\ n \in Int /\ n - 0 + 1 = n + 1 /\ ~(0 > n)
    OBVIOUS
  <2> QED
    BY <2>1, FS_Interval
<1>4. IsFiniteSet(to) /\ Cardinality(to) = n
  <2>1. 1 \in Int /\ n \in Int /\ n - 1 + 1 = n /\ (1 > n => n = 0)
    OBVIOUS
  <2> QED
    BY <2>1, FS_Interval
<1>5. Cardinality(to) < Cardinality(from)
  BY <1>3, <1>4
<1> HIDE DEF f, from, to
<1>6. PICK i \in from, j \in from : i # j /\ f[i] = f[j]
  BY <1>2, <1>3, <1>4, <1>5, FS_PigeonHole
<1> USE DEF f, from, to
<1>7. f[i] = (IF i \in S THEN i + 1 ELSE i) /\ f[j] = (IF j \in S THEN j + 1 ELSE j)
  OBVIOUS
<1> QED
  BY <1>6, <1>7
(* The run of a reader over a text is the function its definition describes. *)
Runs(text, s, n, f) ==
  f = [i \in 0..n |-> IF i = 0 THEN s ELSE Step(f[i - 1], text[i])]

LEMMA RunExists ==
  ASSUME NEW text, NEW s
  PROVE  \A n \in Nat : \E f : Runs(text, s, n, f)
<1> DEFINE S == {n \in Nat : \E f : Runs(text, s, n, f)}
<1>1. 0 \in S
  <2> DEFINE f == [i \in 0..0 |-> s]
  <2>1. f = [i \in 0..0 |-> IF i = 0 THEN s ELSE Step(f[i - 1], text[i])]
    OBVIOUS
  <2> QED
    BY <2>1 DEF Runs
<1>2. ASSUME NEW n \in Nat, n \in S PROVE n + 1 \in S
  <2>1. PICK f : Runs(text, s, n, f)
    BY <1>2
  <2> DEFINE g == [i \in 0..(n + 1) |-> IF i <= n THEN f[i] ELSE Step(f[n], text[n + 1])]
  <2>2. \A i \in 0..n : f[i] = IF i = 0 THEN s ELSE Step(f[i - 1], text[i])
    BY <2>1 DEF Runs
  <2>3. \A i \in 0..(n + 1) : g[i] = IF i = 0 THEN s ELSE Step(g[i - 1], text[i])
    <3> SUFFICES ASSUME NEW i \in 0..(n + 1)
                 PROVE  g[i] = IF i = 0 THEN s ELSE Step(g[i - 1], text[i])
      OBVIOUS
    <3>1. CASE i = 0
      BY <2>2, <3>1
    <3>2. CASE i \in 1..n
      <4>1. g[i] = f[i] /\ g[i - 1] = f[i - 1] /\ i \in 0..n /\ i # 0
        BY <3>2
      <4> HIDE DEF g
      <4>2. f[i] = Step(f[i - 1], text[i])
        BY <2>2, <4>1
      <4> QED
        BY <4>1, <4>2
    <3>3. CASE i = n + 1
      <4>1. g[i] = Step(f[n], text[n + 1]) /\ g[i - 1] = f[n] /\ i # 0
        BY <3>3
      <4> HIDE DEF g
      <4> QED
        BY <3>3, <4>1
    <3> QED
      BY <3>1, <3>2, <3>3
  <2>4. g = [i \in 0..(n + 1) |-> g[i]]
    OBVIOUS
  <2> HIDE DEF g
  <2>5. g = [i \in 0..(n + 1) |-> IF i = 0 THEN s ELSE Step(g[i - 1], text[i])]
    BY <2>3, <2>4
  <2> QED
    BY <2>5 DEF Runs
<1> HIDE DEF S
<1>3. Nat \subseteq S
  BY <1>1, <1>2, SetInduction
<1> QED
  BY <1>3 DEF S

LEMMA RunRuns ==
  ASSUME NEW text, Len(text) \in Nat, NEW l, NEW relaxed
  PROVE  Runs(text, Start(l, relaxed), Len(text), Run(text, l, relaxed))
<1>1. \E f : f = [i \in 0..Len(text) |-> IF i = 0 THEN Start(l, relaxed) ELSE Step(f[i - 1], text[i])]
  <2>1. \E f : Runs(text, Start(l, relaxed), Len(text), f)
    BY RunExists
  <2> QED
    BY <2>1 DEF Runs
<1>2. Run(text, l, relaxed) =
        CHOOSE f : f = [i \in 0..Len(text) |-> IF i = 0 THEN Start(l, relaxed) ELSE Step(f[i - 1], text[i])]
  BY DEF Run
<1> QED
  BY <1>1, <1>2 DEF Runs

(* the reader keeps the lexer in one of its states *)
HasLex(s) == "lex" \in DOMAIN s /\ s.lex \in LexState

LEMMA OpensStates ==
  ASSUME NEW c \in DOMAIN Opens
  PROVE  Opens[c] \in LexState
  BY DEF Opens, LexState

LEMMA FeedHasLex ==
  ASSUME NEW s, HasLex(s), NEW c, NEW l \in LexState
  PROVE  HasLex(Feed(s, c, l))
  BY DEF Feed, HasLex

LEMMA StepHasLex ==
  ASSUME NEW s, HasLex(s), NEW c
  PROVE  HasLex(Step(s, c))
<1>1. \A l \in LexState : HasLex(Feed(s, c, l))
  BY FeedHasLex
<1>2. {"INITIAL", "comment"} \subseteq LexState /\ (c \in DOMAIN Opens => Opens[c] \in LexState)
  BY OpensStates DEF LexState
<1> QED
  BY <1>1, <1>2 DEF Step, HasLex

LEMMA FinishHasLex ==
  ASSUME NEW s, HasLex(s)
  PROVE  HasLex(Finish(s))
  BY DEF Finish, HasLex

LEMMA ReadEndsInState ==
  ASSUME NEW text, Len(text) \in Nat, NEW l \in LexState, NEW relaxed
  PROVE  Read(text, l, relaxed).lex \in LexState
<1> DEFINE run == Run(text, l, relaxed)
           S == {n \in Nat : n <= Len(text) => HasLex(run[n])}
<1>1. \A i \in 0..Len(text) :
        run[i] = IF i = 0 THEN Start(l, relaxed) ELSE Step(run[i - 1], text[i])
  BY RunRuns DEF Runs
<1> HIDE DEF run
<1>2. 0 \in S
  <2>1. HasLex(Start(l, relaxed))
    BY DEF Start, HasLex
  <2> QED
    BY <1>1, <2>1
<1>3. ASSUME NEW n \in Nat, n \in S PROVE n + 1 \in S
  <2> SUFFICES ASSUME n + 1 <= Len(text) PROVE HasLex(run[n + 1])
    OBVIOUS
  <2>1. HasLex(run[n])
    BY <1>3
  <2>2. run[n + 1] = Step(run[n], text[n + 1])
    BY <1>1
  <2> QED
    BY <2>1, <2>2, StepHasLex
<1> HIDE DEF S
<1>4. Nat \subseteq S
  BY <1>2, <1>3, SetInduction
<1>5. HasLex(run[Len(text)])
  BY <1>4 DEF S
<1> QED
  BY <1>5, FinishHasLex DEF Read, run, HasLex
-------------------------------------------------------------------------------
(* all that texts are parsed to *)
Trees == {0} \cup {Outcome(t, l, relaxed).trees : t \in Text, l \in LexState, relaxed \in BOOLEAN}
Jobs == [at : {"idle", "parse", "store", "clear", "dead"}, text : Text, trees : Trees,
         doomed : SUBSET Key]

(* What lies in the directory: the trees some parse of the key's text gave.     *)
Shelves ==
  /\ lex \in [Process -> LexState]
  /\ job \in [Process -> Jobs] /\ DOMAIN files = Key
  /\ \A p \in Process : At(p, "store") => IsParse(KeyOf(p, job[p].text), job[p].trees)
  /\ FilesAreParses

(* Every text leaves the lexer in one of its states. *)
LEMMA ReadsEndInStates ==
  ASSUME NEW t \in Text, NEW l \in LexState, NEW relaxed \in BOOLEAN
  PROVE  Outcome(t, l, relaxed).lex \in LexState
<1>1. Content[t] \in Seq(Chunk)
  BY SessionAssumption
<1>2. Len(Content[t]) \in Nat
  BY <1>1, LenProperties
<1>3. Outcome(t, l, relaxed) = Read(Content[t], l, relaxed)
  <2> DEFINE x == <<t, l, relaxed>>
  <2>1. x \in Text \X LexState \X BOOLEAN /\ x[1] = t /\ x[2] = l /\ x[3] = relaxed
    OBVIOUS
  <2>2. Outcomes[x] = Read(Content[x[1]], x[2], x[3])
    BY <2>1 DEF Outcomes
  <2> QED
    BY <2>1, <2>2 DEF Outcome
<1> QED
  BY <1>2, <1>3, ReadEndsInState

LEMMA IdleIsAJob == Idle \in Jobs /\ Idle.at = "idle"
  BY SessionAssumption DEF Idle, Jobs, Trees

LEMMA ShelvesBegin == Init => Shelves
<1> SUFFICES ASSUME Init PROVE Shelves
  OBVIOUS
<1>1. Idle \in Jobs /\ Idle.at = "idle"
  BY IdleIsAJob
<1>2. lex \in [Process -> LexState]
  BY DEF Init, LexState
<1> QED
  BY <1>1, <1>2 DEF Init, Shelves, FilesAreParses, At

LEMMA KeysAreKeys ==
  ASSUME NEW p \in Process, NEW t \in Text
  PROVE  KeyOf(p, t) \in Key /\ KeyOf(p, t).text = t /\ KeyOf(p, t).relaxed = Relaxed[p]
  BY SessionAssumption DEF KeyOf, Key

LEMMA ParseFillsShelves ==
  ASSUME Shelves, NEW p \in Process, Parse(p)
  PROVE  Shelves'
<1> DEFINE r == Outcome(job[p].text, lex[p], Relaxed[p])
<1> HIDE DEF r
<1>1. /\ lex' = [lex EXCEPT ![p] = IF r.error = "none" THEN "INITIAL" ELSE r.lex]
      /\ job' = [job EXCEPT ![p] = IF r.error = "none" THEN [@ EXCEPT !.at = "store", !.trees = r.trees]
                                   ELSE Idle]
      /\ UNCHANGED files
  BY DEF Parse, r
<1>2. job[p].text \in Text /\ lex[p] \in LexState /\ Relaxed[p] \in BOOLEAN
  BY SessionAssumption DEF Shelves, Jobs
<1>3. lex' \in [Process -> LexState]
  <2>1. r.lex \in LexState
    BY <1>2, ReadsEndInStates DEF r
  <2> QED
    BY <1>1, <2>1 DEF Shelves, LexState
<1>4. r.trees \in Trees
  BY <1>2 DEF Trees, r
<1>5. job' \in [Process -> Jobs]
  <2>1. [job[p] EXCEPT !.at = "store", !.trees = r.trees] \in Jobs
    BY <1>4 DEF Shelves, Jobs
  <2> QED
    BY <1>1, <2>1, IdleIsAJob DEF Shelves
<1>6. ASSUME NEW q \in Process, At(q, "store")'
      PROVE  IsParse(KeyOf(q, job'[q].text), job'[q].trees)
  <2>1. CASE q # p
    <3>1. job'[q] = job[q]
      BY <1>1, <2>1 DEF Shelves
    <3> QED
      BY <1>6, <3>1 DEF Shelves, At
  <2>2. CASE q = p
    <3>1. job[p] \in Jobs
      BY DEF Shelves
    <3>2. r.error = "none"
      BY <1>1, <1>6, <2>2, IdleIsAJob DEF Shelves, At
    <3>3. job'[q].text = job[p].text /\ job'[q].trees = r.trees
      BY <1>1, <2>2, <3>1, <3>2 DEF Shelves, Jobs
    <3>4. IsParse(KeyOf(p, job[p].text), r.trees)
      BY <1>2, <3>2, KeysAreKeys DEF IsParse, r
    <3> QED
      BY <2>2, <3>3, <3>4
  <2> QED
    BY <2>1, <2>2
<1>7. DOMAIN files' = Key /\ FilesAreParses'
  BY <1>1 DEF Shelves, FilesAreParses
<1> QED
  BY <1>3, <1>5, <1>6, <1>7 DEF Shelves

(* The rest of the steps. *)
LEMMA JobsGoOn ==
  ASSUME Shelves, NEW p \in Process, UNCHANGED files, lex' \in [Process -> LexState],
         job' \in [Process -> Jobs],
         \A q \in Process : q # p => job'[q] = job[q],
         job'[p].at # "store"
  PROVE  Shelves'
  BY DEF Shelves, FilesAreParses, At

LEMMA StepFillsShelves ==
  ASSUME Shelves, [Next]_vars
  PROVE  Shelves'
<1>1. ASSUME NEW p \in Process, NEW t \in Text, Hit(p, t)
      PROVE  Shelves'
  BY <1>1 DEF Hit, Shelves, FilesAreParses, At
<1>2. ASSUME NEW p \in Process, NEW t \in Text, Miss(p, t)
      PROVE  Shelves'
  <2>1. [Idle EXCEPT !.at = "parse", !.text = t] \in Jobs
    BY IdleIsAJob DEF Jobs
  <2>2. [Idle EXCEPT !.at = "parse", !.text = t].at = "parse"
    BY IdleIsAJob DEF Jobs
  <2>3. /\ job' \in [Process -> Jobs]
        /\ \A q \in Process : q # p => job'[q] = job[q]
        /\ job'[p].at = "parse"
    BY <1>2, <2>1, <2>2 DEF Miss, Shelves
  <2> QED
    BY <1>2, <2>3, JobsGoOn DEF Miss, Shelves
<1>3. ASSUME NEW p \in Process, Store(p)
      PROVE  Shelves'
  <2>1. /\ job' \in [Process -> Jobs]
        /\ \A q \in Process : q # p => job'[q] = job[q]
        /\ job'[p].at = "idle"
        /\ lex' \in [Process -> LexState]
    BY <1>3, IdleIsAJob DEF Store, Shelves
  <2>2. CASE InMemory[p]
    BY <1>3, <2>1, <2>2, JobsGoOn DEF Store
  <2>3. CASE ~InMemory[p]
    <3> DEFINE k == KeyOf(p, job[p].text)
    <3>1. k \in Key /\ IsParse(k, job[p].trees)
      BY <1>3, KeysAreKeys DEF Store, Shelves, Jobs
    <3> HIDE DEF k
    <3>2. files' = [files EXCEPT ![k] = job[p].trees]
      BY <1>3, <2>3 DEF Store, k
    <3>3. FilesAreParses' /\ DOMAIN files' = Key
      BY <3>1, <3>2 DEF Shelves, FilesAreParses
    <3> QED
      BY <2>1, <3>3 DEF Shelves, At
  <2> QED
    BY <2>2, <2>3
<1>4. ASSUME NEW p \in Process, StoreFails(p)
      PROVE  Shelves'
  BY <1>4, IdleIsAJob, JobsGoOn DEF StoreFails, Shelves
<1>5. ASSUME NEW p \in Process, Clear(p)
      PROVE  Shelves'
  <2>1. CASE UNCHANGED job
    BY <1>5, <2>1 DEF Clear, Shelves, FilesAreParses, At
  <2>2. CASE job' = [job EXCEPT ![p] =
                      [Idle EXCEPT !.at = "clear", !.doomed = {k \in Key : files[k] # None}]]
    <3>1. [Idle EXCEPT !.at = "clear", !.doomed = {k \in Key : files[k] # None}] \in Jobs
      BY IdleIsAJob DEF Jobs
    <3>2. [Idle EXCEPT !.at = "clear", !.doomed = {k \in Key : files[k] # None}].at = "clear"
      BY IdleIsAJob DEF Jobs
    <3>3. /\ job' \in [Process -> Jobs]
          /\ \A q \in Process : q # p => job'[q] = job[q]
          /\ job'[p].at = "clear"
      BY <2>2, <3>1, <3>2 DEF Shelves
    <3> QED
      BY <1>5, <3>3, JobsGoOn DEF Clear, Shelves
  <2> QED
    BY <1>5, <2>1, <2>2 DEF Clear
<1>6. ASSUME NEW p \in Process, Unlink(p)
      PROVE  Shelves'
  <2>1. CASE job[p].doomed = {}
    BY <1>6, <2>1, IdleIsAJob, JobsGoOn DEF Unlink, Shelves
  <2>2. CASE job[p].doomed # {}
    <3>1. PICK k \in job[p].doomed :
            /\ files' = [files EXCEPT ![k] = None]
            /\ job' = [job EXCEPT ![p].doomed = @ \ {k}]
      BY <1>6, <2>2 DEF Unlink
    <3>2. /\ job' \in [Process -> Jobs]
          /\ \A q \in Process : q # p => job'[q] = job[q]
          /\ job'[p].at = "clear"
      BY <1>6, <3>1 DEF Unlink, Shelves, Jobs, At
    <3>3. FilesAreParses' /\ DOMAIN files' = Key
      BY <3>1 DEF Shelves, FilesAreParses
    <3> QED
      BY <1>6, <3>2, <3>3 DEF Unlink, Shelves, At
  <2> QED
    BY <2>1, <2>2
<1>7. ASSUME NEW p \in Process, Kill(p)
      PROVE  Shelves'
  <2>1. lex' \in [Process -> LexState]
    BY <1>7 DEF Kill, Shelves, LexState
  <2> QED
    BY <1>7, <2>1, IdleIsAJob, JobsGoOn DEF Kill, Shelves
<1>8. CASE UNCHANGED vars
  BY <1>8 DEF vars, Shelves, FilesAreParses, At
<1> QED
  BY <1>1, <1>2, <1>3, <1>4, <1>5, <1>6, <1>7, <1>8, ParseFillsShelves DEF Next

-------------------------------------------------------------------------------
(* Sequences from which one place is taken, or to which one is added. *)
LEMMA RemovedAt ==
  ASSUME NEW S, NEW s \in Seq(S), NEW m \in 1..Len(s)
  PROVE  /\ RemoveAt(s, m) \in Seq(S) /\ Len(RemoveAt(s, m)) = Len(s) - 1
         /\ \A i \in 1..(Len(s) - 1) : RemoveAt(s, m)[i] = IF i < m THEN s[i] ELSE s[i + 1]
<1> DEFINE a == SubSeq(s, 1, m - 1)
           b == SubSeq(s, m + 1, Len(s))
<1>0. Len(s) \in Nat /\ \A i \in 1..Len(s) : s[i] \in S
  BY ElementOfSeq
<1>1. /\ a \in Seq(S) /\ Len(a) = m - 1
      /\ \A i \in 1..(m - 1) : a[i] = s[i]
  <2>1. 1 \in Int /\ m - 1 \in Int /\ \A i \in 1..(m - 1) : s[i] \in S
    BY <1>0
  <2>2. /\ a \in Seq(S) /\ Len(a) = IF 1 <= m - 1 THEN (m - 1) - 1 + 1 ELSE 0
        /\ \A i \in 1..((m - 1) - 1 + 1) : a[i] = s[1 + i - 1]
    BY <2>1, SubSeqProperties
  <2> HIDE DEF a
  <2> QED
    BY <2>2
<1>2. /\ b \in Seq(S) /\ Len(b) = Len(s) - m
      /\ \A i \in 1..(Len(s) - m) : b[i] = s[m + i]
  <2>1. m + 1 \in Int /\ Len(s) \in Int /\ \A i \in (m + 1)..Len(s) : s[i] \in S
    BY <1>0
  <2>2. /\ b \in Seq(S) /\ Len(b) = IF m + 1 <= Len(s) THEN Len(s) - (m + 1) + 1 ELSE 0
        /\ \A i \in 1..(Len(s) - (m + 1) + 1) : b[i] = s[(m + 1) + i - 1]
    BY <2>1, SubSeqProperties
  <2> HIDE DEF b
  <2> QED
    BY <1>0, <2>2
<1>3. RemoveAt(s, m) = a \o b
  BY DEF RemoveAt
<1> HIDE DEF a, b
<1>4. /\ a \o b \in Seq(S) /\ Len(a \o b) = Len(a) + Len(b)
      /\ \A i \in 1..(Len(a) + Len(b)) : (a \o b)[i] = IF i <= Len(a) THEN a[i] ELSE b[i - Len(a)]
  BY <1>1, <1>2, ConcatProperties
<1>5. ASSUME NEW i \in 1..(Len(s) - 1)
      PROVE  (a \o b)[i] = IF i < m THEN s[i] ELSE s[i + 1]
  <2>1. (a \o b)[i] = IF i <= m - 1 THEN a[i] ELSE b[i - (m - 1)]
    BY <1>0, <1>1, <1>2, <1>4
  <2>2. CASE i < m
    BY <1>1, <2>1, <2>2
  <2>3. CASE ~(i < m)
    <3>1. i - (m - 1) \in 1..(Len(s) - m) /\ m + (i - (m - 1)) = i + 1
      BY <1>0, <2>3
    <3>2. b[i - (m - 1)] = s[m + (i - (m - 1))]
      BY <1>2, <3>1
    <3> QED
      BY <2>1, <2>3, <3>1, <3>2
  <2> QED
    BY <2>2, <2>3
<1> QED
  BY <1>0, <1>1, <1>2, <1>3, <1>4, <1>5

LEMMA ConsAt ==
  ASSUME NEW S, NEW s \in Seq(S), NEW k \in S
  PROVE  /\ <<k>> \o s \in Seq(S) /\ Len(<<k>> \o s) = Len(s) + 1
         /\ (<<k>> \o s)[1] = k
         /\ \A i \in 1..Len(s) : (<<k>> \o s)[i + 1] = s[i]
<1>1. <<k>> \in Seq(S) /\ Len(<<k>>) = 1 /\ <<k>>[1] = k /\ Len(s) \in Nat
  OBVIOUS
<1>2. /\ <<k>> \o s \in Seq(S) /\ Len(<<k>> \o s) = Len(<<k>>) + Len(s)
      /\ \A i \in 1..(Len(<<k>>) + Len(s)) :
           (<<k>> \o s)[i] = IF i <= Len(<<k>>) THEN <<k>>[i] ELSE s[i - Len(<<k>>)]
  BY <1>1, ConcatProperties
<1>3. \A i \in 1..(1 + Len(s)) :
        (<<k>> \o s)[i] = IF i <= 1 THEN <<k>>[i] ELSE s[i - 1]
  BY <1>1, <1>2
<1>4. (<<k>> \o s)[1] = k
  BY <1>1, <1>3
<1>5. ASSUME NEW i \in 1..Len(s) PROVE (<<k>> \o s)[i + 1] = s[i]
  <2>1. i + 1 \in 1..(1 + Len(s)) /\ ~(i + 1 <= 1) /\ (i + 1) - 1 = i
    BY <1>1
  <2> QED
    BY <1>3, <2>1
<1> QED
  BY <1>1, <1>2, <1>4, <1>5

(* how many of n the bound lets stay *)
Room(n) == IF Bound > 0 /\ n > Bound THEN Bound ELSE n

LEMMA KeptAt ==
  ASSUME NEW S, NEW s \in Seq(S)
  PROVE  /\ Kept(s) \in Seq(S) /\ Len(Kept(s)) = Room(Len(s))
         /\ \A i \in 1..Len(Kept(s)) : Kept(s)[i] = s[i + (Len(s) - Room(Len(s)))]
<1>0. Bound \in Nat /\ Len(s) \in Nat /\ \A i \in 1..Len(s) : s[i] \in S
  BY SessionAssumption, ElementOfSeq
<1>1. CASE ~(Bound > 0 /\ Len(s) > Bound)
  <2>1. Kept(s) = s /\ Room(Len(s)) = Len(s)
    BY <1>1 DEF Kept, Room
  <2> QED
    BY <1>0, <2>1
<1>2. CASE Bound > 0 /\ Len(s) > Bound
  <2> DEFINE a == Len(s) - Bound + 1
  <2>1. Kept(s) = SubSeq(s, a, Len(s)) /\ Room(Len(s)) = Bound
    BY <1>2 DEF Kept, Room
  <2>2. a \in Int /\ Len(s) \in Int /\ \A i \in a..Len(s) : s[i] \in S
    BY <1>0, <1>2
  <2>3. a <= Len(s) /\ Len(s) - a + 1 = Bound /\ \A i \in 1..Bound : a + i - 1 = i + (Len(s) - Bound)
    BY <1>0, <1>2
  <2> HIDE DEF a
  <2>4. /\ SubSeq(s, a, Len(s)) \in Seq(S)
        /\ Len(SubSeq(s, a, Len(s))) = IF a <= Len(s) THEN Len(s) - a + 1 ELSE 0
        /\ \A i \in 1..(Len(s) - a + 1) : SubSeq(s, a, Len(s))[i] = s[a + i - 1]
    BY <2>2, SubSeqProperties
  <2> QED
    BY <2>1, <2>3, <2>4
<1> QED
  BY <1>1, <1>2

(* an entry of a cache in memory *)
Entry == [key : Key, trees : Trees]
Distinct(s) == \A i, j \in 1..Len(s) : s[i] = s[j] => i = j

(* What the entries e are, the last used last, when the keys r were used, the   *)
(* last one first.                                                              *)
Mirrors(e, r) ==
  /\ e \in Seq(Entry) /\ r \in Seq(Key) /\ Distinct(r)
  /\ Len(e) = Room(Len(r))
  /\ \A i \in 1..Len(e) : e[i].key = r[Len(e) + 1 - i]

LEMMA RoomFacts ==
  ASSUME NEW n \in Nat
  PROVE  /\ Room(n) \in Nat /\ Room(n) <= n /\ (n > 0 => Room(n) > 0)
         /\ Room(Room(n)) = Room(n)
         /\ Room(n) < n => Room(n) = Bound /\ Bound > 0 /\ Room(Bound + 1) = Bound /\ Room(n + 1) = Bound
         /\ Room(n) = n => Room(n + 1) \in {n, n + 1} /\ Room(Room(n) + 1) = Room(n + 1)
  BY SessionAssumption DEF Room

(* the entries and the keys after a use *)
Using(e, new) == Kept(Append(Without(e, Keys(e), new.key), new))
Recalling(r, k) == <<k>> \o Without(r, r, k)

(* A use of k puts it at the end of the one and the head of the other; what is  *)
(* over the bound goes.                                                         *)
LEMMA UseMirrors ==
  ASSUME NEW e, NEW r, Mirrors(e, r), NEW new \in Entry
  PROVE  /\ Mirrors(Using(e, new), Recalling(r, new.key))
         /\ \A i \in 1..Len(Using(e, new)) :
              Using(e, new)[i] = new \/ \E j \in 1..Len(e) : Using(e, new)[i] = e[j]
<1> DEFINE e2 == Using(e, new)
           r2 == Recalling(r, new.key)
           k == new.key
           n == Len(e)
           L == Len(r)
           rest == Without(r, r, k)
           kept == Without(e, Keys(e), k)
           long == Append(kept, new)
<1>0. /\ k \in Key /\ n \in Nat /\ L \in Nat /\ n = Room(L) /\ n <= L
      /\ DOMAIN e = 1..n /\ DOMAIN r = 1..L /\ e \in Seq(Entry) /\ r \in Seq(Key)
  <2>1. k \in Key /\ e \in Seq(Entry) /\ r \in Seq(Key) /\ n = Room(L)
    BY DEF Entry, Mirrors
  <2>2. n \in Nat /\ L \in Nat /\ DOMAIN e = 1..n /\ DOMAIN r = 1..L
    BY <2>1, LenProperties
  <2> QED
    BY <2>1, <2>2, RoomFacts
<1>a. /\ \A i, j \in 1..L : r[i] = r[j] => i = j
      /\ \A i \in 1..n : Keys(e)[i] = r[n + 1 - i]
      /\ DOMAIN Keys(e) = 1..n
  BY <1>0 DEF Mirrors, Distinct, Keys
<1> HIDE DEF k
<1>r. /\ rest \in Seq(Key)
      /\ \/ /\ \A i \in 1..L : r[i] # k
            /\ rest = r
         \/ \E m \in 1..L :
              /\ r[m] = k /\ Len(rest) = L - 1
              /\ \A i \in 1..(L - 1) : rest[i] = IF i < m THEN r[i] ELSE r[i + 1]
  <2>1. CASE Holds(r, k)
    <3>1. PlaceOf(r, k) \in 1..L /\ r[PlaceOf(r, k)] = k
      BY <1>0, <2>1 DEF Holds, PlaceOf
    <3>2. rest = RemoveAt(r, PlaceOf(r, k))
      BY <2>1 DEF Without
    <3> QED
      BY <1>0, <3>1, <3>2, RemovedAt
  <2>2. CASE ~Holds(r, k)
    BY <1>0, <2>2 DEF Holds, Without
  <2> QED
    BY <2>1, <2>2
<1>e. /\ kept \in Seq(Entry)
      /\ \/ /\ \A i \in 1..n : Keys(e)[i] # k
            /\ kept = e
         \/ \E m \in 1..n :
              /\ Keys(e)[m] = k /\ Len(kept) = n - 1
              /\ \A i \in 1..(n - 1) : kept[i] = IF i < m THEN e[i] ELSE e[i + 1]
  <2>1. CASE Holds(Keys(e), k)
    <3>1. PlaceOf(Keys(e), k) \in 1..n /\ Keys(e)[PlaceOf(Keys(e), k)] = k
      BY <1>a, <2>1 DEF Holds, PlaceOf
    <3>2. kept = RemoveAt(e, PlaceOf(Keys(e), k))
      BY <2>1 DEF Without
    <3> QED
      BY <1>0, <3>1, <3>2, RemovedAt
  <2>2. CASE ~Holds(Keys(e), k)
    BY <1>0, <1>a, <2>2 DEF Holds, Without
  <2> QED
    BY <2>1, <2>2
<1>l. /\ long \in Seq(Entry) /\ Len(long) = Len(kept) + 1 /\ Len(kept) \in Nat
      /\ \A i \in 1..Len(kept) : long[i] = kept[i]
      /\ long[Len(kept) + 1] = new
  BY <1>e, AppendProperties, LenProperties
<1>f. /\ e2 \in Seq(Entry) /\ Len(e2) = Room(Len(long))
      /\ \A i \in 1..Len(e2) : e2[i] = long[i + (Len(long) - Room(Len(long)))]
  <2>1. e2 = Kept(long)
    BY DEF k, Using
  <2> HIDE DEF long, e2
  <2> QED
    BY <1>l, <2>1, KeptAt
<1>c. /\ r2 \in Seq(Key) /\ Len(r2) = Len(rest) + 1 /\ Len(rest) \in Nat
      /\ r2[1] = k
      /\ \A i \in 1..Len(rest) : r2[i + 1] = rest[i]
  <2>1. rest \in Seq(Key) /\ k \in Key /\ r2 = <<k>> \o rest
    BY <1>0, <1>r DEF k, Recalling
  <2> HIDE DEF rest, r2
  <2>2. Len(rest) \in Nat
    BY <2>1, LenProperties
  <2>3. /\ <<k>> \o rest \in Seq(Key) /\ Len(<<k>> \o rest) = Len(rest) + 1
        /\ (<<k>> \o rest)[1] = k
        /\ \A i \in 1..Len(rest) : (<<k>> \o rest)[i + 1] = rest[i]
    BY <2>1, ConsAt
  <2> QED
    BY <2>1, <2>2, <2>3
<1>p. long \in Seq(Entry) /\ kept \in Seq(Entry) /\ rest \in Seq(Key)
  BY <1>l, <1>e, <1>r
<1>n. Len(e) = n /\ Len(r) = L
  OBVIOUS
<1> HIDE DEF rest, kept, long, n, L, e2, r2
<1>d. \A i \in 1..Len(r2) : i # 1 => i - 1 \in 1..Len(rest) /\ r2[i] = rest[i - 1]
  <2> SUFFICES ASSUME NEW i \in 1..Len(r2), i # 1
               PROVE  i - 1 \in 1..Len(rest) /\ r2[i] = rest[i - 1]
    OBVIOUS
  <2>1. i - 1 \in 1..Len(rest) /\ (i - 1) + 1 = i
    BY <1>c
  <2> QED
    BY <1>c, <2>1
<1>g. Room(n) = n /\ Room(n + 1) \in {n, n + 1}
  <2>1. Room(Room(L)) = Room(L)
    BY <1>0, RoomFacts
  <2> QED
    BY <1>0, <2>1, RoomFacts
<1>1. \A i \in 1..Len(rest) : rest[i] # k
  BY <1>0, <1>a, <1>r
<1>2. \A i, j \in 1..Len(rest) : rest[i] = rest[j] => i = j
  <2>1. CASE rest = r
    BY <1>a, <1>n, <2>1
  <2>2. CASE \E m \in 1..L :
               /\ r[m] = k /\ Len(rest) = L - 1
               /\ \A i \in 1..(L - 1) : rest[i] = IF i < m THEN r[i] ELSE r[i + 1]
    <3>1. PICK m \in 1..L :
            /\ r[m] = k /\ Len(rest) = L - 1
            /\ \A i \in 1..(L - 1) : rest[i] = IF i < m THEN r[i] ELSE r[i + 1]
      BY <2>2
    <3>2. SUFFICES ASSUME NEW i \in 1..(L - 1), NEW j \in 1..(L - 1), rest[i] = rest[j]
                   PROVE  i = j
      BY <3>1
    <3> DEFINE a == IF i < m THEN i ELSE i + 1
               b == IF j < m THEN j ELSE j + 1
    <3>3. a \in 1..L /\ b \in 1..L
      BY <1>0
    <3>4. rest[i] = r[a] /\ rest[j] = r[b]
      BY <3>1
    <3>5. a = b => i = j
      BY <1>0
    <3> HIDE DEF a, b
    <3> QED
      BY <1>a, <3>2, <3>3, <3>4, <3>5
  <2> QED
    BY <1>r, <2>1, <2>2
<1>3. Distinct(r2)
  <2> SUFFICES ASSUME NEW i \in 1..Len(r2), NEW j \in 1..Len(r2), r2[i] = r2[j], i < j
               PROVE  FALSE
    BY <1>c DEF Distinct
  <2>1. j - 1 \in 1..Len(rest) /\ r2[j] = rest[j - 1]
    BY <1>d
  <2>2. CASE i = 1
    BY <1>1, <1>c, <2>1, <2>2
  <2>3. CASE i > 1
    <3>1. i - 1 \in 1..Len(rest) /\ r2[i] = rest[i - 1]
      BY <1>d, <2>3
    <3>2. i - 1 = j - 1 => i = j
      OBVIOUS
    <3> QED
      BY <1>2, <2>1, <3>1, <3>2
  <2> QED
    BY <1>c, <2>2, <2>3
<1>4. \A i \in 1..Len(kept) : \E j \in 1..n : kept[i] = e[j]
  BY <1>0, <1>e DEF n
<1>5. ASSUME NEW i \in 1..Len(e2) PROVE e2[i] = new \/ \E j \in 1..Len(e) : e2[i] = e[j]
  <2>1. Len(long) \in Nat /\ Room(Len(long)) <= Len(long) /\ Room(Len(long)) \in Nat
    BY <1>l, RoomFacts
  <2>2. i + (Len(long) - Room(Len(long))) \in 1..Len(long)
    BY <1>f, <2>1
  <2>3. \A x \in 1..Len(long) : long[x] = new \/ \E j \in 1..n : long[x] = e[j]
    <3> SUFFICES ASSUME NEW x \in 1..Len(long)
                 PROVE  long[x] = new \/ \E j \in 1..n : long[x] = e[j]
      OBVIOUS
    <3>1. CASE x = Len(kept) + 1
      BY <1>l, <3>1
    <3>2. CASE x # Len(kept) + 1
      <4>1. x \in 1..Len(kept)
        BY <1>l, <3>2
      <4> QED
        BY <1>4, <1>l, <4>1
    <3> QED
      BY <3>1, <3>2
  <2> QED
    BY <1>f, <1>n, <2>2, <2>3
<1>6. new.key = k
  BY DEF k
<1>7. \A i \in 1..n : e[i].key = r[n + 1 - i]
  BY DEF Mirrors, n
<1>8. Len(e2) = Room(Len(r2)) /\ \A i \in 1..Len(e2) : e2[i].key = r2[Len(e2) + 1 - i]
  <2>1. CASE \E m \in 1..n : Keys(e)[m] = k
    <3>1. PICK m \in 1..n : /\ Keys(e)[m] = k /\ Len(kept) = n - 1
                            /\ \A i \in 1..(n - 1) : kept[i] = IF i < m THEN e[i] ELSE e[i + 1]
      BY <1>e, <2>1
    <3>2. n + 1 - m \in 1..L /\ r[n + 1 - m] = k
      BY <1>0, <1>a, <3>1
    <3>3. /\ Len(rest) = L - 1
          /\ \A i \in 1..(L - 1) : rest[i] = IF i < n + 1 - m THEN r[i] ELSE r[i + 1]
      BY <1>0, <1>a, <1>r, <3>2
    <3>4. Len(long) = n /\ Len(e2) = n /\ Len(r2) = L
      BY <1>0, <1>c, <1>f, <1>l, <3>1, <3>3, RoomFacts
    <3>5. \A i \in 1..n : e2[i] = long[i]
      BY <1>0, <1>f, <1>g, <3>4
    <3>6. ASSUME NEW i \in 1..(n - 1) PROVE e2[i].key = r2[n + 1 - i]
      <4>1. e2[i] = IF i < m THEN e[i] ELSE e[i + 1]
        BY <1>0, <1>l, <3>1, <3>5
      <4>2. r2[n + 1 - i] = IF n - i < n + 1 - m THEN r[n - i] ELSE r[n - i + 1]
        <5>1. n - i \in 1..(L - 1) /\ (n - i) + 1 = n + 1 - i
          BY <1>0
        <5> QED
          BY <1>c, <3>3, <5>1
      <4>3. CASE i < m
        <5>1. ~(n - i < n + 1 - m) /\ e2[i] = e[i] /\ i \in 1..n
          BY <1>0, <4>1, <4>3
        <5>2. n - i + 1 = n + 1 - i
          BY <1>0
        <5> QED
          BY <1>7, <4>2, <5>1, <5>2
      <4>4. CASE ~(i < m)
        <5>1. n - i < n + 1 - m /\ e2[i] = e[i + 1] /\ i + 1 \in 1..n
          BY <1>0, <4>1, <4>4
        <5>2. n + 1 - (i + 1) = n - i
          BY <1>0
        <5> QED
          BY <1>7, <4>2, <5>1, <5>2
      <4> QED
        BY <4>3, <4>4
    <3>7. e2[n] = new /\ r2[n + 1 - n] = k
      <4>1. n + 1 - n = 1 /\ n \in 1..n /\ Len(kept) + 1 = n
        BY <1>0, <3>1
      <4>2. e2[n] = long[n]
        BY <3>5, <4>1
      <4>3. long[n] = new
        BY <1>l, <4>1
      <4> QED
        BY <1>c, <4>1, <4>2, <4>3
    <3>8. n \in Nat /\ \A i \in 1..n : i \in 1..(n - 1) \/ i = n
      BY <1>0
    <3>9. \A i \in 1..n : e2[i].key = r2[n + 1 - i]
      BY <1>6, <3>6, <3>7, <3>8
    <3> QED
      BY <1>0, <3>4, <3>9
  <2>2. CASE ~\E m \in 1..n : Keys(e)[m] = k
    <3>1. kept = e /\ Len(long) = n + 1
      BY <1>e, <1>l, <2>2 DEF n
    <3>2. \A i \in 1..n : r[i] # k
      <4>1. \A i \in 1..n : n + 1 - i \in 1..n /\ Keys(e)[n + 1 - i] = r[n + 1 - (n + 1 - i)]
                            /\ n + 1 - (n + 1 - i) = i
        BY <1>0, <1>a
      <4> QED
        BY <2>2, <4>1
    <3>3. \A i \in 1..n : i \in 1..Len(rest) /\ rest[i] = r[i]
      <4>1. CASE rest = r
        BY <1>0, <1>n, <4>1
      <4>2. CASE \E m \in 1..L :
                   /\ r[m] = k /\ Len(rest) = L - 1
                   /\ \A i \in 1..(L - 1) : rest[i] = IF i < m THEN r[i] ELSE r[i + 1]
        <5>1. PICK m \in 1..L :
                /\ r[m] = k /\ Len(rest) = L - 1
                /\ \A i \in 1..(L - 1) : rest[i] = IF i < m THEN r[i] ELSE r[i + 1]
          BY <4>2
        <5>2. m > n
          BY <1>0, <3>2, <5>1
        <5>3. \A i \in 1..n : i \in 1..(L - 1) /\ i < m
          BY <1>0, <5>2
        <5> QED
          BY <5>1, <5>3
      <4> QED
        BY <1>r, <4>1, <4>2
    <3>4. Len(r2) \in {L, L + 1} /\ (Len(r2) = L => n < L)
      <4>1. CASE rest = r
        BY <1>0, <1>c, <1>n, <4>1
      <4>2. CASE Len(rest) = L - 1 /\ \E m \in 1..L : r[m] = k
        BY <1>0, <1>c, <3>2, <4>2
      <4> QED
        BY <1>r, <4>1, <4>2
    <3>5. Room(Len(r2)) = Room(n + 1) /\ Room(n + 1) \in {n, n + 1}
      <4>1. Room(L) = n /\ L \in Nat /\ n \in Nat /\ n <= L
        BY <1>0
      <4>2. Room(L) = Room(n + 1) \/ n = L
        BY <4>1, SessionAssumption DEF Room
      <4>3. Room(L + 1) = Room(n + 1)
        BY <4>1, SessionAssumption DEF Room
      <4> QED
        BY <1>g, <3>4, <4>1, <4>2, <4>3
    <3>6. Len(e2) = Room(n + 1)
      BY <1>f, <3>1
    <3>7. ASSUME NEW i \in 1..Len(e2) PROVE e2[i].key = r2[Len(e2) + 1 - i]
      <4>1. CASE Len(e2) = n + 1
        <5>1. e2[i] = long[i]
          BY <1>f, <3>1, <3>6, <4>1
        <5>2. CASE i = n + 1
          <6>1. e2[i] = new
            BY <1>l, <1>n, <3>1, <5>1, <5>2
          <6>2. Len(e2) + 1 - i = 1
            BY <1>0, <4>1, <5>2
          <6> QED
            BY <1>6, <1>c, <6>1, <6>2
        <5>3. CASE i \in 1..n
          <6>1. e2[i] = e[i] /\ e[i].key = r[n + 1 - i] /\ n + 1 - i \in 1..n
            BY <1>0, <1>7, <1>l, <1>n, <3>1, <5>1, <5>3
          <6>2. r2[(n + 1 - i) + 1] = r[n + 1 - i] /\ (n + 1) + 1 - i = (n + 1 - i) + 1
            <7>1. rest[n + 1 - i] = r[n + 1 - i] /\ n + 1 - i \in 1..Len(rest)
              BY <3>3, <6>1
            <7> QED
              BY <1>0, <1>c, <7>1
          <6> QED
            BY <4>1, <6>1, <6>2
        <5>4. i = n + 1 \/ i \in 1..n
          BY <1>0, <4>1
        <5> QED
          BY <5>2, <5>3, <5>4
      <4>2. CASE Len(e2) = n
        <5>1. e2[i] = long[i + 1]
          BY <1>0, <1>f, <3>1, <3>6, <4>2
        <5>2. CASE i = n
          <6>1. e2[i] = new
            BY <1>l, <1>n, <3>1, <5>1, <5>2
          <6>2. Len(e2) + 1 - i = 1
            BY <1>0, <4>2, <5>2
          <6> QED
            BY <1>6, <1>c, <6>1, <6>2
        <5>3. CASE i \in 1..(n - 1)
          <6>1. e2[i] = e[i + 1] /\ e[i + 1].key = r[n + 1 - (i + 1)] /\ n + 1 - (i + 1) = n - i
                /\ n - i \in 1..n
            <7>1. i + 1 \in 1..n /\ n + 1 - (i + 1) = n - i /\ n - i \in 1..n
              BY <1>0, <5>3
            <7> QED
              BY <1>7, <1>l, <1>n, <3>1, <5>1, <7>1
          <6>2. r2[(n - i) + 1] = r[n - i] /\ (n - i) + 1 = n + 1 - i
            <7>1. rest[n - i] = r[n - i] /\ n - i \in 1..Len(rest)
              BY <3>3, <6>1
            <7> QED
              BY <1>0, <1>c, <7>1
          <6> QED
            BY <4>2, <6>1, <6>2
        <5>4. i = n \/ i \in 1..(n - 1)
          BY <1>0, <4>2
        <5> QED
          BY <5>2, <5>3, <5>4
      <4> QED
        BY <3>5, <3>6, <4>1, <4>2
    <3> QED
      BY <3>5, <3>6, <3>7
  <2> QED
    BY <2>1, <2>2
<1>9. Mirrors(e2, r2)
  BY <1>c, <1>f, <1>3, <1>8 DEF Mirrors
<1>10. \A i \in 1..Len(e2) : e2[i] = new \/ \E j \in 1..Len(e) : e2[i] = e[j]
  BY <1>5
<1> QED
  BY <1>9, <1>10 DEF e2, r2

-------------------------------------------------------------------------------
(* What a process kept in memory: the trees some parse gave, under the keys it   *)
(* used last, in the order of their use.                                         *)
Mirrored == \A p \in Process : Mirrors(entries[p], recent[p])
Parsed ==
  \A p \in Process : \A i \in 1..Len(entries[p]) :
    IsParse(entries[p][i].key, entries[p][i].trees)
MemoryInv ==
  /\ DOMAIN entries = Process /\ DOMAIN recent = Process
  /\ Mirrored /\ Parsed

LEMMA NothingMirrors == Mirrors(<<>>, <<>>) /\ Len(<<>>) = 0
<1>1. Len(<<>>) = 0 /\ <<>> \in Seq(Entry) /\ <<>> \in Seq(Key)
  OBVIOUS
<1>2. Room(0) = 0
  BY SessionAssumption DEF Room
<1> QED
  BY <1>1, <1>2 DEF Mirrors, Distinct

(* One process uses a key: the rest keep what they had. *)
LEMMA UseKeepsMemory ==
  ASSUME MemoryInv, NEW p \in Process, NEW new \in Entry, IsParse(new.key, new.trees),
         entries' = [entries EXCEPT ![p] = Using(entries[p], new)],
         recent' = [recent EXCEPT ![p] = Recalling(recent[p], new.key)]
  PROVE  MemoryInv'
<1> DEFINE e2 == Using(entries[p], new)
           r2 == Recalling(recent[p], new.key)
<1>1. Mirrors(entries[p], recent[p])
  BY DEF MemoryInv, Mirrored
<1>2. /\ Mirrors(e2, r2)
      /\ \A i \in 1..Len(e2) : e2[i] = new \/ \E j \in 1..Len(entries[p]) : e2[i] = entries[p][j]
  BY <1>1, UseMirrors
<1>3. entries' = [entries EXCEPT ![p] = e2] /\ recent' = [recent EXCEPT ![p] = r2]
  OBVIOUS
<1> HIDE DEF e2, r2
<1>4. DOMAIN entries' = Process /\ DOMAIN recent' = Process
  BY <1>3 DEF MemoryInv
<1>5. ASSUME NEW q \in Process
      PROVE  /\ Mirrors(entries'[q], recent'[q])
             /\ \A i \in 1..Len(entries'[q]) : IsParse(entries'[q][i].key, entries'[q][i].trees)
  <2>1. CASE q = p
    <3>1. entries'[q] = e2 /\ recent'[q] = r2
      BY <1>3, <2>1 DEF MemoryInv
    <3>2. \A i \in 1..Len(e2) : IsParse(e2[i].key, e2[i].trees)
      BY <1>2 DEF MemoryInv, Parsed
    <3> QED
      BY <1>2, <3>1, <3>2
  <2>2. CASE q # p
    <3>1. entries'[q] = entries[q] /\ recent'[q] = recent[q]
      BY <1>3, <2>2 DEF MemoryInv
    <3> QED
      BY <3>1 DEF MemoryInv, Mirrored, Parsed
  <2> QED
    BY <2>1, <2>2
<1>6. Mirrored'
  BY <1>5 DEF Mirrored
<1>7. Parsed'
  BY <1>5 DEF Parsed, IsParse
<1> QED
  BY <1>4, <1>6, <1>7 DEF MemoryInv

LEMMA EmptyKeepsMemory ==
  ASSUME MemoryInv, NEW p \in Process,
         entries' = [entries EXCEPT ![p] = <<>>], recent' = [recent EXCEPT ![p] = <<>>]
  PROVE  MemoryInv'
<1>1. DOMAIN entries' = Process /\ DOMAIN recent' = Process
  BY DEF MemoryInv
<1>2. ASSUME NEW q \in Process
      PROVE  /\ Mirrors(entries'[q], recent'[q])
             /\ \A i \in 1..Len(entries'[q]) : IsParse(entries'[q][i].key, entries'[q][i].trees)
  <2>1. CASE q = p
    <3>1. entries'[q] = <<>> /\ recent'[q] = <<>>
      BY <2>1 DEF MemoryInv
    <3> QED
      BY <3>1, NothingMirrors
  <2>2. CASE q # p
    <3>1. entries'[q] = entries[q] /\ recent'[q] = recent[q]
      BY <2>2 DEF MemoryInv
    <3> QED
      BY <3>1 DEF MemoryInv, Mirrored, Parsed
  <2> QED
    BY <2>1, <2>2
<1>3. Mirrored'
  BY <1>2 DEF Mirrored
<1>4. Parsed'
  BY <1>2 DEF Parsed, IsParse
<1> QED
  BY <1>1, <1>3, <1>4 DEF MemoryInv

(* An entry found is there, and moving it to the end leaves room. *)
LEMMA HitUses ==
  ASSUME MemoryInv, NEW p \in Process, NEW k \in Key, InMemory[p], Get(p, k) # None,
         Touch(p, k), Used(p, k)
  PROVE  MemoryInv'
<1> DEFINE e == entries[p]
           new == e[PlaceOf(Keys(e), k)]
           long == Append(Without(e, Keys(e), k), new)
<1>1. /\ e \in Seq(Entry) /\ Len(e) \in Nat /\ DOMAIN e = 1..Len(e)
      /\ recent[p] \in Seq(Key) /\ Len(e) = Room(Len(recent[p]))
  <2>1. Mirrors(e, recent[p])
    BY DEF MemoryInv, Mirrored
  <2>2. e \in Seq(Entry) /\ recent[p] \in Seq(Key) /\ Len(e) = Room(Len(recent[p]))
    BY <2>1 DEF Mirrors
  <2> QED
    BY <2>2, LenProperties
<1>2. Holds(Keys(e), k)
  BY DEF Get
<1>3. PlaceOf(Keys(e), k) \in 1..Len(e) /\ Keys(e)[PlaceOf(Keys(e), k)] = k
  BY <1>1, <1>2 DEF Holds, PlaceOf, Keys
<1>4. new \in Entry /\ new.key = k /\ IsParse(new.key, new.trees)
  <2>1. new \in Entry
    BY <1>1, <1>3, ElementOfSeq
  <2>2. new.key = k
    BY <1>1, <1>3 DEF Keys
  <2>3. IsParse(new.key, new.trees)
    BY <1>3 DEF MemoryInv, Parsed
  <2> QED
    BY <2>1, <2>2, <2>3
<1>5. Kept(long) = long
  <2>1. Without(e, Keys(e), k) \in Seq(Entry) /\ Len(Without(e, Keys(e), k)) = Len(e) - 1
    BY <1>1, <1>2, <1>3, RemovedAt DEF Without
  <2>2. Len(long) = Len(e)
    BY <1>1, <1>4, <2>1, AppendProperties
  <2>3. Len(recent[p]) \in Nat
    BY <1>1, LenProperties
  <2>4. Len(e) = Room(Len(e))
    BY <1>1, <2>3, RoomFacts
  <2>5. ~(Bound > 0 /\ Len(e) > Bound)
    BY <1>1, <2>4, SessionAssumption DEF Room
  <2> HIDE DEF long
  <2> QED
    BY <2>2, <2>5 DEF Kept
<1>6. entries' = [entries EXCEPT ![p] = Using(entries[p], new)]
  <2>1. entries' = [entries EXCEPT ![p] = long]
    BY DEF Touch
  <2>2. long = Using(entries[p], new)
    BY <1>4, <1>5 DEF Using
  <2> HIDE DEF long, new
  <2> QED
    BY <2>1, <2>2
<1>7. recent' = [recent EXCEPT ![p] = Recalling(recent[p], new.key)]
  BY <1>4 DEF Used, Recalling
<1> HIDE DEF new
<1> QED
  BY <1>4, <1>6, <1>7, UseKeepsMemory

LEMMA MemoryBegins == Init => MemoryInv
<1> SUFFICES ASSUME Init PROVE MemoryInv
  OBVIOUS
<1>1. \A p \in Process : entries[p] = <<>> /\ recent[p] = <<>>
  BY DEF Init
<1>2. DOMAIN entries = Process /\ DOMAIN recent = Process
  BY DEF Init
<1> QED
  BY <1>1, <1>2, NothingMirrors DEF MemoryInv, Mirrored, Parsed

LEMMA StepKeepsMemory ==
  ASSUME Shelves, MemoryInv, [Next]_vars
  PROVE  MemoryInv'
<1>1. ASSUME UNCHANGED <<entries, recent>>
      PROVE  MemoryInv'
  <2>1. entries' = entries /\ recent' = recent
    BY <1>1
  <2> QED
    BY <2>1 DEF MemoryInv, Mirrored, Parsed, IsParse
<1>2. ASSUME NEW p \in Process, NEW t \in Text, Hit(p, t)
      PROVE  MemoryInv'
  <2>1. CASE InMemory[p]
    <3>1. /\ Touch(p, KeyOf(p, t)) /\ Used(p, KeyOf(p, t))
          /\ Get(p, KeyOf(p, t)) # None
      BY <1>2, <2>1 DEF Hit
    <3> QED
      BY <2>1, <3>1, KeysAreKeys, HitUses
  <2>2. CASE ~InMemory[p]
    BY <1>1, <1>2, <2>2 DEF Hit
  <2> QED
    BY <2>1, <2>2
<1>3. ASSUME NEW p \in Process, Store(p)
      PROVE  MemoryInv'
  <2>1. CASE InMemory[p]
    <3> DEFINE k == KeyOf(p, job[p].text)
               new == [key |-> k, trees |-> job[p].trees]
    <3>1. At(p, "store") /\ Put(p, k, job[p].trees) /\ Used(p, k)
      BY <1>3, <2>1 DEF Store
    <3>2. job[p].text \in Text /\ job[p].trees \in Trees
      BY DEF Shelves, Jobs
    <3>3. k \in Key /\ IsParse(k, job[p].trees)
      BY <3>1, <3>2, KeysAreKeys DEF Shelves
    <3> HIDE DEF k
    <3>4. new \in Entry /\ new.key = k /\ new.trees = job[p].trees
      BY <3>2, <3>3 DEF Entry
    <3>5. entries' = [entries EXCEPT ![p] = Using(entries[p], new)]
      BY <3>1 DEF Put, Using
    <3>6. recent' = [recent EXCEPT ![p] = Recalling(recent[p], new.key)]
      BY <3>1 DEF Used, Recalling
    <3> HIDE DEF new
    <3>7. IsParse(new.key, new.trees)
      BY <3>3, <3>4
    <3> QED
      BY <3>4, <3>5, <3>6, <3>7, UseKeepsMemory
  <2>2. CASE ~InMemory[p]
    BY <1>1, <1>3, <2>2 DEF Store
  <2> QED
    BY <2>1, <2>2
<1>4. ASSUME NEW p \in Process, Clear(p)
      PROVE  MemoryInv'
  BY <1>1, <1>4, EmptyKeepsMemory DEF Clear
<1>5. ASSUME NEW p \in Process, Kill(p)
      PROVE  MemoryInv'
  BY <1>5, EmptyKeepsMemory DEF Kill
<1>6. ASSUME NEW p \in Process, NEW t \in Text, Miss(p, t)
      PROVE  MemoryInv'
  BY <1>1, <1>6 DEF Miss
<1>7. ASSUME NEW p \in Process, Parse(p) \/ StoreFails(p) \/ Unlink(p)
      PROVE  MemoryInv'
  BY <1>1, <1>7 DEF Parse, StoreFails, Unlink
<1>8. CASE UNCHANGED vars
  BY <1>1, <1>8 DEF vars
<1> QED
  BY <1>2, <1>3, <1>4, <1>5, <1>6, <1>7, <1>8 DEF Next

(* Whoever stores, clears or is killed, no process is handed trees of another    *)
(* text or of another dialect: what lies under a key, in the shared directory or *)
(* in memory, is what a parser of its dialect made of its text.                  *)
THEOREM HeldTreesAreParses == Spec => []EntriesAreParses
<1>1. Shelves /\ MemoryInv /\ [Next]_vars => (Shelves /\ MemoryInv)'
  BY StepFillsShelves, StepKeepsMemory
<1>2. Shelves /\ MemoryInv => EntriesAreParses
  <2> SUFFICES ASSUME Shelves, MemoryInv PROVE EntriesAreParses
    OBVIOUS
  <2>1. ASSUME NEW p \in Process
        PROVE  DOMAIN entries[p] = 1..Len(entries[p])
    <3>1. entries[p] \in Seq(Entry)
      BY DEF MemoryInv, Mirrored, Mirrors
    <3> QED
      BY <3>1, LenProperties
  <2> QED
    BY <2>1 DEF Shelves, MemoryInv, Parsed, EntriesAreParses
<1> QED
  BY <1>1, <1>2, ShelvesBegin, MemoryBegins, PTL DEF Spec

(* The shared directory's part of it, which needs no cache in memory. *)
THEOREM SharedTreesAreParses == Spec => []FilesAreParses
<1>1. Shelves /\ [Next]_vars => Shelves'
  BY StepFillsShelves
<1>2. Shelves => FilesAreParses
  BY DEF Shelves
<1> QED
  BY <1>1, <1>2, ShelvesBegin, PTL DEF Spec

(* A cache in memory holds the trees found or stored last, as many as its bound  *)
(* lets it and in the order of their use, however often it overflowed.           *)
THEOREM RecentTreesAreKept == Spec => []KeepsTheMostRecent
<1>1. Shelves /\ MemoryInv /\ [Next]_vars => (Shelves /\ MemoryInv)'
  BY StepFillsShelves, StepKeepsMemory
<1>2. Shelves /\ MemoryInv => KeepsTheMostRecent
  <2> SUFFICES ASSUME MemoryInv, NEW p \in Process
               PROVE  LET held == IF Bound > 0 /\ Len(recent[p]) > Bound
                                  THEN SubSeq(recent[p], 1, Bound) ELSE recent[p] IN
                      Keys(entries[p]) = Reverse(held)
    BY DEF KeepsTheMostRecent
  <2> DEFINE e == entries[p]
             r == recent[p]
             held == IF Bound > 0 /\ Len(r) > Bound THEN SubSeq(r, 1, Bound) ELSE r
  <2>1. Mirrors(e, r)
    BY DEF MemoryInv, Mirrored
  <2>2. /\ e \in Seq(Entry) /\ r \in Seq(Key) /\ Len(e) = Room(Len(r))
        /\ \A i \in 1..Len(e) : e[i].key = r[Len(e) + 1 - i]
    BY <2>1 DEF Mirrors
  <2>3. /\ Len(e) \in Nat /\ Len(r) \in Nat /\ DOMAIN e = 1..Len(e) /\ Bound \in Nat
        /\ \A i \in 1..Len(r) : r[i] \in Key
    BY <2>2, LenProperties, ElementOfSeq, SessionAssumption
  <2> HIDE DEF e, r
  <2>4. Len(held) = Len(e) /\ \A i \in 1..Len(e) : held[i] = r[i]
    <3>1. CASE ~(Bound > 0 /\ Len(r) > Bound)
      BY <2>2, <2>3, <3>1 DEF Room
    <3>2. CASE Bound > 0 /\ Len(r) > Bound
      <4>1. 1 \in Int /\ Bound \in Int /\ \A i \in 1..Bound : r[i] \in Key
        BY <2>3, <3>2
      <4>2. /\ Len(SubSeq(r, 1, Bound)) = IF 1 <= Bound THEN Bound - 1 + 1 ELSE 0
            /\ \A i \in 1..(Bound - 1 + 1) : SubSeq(r, 1, Bound)[i] = r[1 + i - 1]
        BY <4>1, SubSeqProperties
      <4>3. held = SubSeq(r, 1, Bound) /\ Len(e) = Bound
        BY <2>2, <3>2 DEF Room
      <4> QED
        BY <2>3, <3>2, <4>2, <4>3
    <3> QED
      BY <3>1, <3>2
  <2> HIDE DEF held
  <2>5. Keys(e) = [i \in 1..Len(e) |-> e[i].key]
    BY <2>3 DEF Keys
  <2>6. Reverse(held) = [i \in 1..Len(e) |-> held[(Len(e) - i) + 1]]
    BY <2>4 DEF Reverse
  <2>7. \A i \in 1..Len(e) : e[i].key = held[(Len(e) - i) + 1]
    <3> SUFFICES ASSUME NEW i \in 1..Len(e) PROVE e[i].key = held[(Len(e) - i) + 1]
      OBVIOUS
    <3>1. (Len(e) - i) + 1 \in 1..Len(e) /\ Len(e) + 1 - i = (Len(e) - i) + 1
      BY <2>3
    <3> QED
      BY <2>2, <2>4, <3>1
  <2>8. Keys(e) = Reverse(held)
    BY <2>5, <2>6, <2>7
  <2> QED
    BY <2>8 DEF e, r, held
<1> QED
  BY <1>1, <1>2, ShelvesBegin, MemoryBegins, PTL DEF Spec
================================================================================
