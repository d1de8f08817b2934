--------------------------- MODULE MibCompileProofs ---------------------------
(* Theorems about MibSources and MibCompile for every set of names and texts,  *)
(* every number of sources, every call and any number of calls.                *)
EXTENDS MibCompile, TLAPS

-------------------------------------------------------------------------------
(* The ranking of the copies. *)

(* Of two copies from different sources exactly one is ranked before the other:*)
(* _candidate_sources never leaves the choice open.                            *)
THEOREM BetterDecides ==
  ASSUME NEW c \in CallRecord, NEW K \in SUBSET Copy, NEW a \in K, NEW b \in K,
         a.src # b.src
  PROVE  Better(c, K, a, b) <=> ~Better(c, K, b, a)
<1>1. a.src \in Int /\ b.src \in Int
  BY SourcesAssumption DEF Copy, Source
<1>2. Revision[a.text] \in Int /\ Revision[b.text] \in Int
  BY SourcesAssumption DEF Copy
<1>3. IsBundled(c, a) \in BOOLEAN /\ IsBundled(c, b) \in BOOLEAN
  BY DEF IsBundled, CallRecord
<1>4. Earlier(c, a, b) <=> ~Earlier(c, b, a)
  BY <1>1, <1>3 DEF Earlier
<1> QED
  BY <1>2, <1>4 DEF Better

(* The ranking is transitive, so the copies of one name are put in one order,  *)
(* undated ones and a bundled one that steps back included.                    *)
THEOREM BetterIsTransitive ==
  ASSUME NEW c, NEW K \in SUBSET Copy, NEW a \in K, NEW b \in K, NEW d \in K,
         Better(c, K, a, b), Better(c, K, b, d)
  PROVE  Better(c, K, a, d)
<1>1. a.src \in Int /\ b.src \in Int /\ d.src \in Int
  BY SourcesAssumption DEF Copy, Source
<1>2. /\ Revision[a.text] \in Int /\ Revision[b.text] \in Int
      /\ Revision[d.text] \in Int
  BY SourcesAssumption DEF Copy
<1>3. ASSUME Earlier(c, a, b), Earlier(c, b, d) PROVE Earlier(c, a, d)
  BY <1>1, <1>3 DEF Earlier, IsBundled
<1>4. CASE AllDated(K)
  BY <1>1, <1>2, <1>3, <1>4 DEF Better
<1>5. CASE ~AllDated(K)
  BY <1>3, <1>5 DEF Better
<1> QED
  BY <1>4, <1>5

-------------------------------------------------------------------------------
(* Types. *)

LEMMA CandidatesAreCopies ==
  ASSUME NEW c \in CallRecord, NEW n \in Name
  PROVE  Candidates(c, n) \subseteq Copy
<1> SUFFICES ASSUME NEW s \in Source, Hit(c, n, s) PROVE CopyAt(c, n, s) \in Copy
  BY DEF Candidates
<1>1. c.holds[s][n] \in Answer
  BY DEF CallRecord
<1>2. c.holds[s][n] \in [text : Text, alias : Name]
  BY <1>1 DEF Hit, Answer
<1> QED
  BY <1>2 DEF CopyAt, Copy

LEMMA TextsAreTyped ==
  ASSUME NEW t \in Text
  PROVE  /\ Mib[t].declares \in SUBSET Name /\ Mib[t].appends \in Seq(Name)
         /\ Mib[t].whole \in BOOLEAN
BY CompileAssumption DEF MibRecord

LEMMA NothingIsTyped ==
  \A S : Nothing \in [Name -> S \cup {None}]
BY DEF Nothing

LEMMA StatusesAreTyped ==
  /\ \A st \in {"compiled", "untouched", "failed", "unprocessed", "missing", "borrowed"} :
       Plainly(st) \in Status
  /\ StatusBorrowed \in Status
BY DEF Plainly, StatusBorrowed, Status, Rule

LEMMA RivalsAreTyped ==
  ASSUME TypeOK, NEW n \in Name, NEW k \in Candidates(call, n)
  PROVE  /\ k \in Copy /\ Rivals(n, k) \subseteq Source
         /\ NoteRivals(n, k) \in [Name -> Shadow \cup {None}]
<1>1. Candidates(call, n) \subseteq Copy
  BY CandidatesAreCopies DEF TypeOK
<1>2. k.src \in Source /\ Rivals(n, k) \subseteq Source
  BY <1>1 DEF Copy, Rivals, Differing
<1>3. Precedence(Candidates(call, n)) \in Rule
  BY DEF Precedence, Rule
<1>4. [others |-> Rivals(n, k), rule |-> Precedence(Candidates(call, n)),
       used |-> k.src] \in Shadow
  BY <1>2, <1>3 DEF Shadow
<1> QED
  BY <1>1, <1>2, <1>4 DEF NoteRivals, TypeOK

(* What a text leaves behind is typed, also when it fails half way. *)
LEMMA TakenIsTyped ==
  ASSUME TypeOK, NEW k \in Untried, TakeDeclared(k)
  PROVE  /\ k \in Copy /\ lookup \in Name /\ queue' \in Seq(Name)
         /\ canon' \subseteq Name
         /\ parsed' \in [Name -> Copy \cup {None}]
         /\ tables' \in [Name -> Text \cup {None}]
         /\ shadow' \in [Name -> Shadow \cup {None}]
<1>1. lookup \in Name /\ k \in Candidates(call, lookup)
  BY DEF Untried, TypeOK
<1>2. Candidates(call, lookup) \subseteq Copy
  BY <1>1, CandidatesAreCopies DEF TypeOK
<1>3. k \in Copy /\ k.text \in Text /\ k.src \in Source
  BY <1>1, <1>2 DEF Copy
<1>4. queue' \in Seq(Name)
  BY <1>3, TextsAreTyped DEF TakeDeclared, TypeOK
<1>5. canon' \subseteq Name
  BY <1>3, TextsAreTyped DEF TakeDeclared, TypeOK
<1>6. parsed' \in [Name -> Copy \cup {None}] /\ tables' \in [Name -> Text \cup {None}]
  BY <1>3 DEF TakeDeclared, TypeOK
<1>7. Differing(Candidates(call, lookup), k.text) \subseteq Source
  BY <1>2 DEF Differing, Copy
<1>8. shadow[lookup] # None =>
        [others |-> Differing(Candidates(call, lookup), k.text),
         rule |-> shadow[lookup].rule, used |-> k.src] \in Shadow
  BY <1>1, <1>3, <1>7 DEF Shadow, TypeOK
<1>9. shadow' \in [Name -> Shadow \cup {None}]
  BY <1>8 DEF TakeDeclared, TypeOK
<1> QED
  BY <1>1, <1>3, <1>4, <1>5, <1>6, <1>9

LEMMA CompiledIsTyped ==
  ASSUME TypeOK, NEW m \in Name, NEW k \in Unit
  PROVE  Compiled(m, k) \in Status
<1>1. k.src \in Source \cup {0}
  BY DEF Unit, Copy, Loans
<1>2. ShadowOf(m).others \subseteq Source /\ ShadowOf(m).rule \in Rule
  BY DEF ShadowOf, TypeOK, Shadow, Rule
<1> QED
  BY <1>1, <1>2 DEF Compiled, Status

LEMMA AnnotatedIsTyped ==
  ASSUME TypeOK, NEW m \in Name
  PROVE  IF processed[m] = None THEN Annotated(m) = None ELSE Annotated(m) \in Status
<1>1. processed[m] \in Status \cup {None} /\ shadow[m] \in Shadow \cup {None}
  BY DEF TypeOK
<1> QED
  BY <1>1 DEF Annotated, Status, Shadow

(* The initial state is typed. *)
LEMMA InitTyped == Init => TypeOK
<1> SUFFICES ASSUME Init PROVE TypeOK
  OBVIOUS
<1>1. call \in CallRecord /\ disk \in [Name -> Output \cup {None}]
  BY CompileAssumption DEF Init
<1>2. call.request \in Seq(Name)
  BY <1>1 DEF CallRecord
<1> QED
  BY <1>1, <1>2, NothingIsTyped DEF Init, TypeOK, Phase

(* Every step keeps the types, one case for each action. *)
LEMMA NextTyped == TypeOK /\ [Next]_vars => TypeOK'
<1> SUFFICES ASSUME TypeOK, [Next]_vars PROVE TypeOK'
  OBVIOUS
<1> USE DEF sourceVars, outputVars, callVars
<1>1. CASE SkipSettled
  BY <1>1 DEF SkipSettled, TypeOK
<1>2. CASE Escape
  BY <1>2 DEF Escape, TypeOK, Phase
<1>3. CASE Conflict
  <2>1. Head(queue) \in Name /\ Tail(queue) \in Seq(Name)
    BY <1>3 DEF Conflict, TypeOK
  <2>2. shadow' \in [Name -> Shadow \cup {None}]
    BY <1>3, <2>1, RivalsAreTyped DEF Conflict
  <2> QED
    BY <1>3, <2>1, <2>2, StatusesAreTyped DEF Conflict, TypeOK
<1>4. CASE Missing
  BY <1>4, StatusesAreTyped DEF Missing, TypeOK
<1>5. CASE PickUp
  <2>1. Head(queue) \in Name /\ Tail(queue) \in Seq(Name)
    BY <1>5 DEF PickUp, TypeOK
  <2>2. shadow' \in [Name -> Shadow \cup {None}]
    BY <1>5, <2>1, RivalsAreTyped DEF PickUp
  <2> QED
    BY <1>5, <2>1, <2>2 DEF PickUp, TypeOK, Phase
<1>6. ASSUME NEW k \in Untried, Accept(k) PROVE TypeOK'
  <2>1. failed' \subseteq Name /\ processed' \in [Name -> Status \cup {None}]
    BY <1>6 DEF Accept, Forget, Unreport, TypeOK
  <2> QED
    BY <1>6, <2>1, TakenIsTyped DEF Accept, TypeOK, Phase
<1>7. ASSUME NEW k \in Untried, Reject(k) PROVE TypeOK'
  <2>1. TakeDeclared(k)
    BY <1>7 DEF Reject
  <2>2. k.src \in Source /\ lookup \in Name
    BY <2>1, TakenIsTyped DEF Copy
  <2>3. failed' \subseteq Name /\ processed' \in [Name -> Status \cup {None}]
    BY <1>7, <2>2, StatusesAreTyped DEF Reject, TypeOK
  <2>4. pc' \in Phase /\ lookup' \in Name \cup {None} /\ tried' \subseteq Source
    BY <1>7, <2>2 DEF Reject, TypeOK, Phase
  <2> QED
    BY <1>7, <2>1, <2>3, <2>4, TakenIsTyped DEF Reject, TypeOK
<1>8. CASE EndParse
  BY <1>8 DEF EndParse, TypeOK, Phase, Held
<1>9. ASSUME NEW m \in Name, CheckParsed(m) PROVE TypeOK'
  <2>1. \/ UNCHANGED <<parsed, processed>>
        \/ /\ parsed' = [parsed EXCEPT ![m] = None]
           /\ processed' = [processed EXCEPT ![m] = Plainly("untouched")]
    BY <1>9, Zenon DEF CheckParsed
  <2>2. /\ parsed' \in [Name -> Copy \cup {None}]
        /\ processed' \in [Name -> Status \cup {None}]
    BY <2>1, StatusesAreTyped DEF TypeOK
  <2>3. todo' = todo \ {m}
    BY <1>9 DEF CheckParsed
  <2>4. UNCHANGED <<pc, sourceVars, failed, borrowed, built, tables, canon,
                    shadow, tainted, outputVars, callVars>>
    BY <1>9, Zenon DEF CheckParsed
  <2> QED
    BY <2>2, <2>3, <2>4 DEF TypeOK
<1>10. CASE EndCheck
  BY <1>10 DEF EndCheck, TypeOK, Phase
<1>11. ASSUME NEW m \in Name, Generate(m) PROVE TypeOK'
  BY <1>11, StatusesAreTyped DEF Generate, TypeOK, Unit
<1>12. CASE EndGenerate
  BY <1>12 DEF EndGenerate, TypeOK, Phase
<1>13. ASSUME NEW m \in Name, Borrow(m) PROVE TypeOK'
  <2>1. call.lends[m] # None => Loan(m, call.lends[m]) \in Loans
    BY DEF TypeOK, CallRecord, Loan, Loans
  <2> QED
    BY <1>13, <2>1 DEF Borrow, TypeOK
<1>14. CASE EndBorrow
  BY <1>14 DEF EndBorrow, TypeOK, Phase
<1>15. ASSUME NEW m \in Name, CheckBorrowed(m) PROVE TypeOK'
  <2>1. \/ /\ processed' = [processed EXCEPT ![m] = Plainly("untouched")]
           /\ built' = built
        \/ /\ processed' = [processed EXCEPT ![m] = StatusBorrowed]
           /\ built' = [built EXCEPT ![m] = borrowed[m]]
    BY <1>15, Zenon DEF CheckBorrowed
  <2>2. borrowed[m] # None /\ borrowed' = [borrowed EXCEPT ![m] = None]
    BY <1>15 DEF CheckBorrowed
  <2>3. /\ built' \in [Name -> Unit \cup {None}]
        /\ borrowed' \in [Name -> Loans \cup {None}]
    BY <2>1, <2>2 DEF TypeOK, Unit
  <2>4. processed' \in [Name -> Status \cup {None}]
    BY <2>1, StatusesAreTyped DEF TypeOK
  <2>5. UNCHANGED <<pc, sourceVars, parsed, failed, tables, canon, shadow, todo,
                    tainted, outputVars, callVars>>
    BY <1>15, Zenon DEF CheckBorrowed
  <2> QED
    BY <2>3, <2>4, <2>5 DEF TypeOK
<1>16. CASE EndCheckBorrowed
  BY <1>16 DEF EndCheckBorrowed, TypeOK, Phase
<1>17. CASE Spread
  BY <1>17 DEF Spread, TypeOK, Spreading, Held
<1>18. CASE Omit
  BY <1>18, StatusesAreTyped DEF Omit, TypeOK, Phase
<1>19. ASSUME NEW m \in Name, Store(m) PROVE TypeOK'
  <2>1. built[m] \in Unit /\ built[m].text \in Output
    BY <1>19 DEF Store, TypeOK, Unit, Copy, Loans, Output
  <2>2. processed' \in [Name -> Status \cup {None}]
    BY <1>19, <2>1, CompiledIsTyped DEF Store, TypeOK
  <2>3. /\ disk' \in [Name -> Output \cup {None}]
        /\ wrote' \in [Name -> Unit \cup {None}]
    BY <1>19, <2>1 DEF Store, TypeOK
  <2> QED
    BY <1>19, <2>2, <2>3 DEF Store, TypeOK
<1>20. ASSUME NEW m \in Name, StoreFails(m) PROVE TypeOK'
  BY <1>20, StatusesAreTyped DEF StoreFails, TypeOK
<1>21. CASE EndStore
  BY <1>21 DEF EndStore, TypeOK, Phase
<1>22. CASE Report
  BY <1>22, AnnotatedIsTyped DEF Report, TypeOK, Phase
<1>23. CASE NextCall
  <2>1. PICK c \in Calls : Fresh(c)
    BY <1>23 DEF NextCall
  <2>2. c \in CallRecord /\ c.request \in Seq(Name)
    BY CompileAssumption DEF CallRecord
  <2> QED
    BY <1>23, <2>1, <2>2, NothingIsTyped DEF NextCall, Fresh, TypeOK, Phase
<1>24. CASE UNCHANGED vars
  BY <1>24 DEF vars, TypeOK
<1> QED
  BY <1>1, <1>2, <1>3, <1>4, <1>5, <1>6, <1>7, <1>8, <1>9, <1>10, <1>11, <1>12,
     <1>13, <1>14, <1>15, <1>16, <1>17, <1>18, <1>19, <1>20, <1>21, <1>22, <1>23,
     <1>24 DEF Next

(* Every reachable state is typed. *)
THEOREM TypeCorrect == Spec => []TypeOK
BY InitTyped, NextTyped, PTL DEF Spec

-------------------------------------------------------------------------------
(* What the output may be.  CleanOutput speaks of wrote, which only the store  *)
(* phase fills from built: so built must be clean when that phase begins, and  *)
(* nothing be written before it.  What a module is generated from is its own   *)
(* symbol table's text all the way from parsed to wrote.                       *)

Early == {"parse", "try", "check", "generate", "borrow", "checkBorrowed", "taint"}

NothingWrittenEarly ==
  /\ pc \in Early \cup {"raised"} => wrote = Nothing
  /\ pc \in {"parse", "try"} => built = Nothing

CleanToStore ==
  pc = "store" =>
    \A m \in Name : built[m] # None =>
      /\ wrote[m] = None /\ m \notin tainted
      /\ ImportsOf(m, built[m]) \cap tainted = {}

FromTable(m, k) == k # None => tables[m] = k.text \/ k.text \notin Text

TextsFollowTables ==
  \A m \in Name :
    /\ parsed[m] # None => tables[m] = parsed[m].text
    /\ FromTable(m, built[m]) /\ FromTable(m, wrote[m])

OutputInv ==
  /\ TypeOK /\ NothingWrittenEarly /\ CleanToStore
  /\ CleanOutput /\ TextsFollowTables

LEMMA LoansAreNoTexts == \A k \in Loans : k.text \notin Text
BY CompileAssumption DEF Loans

LEMMA OutputInit == Init => OutputInv
BY InitTyped DEF Init, OutputInv, NothingWrittenEarly, CleanToStore, CleanOutput,
   TextsFollowTables, FromTable, Nothing, Held, Early

(* a step of the phases before the store phase that writes nothing *)
LEMMA EarlyStep ==
  ASSUME OutputInv, TypeOK', pc \in Early, pc' \in Early \cup {"raised"},
         UNCHANGED wrote, pc' \in {"parse", "try"} => built' = Nothing
  PROVE  NothingWrittenEarly' /\ CleanToStore' /\ CleanOutput'
BY DEF OutputInv, NothingWrittenEarly, CleanToStore, CleanOutput, Early, Held, Nothing

LEMMA OutputNext == OutputInv /\ [Next]_vars => OutputInv'
<1> SUFFICES ASSUME OutputInv, [Next]_vars PROVE OutputInv'
  OBVIOUS
<1> USE DEF sourceVars, outputVars, callVars
<1>t. TypeOK /\ TypeOK'
  BY NextTyped DEF OutputInv
<1>1. CASE SkipSettled
  <2>1. TextsFollowTables'
    BY <1>1, <1>t DEF SkipSettled, OutputInv, TextsFollowTables, FromTable
  <2> QED
    BY <1>1, <1>t, <2>1, EarlyStep
    DEF SkipSettled, OutputInv, NothingWrittenEarly, Early
<1>2. CASE Escape
  <2>1. TextsFollowTables'
    BY <1>2, <1>t DEF Escape, OutputInv, TextsFollowTables, FromTable
  <2> QED
    BY <1>2, <1>t, <2>1, EarlyStep
    DEF Escape, OutputInv, NothingWrittenEarly, Early
<1>3. CASE Conflict
  <2>1. TextsFollowTables'
    BY <1>3, <1>t DEF Conflict, OutputInv, TextsFollowTables, FromTable
  <2> QED
    BY <1>3, <1>t, <2>1, EarlyStep
    DEF Conflict, OutputInv, NothingWrittenEarly, Early
<1>4. CASE Missing
  <2>1. TextsFollowTables'
    BY <1>4, <1>t DEF Missing, OutputInv, TextsFollowTables, FromTable
  <2> QED
    BY <1>4, <1>t, <2>1, EarlyStep
    DEF Missing, OutputInv, NothingWrittenEarly, Early
<1>5. CASE PickUp
  <2>1. TextsFollowTables'
    BY <1>5, <1>t DEF PickUp, OutputInv, TextsFollowTables, FromTable
  <2> QED
    BY <1>5, <1>t, <2>1, EarlyStep
    DEF PickUp, OutputInv, NothingWrittenEarly, Early
<1>6. ASSUME NEW k \in Untried, Accept(k) PROVE OutputInv'
  <2>1. TextsFollowTables'
    BY <1>6, <1>t DEF Accept, TakeDeclared, OutputInv, TextsFollowTables, FromTable,
       NothingWrittenEarly, Nothing, Early, TypeOK
  <2> QED
    BY <1>6, <1>t, <2>1, EarlyStep
    DEF Accept, OutputInv, NothingWrittenEarly, Early
<1>7. ASSUME NEW k \in Untried, Reject(k) PROVE OutputInv'
  <2>1. TextsFollowTables'
    BY <1>7, <1>t DEF Reject, TakeDeclared, OutputInv, TextsFollowTables, FromTable,
       NothingWrittenEarly, Nothing, Early, TypeOK
  <2> QED
    BY <1>7, <1>t, <2>1, EarlyStep
    DEF Reject, OutputInv, NothingWrittenEarly, Early
<1>8. CASE EndParse
  <2>1. TextsFollowTables'
    BY <1>8, <1>t DEF EndParse, OutputInv, TextsFollowTables, FromTable
  <2> QED
    BY <1>8, <1>t, <2>1, EarlyStep
    DEF EndParse, OutputInv, NothingWrittenEarly, Early
<1>9. ASSUME NEW m \in Name, CheckParsed(m) PROVE OutputInv'
  <2>1. TextsFollowTables'
    <3>1. \/ parsed' = parsed
          \/ parsed' = [parsed EXCEPT ![m] = None]
      BY <1>9, Zenon DEF CheckParsed
    <3>2. UNCHANGED <<tables, built, wrote>>
      BY <1>9, Zenon DEF CheckParsed
    <3> QED
      BY <3>1, <3>2, <1>t DEF OutputInv, TextsFollowTables, FromTable, TypeOK
  <2> QED
    BY <1>9, <1>t, <2>1, EarlyStep
    DEF CheckParsed, OutputInv, NothingWrittenEarly, Early
<1>10. CASE EndCheck
  <2>1. TextsFollowTables'
    BY <1>10, <1>t DEF EndCheck, OutputInv, TextsFollowTables, FromTable
  <2> QED
    BY <1>10, <1>t, <2>1, EarlyStep
    DEF EndCheck, OutputInv, NothingWrittenEarly, Early
<1>11. ASSUME NEW m \in Name, Generate(m) PROVE OutputInv'
  <2>1. TextsFollowTables'
    BY <1>11, <1>t DEF Generate, OutputInv, TextsFollowTables, FromTable, TypeOK
  <2> QED
    BY <1>11, <1>t, <2>1, EarlyStep
    DEF Generate, OutputInv, NothingWrittenEarly, Early
<1>12. CASE EndGenerate
  <2>1. TextsFollowTables'
    BY <1>12, <1>t DEF EndGenerate, OutputInv, TextsFollowTables, FromTable
  <2> QED
    BY <1>12, <1>t, <2>1, EarlyStep
    DEF EndGenerate, OutputInv, NothingWrittenEarly, Early
<1>13. ASSUME NEW m \in Name, Borrow(m) PROVE OutputInv'
  <2>1. TextsFollowTables'
    BY <1>13, <1>t DEF Borrow, OutputInv, TextsFollowTables, FromTable
  <2> QED
    BY <1>13, <1>t, <2>1, EarlyStep
    DEF Borrow, OutputInv, NothingWrittenEarly, Early
<1>14. CASE EndBorrow
  <2>1. TextsFollowTables'
    BY <1>14, <1>t DEF EndBorrow, OutputInv, TextsFollowTables, FromTable
  <2> QED
    BY <1>14, <1>t, <2>1, EarlyStep
    DEF EndBorrow, OutputInv, NothingWrittenEarly, Early
<1>15. ASSUME NEW m \in Name, CheckBorrowed(m) PROVE OutputInv'
  <2>1. TextsFollowTables'
    <3>1. built' = built \/ built' = [built EXCEPT ![m] = borrowed[m]]
      BY <1>15, Zenon DEF CheckBorrowed
    <3>2. borrowed[m] # None /\ UNCHANGED <<parsed, tables, wrote>>
      BY <1>15, Zenon DEF CheckBorrowed
    <3>3. borrowed[m].text \notin Text
      BY <3>2, <1>t, LoansAreNoTexts DEF TypeOK
    <3> QED
      BY <3>1, <3>2, <3>3, <1>t DEF OutputInv, TextsFollowTables, FromTable, TypeOK
  <2> QED
    BY <1>15, <1>t, <2>1, EarlyStep
    DEF CheckBorrowed, OutputInv, NothingWrittenEarly, Early
<1>16. CASE EndCheckBorrowed
  <2>1. TextsFollowTables'
    BY <1>16, <1>t DEF EndCheckBorrowed, OutputInv, TextsFollowTables, FromTable
  <2> QED
    BY <1>16, <1>t, <2>1, EarlyStep
    DEF EndCheckBorrowed, OutputInv, NothingWrittenEarly, Early
<1>17. CASE Spread
  <2>1. TextsFollowTables'
    BY <1>17, <1>t DEF Spread, OutputInv, TextsFollowTables, FromTable
  <2> QED
    BY <1>17, <1>t, <2>1, EarlyStep
    DEF Spread, OutputInv, NothingWrittenEarly, Early
<1>18. CASE Omit
  <2>1. CleanToStore'
    BY <1>18, <1>t DEF Omit, CleanToStore, OutputInv, NothingWrittenEarly, Early,
       Spreading, Held, Nothing, ImportsOf, TypeOK
  <2>2. NothingWrittenEarly' /\ CleanOutput'
    BY <1>18 DEF Omit, OutputInv, NothingWrittenEarly, CleanOutput, Early, Held
  <2>3. TextsFollowTables'
    BY <1>18 DEF Omit, OutputInv, TextsFollowTables, FromTable
  <2> QED
    BY <1>t, <2>1, <2>2, <2>3 DEF OutputInv
<1>19. ASSUME NEW m \in Name, Store(m) PROVE OutputInv'
  <2>1. CleanToStore'
    BY <1>19, <1>t DEF Store, CleanToStore, OutputInv, TypeOK, ImportsOf
  <2>2. NothingWrittenEarly'
    BY <1>19 DEF Store, NothingWrittenEarly, Early
  <2>3. CleanOutput'
    BY <1>19, <1>t DEF Store, CleanToStore, CleanOutput, OutputInv, Held, TypeOK, ImportsOf
  <2>4. TextsFollowTables'
    BY <1>19, <1>t DEF Store, OutputInv, TextsFollowTables, FromTable, TypeOK
  <2> QED
    BY <1>t, <2>1, <2>2, <2>3, <2>4 DEF OutputInv
<1>20. ASSUME NEW m \in Name, StoreFails(m) PROVE OutputInv'
  <2>1. CleanToStore' /\ CleanOutput'
    BY <1>20, <1>t DEF StoreFails, CleanToStore, CleanOutput, OutputInv, TypeOK,
       Held, ImportsOf
  <2>2. NothingWrittenEarly'
    BY <1>20 DEF StoreFails, NothingWrittenEarly, Early
  <2>3. TextsFollowTables'
    BY <1>20, <1>t DEF StoreFails, OutputInv, TextsFollowTables, FromTable, TypeOK
  <2> QED
    BY <1>t, <2>1, <2>2, <2>3 DEF OutputInv
<1>21. CASE EndStore
  BY <1>21, <1>t DEF EndStore, OutputInv, NothingWrittenEarly, CleanToStore, Early,
     CleanOutput, Held, TextsFollowTables, FromTable
<1>22. CASE Report
  BY <1>22, <1>t DEF Report, OutputInv, NothingWrittenEarly, CleanToStore, Early,
     CleanOutput, Held, TextsFollowTables, FromTable
<1>23. CASE NextCall
  BY <1>23, <1>t DEF NextCall, Fresh, OutputInv, NothingWrittenEarly, CleanToStore,
     CleanOutput, Held, TextsFollowTables, FromTable, Nothing
<1>24. CASE UNCHANGED vars
  BY <1>24, <1>t DEF vars, OutputInv, NothingWrittenEarly, CleanToStore, CleanOutput,
     Held, TextsFollowTables, FromTable, ImportsOf
<1> QED
  BY <1>1, <1>2, <1>3, <1>4, <1>5, <1>6, <1>7, <1>8, <1>9, <1>10, <1>11, <1>12,
     <1>13, <1>14, <1>15, <1>16, <1>17, <1>18, <1>19, <1>20, <1>21, <1>22, <1>23,
     <1>24 DEF Next

(* No module the writer got is, or imports, one that had failed or was omitted *)
(* when the writing began, in any call, whatever fails and in whatever order.  *)
THEOREM OutputIsClean == Spec => []CleanOutput
<1>1. OutputInv => CleanOutput
  BY DEF OutputInv
<1> QED
  BY <1>1, OutputInit, OutputNext, PTL DEF Spec

(* A module is generated from the text its own symbol table was built from.    *)
THEOREM TablesMatch == Spec => []GeneratedFromItsTable
<1>1. OutputInv => GeneratedFromItsTable
  BY DEF OutputInv, TextsFollowTables, FromTable, GeneratedFromItsTable
<1> QED
  BY <1>1, OutputInit, OutputNext, PTL DEF Spec

(* The output directory changes one module at a time and once a call, under    *)
(* the writer only.                                                            *)
THEOREM WriterOnly == Spec => OnlyTheWriterWrites
<1> DEFINE Turn == \A m \in Name : disk'[m] # disk[m] =>
             /\ pc = "store" /\ built[m] # None
             /\ \A n \in Name \ {m} : disk'[n] = disk[n]
             /\ wrote[m] = None
<1>1. OutputInv /\ [Next]_vars => [Turn]_vars
  <2> SUFFICES ASSUME OutputInv, Next PROVE Turn
    BY DEF vars
  <2> USE DEF outputVars
  <2>1. ASSUME NEW m \in Name, Store(m) \/ StoreFails(m) PROVE Turn
    BY <2>1 DEF Store, StoreFails, OutputInv, CleanToStore, TypeOK
  <2>2. CASE UNCHANGED disk
    BY <2>2
  <2> QED
    BY <2>1, <2>2 DEF Next, SkipSettled, Escape, Conflict, Missing, PickUp, Accept,
       Reject, EndParse, CheckParsed, EndCheck, Generate, EndGenerate, Borrow,
       EndBorrow, CheckBorrowed, EndCheckBorrowed, Spread, Omit, EndStore, Report,
       NextCall
<1> QED
  BY <1>1, OutputInit, OutputNext, PTL DEF Spec, OnlyTheWriterWrites

-------------------------------------------------------------------------------
(* Why a module is omitted.  While tainted grows, no set of modules in it that *)
(* have not failed themselves is held there by itself alone; the round that    *)
(* added the first of them found it importing something older.                 *)

Grounded ==
  pc = "taint" =>
    /\ failed \subseteq tainted /\ tainted \ failed \subseteq Held(built)
    /\ \A S \in SUBSET (tainted \ failed) : S # {} =>
         \E m \in S : TableImports(m) \cap (tainted \ S) # {}

NoneOmittedYet == pc \in Early \cup {"raised"} => Omitted = {}

CauseInv == OutputInv /\ Grounded /\ NoneOmittedYet /\ OmittedForCause

LEMMA CauseInit == Init => CauseInv
<1> SUFFICES ASSUME Init PROVE CauseInv
  OBVIOUS
<1>1. Omitted = {}
  BY DEF Init, Omitted, Has, Nothing
<1> QED
  BY <1>1, OutputInit DEF CauseInv, Grounded, NoneOmittedYet, OmittedForCause, Init

(* omitted modules may only turn into failed ones *)
LEMMA CauseKept ==
  ASSUME OmittedForCause, Omitted' \subseteq Omitted, failed \subseteq failed',
         failed \cup Omitted \subseteq failed' \cup Omitted', UNCHANGED tables
  PROVE  OmittedForCause'
<1> SUFFICES ASSUME NEW S \in SUBSET Omitted', S # {}
             PROVE  \E m \in S : \/ m \in failed'
                                 \/ TableImports(m)' \cap ((failed' \cup Omitted') \ S) # {}
  BY DEF OmittedForCause
<1>1. PICK m \in S : m \in failed \/ TableImports(m) \cap ((failed \cup Omitted) \ S) # {}
  BY DEF OmittedForCause
<1>2. TableImports(m)' = TableImports(m)
  BY DEF TableImports
<1> QED
  BY <1>1, <1>2

LEMMA SpreadGrounded ==
  ASSUME OutputInv, Grounded, Spread
  PROVE  Grounded'
<1>1. /\ tainted' = tainted \cup Spreading /\ UNCHANGED <<failed, built, tables>>
      /\ pc = "taint" /\ TypeOK
  BY DEF Spread, OutputInv
<1>2. Spreading \subseteq Held(built) \ tainted
  BY DEF Spreading
<1>3. ASSUME NEW m \in Spreading PROVE TableImports(m) \cap tainted # {}
  <2>1. ImportsOf(m, built[m]) \cap tainted # {} /\ m \in Name /\ built[m] # None
    BY DEF Spreading, Held
  <2>2. built[m].text \in Text /\ tables[m] = built[m].text
    BY <2>1 DEF ImportsOf, OutputInv, TextsFollowTables, FromTable
  <2> QED
    BY <2>1, <2>2, SourcesAssumption DEF ImportsOf, TableImports
<1>4. ASSUME NEW S \in SUBSET (tainted' \ failed), S # {}
      PROVE  \E m \in S : TableImports(m) \cap (tainted' \ S) # {}
  <2>1. CASE S \cap tainted = {}
    <3>1. PICK m \in S : m \in Spreading
      BY <1>1, <1>4, <2>1
    <3> QED
      BY <1>1, <1>3, <2>1, <3>1
  <2>2. CASE S \cap tainted # {}
    <3>1. S \cap tainted \in SUBSET (tainted \ failed)
      OBVIOUS
    <3>2. PICK m \in S \cap tainted : TableImports(m) \cap (tainted \ (S \cap tainted)) # {}
      BY <1>1, <2>2, <3>1 DEF Grounded
    <3> QED
      BY <1>1, <3>2
  <2> QED
    BY <2>1, <2>2
<1>5. \A m \in Name : TableImports(m)' = TableImports(m)
  BY <1>1 DEF TableImports
<1>6. tainted' \subseteq Name /\ Held(built)' = Held(built)
  BY <1>1, <1>2 DEF TypeOK, Held
<1> QED
  BY <1>1, <1>2, <1>4, <1>5, <1>6 DEF Grounded

LEMMA OmitForCause ==
  ASSUME OutputInv, Grounded, NoneOmittedYet, Omit
  PROVE  OmittedForCause'
<1>1. pc = "taint" /\ UNCHANGED <<failed, tables>> /\ TypeOK
  BY DEF Omit, OutputInv
<1>2. Omitted' = tainted \cap Held(built)
  <2>1. \A m \in tainted \cap Held(built) : processed'[m] = Plainly("unprocessed")
    BY <1>1 DEF Omit, TypeOK
  <2>2. \A m \in tainted \cap Held(built) : Has(m, "unprocessed")'
    <3>1. Plainly("unprocessed") \in Status /\ Plainly("unprocessed").st = "unprocessed"
      BY StatusesAreTyped DEF Plainly
    <3> QED
      BY <2>1, <3>1, CompileAssumption DEF Has
  <2>3. \A m \in Name \ (tainted \cap Held(built)) : processed'[m] = processed[m]
    BY DEF Omit
  <2>4. Omitted = {}
    BY <1>1 DEF NoneOmittedYet, Early
  <2> QED
    BY <2>2, <2>3, <2>4 DEF Omitted, Has, Held
<1> SUFFICES ASSUME NEW S \in SUBSET Omitted', S # {}, S \cap failed = {}
             PROVE  \E m \in S : TableImports(m) \cap ((failed \cup Omitted') \ S) # {}
  <2>1. \A m \in Name : TableImports(m)' = TableImports(m)
    BY <1>1 DEF TableImports
  <2>2. Omitted' \subseteq Name
    BY DEF Omitted
  <2> QED
    BY <1>1, <2>1, <2>2 DEF OmittedForCause
<1>3. S \in SUBSET (tainted \ failed)
  BY <1>2
<1>4. PICK m \in S : TableImports(m) \cap (tainted \ S) # {}
  BY <1>1, <1>3 DEF Grounded
<1>5. tainted \subseteq failed \cup Omitted'
  BY <1>1, <1>2 DEF Grounded
<1> QED
  BY <1>4, <1>5

(* the phases before the omission set no module to "unprocessed" *)
Otherwise ==
  {None, StatusBorrowed} \cup
  {Plainly(st) : st \in {"failed", "missing", "untouched"}}

LEMMA StillNoneOmitted ==
  ASSUME Omitted = {},
         \A m \in Name : processed'[m] = processed[m] \/ processed'[m] \in Otherwise
  PROVE  Omitted' = {}
<1>1. ASSUME NEW p \in Otherwise, p # None PROVE p.st # "unprocessed"
  <2>1. CASE p = StatusBorrowed
    BY <2>1 DEF StatusBorrowed
  <2>2. ASSUME NEW st \in {"failed", "missing", "untouched"}, p = Plainly(st)
        PROVE  p.st # "unprocessed"
    BY <2>2 DEF Plainly
  <2> QED
    BY <1>1, <2>1, <2>2 DEF Otherwise
<1> QED
  BY <1>1 DEF Omitted, Has

LEMMA CauseEarly ==
  ASSUME CauseInv, OutputInv', pc \in Early, pc' \in (Early \ {"taint"}) \cup {"raised"},
         \A m \in Name : processed'[m] = processed[m] \/ processed'[m] \in Otherwise
  PROVE  CauseInv'
<1>1. Omitted' = {}
  BY StillNoneOmitted DEF CauseInv, NoneOmittedYet
<1> QED
  BY <1>1 DEF CauseInv, Grounded, NoneOmittedYet, OmittedForCause, Early

(* once the writer runs, a module is at most reported failed on top of what it was *)
LEMMA CauseLate ==
  ASSUME CauseInv, OutputInv', pc' \in {"store", "report", "done"},
         Omitted' \subseteq Omitted, failed \subseteq failed',
         Omitted \subseteq failed' \cup Omitted', UNCHANGED tables
  PROVE  CauseInv'
<1>1. OmittedForCause'
  BY CauseKept DEF CauseInv
<1> QED
  BY <1>1 DEF CauseInv, Grounded, NoneOmittedYet, Early

LEMMA CauseNext == CauseInv /\ [Next]_vars => CauseInv'
<1> SUFFICES ASSUME CauseInv, [Next]_vars PROVE CauseInv'
  OBVIOUS
<1>o. OutputInv' /\ OutputInv /\ TypeOK /\ TypeOK'
  BY OutputNext DEF CauseInv, OutputInv
<1>p. Grounded /\ NoneOmittedYet /\ OmittedForCause
  BY DEF CauseInv
<1> USE DEF sourceVars, outputVars, callVars
<1>1. CASE SkipSettled
  BY <1>1, <1>o, CauseEarly DEF SkipSettled, Early, TypeOK, Otherwise
<1>2. CASE Escape
  BY <1>2, <1>o, CauseEarly DEF Escape, Early, TypeOK, Otherwise
<1>3. CASE Conflict
  BY <1>3, <1>o, CauseEarly DEF Conflict, Early, TypeOK, Otherwise
<1>4. CASE Missing
  BY <1>4, <1>o, CauseEarly DEF Missing, Early, TypeOK, Otherwise
<1>5. CASE PickUp
  BY <1>5, <1>o, CauseEarly DEF PickUp, Early, TypeOK, Otherwise
<1>6. ASSUME NEW k \in Untried, Accept(k) PROVE CauseInv'
  BY <1>6, <1>o, CauseEarly DEF Accept, Unreport, Early, TypeOK, Otherwise
<1>7. ASSUME NEW k \in Untried, Reject(k) PROVE CauseInv'
  BY <1>7, <1>o, CauseEarly DEF Reject, Early, TypeOK, Otherwise
<1>8. CASE EndParse
  BY <1>8, <1>o, CauseEarly DEF EndParse, Early, TypeOK, Otherwise
<1>9. ASSUME NEW m \in Name, CheckParsed(m) PROVE CauseInv'
  BY <1>9, <1>o, CauseEarly DEF CheckParsed, Early, TypeOK, Otherwise
<1>10. CASE EndCheck
  BY <1>10, <1>o, CauseEarly DEF EndCheck, Early, TypeOK, Otherwise
<1>11. ASSUME NEW m \in Name, Generate(m) PROVE CauseInv'
  BY <1>11, <1>o, CauseEarly DEF Generate, Early, TypeOK, Otherwise
<1>12. CASE EndGenerate
  BY <1>12, <1>o, CauseEarly DEF EndGenerate, Early, TypeOK, Otherwise
<1>13. ASSUME NEW m \in Name, Borrow(m) PROVE CauseInv'
  BY <1>13, <1>o, CauseEarly DEF Borrow, Early, TypeOK, Otherwise
<1>14. CASE EndBorrow
  BY <1>14, <1>o, CauseEarly DEF EndBorrow, Early, TypeOK, Otherwise
<1>15. ASSUME NEW m \in Name, CheckBorrowed(m) PROVE CauseInv'
  BY <1>15, <1>o, CauseEarly, ZenonT(60) DEF CheckBorrowed, Early, TypeOK, Otherwise
<1>16. CASE EndCheckBorrowed
  <2>1. Grounded'
    BY <1>16, <1>o DEF EndCheckBorrowed, Grounded
  <2>2. pc' = "taint" /\ Omitted' = {}
    BY <1>16, <1>p DEF EndCheckBorrowed, NoneOmittedYet, Early, Omitted, Has
  <2> QED
    BY <1>o, <2>1, <2>2 DEF CauseInv, NoneOmittedYet, OmittedForCause
<1>17. CASE Spread
  <2>1. Grounded'
    BY <1>17, <1>o, <1>p, SpreadGrounded
  <2>2. pc' = "taint" /\ Omitted' = {}
    BY <1>17, <1>p DEF Spread, NoneOmittedYet, Early, Omitted, Has
  <2> QED
    BY <1>o, <2>1, <2>2 DEF CauseInv, NoneOmittedYet, OmittedForCause
<1>18. CASE Omit
  <2>1. OmittedForCause'
    BY <1>18, <1>o, <1>p, OmitForCause
  <2> QED
    BY <1>18, <1>o, <2>1 DEF CauseInv, Omit, Grounded, NoneOmittedYet, Early
<1>19. ASSUME NEW m \in Name, Store(m) PROVE CauseInv'
  <2>1. Omitted' = Omitted
    BY <1>19, <1>o DEF Store, TypeOK, Omitted, Has, Compiled
  <2> QED
    BY <1>19, <1>o, <2>1, CauseLate DEF Store
<1>20. ASSUME NEW m \in Name, StoreFails(m) PROVE CauseInv'
  <2>1. Omitted' \subseteq Omitted /\ Omitted \subseteq Omitted' \cup {m}
    BY <1>20, <1>o DEF StoreFails, TypeOK, Omitted, Has, Plainly
  <2> QED
    BY <1>20, <1>o, <2>1, CauseLate DEF StoreFails
<1>21. CASE EndStore
  <2>1. Omitted' = Omitted
    BY <1>21 DEF EndStore, Omitted, Has
  <2> QED
    BY <1>21, <1>o, <2>1, CauseLate DEF EndStore
<1>22. CASE Report
  <2>1. ASSUME NEW m \in Name PROVE Has(m, "unprocessed")' <=> Has(m, "unprocessed")
    <3>1. processed'[m] = Annotated(m) /\ processed[m] \in Status \cup {None}
      BY <1>22, <1>o DEF Report, TypeOK
    <3>2. Annotated(m) = None <=> processed[m] = None
      BY <3>1, <1>o, AnnotatedIsTyped, CompileAssumption DEF Annotated
    <3>3. processed[m] # None => Annotated(m).st = processed[m].st
      BY <3>1 DEF Annotated, Status
    <3> QED
      BY <3>1, <3>2, <3>3 DEF Has
  <2> QED
    BY <1>22, <1>o, <2>1, CauseLate DEF Report, Omitted
<1>23. CASE NextCall
  <2>1. pc' = "parse" /\ Omitted' = {}
    BY <1>23 DEF NextCall, Fresh, Omitted, Has, Nothing
  <2> QED
    BY <1>o, <2>1 DEF CauseInv, Grounded, NoneOmittedYet, OmittedForCause
<1>24. CASE UNCHANGED vars
  BY <1>24, <1>o, <1>p DEF vars, CauseInv, Grounded, NoneOmittedYet, OmittedForCause,
     Omitted, Has, TableImports, Held
<1> QED
  BY <1>1, <1>2, <1>3, <1>4, <1>5, <1>6, <1>7, <1>8, <1>9, <1>10, <1>11, <1>12, <1>13, <1>14, <1>15, <1>16, <1>17, <1>18, <1>19, <1>20, <1>21, <1>22, <1>23, <1>24 DEF Next

(* Every module omitted for what it imports is the start of a chain of imports *)
(* through omitted modules that ends in a failed one: the unit of failure is   *)
(* the module, whatever imports whatever, cycles included.                     *)
THEOREM OmissionHasCause == Spec => []OmittedForCause
<1>1. CauseInv => OmittedForCause
  BY DEF CauseInv
<1> QED
  BY <1>1, CauseInit, CauseNext, PTL DEF Spec

-------------------------------------------------------------------------------
(* What compile() reports and what it writes, for every set of names and      *)
(* texts, every call and any number of calls one after the other.              *)

Looking == {"parse", "try"}
Closing == {"store", "report", "done"}

-------------------------------------------------------------------------------
(* The dictionaries of the call are filled and emptied in turn.                *)
Turns ==
  /\ pc = "parse" => lookup = None
  /\ pc = "try" => lookup # None
  /\ pc \in Looking \cup {"check", "raised"} => built = Nothing
  /\ pc \notin Looking \cup {"check", "generate", "raised"} => parsed = Nothing
  /\ pc \notin {"borrow", "checkBorrowed"} => borrowed = Nothing
  /\ pc \in {"report", "done"} => built = Nothing
  /\ \A m \in Name : parsed[m] = None \/ built[m] = None
  /\ pc = "check" => todo \subseteq Held(parsed)
  /\ pc = "borrow" => todo \subseteq failed
  /\ pc \in Early \cup {"raised"} => disk = before /\ wrote = Nothing

(* At the start of a call the dictionaries are empty. *)
LEMMA TurnsInit == Init => Turns
BY DEF Init, Turns, Looking, Early, Nothing

(* What is at the head of the queue is a name. *)
LEMMA HeadIsAName ==
  ASSUME TypeOK, queue # <<>>
  PROVE  Head(queue) \in Name /\ Head(queue) # None /\ Tail(queue) \in Seq(Name)
BY SourcesAssumption DEF TypeOK

(* No phase begins before the one before it has emptied its dictionary. *)
LEMMA TurnsNext == TypeOK /\ Turns /\ [Next]_vars => Turns'
<1> SUFFICES ASSUME TypeOK, Turns, [Next]_vars PROVE Turns'
  OBVIOUS
<1> USE DEF sourceVars, outputVars, callVars, Looking, Early
<1>1. CASE SkipSettled
  BY <1>1 DEF SkipSettled, Turns
<1>2. CASE Escape
  BY <1>2 DEF Escape, Turns
<1>3. CASE Conflict
  BY <1>3 DEF Conflict, Turns
<1>4. CASE Missing
  BY <1>4 DEF Missing, Turns
<1>5. CASE PickUp
  BY <1>5, HeadIsAName DEF PickUp, Turns
<1>6. ASSUME NEW k \in Untried, Accept(k) PROVE Turns'
  BY <1>6 DEF Accept, TakeDeclared, Nothing, Turns
<1>7. ASSUME NEW k \in Untried, Reject(k) PROVE Turns'
  BY <1>7 DEF Reject, TakeDeclared, Untried, Nothing, Turns
<1>8. CASE EndParse
  BY <1>8 DEF EndParse, Held, Turns
<1>9. ASSUME NEW m \in Name, CheckParsed(m) PROVE Turns'
  BY <1>9, ZenonT(60) DEF CheckParsed, Nothing, TypeOK, Held, Turns
<1>10. CASE EndCheck
  BY <1>10 DEF EndCheck, Turns
<1>11. ASSUME NEW m \in Name, Generate(m) PROVE Turns'
  BY <1>11 DEF Generate, TypeOK, Turns
<1>12. CASE EndGenerate
  BY <1>12 DEF EndGenerate, Turns
<1>13. ASSUME NEW m \in Name, Borrow(m) PROVE Turns'
  BY <1>13 DEF Borrow, TypeOK, Turns
<1>14. CASE EndBorrow
  BY <1>14 DEF EndBorrow, Turns
<1>15. ASSUME NEW m \in Name, CheckBorrowed(m) PROVE Turns'
  BY <1>15 DEF CheckBorrowed, Nothing, TypeOK, Turns
<1>16. CASE EndCheckBorrowed
  BY <1>16 DEF EndCheckBorrowed, Turns
<1>17. CASE Spread
  BY <1>17 DEF Spread, Turns
<1>18. CASE Omit
  BY <1>18 DEF Omit, Turns
<1>19. ASSUME NEW m \in Name, Store(m) PROVE Turns'
  BY <1>19 DEF Store, Turns
<1>20. ASSUME NEW m \in Name, StoreFails(m) PROVE Turns'
  BY <1>20 DEF StoreFails, Turns
<1>21. CASE EndStore
  BY <1>21 DEF EndStore, Turns
<1>22. CASE Report
  BY <1>22 DEF Report, Turns
<1>23. CASE NextCall
  BY <1>23 DEF NextCall, Fresh, Nothing, Turns
<1>24. CASE UNCHANGED vars
  BY <1>24 DEF vars, Turns
<1> QED
  BY <1>1, <1>2, <1>3, <1>4, <1>5, <1>6, <1>7, <1>8, <1>9, <1>10, <1>11, <1>12,
     <1>13, <1>14, <1>15, <1>16, <1>17, <1>18, <1>19, <1>20, <1>21, <1>22, <1>23, <1>24 DEF Next

-------------------------------------------------------------------------------
(* A status is given and kept. *)

(* what is read, built or reported *)
OnItsWay(m) == parsed[m] # None \/ built[m] # None \/ processed[m] # None

InQueue(n) == \E i \in 1..Len(queue) : queue[i] = n

WholeRead(n) ==
  \E k \in Candidates(call, n) :
    Mib[k.text].whole /\ \A m \in Mib[k.text].declares : parsed[m] # None

WholeKept(n) ==
  \E k \in Candidates(call, n) :
    Mib[k.text].whole /\ \A m \in Mib[k.text].declares : OnItsWay(m)

RequestsFollowed ==
  /\ pc \in Looking =>
       \A n \in Requested : InQueue(n) \/ n = lookup \/ OnItsWay(n) \/ WholeRead(n)
  /\ pc \notin Looking \cup {"raised"} =>
       \A n \in Requested : OnItsWay(n) \/ WholeKept(n)

AnswerInv == TypeOK /\ Turns /\ failed \subseteq Held(processed) /\ RequestsFollowed

(* Every status given to a name is given with a failure, and withdrawn with it. *)
LEMMA FailedHaveStatus ==
  ASSUME TypeOK, failed \subseteq Held(processed), [Next]_vars
  PROVE  failed' \subseteq Held(processed)'
<1> USE DEF sourceVars, outputVars, callVars
<1>s. \A st \in {"compiled", "untouched", "failed", "unprocessed", "missing", "borrowed"} :
        Plainly(st) # None
  BY StatusesAreTyped, CompileAssumption
<1>1. CASE SkipSettled
  BY <1>1, <1>s DEF SkipSettled, Held, TypeOK
<1>2. CASE Escape
  BY <1>2, <1>s DEF Escape, Held, TypeOK
<1>3. CASE Conflict
  BY <1>3, <1>s, HeadIsAName DEF Conflict, Held, TypeOK
<1>4. CASE Missing
  BY <1>4, <1>s, HeadIsAName DEF Missing, Held, TypeOK
<1>5. CASE PickUp
  BY <1>5, <1>s DEF PickUp, Held, TypeOK
<1>6. ASSUME NEW k \in Untried, Accept(k) PROVE failed' \subseteq Held(processed)'
  BY <1>6, <1>s DEF Accept, TakeDeclared, Forget, Unreport, Untried, Held,
     TypeOK
<1>7. ASSUME NEW k \in Untried, Reject(k) PROVE failed' \subseteq Held(processed)'
  BY <1>7, <1>s DEF Reject, TakeDeclared, Untried, Held, TypeOK
<1>8. CASE EndParse
  BY <1>8, <1>s DEF EndParse, Held, TypeOK
<1>9. ASSUME NEW m \in Name, CheckParsed(m) PROVE failed' \subseteq Held(processed)'
  BY <1>9, <1>s DEF CheckParsed, Held, TypeOK
<1>10. CASE EndCheck
  BY <1>10, <1>s DEF EndCheck, Held, TypeOK
<1>11. ASSUME NEW m \in Name, Generate(m) PROVE failed' \subseteq Held(processed)'
  BY <1>11, <1>s DEF Generate, Held, TypeOK
<1>12. CASE EndGenerate
  BY <1>12, <1>s DEF EndGenerate, Held, TypeOK
<1>13. ASSUME NEW m \in Name, Borrow(m) PROVE failed' \subseteq Held(processed)'
  BY <1>13, <1>s DEF Borrow, Held, TypeOK
<1>14. CASE EndBorrow
  BY <1>14, <1>s DEF EndBorrow, Held, TypeOK
<1>15. ASSUME NEW m \in Name, CheckBorrowed(m) PROVE failed' \subseteq Held(processed)'
  <2>1. \E p : p # None /\ processed' = [processed EXCEPT ![m] = p]
    BY <1>15, <1>s, StatusesAreTyped, CompileAssumption DEF CheckBorrowed
  <2>2. failed' = failed
    BY <1>15 DEF CheckBorrowed
  <2> QED
    BY <2>1, <2>2 DEF Held, TypeOK
<1>16. CASE EndCheckBorrowed
  BY <1>16, <1>s DEF EndCheckBorrowed, Held, TypeOK
<1>17. CASE Spread
  BY <1>17, <1>s DEF Spread, Held, TypeOK
<1>18. CASE Omit
  BY <1>18, <1>s DEF Omit, Held, TypeOK
<1>19. ASSUME NEW m \in Name, Store(m) PROVE failed' \subseteq Held(processed)'
  BY <1>19, <1>s, CompiledIsTyped, CompileAssumption DEF Store, Compiled, Held,
     TypeOK
<1>20. ASSUME NEW m \in Name, StoreFails(m) PROVE failed' \subseteq Held(processed)'
  BY <1>20, <1>s DEF StoreFails, Held, TypeOK
<1>21. CASE EndStore
  BY <1>21, <1>s DEF EndStore, Held, TypeOK
<1>22. CASE Report
  BY <1>22, <1>s, AnnotatedIsTyped, CompileAssumption DEF Report, Held, TypeOK
<1>23. CASE NextCall
  BY <1>23, <1>s DEF NextCall, Fresh, Held, TypeOK
<1>24. CASE UNCHANGED vars
  BY <1>24, <1>s DEF vars, Held, TypeOK
<1> QED
  BY <1>1, <1>2, <1>3, <1>4, <1>5, <1>6, <1>7, <1>8, <1>9, <1>10, <1>11, <1>12,
     <1>13, <1>14, <1>15, <1>16, <1>17, <1>18, <1>19, <1>20, <1>21, <1>22, <1>23, <1>24 DEF Next

(* A candidate is a copy, and declares modules that have names. *)
LEMMA DeclaredAreNames ==
  ASSUME TypeOK, NEW n \in Name, NEW k \in Candidates(call, n)
  PROVE  k \in Copy /\ Mib[k.text].declares \subseteq Name
BY CandidatesAreCopies, TextsAreTyped DEF TypeOK, Copy

(* What is asked for are names. *)
LEMMA RequestedAreNames == TypeOK => Requested \subseteq Name
BY DEF Requested, TypeOK, CallRecord

(* Past the look-up no module is dropped without a status. *)
LEMMA KeptOn ==
  ASSUME TypeOK, RequestsFollowed, pc \notin Looking \cup {"raised"}, pc' \notin Looking,
         UNCHANGED call, \A m \in Name : OnItsWay(m) => OnItsWay(m)'
  PROVE  RequestsFollowed'
<1>1. Requested' = Requested
  BY DEF Requested
<1>2. ASSUME NEW n \in Name, WholeKept(n) PROVE WholeKept(n)'
  BY <1>2, DeclaredAreNames DEF WholeKept
<1>3. \A n \in Requested : OnItsWay(n) \/ WholeKept(n)
  BY DEF RequestsFollowed
<1> QED
  BY <1>1, <1>2, <1>3, RequestedAreNames DEF RequestsFollowed

(* While the queue is worked off, nothing read is forgotten. *)
LEMMA FollowedOn ==
  ASSUME TypeOK, RequestsFollowed, pc \in Looking, pc' \in Looking, UNCHANGED call,
         \A m \in Name : parsed[m] # None => parsed'[m] # None,
         \A n \in Requested : InQueue(n) \/ n = lookup \/ OnItsWay(n) =>
            InQueue(n)' \/ n = lookup' \/ OnItsWay(n)' \/ WholeRead(n)'
  PROVE  RequestsFollowed'
<1>1. Requested' = Requested
  BY DEF Requested
<1>2. ASSUME NEW n \in Name, WholeRead(n) PROVE WholeRead(n)'
  BY <1>2, DeclaredAreNames DEF WholeRead
<1>3. \A n \in Requested : InQueue(n) \/ n = lookup \/ OnItsWay(n) \/ WholeRead(n)
  BY DEF RequestsFollowed
<1> QED
  BY <1>1, <1>2, <1>3, RequestedAreNames DEF RequestsFollowed, Looking

(* At the start every name asked for is in the queue. *)
LEMMA AnswerInit == Init => AnswerInv
<1> SUFFICES ASSUME Init PROVE AnswerInv
  OBVIOUS
<1>1. \A n \in Requested : InQueue(n)
  BY DEF Init, Requested, InQueue
<1> QED
  BY <1>1, InitTyped, TurnsInit DEF Init, AnswerInv, RequestsFollowed, Looking

(* what stands in the queue stays there, is taken up, or was settled *)
LEMMA QueueMoves ==
  ASSUME TypeOK, queue # <<>>, queue' = Tail(queue), NEW n \in Name, InQueue(n)
  PROVE  n = Head(queue) \/ InQueue(n)'
<1>1. PICK i \in 1..Len(queue) : queue[i] = n
  BY DEF InQueue
<1>2. CASE i = 1
  BY <1>1, <1>2 DEF TypeOK
<1>3. CASE i # 1
  <2>1. i - 1 \in 1..Len(Tail(queue)) /\ Tail(queue)[i - 1] = n
    BY <1>1, <1>3 DEF TypeOK
  <2> QED
    BY <2>1 DEF InQueue
<1> QED
  BY <1>2, <1>3

(* What a text appends leaves the queue before it as it is. *)
LEMMA QueueGrows ==
  ASSUME TypeOK, NEW k \in Untried, TakeDeclared(k), NEW n \in Name, InQueue(n)
  PROVE  InQueue(n)'
<1>1. k \in Copy
  BY DeclaredAreNames DEF Untried, TypeOK
<1>2. queue' = queue \o Mib[k.text].appends /\ Mib[k.text].appends \in Seq(Name)
  BY <1>1, TextsAreTyped DEF TakeDeclared, Copy
<1>3. PICK i \in 1..Len(queue) : queue[i] = n
  BY DEF InQueue
<1>4. i \in 1..Len(queue') /\ queue'[i] = n
  BY <1>2, <1>3 DEF TypeOK
<1> QED
  BY <1>4 DEF InQueue

(* every name asked for has a status in the end, or its file has been read *)
LEMMA AnswerNext == AnswerInv /\ [Next]_vars => AnswerInv'
<1> SUFFICES ASSUME AnswerInv, [Next]_vars PROVE RequestsFollowed'
  BY NextTyped, TurnsNext, FailedHaveStatus DEF AnswerInv
<1>t. TypeOK /\ TypeOK' /\ Turns /\ RequestsFollowed /\ failed \subseteq Held(processed)
  BY NextTyped DEF AnswerInv
<1>s. \A st \in {"compiled", "untouched", "failed", "unprocessed", "missing", "borrowed"} :
        Plainly(st) # None
  BY StatusesAreTyped, CompileAssumption
<1> USE DEF sourceVars, outputVars, callVars
<1>1. CASE SkipSettled
  <2>1. OnItsWay(Head(queue))
    BY <1>1, <1>t DEF SkipSettled, Settled, OnItsWay, Held
  <2>2. \A n \in Name : OnItsWay(n) => OnItsWay(n)'
    BY <1>1 DEF SkipSettled, OnItsWay
  <2>3. \A n \in Name : InQueue(n) => InQueue(n)' \/ OnItsWay(n)'
    BY <1>1, <1>t, <2>1, <2>2, QueueMoves DEF SkipSettled
  <2> QED
    BY <1>1, <1>t, <2>2, <2>3, FollowedOn, RequestedAreNames DEF SkipSettled, Looking
<1>2. CASE Escape
  BY <1>2 DEF Escape, RequestsFollowed, Looking
<1>3. CASE Conflict
  <2>1. \A n \in Name : OnItsWay(n) \/ n = Head(queue) => OnItsWay(n)'
    BY <1>3, <1>t, <1>s, HeadIsAName DEF Conflict, OnItsWay, TypeOK
  <2>2. \A n \in Name : InQueue(n) => InQueue(n)' \/ OnItsWay(n)'
    BY <1>3, <1>t, <2>1, QueueMoves DEF Conflict
  <2> QED
    BY <1>3, <1>t, <2>1, <2>2, FollowedOn, RequestedAreNames DEF Conflict, Looking
<1>4. CASE Missing
  <2>1. \A n \in Name : OnItsWay(n) \/ n = Head(queue) => OnItsWay(n)'
    BY <1>4, <1>t, <1>s, HeadIsAName DEF Missing, OnItsWay, TypeOK
  <2>2. \A n \in Name : InQueue(n) => InQueue(n)' \/ OnItsWay(n)'
    BY <1>4, <1>t, <2>1, QueueMoves DEF Missing
  <2> QED
    BY <1>4, <1>t, <2>1, <2>2, FollowedOn, RequestedAreNames DEF Missing, Looking
<1>5. CASE PickUp
  <2>1. \A n \in Name : OnItsWay(n) => OnItsWay(n)'
    BY <1>5 DEF PickUp, OnItsWay
  <2>2. \A n \in Name : InQueue(n) => InQueue(n)' \/ n = lookup'
    BY <1>5, <1>t, QueueMoves DEF PickUp
  <2>3. lookup = None
    BY <1>5, <1>t DEF PickUp, Turns
  <2> QED
    BY <1>5, <1>t, <2>1, <2>2, <2>3, FollowedOn, RequestedAreNames, HeadIsAName, SourcesAssumption
    DEF PickUp, Looking
<1>6. ASSUME NEW k \in Untried, Accept(k) PROVE RequestsFollowed'
  <2>1. TakeDeclared(k) /\ lookup \in Name /\ k \in Candidates(call, lookup)
    BY <1>6, <1>t DEF Accept, Untried, TypeOK
  <2>2. \A m \in Name : parsed[m] # None \/ Declared(k, m) => parsed'[m] # None
    BY <2>1, <1>t, DeclaredAreNames, SourcesAssumption DEF TakeDeclared
  <2>3. \A m \in Name \ {lookup} : OnItsWay(m) => OnItsWay(m)'
    BY <1>6, <2>2, <1>t DEF Accept, OnItsWay, Unreport, TypeOK
  <2>4. \A n \in Name : n = lookup => WholeRead(n)'
    BY <1>6, <2>1, <2>2, <1>t, DeclaredAreNames DEF Accept, WholeRead, Declared
  <2>5. \A n \in Name : InQueue(n) => InQueue(n)'
    BY <2>1, <1>t, QueueGrows
  <2> QED
    BY <1>6, <1>t, <2>2, <2>3, <2>4, <2>5, FollowedOn, RequestedAreNames DEF Accept, Looking
<1>7. ASSUME NEW k \in Untried, Reject(k) PROVE RequestsFollowed'
  <2>1. TakeDeclared(k) /\ lookup \in Name
    BY <1>7, <1>t DEF Reject, Untried, TypeOK
  <2>2. \A m \in Name : parsed[m] # None => parsed'[m] # None
    BY <2>1, <1>t, DeclaredAreNames, SourcesAssumption DEF TakeDeclared, Untried
  <2>3. \A m \in Name : OnItsWay(m) \/ m = lookup => OnItsWay(m)'
    BY <1>7, <2>1, <2>2, <1>t, <1>s DEF Reject, OnItsWay, TypeOK
  <2>4. \A n \in Name : InQueue(n) => InQueue(n)'
    BY <2>1, <1>t, QueueGrows
  <2> QED
    BY <1>7, <1>t, <2>2, <2>3, <2>4, FollowedOn, RequestedAreNames DEF Reject, Looking
<1>8. CASE EndParse
  <2>1. \A n \in Name : OnItsWay(n)' = OnItsWay(n)
    BY <1>8 DEF EndParse, OnItsWay
  <2>2. \A n \in Name : ~InQueue(n) /\ n # lookup
    BY <1>8, <1>t, SourcesAssumption DEF EndParse, InQueue, Turns
  <2>3. \A n \in Name : WholeRead(n) => WholeKept(n)'
    BY <1>8, <2>1, <1>t, DeclaredAreNames DEF EndParse, WholeRead, WholeKept, OnItsWay
  <2>4. Requested' = Requested
    BY <1>8 DEF EndParse, Requested
  <2> QED
    BY <1>8, <1>t, <2>1, <2>2, <2>3, <2>4, RequestedAreNames DEF EndParse, RequestsFollowed, Looking
<1>9. ASSUME NEW m \in Name, CheckParsed(m) PROVE RequestsFollowed'
  <2>1. \A n \in Name : OnItsWay(n) => OnItsWay(n)'
    BY <1>9, <1>t, <1>s DEF CheckParsed, OnItsWay, TypeOK
  <2> QED
    BY <1>9, <1>t, <2>1, KeptOn DEF CheckParsed, Looking
<1>10. CASE EndCheck
  <2>1. \A n \in Name : OnItsWay(n) => OnItsWay(n)'
    BY <1>10, <1>t, <1>s DEF EndCheck, OnItsWay, TypeOK
  <2> QED
    BY <1>10, <1>t, <2>1, KeptOn DEF EndCheck, Looking
<1>11. ASSUME NEW m \in Name, Generate(m) PROVE RequestsFollowed'
  <2>1. \A n \in Name : OnItsWay(n) => OnItsWay(n)'
    BY <1>11, <1>t, <1>s DEF Generate, OnItsWay, TypeOK
  <2> QED
    BY <1>11, <1>t, <2>1, KeptOn DEF Generate, Looking
<1>12. CASE EndGenerate
  <2>1. \A n \in Name : OnItsWay(n) => OnItsWay(n)'
    BY <1>12, <1>t, <1>s DEF EndGenerate, OnItsWay, TypeOK
  <2> QED
    BY <1>12, <1>t, <2>1, KeptOn DEF EndGenerate, Looking
<1>13. ASSUME NEW m \in Name, Borrow(m) PROVE RequestsFollowed'
  <2>1. \A n \in Name : OnItsWay(n) => OnItsWay(n)'
    BY <1>13, <1>t, <1>s DEF Borrow, OnItsWay, TypeOK
  <2> QED
    BY <1>13, <1>t, <2>1, KeptOn DEF Borrow, Looking
<1>14. CASE EndBorrow
  <2>1. \A n \in Name : OnItsWay(n) => OnItsWay(n)'
    BY <1>14, <1>t, <1>s DEF EndBorrow, OnItsWay, TypeOK
  <2> QED
    BY <1>14, <1>t, <2>1, KeptOn DEF EndBorrow, Looking
<1>15. ASSUME NEW m \in Name, CheckBorrowed(m) PROVE RequestsFollowed'
  <2>1. \E p : p # None /\ processed' = [processed EXCEPT ![m] = p]
    BY <1>15, <1>s, StatusesAreTyped, CompileAssumption DEF CheckBorrowed
  <2>2. parsed' = parsed /\ \A n \in Name \ {m} : built'[n] = built[n]
    BY <1>15, <1>t DEF CheckBorrowed, TypeOK
  <2>3. \A n \in Name : OnItsWay(n) => OnItsWay(n)'
    BY <1>t, <2>1, <2>2 DEF OnItsWay, TypeOK
  <2> QED
    BY <1>15, <1>t, <2>3, KeptOn DEF CheckBorrowed, Looking
<1>16. CASE EndCheckBorrowed
  <2>1. \A n \in Name : OnItsWay(n) => OnItsWay(n)'
    BY <1>16, <1>t, <1>s DEF EndCheckBorrowed, OnItsWay, TypeOK
  <2> QED
    BY <1>16, <1>t, <2>1, KeptOn DEF EndCheckBorrowed, Looking
<1>17. CASE Spread
  <2>1. \A n \in Name : OnItsWay(n) => OnItsWay(n)'
    BY <1>17, <1>t, <1>s DEF Spread, OnItsWay, TypeOK
  <2> QED
    BY <1>17, <1>t, <2>1, KeptOn DEF Spread, Looking
<1>18. CASE Omit
  <2>1. \A n \in Name : OnItsWay(n) => OnItsWay(n)'
    BY <1>18, <1>t, <1>s DEF Omit, Held, OnItsWay, TypeOK
  <2> QED
    BY <1>18, <1>t, <2>1, KeptOn DEF Omit, Looking
<1>19. ASSUME NEW m \in Name, Store(m) PROVE RequestsFollowed'
  <2>1. \A n \in Name : OnItsWay(n) => OnItsWay(n)'
    BY <1>19, <1>t, <1>s, CompiledIsTyped, CompileAssumption DEF Store, OnItsWay, TypeOK
  <2> QED
    BY <1>19, <1>t, <2>1, KeptOn DEF Store, Looking
<1>20. ASSUME NEW m \in Name, StoreFails(m) PROVE RequestsFollowed'
  <2>1. \A n \in Name : OnItsWay(n) => OnItsWay(n)'
    BY <1>20, <1>t, <1>s DEF StoreFails, OnItsWay, TypeOK
  <2> QED
    BY <1>20, <1>t, <2>1, KeptOn DEF StoreFails, Looking
<1>21. CASE EndStore
  <2>1. \A n \in Name : OnItsWay(n) => OnItsWay(n)'
    BY <1>21, <1>t, <1>s DEF EndStore, OnItsWay, TypeOK
  <2> QED
    BY <1>21, <1>t, <2>1, KeptOn DEF EndStore, Looking
<1>22. CASE Report
  <2>1. \A n \in Name : OnItsWay(n) => OnItsWay(n)'
    BY <1>22, <1>t, <1>s, AnnotatedIsTyped, CompileAssumption DEF Report, OnItsWay, TypeOK
  <2> QED
    BY <1>22, <1>t, <2>1, KeptOn DEF Report, Looking
<1>23. CASE NextCall
  <2>1. \A n \in Requested' : InQueue(n)'
    BY <1>23 DEF NextCall, Fresh, Requested, InQueue
  <2> QED
    BY <1>23, <2>1 DEF NextCall, Fresh, RequestsFollowed, Looking
<1>24. CASE UNCHANGED vars
  BY <1>24, <1>t DEF vars, RequestsFollowed, InQueue, OnItsWay, WholeRead, WholeKept, Requested
<1> QED
  BY <1>1, <1>2, <1>3, <1>4, <1>5, <1>6, <1>7, <1>8, <1>9, <1>10, <1>11, <1>12,
     <1>13, <1>14, <1>15, <1>16, <1>17, <1>18, <1>19, <1>20, <1>21, <1>22, <1>23, <1>24 DEF Next

(* Every name asked for has a status when the call returns, or was found in a  *)
(* file that was read to its end and each of whose modules has one; whatever   *)
(* fails, is lent, left out or declared under another name.                    *)
THEOREM RequestsAreAnswered == Spec => []EveryRequestAnswered
<1>1. AnswerInv => EveryRequestAnswered
  <2> SUFFICES ASSUME AnswerInv, pc = "done", NEW n \in Requested
               PROVE  processed[n] # None \/ \E k \in Candidates(call, n) :
                        Mib[k.text].whole /\ \A m \in Mib[k.text].declares : processed[m] # None
    BY DEF EveryRequestAnswered
  <2>1. \A m \in Name : OnItsWay(m) => processed[m] # None
    BY DEF AnswerInv, Turns, OnItsWay, Looking, Nothing
  <2>2. n \in Name /\ (OnItsWay(n) \/ WholeKept(n))
    BY RequestedAreNames DEF AnswerInv, RequestsFollowed, Looking
  <2> QED
    BY <2>1, <2>2, DeclaredAreNames DEF WholeKept, AnswerInv
<1> QED
  BY <1>1, AnswerInit, AnswerNext, PTL DEF Spec

-------------------------------------------------------------------------------
(* What the report says of a module, and where the module is. *)

(* before the searchers speak, a status is a failure *)
OnlyFailuresYet == pc \in Looking => Held(processed) \subseteq failed

(* where files hold their module whole or not at all, what failed or is lent   *)
(* was neither read nor built                                                  *)
FailedIsUnread ==
  OneModuleEach =>
    /\ \A m \in Name : m \in failed \/ borrowed[m] # None => parsed[m] = None /\ built[m] = None
    /\ pc = "try" => parsed[lookup] = None

LoansAreLent ==
  \A m \in Name : borrowed[m] # None => call.lends[m] # None /\ m \notin failed

(* a module still to be generated or written has no status, unless it failed   *)
(* before or is lent                                                           *)
StatusExplained ==
  pc \notin Looking \cup {"raised"} =>
    \A m \in Name : processed[m] # None /\ (parsed[m] # None \/ built[m] # None) =>
      m \in failed \/ borrowed[m] # None \/ Has(m, "borrowed") \/ Blurred(m)

NoFailureLeft ==
  /\ pc = "taint" => failed \subseteq tainted
  /\ pc \in Closing => \A m \in failed : built[m] = None

WrittenIsReported ==
  \A m \in Name : wrote[m] # None =>
    /\ pc \in Closing /\ call.writes /\ built[m] = None
    /\ Has(m, "compiled") \/ Has(m, "borrowed") \/ Blurred(m)

ReportedIsWritten ==
  \A m \in Name :
    /\ Has(m, "compiled") =>
         pc \in Closing /\ built[m] = None /\ (call.writes => wrote[m] # None)
    /\ Has(m, "borrowed") =>
         pc \in Closing \cup {"checkBorrowed", "taint"}
         /\ (call.writes => built[m] # None \/ wrote[m] # None)

ReportInv ==
  /\ TypeOK /\ Turns /\ OnlyFailuresYet /\ FailedIsUnread /\ LoansAreLent
  /\ StatusExplained /\ NoFailureLeft /\ WrittenIsReported /\ ReportedIsWritten

(* Each status is something, and says what it is named for. *)
LEMMA StatusNames ==
  /\ \A st \in {"compiled", "untouched", "failed", "unprocessed", "missing", "borrowed"} :
       Plainly(st) # None /\ Plainly(st).st = st
  /\ StatusBorrowed # None /\ StatusBorrowed.st = "borrowed"
<1>1. \A st \in {"compiled", "untouched", "failed", "unprocessed", "missing", "borrowed"} :
        Plainly(st).st = st
  BY DEF Plainly
<1>2. StatusBorrowed.st = "borrowed"
  BY DEF StatusBorrowed
<1> QED
  BY <1>1, <1>2, StatusesAreTyped, CompileAssumption

(* What a borrower has is something, and no text. *)
LEMMA LoansAreSomething ==
  ASSUME TypeOK, NEW m \in Name, call.lends[m] # None
  PROVE  Loan(m, call.lends[m]) # None /\ Loan(m, call.lends[m]).text \notin Text
<1>1. call.lends[m] \in {Plain, Foreign}
  BY DEF TypeOK, CallRecord
<1>3. Loan(m, call.lends[m]).text = call.lends[m]
  BY DEF Loan
<1>4. Loan(m, call.lends[m]) # None
  BY <1>1, CompileAssumption DEF Loan, Loans
<1> QED
  BY <1>1, <1>3, <1>4, CompileAssumption

(* An empty report is true. *)
LEMMA ReportInit == Init => ReportInv
<1> SUFFICES ASSUME Init PROVE ReportInv
  OBVIOUS
<1>1. \A m \in Name, st \in {"compiled", "borrowed"} : ~Has(m, st)
  BY DEF Init, Has, Nothing
<1> QED
  BY <1>1, InitTyped, TurnsInit
  DEF Init, ReportInv, OnlyFailuresYet, FailedIsUnread, LoansAreLent, StatusExplained,
      NoFailureLeft, WrittenIsReported, ReportedIsWritten, Looking, Closing, Held, Nothing

(* Until the searchers are asked only failures are reported. *)
LEMMA FailuresNext == ReportInv /\ [Next]_vars => OnlyFailuresYet'
<1> SUFFICES ASSUME ReportInv, [Next]_vars PROVE OnlyFailuresYet'
  OBVIOUS
<1>t. /\ TypeOK /\ TypeOK' /\ Turns /\ Turns' /\ OnlyFailuresYet /\ FailedIsUnread /\ LoansAreLent
      /\ StatusExplained /\ NoFailureLeft /\ WrittenIsReported /\ ReportedIsWritten
  BY NextTyped, TurnsNext DEF ReportInv
<1> USE DEF sourceVars, outputVars, callVars, Looking, Closing
<1>1. CASE SkipSettled
  BY <1>1, <1>t DEF SkipSettled, OnlyFailuresYet, TypeOK, Held
<1>2. CASE Escape
  BY <1>2, <1>t DEF Escape, OnlyFailuresYet, TypeOK, Held
<1>3. CASE Conflict
  BY <1>3, <1>t, HeadIsAName DEF Conflict, OnlyFailuresYet, TypeOK, Held
<1>4. CASE Missing
  BY <1>4, <1>t, HeadIsAName DEF Missing, OnlyFailuresYet, TypeOK, Held
<1>5. CASE PickUp
  BY <1>5, <1>t DEF PickUp, OnlyFailuresYet, TypeOK, Held
<1>6. ASSUME NEW k \in Untried, Accept(k) PROVE OnlyFailuresYet'
  BY <1>6, <1>t DEF Accept, TakeDeclared, Forget, Unreport, OnlyFailuresYet,
     TypeOK, Held
<1>7. ASSUME NEW k \in Untried, Reject(k) PROVE OnlyFailuresYet'
  BY <1>7, <1>t DEF Reject, TakeDeclared, OnlyFailuresYet, TypeOK, Held
<1>8. CASE EndParse
  BY <1>8, <1>t DEF EndParse, OnlyFailuresYet, TypeOK, Held
<1>9. ASSUME NEW m \in Name, CheckParsed(m) PROVE OnlyFailuresYet'
  BY <1>9, <1>t DEF CheckParsed, OnlyFailuresYet, TypeOK, Held
<1>10. CASE EndCheck
  BY <1>10, <1>t DEF EndCheck, OnlyFailuresYet, TypeOK, Held
<1>11. ASSUME NEW m \in Name, Generate(m) PROVE OnlyFailuresYet'
  BY <1>11, <1>t DEF Generate, OnlyFailuresYet, TypeOK, Held
<1>12. CASE EndGenerate
  BY <1>12, <1>t DEF EndGenerate, OnlyFailuresYet, TypeOK, Held
<1>13. ASSUME NEW m \in Name, Borrow(m) PROVE OnlyFailuresYet'
  BY <1>13, <1>t DEF Borrow, OnlyFailuresYet, TypeOK, Held
<1>14. CASE EndBorrow
  BY <1>14, <1>t DEF EndBorrow, OnlyFailuresYet, TypeOK, Held
<1>15. ASSUME NEW m \in Name, CheckBorrowed(m) PROVE OnlyFailuresYet'
  BY <1>15, <1>t DEF CheckBorrowed, OnlyFailuresYet, TypeOK, Held
<1>16. CASE EndCheckBorrowed
  BY <1>16, <1>t DEF EndCheckBorrowed, OnlyFailuresYet, TypeOK, Held
<1>17. CASE Spread
  BY <1>17, <1>t DEF Spread, OnlyFailuresYet, TypeOK, Held
<1>18. CASE Omit
  BY <1>18, <1>t DEF Omit, OnlyFailuresYet, TypeOK, Held
<1>19. ASSUME NEW m \in Name, Store(m) PROVE OnlyFailuresYet'
  BY <1>19, <1>t DEF Store, OnlyFailuresYet, TypeOK, Held
<1>20. ASSUME NEW m \in Name, StoreFails(m) PROVE OnlyFailuresYet'
  BY <1>20, <1>t DEF StoreFails, OnlyFailuresYet, TypeOK, Held
<1>21. CASE EndStore
  BY <1>21, <1>t DEF EndStore, OnlyFailuresYet, TypeOK, Held
<1>22. CASE Report
  BY <1>22, <1>t DEF Report, OnlyFailuresYet, TypeOK, Held
<1>23. CASE NextCall
  BY <1>23, <1>t DEF NextCall, Fresh, Nothing, OnlyFailuresYet, TypeOK, Held
<1>24. CASE UNCHANGED vars
  BY <1>24, <1>t DEF vars, OnlyFailuresYet, TypeOK, Held
<1> QED
  BY <1>1, <1>2, <1>3, <1>4, <1>5, <1>6, <1>7, <1>8, <1>9, <1>10, <1>11, <1>12,
     <1>13, <1>14, <1>15, <1>16, <1>17, <1>18, <1>19, <1>20, <1>21, <1>22, <1>23, <1>24 DEF Next

(* A module failed or lent is not generated, where files hold one module each. *)
LEMMA UnreadNext == ReportInv /\ [Next]_vars => FailedIsUnread'
<1> SUFFICES ASSUME ReportInv, [Next]_vars PROVE FailedIsUnread'
  OBVIOUS
<1>t. /\ TypeOK /\ TypeOK' /\ Turns /\ Turns' /\ OnlyFailuresYet /\ FailedIsUnread /\ LoansAreLent
      /\ StatusExplained /\ NoFailureLeft /\ WrittenIsReported /\ ReportedIsWritten
  BY NextTyped, TurnsNext DEF ReportInv
<1>o. call' = call => (OneModuleEach' <=> OneModuleEach)
  BY DEF OneModuleEach
<1> USE DEF sourceVars, outputVars, callVars, Looking, Closing
<1>1. CASE SkipSettled
  BY <1>1, <1>t, <1>o DEF SkipSettled, FailedIsUnread, TypeOK
<1>2. CASE Escape
  BY <1>2, <1>t, <1>o DEF Escape, FailedIsUnread, TypeOK
<1>3. CASE Conflict
  BY <1>3, <1>t, <1>o, HeadIsAName DEF Conflict, Settled, Turns, Nothing,
     FailedIsUnread, TypeOK
<1>4. CASE Missing
  BY <1>4, <1>t, <1>o, HeadIsAName DEF Missing, Settled, Turns, Nothing,
     FailedIsUnread, TypeOK
<1>5. CASE PickUp
  BY <1>5, <1>t, <1>o, HeadIsAName DEF PickUp, Settled, FailedIsUnread, TypeOK
<1>6. ASSUME NEW k \in Untried, Accept(k) PROVE FailedIsUnread'
  <2>1. OneModuleEach => Mib[k.text].declares = {lookup}
    BY <1>6, <1>t DEF Accept, Untried, OneModuleEach, TypeOK
  <2>2. OneModuleEach => failed' = failed \ {lookup}
    BY <1>6, <2>1 DEF Accept, Forget
  <2>3. OneModuleEach => \A m \in Name \ {lookup} : parsed'[m] = parsed[m]
    BY <1>6, <2>1 DEF Accept, TakeDeclared, Declared
  <2>4. call' = call /\ pc' = "parse" /\ UNCHANGED <<borrowed, built>> /\ pc = "try"
    BY <1>6 DEF Accept
  <2> QED
    BY <1>t, <1>o, <2>2, <2>3, <2>4 DEF FailedIsUnread, Turns, Nothing, Early
<1>7. ASSUME NEW k \in Untried, Reject(k) PROVE FailedIsUnread'
  <2>1. OneModuleEach => Mib[k.text].declares = {}
    BY <1>7, <1>t DEF Reject, Untried, OneModuleEach, TypeOK
  <2>2. OneModuleEach => parsed' = parsed
    BY <1>7, <2>1, <1>t DEF Reject, TakeDeclared, Declared, TypeOK
  <2>3. UNCHANGED <<call, borrowed, built>> /\ failed' = failed \cup {lookup} /\ pc = "try"
    BY <1>7 DEF Reject
  <2>4. pc' = "try" => lookup' = lookup
    BY <1>7 DEF Reject
  <2> QED
    BY <1>t, <1>o, <2>2, <2>3, <2>4 DEF FailedIsUnread, Turns, Nothing, Early
<1>8. CASE EndParse
  BY <1>8, <1>t, <1>o DEF EndParse, Turns, FailedIsUnread, TypeOK
<1>9. ASSUME NEW m \in Name, CheckParsed(m) PROVE FailedIsUnread'
  BY <1>9, <1>t, <1>o DEF CheckParsed, FailedIsUnread, TypeOK
<1>10. CASE EndCheck
  BY <1>10, <1>t, <1>o DEF EndCheck, FailedIsUnread, TypeOK
<1>11. ASSUME NEW m \in Name, Generate(m) PROVE FailedIsUnread'
  BY <1>11, <1>t, <1>o DEF Generate, Turns, Nothing, FailedIsUnread, TypeOK
<1>12. CASE EndGenerate
  BY <1>12, <1>t, <1>o DEF EndGenerate, FailedIsUnread, TypeOK
<1>13. ASSUME NEW m \in Name, Borrow(m) PROVE FailedIsUnread'
  BY <1>13, <1>t, <1>o DEF Borrow, Turns, Nothing, FailedIsUnread, TypeOK
<1>14. CASE EndBorrow
  BY <1>14, <1>t, <1>o DEF EndBorrow, FailedIsUnread, TypeOK
<1>15. ASSUME NEW m \in Name, CheckBorrowed(m) PROVE FailedIsUnread'
  <2>1. borrowed' = [borrowed EXCEPT ![m] = None] /\ UNCHANGED <<pc, call, parsed, failed>>
    BY <1>15 DEF CheckBorrowed
  <2>2. \A n \in Name \ {m} : built'[n] = built[n]
    BY <1>15, <1>t DEF CheckBorrowed, TypeOK
  <2>3. borrowed[m] # None
    BY <1>15 DEF CheckBorrowed
  <2>4. m \notin failed
    BY <2>3, <1>t DEF LoansAreLent
  <2> QED
    BY <1>15, <1>t, <1>o, <2>1, <2>2, <2>4 DEF FailedIsUnread, TypeOK, CheckBorrowed
<1>16. CASE EndCheckBorrowed
  BY <1>16, <1>t, <1>o DEF EndCheckBorrowed, FailedIsUnread, TypeOK
<1>17. CASE Spread
  BY <1>17, <1>t, <1>o DEF Spread, FailedIsUnread, TypeOK
<1>18. CASE Omit
  BY <1>18, <1>t, <1>o DEF Omit, FailedIsUnread, TypeOK
<1>19. ASSUME NEW m \in Name, Store(m) PROVE FailedIsUnread'
  BY <1>19, <1>t, <1>o DEF Store, FailedIsUnread, TypeOK
<1>20. ASSUME NEW m \in Name, StoreFails(m) PROVE FailedIsUnread'
  BY <1>20, <1>t, <1>o DEF StoreFails, Turns, Nothing, FailedIsUnread, TypeOK
<1>21. CASE EndStore
  BY <1>21, <1>t, <1>o DEF EndStore, FailedIsUnread, TypeOK
<1>22. CASE Report
  BY <1>22, <1>t, <1>o DEF Report, FailedIsUnread, TypeOK
<1>23. CASE NextCall
  BY <1>23, <1>t, <1>o DEF NextCall, Fresh, Nothing, FailedIsUnread, TypeOK
<1>24. CASE UNCHANGED vars
  BY <1>24, <1>t, <1>o DEF vars, FailedIsUnread, TypeOK
<1> QED
  BY <1>1, <1>2, <1>3, <1>4, <1>5, <1>6, <1>7, <1>8, <1>9, <1>10, <1>11, <1>12,
     <1>13, <1>14, <1>15, <1>16, <1>17, <1>18, <1>19, <1>20, <1>21, <1>22, <1>23, <1>24 DEF Next

(* Nothing is borrowed but from what the borrowers have. *)
LEMMA LentNext == ReportInv /\ [Next]_vars => LoansAreLent'
<1> SUFFICES ASSUME ReportInv, [Next]_vars PROVE LoansAreLent'
  OBVIOUS
<1>t. /\ TypeOK /\ TypeOK' /\ Turns /\ Turns' /\ OnlyFailuresYet /\ FailedIsUnread /\ LoansAreLent
      /\ StatusExplained /\ NoFailureLeft /\ WrittenIsReported /\ ReportedIsWritten
  BY NextTyped, TurnsNext DEF ReportInv
<1> USE DEF sourceVars, outputVars, callVars, Looking, Closing
<1>1. CASE SkipSettled
  BY <1>1, <1>t DEF SkipSettled, LoansAreLent, TypeOK
<1>2. CASE Escape
  BY <1>2, <1>t DEF Escape, LoansAreLent, TypeOK
<1>3. CASE Conflict
  BY <1>3, <1>t DEF Conflict, Turns, Nothing, LoansAreLent, TypeOK
<1>4. CASE Missing
  BY <1>4, <1>t DEF Missing, Turns, Nothing, LoansAreLent, TypeOK
<1>5. CASE PickUp
  BY <1>5, <1>t DEF PickUp, LoansAreLent, TypeOK
<1>6. ASSUME NEW k \in Untried, Accept(k) PROVE LoansAreLent'
  BY <1>6, <1>t DEF Accept, TakeDeclared, Turns, Nothing, LoansAreLent, TypeOK
<1>7. ASSUME NEW k \in Untried, Reject(k) PROVE LoansAreLent'
  BY <1>7, <1>t DEF Reject, TakeDeclared, Turns, Nothing, LoansAreLent, TypeOK
<1>8. CASE EndParse
  BY <1>8, <1>t DEF EndParse, LoansAreLent, TypeOK
<1>9. ASSUME NEW m \in Name, CheckParsed(m) PROVE LoansAreLent'
  BY <1>9, <1>t DEF CheckParsed, LoansAreLent, TypeOK
<1>10. CASE EndCheck
  BY <1>10, <1>t DEF EndCheck, LoansAreLent, TypeOK
<1>11. ASSUME NEW m \in Name, Generate(m) PROVE LoansAreLent'
  BY <1>11, <1>t DEF Generate, Turns, Nothing, LoansAreLent, TypeOK
<1>12. CASE EndGenerate
  BY <1>12, <1>t DEF EndGenerate, LoansAreLent, TypeOK
<1>13. ASSUME NEW m \in Name, Borrow(m) PROVE LoansAreLent'
  BY <1>13, <1>t DEF Borrow, LoansAreLent, TypeOK
<1>14. CASE EndBorrow
  BY <1>14, <1>t DEF EndBorrow, LoansAreLent, TypeOK
<1>15. ASSUME NEW m \in Name, CheckBorrowed(m) PROVE LoansAreLent'
  BY <1>15, <1>t DEF CheckBorrowed, LoansAreLent, TypeOK
<1>16. CASE EndCheckBorrowed
  BY <1>16, <1>t DEF EndCheckBorrowed, LoansAreLent, TypeOK
<1>17. CASE Spread
  BY <1>17, <1>t DEF Spread, LoansAreLent, TypeOK
<1>18. CASE Omit
  BY <1>18, <1>t DEF Omit, LoansAreLent, TypeOK
<1>19. ASSUME NEW m \in Name, Store(m) PROVE LoansAreLent'
  BY <1>19, <1>t DEF Store, LoansAreLent, TypeOK
<1>20. ASSUME NEW m \in Name, StoreFails(m) PROVE LoansAreLent'
  BY <1>20, <1>t DEF StoreFails, Turns, Nothing, LoansAreLent, TypeOK
<1>21. CASE EndStore
  BY <1>21, <1>t DEF EndStore, LoansAreLent, TypeOK
<1>22. CASE Report
  BY <1>22, <1>t DEF Report, LoansAreLent, TypeOK
<1>23. CASE NextCall
  BY <1>23, <1>t DEF NextCall, Fresh, Nothing, LoansAreLent, TypeOK
<1>24. CASE UNCHANGED vars
  BY <1>24, <1>t DEF vars, LoansAreLent, TypeOK
<1> QED
  BY <1>1, <1>2, <1>3, <1>4, <1>5, <1>6, <1>7, <1>8, <1>9, <1>10, <1>11, <1>12,
     <1>13, <1>14, <1>15, <1>16, <1>17, <1>18, <1>19, <1>20, <1>21, <1>22, <1>23, <1>24 DEF Next

(* Nothing goes to code generation or the writer with a status of its own. *)
LEMMA ExplainedNext == ReportInv /\ [Next]_vars => StatusExplained'
<1> SUFFICES ASSUME ReportInv, [Next]_vars PROVE StatusExplained'
  OBVIOUS
<1>t. /\ TypeOK /\ TypeOK' /\ Turns /\ Turns' /\ OnlyFailuresYet /\ FailedIsUnread /\ LoansAreLent
      /\ StatusExplained /\ NoFailureLeft /\ WrittenIsReported /\ ReportedIsWritten
  BY NextTyped, TurnsNext DEF ReportInv
<1>b. call' = call => \A m \in Name : Blurred(m)' <=> Blurred(m)
  BY DEF Blurred, OneModuleEach
<1> USE DEF sourceVars, outputVars, callVars, Looking, Closing
<1>1. CASE SkipSettled
  BY <1>1, <1>t, <1>b DEF SkipSettled, StatusExplained, TypeOK, Has
<1>2. CASE Escape
  BY <1>2, <1>t, <1>b DEF Escape, StatusExplained, TypeOK, Has
<1>3. CASE Conflict
  BY <1>3, <1>t, <1>b DEF Conflict, StatusExplained, TypeOK, Has
<1>4. CASE Missing
  BY <1>4, <1>t, <1>b DEF Missing, StatusExplained, TypeOK, Has
<1>5. CASE PickUp
  BY <1>5, <1>t, <1>b DEF PickUp, StatusExplained, TypeOK, Has
<1>6. ASSUME NEW k \in Untried, Accept(k) PROVE StatusExplained'
  BY <1>6, <1>t, <1>b DEF Accept, TakeDeclared, StatusExplained, TypeOK, Has
<1>7. ASSUME NEW k \in Untried, Reject(k) PROVE StatusExplained'
  BY <1>7, <1>t, <1>b DEF Reject, TakeDeclared, StatusExplained, TypeOK, Has
<1>8. CASE EndParse
  <2>1. \A m \in Name : processed[m] # None => m \in failed
    BY <1>8, <1>t DEF EndParse, OnlyFailuresYet, Held
  <2> QED
    BY <1>8, <2>1 DEF EndParse, StatusExplained
<1>9. ASSUME NEW m \in Name, CheckParsed(m) PROVE StatusExplained'
  <2>1. parsed'[m] = None \/ UNCHANGED <<parsed, processed>>
    BY <1>9, <1>t DEF CheckParsed, TypeOK
  <2>2. /\ \A n \in Name \ {m} : parsed'[n] = parsed[n] /\ processed'[n] = processed[n]
        /\ UNCHANGED <<call, failed, borrowed, built>> /\ pc = "check" /\ pc' = "check"
    BY <1>9, <1>t DEF CheckParsed, TypeOK
  <2>3. built = Nothing
    BY <2>2, <1>t DEF Turns
  <2> QED
    BY <2>1, <2>2, <2>3, <1>t, <1>b DEF StatusExplained, Has, Nothing, TypeOK
<1>10. CASE EndCheck
  BY <1>10, <1>t, <1>b DEF EndCheck, StatusExplained, TypeOK, Has
<1>11. ASSUME NEW m \in Name, Generate(m) PROVE StatusExplained'
  BY <1>11, <1>t, <1>b DEF Generate, StatusExplained, TypeOK, Has
<1>12. CASE EndGenerate
  BY <1>12, <1>t, <1>b DEF EndGenerate, StatusExplained, TypeOK, Has
<1>13. ASSUME NEW m \in Name, Borrow(m) PROVE StatusExplained'
  BY <1>13, <1>t, <1>b, LoansAreSomething DEF Borrow, StatusExplained, TypeOK,
     Has
<1>14. CASE EndBorrow
  BY <1>14, <1>t, <1>b DEF EndBorrow, StatusExplained, TypeOK, Has
<1>15. ASSUME NEW m \in Name, CheckBorrowed(m) PROVE StatusExplained'
  <2>1. /\ borrowed' = [borrowed EXCEPT ![m] = None] /\ borrowed[m] # None
        /\ UNCHANGED <<pc, call, parsed, failed>> /\ pc = "checkBorrowed"
    BY <1>15 DEF CheckBorrowed
  <2>2. \A n \in Name \ {m} : built'[n] = built[n] /\ processed'[n] = processed[n]
    BY <1>15, <1>t, ZenonT(60) DEF CheckBorrowed, TypeOK
  <2>3. \/ built' = built
        \/ processed' = [processed EXCEPT ![m] = StatusBorrowed]
    BY <1>15 DEF CheckBorrowed
  <2>4. CASE built' = built
    <3>1. call.lends[m] # None
      BY <2>1, <1>t DEF LoansAreLent
    <3>2. built[m] # None => Blurred(m)
      BY <2>1, <3>1, <1>t DEF Blurred, FailedIsUnread
    <3> QED
      BY <2>1, <2>2, <2>4, <3>2, <1>t, <1>b DEF StatusExplained, Has, TypeOK, Turns, Nothing, Early
  <2>5. CASE processed' = [processed EXCEPT ![m] = StatusBorrowed]
    <3>1. Has(m, "borrowed")'
      BY <2>5, <1>t, StatusNames DEF Has, TypeOK
    <3> QED
      BY <2>1, <2>2, <3>1, <1>t, <1>b DEF StatusExplained, Has, TypeOK
  <2> QED
    BY <2>3, <2>4, <2>5
<1>16. CASE EndCheckBorrowed
  BY <1>16, <1>t, <1>b DEF EndCheckBorrowed, StatusExplained, TypeOK, Has
<1>17. CASE Spread
  BY <1>17, <1>t, <1>b DEF Spread, StatusExplained, TypeOK, Has
<1>18. CASE Omit
  BY <1>18, <1>t, <1>b DEF Omit, Held, Turns, Nothing, StatusExplained, TypeOK,
     Has
<1>19. ASSUME NEW m \in Name, Store(m) PROVE StatusExplained'
  BY <1>19, <1>t, <1>b DEF Store, Turns, Nothing, StatusExplained, TypeOK, Has
<1>20. ASSUME NEW m \in Name, StoreFails(m) PROVE StatusExplained'
  BY <1>20, <1>t, <1>b DEF StoreFails, Turns, Nothing, StatusExplained, TypeOK,
     Has
<1>21. CASE EndStore
  BY <1>21, <1>t, <1>b DEF EndStore, StatusExplained, TypeOK, Has
<1>22. CASE Report
  BY <1>22, <1>t, <1>b, AnnotatedIsTyped DEF Report, Turns, Nothing,
     StatusExplained, TypeOK, Has
<1>23. CASE NextCall
  BY <1>23, <1>t, <1>b DEF NextCall, Fresh, StatusExplained, TypeOK, Has
<1>24. CASE UNCHANGED vars
  BY <1>24, <1>t, <1>b DEF vars, StatusExplained, TypeOK, Has
<1> QED
  BY <1>1, <1>2, <1>3, <1>4, <1>5, <1>6, <1>7, <1>8, <1>9, <1>10, <1>11, <1>12,
     <1>13, <1>14, <1>15, <1>16, <1>17, <1>18, <1>19, <1>20, <1>21, <1>22, <1>23, <1>24 DEF Next

(* No module that failed reaches the writer. *)
LEMMA NoneLeftNext == ReportInv /\ [Next]_vars => NoFailureLeft'
<1> SUFFICES ASSUME ReportInv, [Next]_vars PROVE NoFailureLeft'
  OBVIOUS
<1>t. /\ TypeOK /\ TypeOK' /\ Turns /\ Turns' /\ OnlyFailuresYet /\ FailedIsUnread /\ LoansAreLent
      /\ StatusExplained /\ NoFailureLeft /\ WrittenIsReported /\ ReportedIsWritten
  BY NextTyped, TurnsNext DEF ReportInv
<1> USE DEF sourceVars, outputVars, callVars, Looking, Closing
<1>1. CASE SkipSettled
  BY <1>1, <1>t DEF SkipSettled, NoFailureLeft, TypeOK
<1>2. CASE Escape
  BY <1>2, <1>t DEF Escape, NoFailureLeft, TypeOK
<1>3. CASE Conflict
  BY <1>3, <1>t DEF Conflict, NoFailureLeft, TypeOK
<1>4. CASE Missing
  BY <1>4, <1>t DEF Missing, NoFailureLeft, TypeOK
<1>5. CASE PickUp
  BY <1>5, <1>t DEF PickUp, NoFailureLeft, TypeOK
<1>6. ASSUME NEW k \in Untried, Accept(k) PROVE NoFailureLeft'
  BY <1>6, <1>t DEF Accept, TakeDeclared, NoFailureLeft, TypeOK
<1>7. ASSUME NEW k \in Untried, Reject(k) PROVE NoFailureLeft'
  BY <1>7, <1>t DEF Reject, TakeDeclared, NoFailureLeft, TypeOK
<1>8. CASE EndParse
  BY <1>8, <1>t DEF EndParse, NoFailureLeft, TypeOK
<1>9. ASSUME NEW m \in Name, CheckParsed(m) PROVE NoFailureLeft'
  BY <1>9, <1>t DEF CheckParsed, NoFailureLeft, TypeOK
<1>10. CASE EndCheck
  BY <1>10, <1>t DEF EndCheck, NoFailureLeft, TypeOK
<1>11. ASSUME NEW m \in Name, Generate(m) PROVE NoFailureLeft'
  BY <1>11, <1>t DEF Generate, NoFailureLeft, TypeOK
<1>12. CASE EndGenerate
  BY <1>12, <1>t DEF EndGenerate, NoFailureLeft, TypeOK
<1>13. ASSUME NEW m \in Name, Borrow(m) PROVE NoFailureLeft'
  BY <1>13, <1>t DEF Borrow, NoFailureLeft, TypeOK
<1>14. CASE EndBorrow
  BY <1>14, <1>t DEF EndBorrow, NoFailureLeft, TypeOK
<1>15. ASSUME NEW m \in Name, CheckBorrowed(m) PROVE NoFailureLeft'
  BY <1>15, <1>t DEF CheckBorrowed, NoFailureLeft, TypeOK
<1>16. CASE EndCheckBorrowed
  BY <1>16, <1>t DEF EndCheckBorrowed, NoFailureLeft, TypeOK
<1>17. CASE Spread
  BY <1>17, <1>t DEF Spread, NoFailureLeft, TypeOK
<1>18. CASE Omit
  BY <1>18, <1>t DEF Omit, NoFailureLeft, TypeOK
<1>19. ASSUME NEW m \in Name, Store(m) PROVE NoFailureLeft'
  BY <1>19, <1>t DEF Store, NoFailureLeft, TypeOK
<1>20. ASSUME NEW m \in Name, StoreFails(m) PROVE NoFailureLeft'
  BY <1>20, <1>t DEF StoreFails, NoFailureLeft, TypeOK
<1>21. CASE EndStore
  BY <1>21, <1>t DEF EndStore, NoFailureLeft, TypeOK
<1>22. CASE Report
  BY <1>22, <1>t DEF Report, NoFailureLeft, TypeOK
<1>23. CASE NextCall
  BY <1>23, <1>t DEF NextCall, Fresh, NoFailureLeft, TypeOK
<1>24. CASE UNCHANGED vars
  BY <1>24, <1>t DEF vars, NoFailureLeft, TypeOK
<1> QED
  BY <1>1, <1>2, <1>3, <1>4, <1>5, <1>6, <1>7, <1>8, <1>9, <1>10, <1>11, <1>12,
     <1>13, <1>14, <1>15, <1>16, <1>17, <1>18, <1>19, <1>20, <1>21, <1>22, <1>23, <1>24 DEF Next

(* The final pass over the report adds to a status, it does not change it. *)
LEMMA ReportKeepsStatus ==
  ASSUME TypeOK, Report, NEW m \in Name, NEW st
  PROVE  Has(m, st)' <=> Has(m, st)
<1>1. processed'[m] = Annotated(m) /\ processed[m] \in Status \cup {None}
  BY DEF Report, TypeOK
<1>n. None \notin Status
  BY CompileAssumption
<1>2. Annotated(m) = None <=> processed[m] = None
  BY <1>1, <1>n, AnnotatedIsTyped
<1>3. processed[m] # None => Annotated(m).st = processed[m].st
  BY <1>1 DEF Annotated, Status
<1> QED
  BY <1>1, <1>2, <1>3 DEF Has

(* A module the writer took is reported compiled. *)
LEMMA CompiledStatus ==
  ASSUME TypeOK, NEW m \in Name, NEW k \in Unit
  PROVE  Compiled(m, k) # None /\ Compiled(m, k).st = "compiled"
<1>1. Compiled(m, k) # None
  BY CompiledIsTyped, CompileAssumption
<1> QED
  BY <1>1 DEF Compiled

(* What is written is reported compiled or borrowed. *)
LEMMA WrittenNext == ReportInv /\ [Next]_vars => WrittenIsReported'
<1> SUFFICES ASSUME ReportInv, [Next]_vars PROVE WrittenIsReported'
  OBVIOUS
<1>t. /\ TypeOK /\ TypeOK' /\ Turns /\ Turns' /\ OnlyFailuresYet /\ FailedIsUnread /\ LoansAreLent
      /\ StatusExplained /\ NoFailureLeft /\ WrittenIsReported /\ ReportedIsWritten
  BY NextTyped, TurnsNext DEF ReportInv
<1>b. call' = call => \A m \in Name : Blurred(m)' <=> Blurred(m)
  BY DEF Blurred, OneModuleEach
<1> USE DEF sourceVars, outputVars, callVars, Looking, Closing
<1>1. CASE SkipSettled
  BY <1>1, <1>t, <1>b DEF SkipSettled, WrittenIsReported, TypeOK, Has
<1>2. CASE Escape
  BY <1>2, <1>t, <1>b DEF Escape, WrittenIsReported, TypeOK, Has
<1>3. CASE Conflict
  BY <1>3, <1>t, <1>b DEF Conflict, WrittenIsReported, TypeOK, Has
<1>4. CASE Missing
  BY <1>4, <1>t, <1>b DEF Missing, WrittenIsReported, TypeOK, Has
<1>5. CASE PickUp
  BY <1>5, <1>t, <1>b DEF PickUp, WrittenIsReported, TypeOK, Has
<1>6. ASSUME NEW k \in Untried, Accept(k) PROVE WrittenIsReported'
  BY <1>6, <1>t, <1>b DEF Accept, TakeDeclared, WrittenIsReported, TypeOK, Has
<1>7. ASSUME NEW k \in Untried, Reject(k) PROVE WrittenIsReported'
  BY <1>7, <1>t, <1>b DEF Reject, TakeDeclared, WrittenIsReported, TypeOK, Has
<1>8. CASE EndParse
  BY <1>8, <1>t, <1>b DEF EndParse, WrittenIsReported, TypeOK, Has
<1>9. ASSUME NEW m \in Name, CheckParsed(m) PROVE WrittenIsReported'
  BY <1>9, <1>t, <1>b DEF CheckParsed, WrittenIsReported, TypeOK, Has
<1>10. CASE EndCheck
  BY <1>10, <1>t, <1>b DEF EndCheck, WrittenIsReported, TypeOK, Has
<1>11. ASSUME NEW m \in Name, Generate(m) PROVE WrittenIsReported'
  BY <1>11, <1>t, <1>b DEF Generate, WrittenIsReported, TypeOK, Has
<1>12. CASE EndGenerate
  BY <1>12, <1>t, <1>b DEF EndGenerate, WrittenIsReported, TypeOK, Has
<1>13. ASSUME NEW m \in Name, Borrow(m) PROVE WrittenIsReported'
  BY <1>13, <1>t, <1>b DEF Borrow, WrittenIsReported, TypeOK, Has
<1>14. CASE EndBorrow
  BY <1>14, <1>t, <1>b DEF EndBorrow, WrittenIsReported, TypeOK, Has
<1>15. ASSUME NEW m \in Name, CheckBorrowed(m) PROVE WrittenIsReported'
  BY <1>15, <1>t, <1>b DEF CheckBorrowed, WrittenIsReported, TypeOK, Has
<1>16. CASE EndCheckBorrowed
  BY <1>16, <1>t, <1>b DEF EndCheckBorrowed, WrittenIsReported, TypeOK, Has
<1>17. CASE Spread
  BY <1>17, <1>t, <1>b DEF Spread, WrittenIsReported, TypeOK, Has
<1>18. CASE Omit
  BY <1>18, <1>t, <1>b DEF Omit, WrittenIsReported, TypeOK, Has
<1>19. ASSUME NEW m \in Name, Store(m) PROVE WrittenIsReported'
  <2>1. /\ pc = "store" /\ pc' = "store" /\ built[m] \in Unit
        /\ UNCHANGED <<call, failed, borrowed, parsed>>
        /\ built' = [built EXCEPT ![m] = None]
        /\ processed' = [processed EXCEPT ![m] = IF @ = None THEN Compiled(m, built[m]) ELSE @]
    BY <1>19, <1>t DEF Store, TypeOK
  <2>2. wrote' = wrote \/ (call.writes /\ wrote' = [wrote EXCEPT ![m] = built[m]])
    BY <1>19 DEF Store
  <2>3. \/ processed[m] = None /\ processed'[m] = Compiled(m, built[m])
        \/ processed[m] # None /\ processed'[m] = processed[m]
    BY <2>1, <1>t DEF TypeOK
  <2>4. CASE processed[m] = None
    <3>1. Has(m, "compiled")'
      BY <2>1, <2>3, <2>4, <1>t, CompiledStatus DEF Has
    <3> QED
      BY <2>1, <2>2, <3>1, <1>t, <1>b DEF WrittenIsReported, Has, TypeOK
  <2>5. CASE processed[m] # None
    <3>1. Has(m, "borrowed") \/ Blurred(m)
      BY <2>1, <2>5, <1>19, <1>t DEF StatusExplained, NoFailureLeft, Turns, Nothing, Store
    <3>2. processed' = processed
      BY <2>1, <2>5, <1>t DEF TypeOK
    <3> QED
      BY <2>1, <2>2, <3>1, <3>2, <1>t, <1>b DEF WrittenIsReported, Has, TypeOK
  <2> QED
    BY <2>4, <2>5
<1>20. ASSUME NEW m \in Name, StoreFails(m) PROVE WrittenIsReported'
  BY <1>20, <1>t, <1>b DEF StoreFails, Turns, WrittenIsReported, TypeOK, Has
<1>21. CASE EndStore
  BY <1>21, <1>t, <1>b DEF EndStore, WrittenIsReported, TypeOK, Has
<1>22. CASE Report
  <2>1. \A m \in Name, st \in {"compiled", "borrowed"} : Has(m, st)' <=> Has(m, st)
    BY <1>22, <1>t, ReportKeepsStatus
  <2> QED
    BY <1>22, <2>1, <1>t, <1>b DEF Report, WrittenIsReported
<1>23. CASE NextCall
  BY <1>23, <1>t, <1>b DEF NextCall, Fresh, Nothing, WrittenIsReported, TypeOK,
     Has
<1>24. CASE UNCHANGED vars
  BY <1>24, <1>t, <1>b DEF vars, WrittenIsReported, TypeOK, Has
<1> QED
  BY <1>1, <1>2, <1>3, <1>4, <1>5, <1>6, <1>7, <1>8, <1>9, <1>10, <1>11, <1>12,
     <1>13, <1>14, <1>15, <1>16, <1>17, <1>18, <1>19, <1>20, <1>21, <1>22, <1>23, <1>24 DEF Next

(* What is reported compiled or borrowed is written, or about to be. *)
LEMMA ReportedNext == ReportInv /\ [Next]_vars => ReportedIsWritten'
<1> SUFFICES ASSUME ReportInv, [Next]_vars PROVE ReportedIsWritten'
  OBVIOUS
<1>t. /\ TypeOK /\ TypeOK' /\ Turns /\ Turns' /\ OnlyFailuresYet /\ FailedIsUnread /\ LoansAreLent
      /\ StatusExplained /\ NoFailureLeft /\ WrittenIsReported /\ ReportedIsWritten
  BY NextTyped, TurnsNext DEF ReportInv
<1> USE DEF sourceVars, outputVars, callVars, Looking, Closing
<1>1. CASE SkipSettled
  BY <1>1, <1>t DEF SkipSettled, ReportedIsWritten, TypeOK, Has
<1>2. CASE Escape
  BY <1>2, <1>t DEF Escape, ReportedIsWritten, TypeOK, Has
<1>3. CASE Conflict
  <2>1. \A n \in Name, st \in {"compiled", "borrowed"} : Has(n, st)' => Has(n, st)
    BY <1>3, <1>t, StatusNames, HeadIsAName DEF Conflict, Has, TypeOK
  <2> QED
    BY <1>3, <2>1, <1>t DEF Conflict, ReportedIsWritten, TypeOK, Turns, Nothing, Early
<1>4. CASE Missing
  <2>1. \A n \in Name, st \in {"compiled", "borrowed"} : Has(n, st)' => Has(n, st)
    BY <1>4, <1>t, StatusNames, HeadIsAName DEF Missing, Has, TypeOK
  <2> QED
    BY <1>4, <2>1, <1>t DEF Missing, ReportedIsWritten, TypeOK, Turns, Nothing, Early
<1>5. CASE PickUp
  BY <1>5, <1>t DEF PickUp, ReportedIsWritten, TypeOK, Has
<1>6. ASSUME NEW k \in Untried, Accept(k) PROVE ReportedIsWritten'
  <2>1. \A n \in Name, st \in {"compiled", "borrowed"} : Has(n, st)' => Has(n, st)
    BY <1>6, <1>t, StatusNames DEF Accept, Unreport, Has, TypeOK
  <2> QED
    BY <1>6, <2>1, <1>t DEF Accept, ReportedIsWritten, TypeOK, Turns, Nothing, Early
<1>7. ASSUME NEW k \in Untried, Reject(k) PROVE ReportedIsWritten'
  <2>1. \A n \in Name, st \in {"compiled", "borrowed"} : Has(n, st)' => Has(n, st)
    BY <1>7, <1>t, StatusNames DEF Reject, Has, TypeOK
  <2> QED
    BY <1>7, <2>1, <1>t DEF Reject, ReportedIsWritten, TypeOK, Turns, Nothing, Early
<1>8. CASE EndParse
  BY <1>8, <1>t DEF EndParse, ReportedIsWritten, TypeOK, Has
<1>9. ASSUME NEW m \in Name, CheckParsed(m) PROVE ReportedIsWritten'
  <2>1. \A n \in Name, st \in {"compiled", "borrowed"} : Has(n, st)' => Has(n, st)
    BY <1>9, <1>t, StatusNames DEF CheckParsed, Has, TypeOK
  <2> QED
    BY <1>9, <2>1, <1>t DEF CheckParsed, ReportedIsWritten, TypeOK, Turns, Nothing, Early
<1>10. CASE EndCheck
  BY <1>10, <1>t DEF EndCheck, ReportedIsWritten, TypeOK, Has
<1>11. ASSUME NEW m \in Name, Generate(m) PROVE ReportedIsWritten'
  <2>1. \A n \in Name, st \in {"compiled", "borrowed"} : Has(n, st)' => Has(n, st)
    BY <1>11, <1>t, StatusNames DEF Generate, Has, TypeOK
  <2> QED
    BY <1>11, <2>1, <1>t DEF Generate, ReportedIsWritten, TypeOK, Turns, Nothing, Early
<1>12. CASE EndGenerate
  BY <1>12, <1>t DEF EndGenerate, ReportedIsWritten, TypeOK, Has
<1>13. ASSUME NEW m \in Name, Borrow(m) PROVE ReportedIsWritten'
  BY <1>13, <1>t DEF Borrow, ReportedIsWritten, TypeOK, Has
<1>14. CASE EndBorrow
  BY <1>14, <1>t DEF EndBorrow, ReportedIsWritten, TypeOK, Has
<1>15. ASSUME NEW m \in Name, CheckBorrowed(m) PROVE ReportedIsWritten'
  <2>1. /\ pc = "checkBorrowed" /\ borrowed[m] # None /\ UNCHANGED <<pc, call, wrote>>
    BY <1>15 DEF CheckBorrowed
  <2>2. \A n \in Name \ {m} : built'[n] = built[n] /\ processed'[n] = processed[n]
    BY <1>15, <1>t, ZenonT(60) DEF CheckBorrowed, TypeOK
  <2>3. \/ processed' = [processed EXCEPT ![m] = Plainly("untouched")]
        \/ /\ processed' = [processed EXCEPT ![m] = StatusBorrowed]
           /\ built' = [built EXCEPT ![m] = borrowed[m]]
    BY <1>15 DEF CheckBorrowed
  <2>4. /\ ~Has(m, "compiled")'
        /\ Has(m, "borrowed")' => built'[m] # None
    BY <2>1, <2>3, <1>t, StatusNames DEF Has, TypeOK
  <2> QED
    BY <2>1, <2>2, <2>4, <1>t DEF ReportedIsWritten, Has
<1>16. CASE EndCheckBorrowed
  BY <1>16, <1>t DEF EndCheckBorrowed, ReportedIsWritten, TypeOK, Has
<1>17. CASE Spread
  BY <1>17, <1>t DEF Spread, ReportedIsWritten, TypeOK, Has
<1>18. CASE Omit
  <2>1. \A n \in Name : \/ processed'[n] = processed[n] /\ built'[n] = built[n]
                        \/ processed'[n] = processed[n] /\ built[n] = None
                        \/ processed'[n] = Plainly("unprocessed")
    BY <1>18 DEF Omit, Held
  <2>2. \A n \in Name, st \in {"compiled", "borrowed"} :
          Has(n, st)' => Has(n, st) /\ (built[n] # None => built'[n] # None)
    BY <2>1, StatusNames DEF Has
  <2> QED
    BY <1>18, <2>2, <1>t DEF Omit, ReportedIsWritten
<1>19. ASSUME NEW m \in Name, Store(m) PROVE ReportedIsWritten'
  BY <1>19, <1>t, CompiledStatus DEF Store, ReportedIsWritten, TypeOK, Has
<1>20. ASSUME NEW m \in Name, StoreFails(m) PROVE ReportedIsWritten'
  <2>1. /\ processed' = [processed EXCEPT ![m] = Plainly("failed")]
        /\ built' = [built EXCEPT ![m] = None] /\ UNCHANGED <<pc, call, wrote>>
    BY <1>20 DEF StoreFails
  <2>2. \A st \in {"compiled", "borrowed"} : ~Has(m, st)'
    BY <2>1, <1>t, StatusNames DEF Has, TypeOK
  <2>3. \A n \in Name \ {m} : processed'[n] = processed[n] /\ built'[n] = built[n]
    BY <2>1, <1>t DEF TypeOK
  <2> QED
    BY <2>1, <2>2, <2>3, <1>t DEF ReportedIsWritten, Has
<1>21. CASE EndStore
  BY <1>21, <1>t DEF EndStore, ReportedIsWritten, TypeOK, Has
<1>22. CASE Report
  <2>1. \A m \in Name, st \in {"compiled", "borrowed"} : Has(m, st)' <=> Has(m, st)
    BY <1>22, <1>t, ReportKeepsStatus
  <2> QED
    BY <1>22, <2>1, <1>t DEF Report, ReportedIsWritten
<1>23. CASE NextCall
  BY <1>23, <1>t DEF NextCall, Fresh, Nothing, ReportedIsWritten, TypeOK, Has
<1>24. CASE UNCHANGED vars
  BY <1>24, <1>t DEF vars, ReportedIsWritten, TypeOK, Has
<1> QED
  BY <1>1, <1>2, <1>3, <1>4, <1>5, <1>6, <1>7, <1>8, <1>9, <1>10, <1>11, <1>12,
     <1>13, <1>14, <1>15, <1>16, <1>17, <1>18, <1>19, <1>20, <1>21, <1>22, <1>23, <1>24 DEF Next

(* No step of a call, nor the next call, makes the report untrue. *)
LEMMA ReportNext == ReportInv /\ [Next]_vars => ReportInv'
BY NextTyped, TurnsNext, FailuresNext, UnreadNext, LentNext, ExplainedNext, NoneLeftNext,
   WrittenNext, ReportedNext DEF ReportInv

(* The report and the output directory agree, in any call and whatever fails   *)
(* or is lent: what is reported compiled or borrowed is what was written.      *)
THEOREM ReportIsTrue == Spec => []ReportMatchesOutput
<1>1. ReportInv => ReportMatchesOutput
  BY DEF ReportInv, ReportMatchesOutput, Turns, WrittenIsReported, ReportedIsWritten, Nothing
<1> QED
  BY <1>1, ReportInit, ReportNext, PTL DEF Spec

-------------------------------------------------------------------------------
(* What a call leaves alone. *)

(* past the searcher, on the way to code generation *)
Passed(m) == parsed[m] # None /\ (pc = "generate" \/ (pc = "check" /\ m \notin todo))

CanonIsAskedFor == \A m \in canon : \E text \in Text : AskedFor(m, text)

ReadAsFound ==
  \A m \in Name : parsed[m] # None => m \in canon \/ Unasked(m, parsed[m].text)

NoDepsKept ==
  call.noDeps =>
    \A m \in Name :
      Passed(m) \/ built[m] # None \/ borrowed[m] # None \/ wrote[m] # None => m \in canon

(* the searchers did not call it current *)
DueIn(c, d, m, k) ==
  /\ m \notin c.stub
  /\ \/ c.rebuild \/ d[m] \in {None, Foreign} \/ k.src \in c.touched
     \/ k.text \in Text /\ d[m] \notin {Plain, k.text}
Due(m, k) == DueIn(call, before, m, k)

WorkIsDue ==
  \A m \in Name :
    /\ Passed(m) => Due(m, parsed[m])
    /\ built[m] # None => Due(m, built[m])
    /\ wrote[m] # None => Due(m, wrote[m])

LeftForCause(m) ==
  \/ m \in call.stub
  \/ call.noDeps /\ Unasked(m, tables[m])
  \/ /\ before[m] \notin {None, Foreign}
     /\ before[m] \in {Plain, tables[m]} \/ call.lends[m] # None

UntouchedRests ==
  \A m \in Name : Has(m, "untouched") /\ ~Blurred(m) =>
    /\ pc \notin Looking /\ parsed[m] = None /\ built[m] = None /\ disk[m] = before[m]
    /\ LeftForCause(m)

RestInv == CanonIsAskedFor /\ ReadAsFound /\ NoDepsKept /\ WorkIsDue /\ UntouchedRests

(* A call that has done nothing has left everything alone. *)
LEMMA RestInit == Init => RestInv
<1> SUFFICES ASSUME Init PROVE RestInv
  OBVIOUS
<1>1. \A m \in Name : ~Has(m, "untouched")
  BY DEF Init, Has, Nothing
<1> QED
  BY <1>1 DEF Init, RestInv, CanonIsAskedFor, ReadAsFound, NoDepsKept, WorkIsDue,
     UntouchedRests, Passed, Nothing

(* What a text declares was found under the name of its file. *)
LEMMA TakenAsFound ==
  ASSUME TypeOK, CanonIsAskedFor, ReadAsFound, NEW k \in Untried, TakeDeclared(k),
         UNCHANGED call
  PROVE  CanonIsAskedFor' /\ ReadAsFound'
<1>1. lookup \in Name /\ k \in Candidates(call, lookup) /\ k \in Copy
  BY DeclaredAreNames DEF Untried, TypeOK
<1>2. \A m \in Name, t \in Text :
        (AskedFor(m, t)' <=> AskedFor(m, t)) /\ (Unasked(m, t)' <=> Unasked(m, t))
  BY DEF AskedFor, Unasked, Requested
<1>3. \A m \in Mib[k.text].declares :
        IF k.alias \in Requested THEN AskedFor(m, k.text) ELSE Unasked(m, k.text)
  BY <1>1 DEF AskedFor, Unasked
<1>4. k.text \in Text /\ Mib[k.text].declares \subseteq Name /\ canon \subseteq Name
  BY <1>1, DeclaredAreNames DEF Copy, TypeOK
<1>5. CanonIsAskedFor'
  BY <1>2, <1>3, <1>4 DEF CanonIsAskedFor, TakeDeclared
<1>6. ASSUME NEW m \in Name, (parsed[m] # None)'
      PROVE  (m \in canon \/ Unasked(m, parsed[m].text))'
  <2>1. CASE Declared(k, m)
    <3>1. parsed'[m] = k
      BY <2>1 DEF TakeDeclared
    <3>2. k.alias \in Requested => m \in canon'
      BY <2>1 DEF TakeDeclared, Declared
    <3> QED
      BY <1>1, <2>1, <3>1, <3>2 DEF Unasked, Requested, Declared
  <2>2. CASE ~Declared(k, m)
    <3>1. parsed'[m] = parsed[m] /\ canon \subseteq canon'
      BY <2>2 DEF TakeDeclared
    <3> QED
      BY <1>6, <3>1 DEF ReadAsFound, Unasked, Requested
  <2> QED
    BY <2>1, <2>2
<1> QED
  BY <1>5, <1>6 DEF ReadAsFound

(* A name is canonical because it was asked for. *)
LEMMA CanonNext == OutputInv /\ ReportInv /\ RestInv /\ [Next]_vars => CanonIsAskedFor'
<1> SUFFICES ASSUME OutputInv, ReportInv, RestInv, [Next]_vars PROVE CanonIsAskedFor'
  OBVIOUS
<1>t. /\ TypeOK /\ TypeOK' /\ Turns /\ Turns' /\ CanonIsAskedFor /\ ReadAsFound /\ NoDepsKept
      /\ WorkIsDue /\ UntouchedRests
  BY NextTyped, TurnsNext DEF ReportInv, RestInv
<1>f. call' = call =>
        \A m \in Name, t \in Text :
          (AskedFor(m, t)' <=> AskedFor(m, t)) /\ (Unasked(m, t)' <=> Unasked(m, t))
  BY DEF AskedFor, Unasked, Requested
<1>x. \A m \in Name : parsed[m] # None => parsed[m].text \in Text
  BY <1>t DEF TypeOK, Copy
<1> USE DEF sourceVars, outputVars, callVars
<1>1. CASE SkipSettled
  BY <1>1, <1>t, <1>f DEF SkipSettled, CanonIsAskedFor, TypeOK
<1>2. CASE Escape
  BY <1>2, <1>t, <1>f DEF Escape, CanonIsAskedFor, TypeOK
<1>3. CASE Conflict
  BY <1>3, <1>t, <1>f DEF Conflict, CanonIsAskedFor, TypeOK
<1>4. CASE Missing
  BY <1>4, <1>t, <1>f DEF Missing, CanonIsAskedFor, TypeOK
<1>5. CASE PickUp
  BY <1>5, <1>t, <1>f DEF PickUp, CanonIsAskedFor, TypeOK
<1>6. ASSUME NEW k \in Untried, Accept(k) PROVE CanonIsAskedFor'
  BY <1>6, <1>t, TakenAsFound DEF Accept
<1>7. ASSUME NEW k \in Untried, Reject(k) PROVE CanonIsAskedFor'
  BY <1>7, <1>t, TakenAsFound DEF Reject
<1>8. CASE EndParse
  BY <1>8, <1>t, <1>f DEF EndParse, CanonIsAskedFor, TypeOK
<1>9. ASSUME NEW m \in Name, CheckParsed(m) PROVE CanonIsAskedFor'
  BY <1>9, <1>t, <1>f DEF CheckParsed, CanonIsAskedFor, TypeOK
<1>10. CASE EndCheck
  BY <1>10, <1>t, <1>f DEF EndCheck, CanonIsAskedFor, TypeOK
<1>11. ASSUME NEW m \in Name, Generate(m) PROVE CanonIsAskedFor'
  BY <1>11, <1>t, <1>f DEF Generate, CanonIsAskedFor, TypeOK
<1>12. CASE EndGenerate
  BY <1>12, <1>t, <1>f DEF EndGenerate, CanonIsAskedFor, TypeOK
<1>13. ASSUME NEW m \in Name, Borrow(m) PROVE CanonIsAskedFor'
  BY <1>13, <1>t, <1>f DEF Borrow, CanonIsAskedFor, TypeOK
<1>14. CASE EndBorrow
  BY <1>14, <1>t, <1>f DEF EndBorrow, CanonIsAskedFor, TypeOK
<1>15. ASSUME NEW m \in Name, CheckBorrowed(m) PROVE CanonIsAskedFor'
  BY <1>15, <1>t, <1>f DEF CheckBorrowed, CanonIsAskedFor, TypeOK
<1>16. CASE EndCheckBorrowed
  BY <1>16, <1>t, <1>f DEF EndCheckBorrowed, CanonIsAskedFor, TypeOK
<1>17. CASE Spread
  BY <1>17, <1>t, <1>f DEF Spread, CanonIsAskedFor, TypeOK
<1>18. CASE Omit
  BY <1>18, <1>t, <1>f DEF Omit, CanonIsAskedFor, TypeOK
<1>19. ASSUME NEW m \in Name, Store(m) PROVE CanonIsAskedFor'
  BY <1>19, <1>t, <1>f DEF Store, CanonIsAskedFor, TypeOK
<1>20. ASSUME NEW m \in Name, StoreFails(m) PROVE CanonIsAskedFor'
  BY <1>20, <1>t, <1>f DEF StoreFails, CanonIsAskedFor, TypeOK
<1>21. CASE EndStore
  BY <1>21, <1>t, <1>f DEF EndStore, CanonIsAskedFor, TypeOK
<1>22. CASE Report
  BY <1>22, <1>t, <1>f DEF Report, CanonIsAskedFor, TypeOK
<1>23. CASE NextCall
  BY <1>23, <1>t, <1>f DEF NextCall, Fresh, CanonIsAskedFor, TypeOK
<1>24. CASE UNCHANGED vars
  BY <1>24, <1>t, <1>f DEF vars, CanonIsAskedFor, TypeOK
<1> QED
  BY <1>1, <1>2, <1>3, <1>4, <1>5, <1>6, <1>7, <1>8, <1>9, <1>10, <1>11, <1>12,
     <1>13, <1>14, <1>15, <1>16, <1>17, <1>18, <1>19, <1>20, <1>21, <1>22, <1>23, <1>24 DEF Next

(* Every text read was found under some name. *)
LEMMA FoundNext == OutputInv /\ ReportInv /\ RestInv /\ [Next]_vars => ReadAsFound'
<1> SUFFICES ASSUME OutputInv, ReportInv, RestInv, [Next]_vars PROVE ReadAsFound'
  OBVIOUS
<1>t. /\ TypeOK /\ TypeOK' /\ Turns /\ Turns' /\ CanonIsAskedFor /\ ReadAsFound /\ NoDepsKept
      /\ WorkIsDue /\ UntouchedRests
  BY NextTyped, TurnsNext DEF ReportInv, RestInv
<1>f. call' = call =>
        \A m \in Name, t \in Text :
          (AskedFor(m, t)' <=> AskedFor(m, t)) /\ (Unasked(m, t)' <=> Unasked(m, t))
  BY DEF AskedFor, Unasked, Requested
<1>x. \A m \in Name : parsed[m] # None => parsed[m].text \in Text
  BY <1>t DEF TypeOK, Copy
<1> USE DEF sourceVars, outputVars, callVars
<1>1. CASE SkipSettled
  BY <1>1, <1>t, <1>f, <1>x DEF SkipSettled, ReadAsFound, TypeOK
<1>2. CASE Escape
  BY <1>2, <1>t, <1>f, <1>x DEF Escape, ReadAsFound, TypeOK
<1>3. CASE Conflict
  BY <1>3, <1>t, <1>f, <1>x DEF Conflict, ReadAsFound, TypeOK
<1>4. CASE Missing
  BY <1>4, <1>t, <1>f, <1>x DEF Missing, ReadAsFound, TypeOK
<1>5. CASE PickUp
  BY <1>5, <1>t, <1>f, <1>x DEF PickUp, ReadAsFound, TypeOK
<1>6. ASSUME NEW k \in Untried, Accept(k) PROVE ReadAsFound'
  BY <1>6, <1>t, TakenAsFound DEF Accept
<1>7. ASSUME NEW k \in Untried, Reject(k) PROVE ReadAsFound'
  BY <1>7, <1>t, TakenAsFound DEF Reject
<1>8. CASE EndParse
  BY <1>8, <1>t, <1>f, <1>x DEF EndParse, ReadAsFound, TypeOK
<1>9. ASSUME NEW m \in Name, CheckParsed(m) PROVE ReadAsFound'
  BY <1>9, <1>t, <1>f, <1>x DEF CheckParsed, ReadAsFound, TypeOK
<1>10. CASE EndCheck
  BY <1>10, <1>t, <1>f, <1>x DEF EndCheck, ReadAsFound, TypeOK
<1>11. ASSUME NEW m \in Name, Generate(m) PROVE ReadAsFound'
  BY <1>11, <1>t, <1>f, <1>x DEF Generate, ReadAsFound, TypeOK
<1>12. CASE EndGenerate
  BY <1>12, <1>t, <1>f, <1>x DEF EndGenerate, ReadAsFound, TypeOK
<1>13. ASSUME NEW m \in Name, Borrow(m) PROVE ReadAsFound'
  BY <1>13, <1>t, <1>f, <1>x DEF Borrow, ReadAsFound, TypeOK
<1>14. CASE EndBorrow
  BY <1>14, <1>t, <1>f, <1>x DEF EndBorrow, ReadAsFound, TypeOK
<1>15. ASSUME NEW m \in Name, CheckBorrowed(m) PROVE ReadAsFound'
  BY <1>15, <1>t, <1>f, <1>x DEF CheckBorrowed, ReadAsFound, TypeOK
<1>16. CASE EndCheckBorrowed
  BY <1>16, <1>t, <1>f, <1>x DEF EndCheckBorrowed, ReadAsFound, TypeOK
<1>17. CASE Spread
  BY <1>17, <1>t, <1>f, <1>x DEF Spread, ReadAsFound, TypeOK
<1>18. CASE Omit
  BY <1>18, <1>t, <1>f, <1>x DEF Omit, ReadAsFound, TypeOK
<1>19. ASSUME NEW m \in Name, Store(m) PROVE ReadAsFound'
  BY <1>19, <1>t, <1>f, <1>x DEF Store, ReadAsFound, TypeOK
<1>20. ASSUME NEW m \in Name, StoreFails(m) PROVE ReadAsFound'
  BY <1>20, <1>t, <1>f, <1>x DEF StoreFails, ReadAsFound, TypeOK
<1>21. CASE EndStore
  BY <1>21, <1>t, <1>f, <1>x DEF EndStore, ReadAsFound, TypeOK
<1>22. CASE Report
  BY <1>22, <1>t, <1>f, <1>x DEF Report, ReadAsFound, TypeOK
<1>23. CASE NextCall
  BY <1>23, <1>t, <1>f, <1>x DEF NextCall, Fresh, Nothing, ReadAsFound, TypeOK
<1>24. CASE UNCHANGED vars
  BY <1>24, <1>t, <1>f, <1>x DEF vars, ReadAsFound, TypeOK
<1> QED
  BY <1>1, <1>2, <1>3, <1>4, <1>5, <1>6, <1>7, <1>8, <1>9, <1>10, <1>11, <1>12,
     <1>13, <1>14, <1>15, <1>16, <1>17, <1>18, <1>19, <1>20, <1>21, <1>22, <1>23, <1>24 DEF Next

(* With noDeps nothing but what is canonical goes past the searchers. *)
LEMMA NoDepsNext == OutputInv /\ ReportInv /\ RestInv /\ [Next]_vars => NoDepsKept'
<1> SUFFICES ASSUME OutputInv, ReportInv, RestInv, [Next]_vars PROVE NoDepsKept'
  OBVIOUS
<1>t. /\ TypeOK /\ TypeOK' /\ Turns /\ Turns' /\ CanonIsAskedFor /\ ReadAsFound /\ NoDepsKept
      /\ WorkIsDue /\ UntouchedRests
  BY NextTyped, TurnsNext DEF ReportInv, RestInv
<1> USE DEF sourceVars, outputVars, callVars
<1>1. CASE SkipSettled
  BY <1>1, <1>t DEF SkipSettled, NoDepsKept, Passed, TypeOK
<1>2. CASE Escape
  BY <1>2, <1>t DEF Escape, NoDepsKept, Passed, TypeOK
<1>3. CASE Conflict
  BY <1>3, <1>t DEF Conflict, NoDepsKept, Passed, TypeOK
<1>4. CASE Missing
  BY <1>4, <1>t DEF Missing, NoDepsKept, Passed, TypeOK
<1>5. CASE PickUp
  BY <1>5, <1>t DEF PickUp, NoDepsKept, Passed, TypeOK
<1>6. ASSUME NEW k \in Untried, Accept(k) PROVE NoDepsKept'
  BY <1>6, <1>t DEF Accept, TakeDeclared, Turns, Nothing, Looking, Early,
     NoDepsKept, Passed, TypeOK
<1>7. ASSUME NEW k \in Untried, Reject(k) PROVE NoDepsKept'
  BY <1>7, <1>t DEF Reject, TakeDeclared, Turns, Nothing, Looking, Early,
     NoDepsKept, Passed, TypeOK
<1>8. CASE EndParse
  BY <1>8, <1>t DEF EndParse, Held, Turns, Looking, Nothing, Early, NoDepsKept,
     Passed, TypeOK
<1>9. ASSUME NEW m \in Name, CheckParsed(m) PROVE NoDepsKept'
  BY <1>9, <1>t DEF CheckParsed, Excluded, NoDepsKept, Passed, TypeOK
<1>10. CASE EndCheck
  BY <1>10, <1>t DEF EndCheck, NoDepsKept, Passed, TypeOK
<1>11. ASSUME NEW m \in Name, Generate(m) PROVE NoDepsKept'
  BY <1>11, <1>t DEF Generate, NoDepsKept, Passed, TypeOK
<1>12. CASE EndGenerate
  BY <1>12, <1>t DEF EndGenerate, NoDepsKept, Passed, TypeOK
<1>13. ASSUME NEW m \in Name, Borrow(m) PROVE NoDepsKept'
  BY <1>13, <1>t DEF Borrow, Excluded, NoDepsKept, Passed, TypeOK
<1>14. CASE EndBorrow
  BY <1>14, <1>t DEF EndBorrow, NoDepsKept, Passed, TypeOK
<1>15. ASSUME NEW m \in Name, CheckBorrowed(m) PROVE NoDepsKept'
  BY <1>15, <1>t DEF CheckBorrowed, NoDepsKept, Passed, TypeOK
<1>16. CASE EndCheckBorrowed
  BY <1>16, <1>t DEF EndCheckBorrowed, NoDepsKept, Passed, TypeOK
<1>17. CASE Spread
  BY <1>17, <1>t DEF Spread, NoDepsKept, Passed, TypeOK
<1>18. CASE Omit
  BY <1>18, <1>t DEF Omit, NoDepsKept, Passed, TypeOK
<1>19. ASSUME NEW m \in Name, Store(m) PROVE NoDepsKept'
  BY <1>19, <1>t DEF Store, NoDepsKept, Passed, TypeOK
<1>20. ASSUME NEW m \in Name, StoreFails(m) PROVE NoDepsKept'
  BY <1>20, <1>t DEF StoreFails, NoDepsKept, Passed, TypeOK
<1>21. CASE EndStore
  BY <1>21, <1>t DEF EndStore, NoDepsKept, Passed, TypeOK
<1>22. CASE Report
  BY <1>22, <1>t DEF Report, NoDepsKept, Passed, TypeOK
<1>23. CASE NextCall
  BY <1>23, <1>t DEF NextCall, Fresh, Nothing, NoDepsKept, Passed, TypeOK
<1>24. CASE UNCHANGED vars
  BY <1>24, <1>t DEF vars, NoDepsKept, Passed, TypeOK
<1> QED
  BY <1>1, <1>2, <1>3, <1>4, <1>5, <1>6, <1>7, <1>8, <1>9, <1>10, <1>11, <1>12,
     <1>13, <1>14, <1>15, <1>16, <1>17, <1>18, <1>19, <1>20, <1>21, <1>22, <1>23, <1>24 DEF Next

(* What the searcher over the output directory does not pass is due. *)
LEMMA NotCurrentIsDue ==
  ASSUME TypeOK, NEW m \in Name, NEW k \in Unit, disk = before
  PROVE  /\ k.text \in Text /\ ~Current(disk, m, k, TRUE) => Due(m, k)
         /\ ~Current(disk, m, k, FALSE) => Due(m, k)
BY DEF Current, Due, DueIn

(* Only what is due is generated, borrowed or written. *)
LEMMA DueNext == OutputInv /\ ReportInv /\ RestInv /\ [Next]_vars => WorkIsDue'
<1> SUFFICES ASSUME OutputInv, ReportInv, RestInv, [Next]_vars PROVE WorkIsDue'
  OBVIOUS
<1>t. /\ TypeOK /\ TypeOK' /\ Turns /\ Turns' /\ CanonIsAskedFor /\ ReadAsFound /\ NoDepsKept
      /\ WorkIsDue /\ UntouchedRests
  BY NextTyped, TurnsNext DEF ReportInv, RestInv
<1> USE DEF sourceVars, outputVars, callVars
<1>1. CASE SkipSettled
  BY <1>1, <1>t DEF SkipSettled, WorkIsDue, Passed, TypeOK, Due
<1>2. CASE Escape
  BY <1>2, <1>t DEF Escape, WorkIsDue, Passed, TypeOK, Due
<1>3. CASE Conflict
  BY <1>3, <1>t DEF Conflict, WorkIsDue, Passed, TypeOK, Due
<1>4. CASE Missing
  BY <1>4, <1>t DEF Missing, WorkIsDue, Passed, TypeOK, Due
<1>5. CASE PickUp
  BY <1>5, <1>t DEF PickUp, WorkIsDue, Passed, TypeOK, Due
<1>6. ASSUME NEW k \in Untried, Accept(k) PROVE WorkIsDue'
  BY <1>6, <1>t DEF Accept, TakeDeclared, Turns, Nothing, Looking, Early,
     WorkIsDue, Passed, TypeOK, Due
<1>7. ASSUME NEW k \in Untried, Reject(k) PROVE WorkIsDue'
  BY <1>7, <1>t DEF Reject, TakeDeclared, Turns, Nothing, Looking, Early,
     WorkIsDue, Passed, TypeOK, Due
<1>8. CASE EndParse
  BY <1>8, <1>t DEF EndParse, Held, Turns, Looking, Nothing, Early, WorkIsDue,
     Passed, TypeOK, Due
<1>9. ASSUME NEW m \in Name, CheckParsed(m) PROVE WorkIsDue'
  <2>1. /\ pc = "check" /\ pc' = "check" /\ m \in todo /\ todo' = todo \ {m}
        /\ UNCHANGED <<call, before, built, wrote>>
        /\ \A n \in Name \ {m} : parsed'[n] = parsed[n]
    BY <1>9, <1>t DEF CheckParsed, TypeOK
  <2>2. parsed'[m] = None \/ (parsed'[m] = parsed[m] /\ ~Current(disk, m, parsed[m], TRUE))
    BY <1>9, <1>t DEF CheckParsed, TypeOK
  <2>3. disk = before
    BY <2>1, <1>t DEF Turns, Early
  <2>4. parsed[m] # None => parsed[m] \in Unit /\ parsed[m].text \in Text
    BY <1>t DEF TypeOK, Unit, Copy
  <2>5. parsed'[m] # None => parsed'[m] = parsed[m] /\ Due(m, parsed[m])
    BY <2>2, <2>3, <2>4, <1>t, NotCurrentIsDue
  <2> QED
    BY <2>1, <2>5, <1>t DEF WorkIsDue, Passed, Due
<1>10. CASE EndCheck
  BY <1>10, <1>t DEF EndCheck, WorkIsDue, Passed, TypeOK, Due
<1>11. ASSUME NEW m \in Name, Generate(m) PROVE WorkIsDue'
  BY <1>11, <1>t DEF Generate, WorkIsDue, Passed, TypeOK, Due
<1>12. CASE EndGenerate
  BY <1>12, <1>t DEF EndGenerate, WorkIsDue, Passed, TypeOK, Due
<1>13. ASSUME NEW m \in Name, Borrow(m) PROVE WorkIsDue'
  BY <1>13, <1>t DEF Borrow, WorkIsDue, Passed, TypeOK, Due
<1>14. CASE EndBorrow
  BY <1>14, <1>t DEF EndBorrow, WorkIsDue, Passed, TypeOK, Due
<1>15. ASSUME NEW m \in Name, CheckBorrowed(m) PROVE WorkIsDue'
  <2>1. /\ pc = "checkBorrowed" /\ UNCHANGED <<pc, call, before, parsed, wrote>>
        /\ borrowed[m] # None
    BY <1>15 DEF CheckBorrowed
  <2>2. \A n \in Name \ {m} : built'[n] = built[n]
    BY <1>15, <1>t DEF CheckBorrowed, TypeOK
  <2>3. \/ built' = built
        \/ built' = [built EXCEPT ![m] = borrowed[m]] /\ ~Current(disk, m, borrowed[m], FALSE)
    BY <1>15 DEF CheckBorrowed
  <2>4. disk = before /\ borrowed[m] \in Unit
    BY <2>1, <1>t DEF Turns, Early, TypeOK, Unit
  <2>5. built'[m] = built[m] \/ (built'[m] = borrowed[m] /\ Due(m, borrowed[m]))
    BY <2>1, <2>3, <2>4, <1>t, NotCurrentIsDue DEF TypeOK
  <2> QED
    BY <2>1, <2>2, <2>5, <1>t DEF WorkIsDue, Passed, Due
<1>16. CASE EndCheckBorrowed
  BY <1>16, <1>t DEF EndCheckBorrowed, WorkIsDue, Passed, TypeOK, Due
<1>17. CASE Spread
  BY <1>17, <1>t DEF Spread, WorkIsDue, Passed, TypeOK, Due
<1>18. CASE Omit
  BY <1>18, <1>t DEF Omit, WorkIsDue, Passed, TypeOK, Due
<1>19. ASSUME NEW m \in Name, Store(m) PROVE WorkIsDue'
  BY <1>19, <1>t DEF Store, WorkIsDue, Passed, TypeOK, Due
<1>20. ASSUME NEW m \in Name, StoreFails(m) PROVE WorkIsDue'
  BY <1>20, <1>t DEF StoreFails, WorkIsDue, Passed, TypeOK, Due
<1>21. CASE EndStore
  BY <1>21, <1>t DEF EndStore, WorkIsDue, Passed, TypeOK, Due
<1>22. CASE Report
  BY <1>22, <1>t DEF Report, WorkIsDue, Passed, TypeOK, Due
<1>23. CASE NextCall
  BY <1>23, <1>t DEF NextCall, Fresh, Nothing, Turns, Looking, WorkIsDue,
     Passed, TypeOK, Due
<1>24. CASE UNCHANGED vars
  BY <1>24, <1>t DEF vars, WorkIsDue, Passed, TypeOK, Due
<1> QED
  BY <1>1, <1>2, <1>3, <1>4, <1>5, <1>6, <1>7, <1>8, <1>9, <1>10, <1>11, <1>12,
     <1>13, <1>14, <1>15, <1>16, <1>17, <1>18, <1>19, <1>20, <1>21, <1>22, <1>23, <1>24 DEF Next

(* What is reported untouched stays as it was, for a reason. *)
LEMMA UntouchedNext == OutputInv /\ ReportInv /\ RestInv /\ [Next]_vars => UntouchedRests'
<1> SUFFICES ASSUME OutputInv, ReportInv, RestInv, [Next]_vars PROVE UntouchedRests'
  OBVIOUS
<1>t. /\ TypeOK /\ TypeOK' /\ Turns /\ Turns' /\ CanonIsAskedFor /\ ReadAsFound /\ NoDepsKept
      /\ WorkIsDue /\ UntouchedRests
  BY NextTyped, TurnsNext DEF ReportInv, RestInv
<1>b. call' = call => \A m \in Name : Blurred(m)' <=> Blurred(m)
  BY DEF Blurred, OneModuleEach
<1>c. UNCHANGED <<call, before, tables>> =>
        \A m \in Name : LeftForCause(m)' <=> LeftForCause(m)
  BY DEF LeftForCause, Unasked, Requested
<1> USE DEF sourceVars, outputVars, callVars
<1>1. CASE SkipSettled
  BY <1>1, <1>t, <1>b DEF SkipSettled, UntouchedRests, Looking, Has
<1>2. CASE Escape
  BY <1>2, <1>t, <1>b DEF Escape, UntouchedRests, Looking, Has
<1>3. CASE Conflict
  <2>1. \A n \in Name : Has(n, "untouched")' => Has(n, "untouched")
    BY <1>3, <1>t, StatusNames, HeadIsAName DEF Conflict, Has, TypeOK
  <2> QED
    BY <1>3, <2>1, <1>t, <1>b DEF Conflict, UntouchedRests, Looking
<1>4. CASE Missing
  <2>1. \A n \in Name : Has(n, "untouched")' => Has(n, "untouched")
    BY <1>4, <1>t, StatusNames, HeadIsAName DEF Missing, Has, TypeOK
  <2> QED
    BY <1>4, <2>1, <1>t, <1>b DEF Missing, UntouchedRests, Looking
<1>5. CASE PickUp
  BY <1>5, <1>t, <1>b DEF PickUp, UntouchedRests, Looking, Has
<1>6. ASSUME NEW k \in Untried, Accept(k) PROVE UntouchedRests'
  <2>1. \A n \in Name : Has(n, "untouched")' => Has(n, "untouched")
    BY <1>6, <1>t, StatusNames DEF Accept, Unreport, Has, TypeOK
  <2> QED
    BY <1>6, <2>1, <1>t, <1>b DEF Accept, UntouchedRests, Looking
<1>7. ASSUME NEW k \in Untried, Reject(k) PROVE UntouchedRests'
  <2>1. \A n \in Name : Has(n, "untouched")' => Has(n, "untouched")
    BY <1>7, <1>t, StatusNames DEF Reject, Has, TypeOK
  <2> QED
    BY <1>7, <2>1, <1>t, <1>b DEF Reject, UntouchedRests, Looking
<1>8. CASE EndParse
  BY <1>8, <1>t, <1>b DEF EndParse, UntouchedRests, Looking, Has
<1>9. ASSUME NEW m \in Name, CheckParsed(m) PROVE UntouchedRests'
  <2>1. /\ pc = "check" /\ pc' = "check"
        /\ UNCHANGED <<call, before, disk, built, tables, canon>>
        /\ \A n \in Name \ {m} : parsed'[n] = parsed[n] /\ processed'[n] = processed[n]
    BY <1>9, <1>t DEF CheckParsed, TypeOK
  <2>2. built = Nothing /\ disk = before
    BY <2>1, <1>t DEF Turns, Early
  <2>3. \/ parsed'[m] = None /\ (Current(disk, m, parsed[m], TRUE) \/ Excluded(m))
        \/ UNCHANGED <<parsed, processed>>
    BY <1>9, <1>t DEF CheckParsed, TypeOK
  <2>4. CASE UNCHANGED <<parsed, processed>>
    BY <2>1, <2>4, <1>t, <1>b, <1>c DEF UntouchedRests, Has, Looking
  <2>5. ASSUME parsed'[m] = None, Current(disk, m, parsed[m], TRUE) \/ Excluded(m), parsed[m] # None
        PROVE  UntouchedRests'
    <3>1. tables[m] = parsed[m].text
      BY <2>5, <1>t DEF OutputInv, TextsFollowTables
    <3>2. Excluded(m) => call.noDeps /\ Unasked(m, tables[m])
      BY <2>5, <3>1, <1>t DEF Excluded, ReadAsFound
    <3>3. Current(disk, m, parsed[m], TRUE) =>
            \/ m \in call.stub
            \/ before[m] \notin {None, Foreign} /\ before[m] \in {Plain, tables[m]}
      BY <2>2, <3>1 DEF Current
    <3>4. LeftForCause(m)'
      BY <2>1, <2>5, <3>2, <3>3, <1>c DEF LeftForCause
    <3> QED
      BY <2>1, <2>2, <2>5, <3>4, <1>t, <1>b, <1>c DEF UntouchedRests, Has, Looking, Nothing
  <2>6. parsed[m] # None
    BY <1>9, <1>t DEF CheckParsed, Turns, Held
  <2> QED
    BY <2>3, <2>4, <2>5, <2>6
<1>10. CASE EndCheck
  BY <1>10, <1>t, <1>b, <1>c DEF EndCheck, UntouchedRests, Has, Looking
<1>11. ASSUME NEW m \in Name, Generate(m) PROVE UntouchedRests'
  <2>1. /\ parsed[m] # None /\ UNCHANGED <<pc, call, before, disk, tables>> /\ pc = "generate"
        /\ \A n \in Name \ {m} : /\ parsed'[n] = parsed[n] /\ processed'[n] = processed[n]
                                 /\ built'[n] = built[n]
    BY <1>11, <1>t DEF Generate, TypeOK
  <2>2. Has(m, "untouched")' => Has(m, "untouched")
    BY <1>11, <1>t, StatusNames DEF Generate, Has, TypeOK
  <2> QED
    BY <2>1, <2>2, <1>t, <1>b, <1>c DEF UntouchedRests, Has
<1>12. CASE EndGenerate
  BY <1>12, <1>t, <1>b, <1>c DEF EndGenerate, UntouchedRests, Has, Looking
<1>13. ASSUME NEW m \in Name, Borrow(m) PROVE UntouchedRests'
  BY <1>13, <1>t, <1>b, <1>c DEF Borrow, UntouchedRests, Has, Looking
<1>14. CASE EndBorrow
  BY <1>14, <1>t, <1>b, <1>c DEF EndBorrow, UntouchedRests, Has, Looking
<1>15. ASSUME NEW m \in Name, CheckBorrowed(m) PROVE UntouchedRests'
  <2>1. /\ pc = "checkBorrowed" /\ UNCHANGED <<pc, call, before, disk, parsed, tables, canon>>
        /\ borrowed[m] # None
        /\ \A n \in Name \ {m} : built'[n] = built[n] /\ processed'[n] = processed[n]
    BY <1>15, <1>t, ZenonT(60) DEF CheckBorrowed, TypeOK
  <2>2. \/ /\ built' = built
           /\ Current(disk, m, borrowed[m], FALSE) \/ Excluded(m)
        \/ processed' = [processed EXCEPT ![m] = StatusBorrowed]
    BY <1>15 DEF CheckBorrowed
  <2>3. CASE processed' = [processed EXCEPT ![m] = StatusBorrowed]
    <3>1. ~Has(m, "untouched")'
      BY <2>3, <1>t, StatusNames DEF Has, TypeOK
    <3> QED
      BY <2>1, <3>1, <1>t, <1>b, <1>c DEF UntouchedRests, Has
  <2>4. ASSUME built' = built, Current(disk, m, borrowed[m], FALSE) \/ Excluded(m)
        PROVE  UntouchedRests'
    <3>1. disk = before /\ parsed = Nothing
      BY <2>1, <1>t DEF Turns, Early, Looking
    <3>2. ~Excluded(m)
      BY <2>1, <1>t DEF NoDepsKept, Excluded
    <3>3. call.lends[m] # None /\ (~Blurred(m) => built[m] = None)
      BY <2>1 DEF ReportInv, LoansAreLent, Blurred, FailedIsUnread
    <3>4. LeftForCause(m)
      BY <2>4, <3>1, <3>2, <3>3 DEF LeftForCause, Current
    <3> QED
      BY <2>1, <2>4, <3>1, <3>3, <3>4, <1>t, <1>b, <1>c
      DEF UntouchedRests, Has, Looking, Nothing
  <2> QED
    BY <2>2, <2>3, <2>4
<1>16. CASE EndCheckBorrowed
  BY <1>16, <1>t, <1>b, <1>c DEF EndCheckBorrowed, UntouchedRests, Has, Looking
<1>17. CASE Spread
  BY <1>17, <1>t, <1>b, <1>c DEF Spread, UntouchedRests, Has, Looking
<1>18. CASE Omit
  <2>1. /\ \A n \in Name : built'[n] \in {None, built[n]}
        /\ UNCHANGED <<call, before, disk, parsed, tables>> /\ pc' = "store"
    BY <1>18, <1>t DEF Omit, TypeOK
  <2>2. \A n \in Name : processed'[n] \in {processed[n], Plainly("unprocessed")}
    BY <1>18 DEF Omit
  <2>3. \A n \in Name : Has(n, "untouched")' => Has(n, "untouched")
    BY <2>2, StatusNames DEF Has
  <2> QED
    BY <2>1, <2>3, <1>t, <1>b, <1>c DEF UntouchedRests, Looking
<1>19. ASSUME NEW m \in Name, Store(m) PROVE UntouchedRests'
  <2>1. /\ built[m] # None /\ UNCHANGED <<pc, call, before, parsed, tables>>
        /\ \A n \in Name \ {m} : /\ built'[n] = built[n] /\ processed'[n] = processed[n]
                                 /\ disk'[n] = disk[n]
    BY <1>19, <1>t DEF Store, TypeOK
  <2>2. Has(m, "untouched")' => Has(m, "untouched")
    BY <1>19, <1>t, CompiledStatus DEF Store, Has, TypeOK
  <2> QED
    BY <2>1, <2>2, <1>t, <1>b, <1>c DEF UntouchedRests, Has
<1>20. ASSUME NEW m \in Name, StoreFails(m) PROVE UntouchedRests'
  <2>1. /\ built[m] # None /\ UNCHANGED <<pc, call, before, parsed, tables>>
        /\ \A n \in Name \ {m} : /\ built'[n] = built[n] /\ processed'[n] = processed[n]
                                 /\ disk'[n] = disk[n]
    BY <1>20, <1>t DEF StoreFails, TypeOK
  <2>2. ~Has(m, "untouched")'
    BY <1>20, <1>t, StatusNames DEF StoreFails, Has, TypeOK
  <2> QED
    BY <2>1, <2>2, <1>t, <1>b, <1>c DEF UntouchedRests, Has
<1>21. CASE EndStore
  BY <1>21, <1>t, <1>b, <1>c DEF EndStore, UntouchedRests, Has, Looking
<1>22. CASE Report
  <2>1. \A m \in Name : Has(m, "untouched")' <=> Has(m, "untouched")
    BY <1>22, <1>t, ReportKeepsStatus
  <2> QED
    BY <1>22, <2>1, <1>t, <1>b, <1>c DEF Report, UntouchedRests, Looking
<1>23. CASE NextCall
  <2>1. \A m \in Name : ~Has(m, "untouched")'
    BY <1>23 DEF NextCall, Fresh, Has, Nothing
  <2> QED
    BY <2>1 DEF UntouchedRests
<1>24. CASE UNCHANGED vars
  BY <1>24, <1>t, <1>b, <1>c DEF vars, UntouchedRests, Has, Looking
<1> QED
  BY <1>1, <1>2, <1>3, <1>4, <1>5, <1>6, <1>7, <1>8, <1>9, <1>10, <1>11, <1>12,
     <1>13, <1>14, <1>15, <1>16, <1>17, <1>18, <1>19, <1>20, <1>21, <1>22, <1>23, <1>24 DEF Next

(* The four parts of RestInv are kept together. *)
LEMMA RestNext == OutputInv /\ ReportInv /\ RestInv /\ [Next]_vars => RestInv'
BY CanonNext, FoundNext, NoDepsNext, DueNext, UntouchedNext DEF RestInv

(* ReportInv, OutputInv and RestInv hold together. *)
LEMMA RestHolds == Spec => [](OutputInv /\ ReportInv /\ RestInv)
<1>1. Init => OutputInv /\ ReportInv /\ RestInv
  BY OutputInit, ReportInit, RestInit
<1>2. OutputInv /\ ReportInv /\ RestInv /\ [Next]_vars => (OutputInv /\ ReportInv /\ RestInv)'
  BY OutputNext, ReportNext, RestNext
<1> QED
  BY <1>1, <1>2, PTL DEF Spec

(* noDeps: what is written was declared by a file found under a name that was  *)
(* asked for, also when it was lent or a file holds more modules than one.     *)
THEOREM NoDepsKeepsOut == Spec => []NoDepsWritesRequests
<1>1. OutputInv /\ ReportInv /\ RestInv => NoDepsWritesRequests
  BY DEF RestInv, NoDepsKept, CanonIsAskedFor, NoDepsWritesRequests, Held
<1> QED
  BY <1>1, RestHolds, PTL

(* "untouched" is only said of what is there and current, is a stub, or is     *)
(* left out as a dependency.                                                   *)
THEOREM UntouchedIsThere == Spec => []UntouchedIsCurrent
<1>1. OutputInv /\ ReportInv /\ RestInv => UntouchedIsCurrent
  BY DEF RestInv, UntouchedRests, LeftForCause, UntouchedIsCurrent
<1> QED
  BY <1>1, RestHolds, PTL

(* What is in the output already is not written again. *)
THEOREM NothingRewritten == Spec => []NoNeedlessRewrite
<1>1. ASSUME ReportInv, RestInv, ~call.rebuild, NEW m \in Held(wrote)
      PROVE  /\ m \notin call.stub
             /\ wrote[m].src \notin call.touched /\ wrote[m].text # Foreign =>
                  before[m] # wrote[m].text
  <2>1. wrote[m] \in Unit /\ Due(m, wrote[m])
    BY <1>1 DEF ReportInv, RestInv, WorkIsDue, TypeOK, Held
  <2>2. wrote[m].text \in Text \cup {Plain, Foreign}
    BY <2>1 DEF Unit, Copy, Loans
  <2>3. None \notin Text \cup {Plain, Foreign} /\ Foreign \notin Text \cup {Plain}
    BY CompileAssumption, SourcesAssumption
  <2> QED
    BY <1>1, <2>1, <2>2, <2>3 DEF Due, DueIn
<1>2. OutputInv /\ ReportInv /\ RestInv => NoNeedlessRewrite
  BY <1>1 DEF NoNeedlessRewrite
<1> QED
  BY <1>2, RestHolds, PTL

-------------------------------------------------------------------------------
(* What was passed over. *)

(* the sources noted for m are those of the copies other than k *)
Told(m, k) ==
  /\ k \in Candidates(call, m)
  /\ ShadowOf(m).others = Differing(Candidates(call, m), k.text)

NotedBeforeTrying ==
  pc = "try" /\ shadow[lookup] = None =>
    \A a, b \in Candidates(call, lookup) : a.text = b.text

LoansHaveStatus ==
  \A m \in Name : built[m] # None /\ built[m].text \notin Text => processed[m] # None

CompiledIsTold ==
  \A m \in Name : Has(m, "compiled") =>
    \E k \in Candidates(call, m) :
      /\ Told(m, k) /\ processed[m].path = k.src
      /\ processed[m].shadowed = Differing(Candidates(call, m), k.text)
      /\ call.writes => wrote[m] = k

ReadIsTold ==
  \A m \in Name :
    /\ parsed[m] # None => Told(m, parsed[m])
    /\ built[m] # None /\ built[m].text \in Text => Told(m, built[m])

ShadowInv ==
  /\ NotedBeforeTrying /\ LoansHaveStatus
  /\ OwnNames => ReadIsTold /\ CompiledIsTold

(* At the start nothing is passed over. *)
LEMMA ShadowInit == Init => ShadowInv
<1> SUFFICES ASSUME Init PROVE ShadowInv
  OBVIOUS
<1>1. \A m \in Name : ~Has(m, "compiled")
  BY DEF Init, Has, Nothing
<1> QED
  BY <1>1 DEF Init, ShadowInv, NotedBeforeTrying, LoansHaveStatus, ReadIsTold, CompiledIsTold,
     Nothing

(* what the first copy is noted with *)
LEMMA RivalsAreNoted ==
  ASSUME TypeOK, NEW n \in Name, NEW k \in Candidates(call, n), shadow' = NoteRivals(n, k)
  PROVE  /\ \A m \in Name \ {n} : shadow'[m] = shadow[m]
         /\ shadow'[n] = None => \A a, b \in Candidates(call, n) : a.text = b.text
<1>1. k \in Copy /\ Candidates(call, n) \subseteq Copy
  BY CandidatesAreCopies DEF TypeOK
<1>2. CASE Rivals(n, k) = {}
  <2>1. \A a \in Candidates(call, n) : a.text = k.text
    BY <1>2 DEF Rivals, Differing
  <2> QED
    BY <1>2, <2>1 DEF NoteRivals
<1>3. CASE Rivals(n, k) # {}
  <2>1. /\ \A m \in Name \ {n} : shadow'[m] = shadow[m]
        /\ shadow'[n] = [others |-> Rivals(n, k), rule |-> Precedence(Candidates(call, n)),
                         used |-> k.src]
    BY <1>3 DEF NoteRivals, TypeOK
  <2>2. Rivals(n, k) \subseteq Source /\ k.src \in Source
    BY <1>1, RivalsAreTyped DEF Copy
  <2>3. Precedence(Candidates(call, n)) \in Rule
    BY DEF Precedence, Rule
  <2>4. shadow'[n] \in Shadow
    BY <2>1, <2>2, <2>3 DEF Shadow
  <2> QED
    BY <2>1, <2>4, CompileAssumption
<1> QED
  BY <1>2, <1>3

(* trying a candidate never forgets that there were others *)
LEMMA NotedStay ==
  ASSUME TypeOK, NEW k \in Untried, TakeDeclared(k)
  PROVE  shadow'[lookup] = None => shadow[lookup] = None
<1>1. lookup \in Name /\ k \in Candidates(call, lookup) /\ k \in Copy
  BY CandidatesAreCopies DEF Untried, TypeOK
<1>2. Differing(Candidates(call, lookup), k.text) \subseteq Source /\ k.src \in Source
  BY <1>1, CandidatesAreCopies DEF Differing, Copy, TypeOK
<1>3. ASSUME shadow[lookup] # None
      PROVE  [others |-> Differing(Candidates(call, lookup), k.text),
              rule |-> shadow[lookup].rule, used |-> k.src] \in Shadow
  <2>1. shadow[lookup] \in Shadow
    BY <1>1, <1>3 DEF TypeOK
  <2>2. shadow[lookup].rule \in Rule
    BY <2>1 DEF Shadow
  <2> QED
    BY <1>2, <2>2 DEF Shadow
<1> QED
  BY <1>1, <1>3, CompileAssumption DEF TakeDeclared

(* A name is only tried after its first copy was compared with the others. *)
LEMMA NotedNext == ReportInv /\ ShadowInv /\ [Next]_vars => NotedBeforeTrying'
<1> SUFFICES ASSUME ReportInv, ShadowInv, [Next]_vars PROVE NotedBeforeTrying'
  OBVIOUS
<1>t. /\ TypeOK /\ TypeOK' /\ Turns /\ NotedBeforeTrying /\ LoansHaveStatus
  BY NextTyped DEF ReportInv, ShadowInv
<1> USE DEF sourceVars, outputVars, callVars
<1>1. CASE SkipSettled
  BY <1>1, <1>t DEF SkipSettled, NotedBeforeTrying
<1>2. CASE Escape
  BY <1>2, <1>t DEF Escape, NotedBeforeTrying
<1>3. CASE Conflict
  BY <1>3, <1>t DEF Conflict, NotedBeforeTrying
<1>4. CASE Missing
  BY <1>4, <1>t DEF Missing, NotedBeforeTrying
<1>5. CASE PickUp
  <2>1. PICK k \in Candidates(call, Head(queue)) : shadow' = NoteRivals(Head(queue), k)
    BY <1>5 DEF PickUp
  <2> QED
    BY <1>5, <2>1, <1>t, HeadIsAName, RivalsAreNoted DEF PickUp, NotedBeforeTrying
<1>6. ASSUME NEW k \in Untried, Accept(k) PROVE NotedBeforeTrying'
  BY <1>6, <1>t DEF Accept, TakeDeclared, NotedBeforeTrying
<1>7. ASSUME NEW k \in Untried, Reject(k) PROVE NotedBeforeTrying'
  <2>1. pc = "try" /\ UNCHANGED call /\ TakeDeclared(k)
    BY <1>7 DEF Reject
  <2>2. pc' = "parse" \/ lookup' = lookup
    BY <1>7 DEF Reject
  <2>3. shadow'[lookup] = None => shadow[lookup] = None
    BY <2>1, <1>t, NotedStay
  <2> QED
    BY <2>1, <2>2, <2>3, <1>t DEF NotedBeforeTrying
<1>8. CASE EndParse
  BY <1>8, <1>t DEF EndParse, NotedBeforeTrying
<1>9. ASSUME NEW m \in Name, CheckParsed(m) PROVE NotedBeforeTrying'
  BY <1>9, <1>t DEF CheckParsed, NotedBeforeTrying
<1>10. CASE EndCheck
  BY <1>10, <1>t DEF EndCheck, NotedBeforeTrying
<1>11. ASSUME NEW m \in Name, Generate(m) PROVE NotedBeforeTrying'
  BY <1>11, <1>t DEF Generate, NotedBeforeTrying
<1>12. CASE EndGenerate
  BY <1>12, <1>t DEF EndGenerate, NotedBeforeTrying
<1>13. ASSUME NEW m \in Name, Borrow(m) PROVE NotedBeforeTrying'
  BY <1>13, <1>t DEF Borrow, NotedBeforeTrying
<1>14. CASE EndBorrow
  BY <1>14, <1>t DEF EndBorrow, NotedBeforeTrying
<1>15. ASSUME NEW m \in Name, CheckBorrowed(m) PROVE NotedBeforeTrying'
  BY <1>15, <1>t DEF CheckBorrowed, NotedBeforeTrying
<1>16. CASE EndCheckBorrowed
  BY <1>16, <1>t DEF EndCheckBorrowed, NotedBeforeTrying
<1>17. CASE Spread
  BY <1>17, <1>t DEF Spread, NotedBeforeTrying
<1>18. CASE Omit
  BY <1>18, <1>t DEF Omit, NotedBeforeTrying
<1>19. ASSUME NEW m \in Name, Store(m) PROVE NotedBeforeTrying'
  BY <1>19, <1>t DEF Store, NotedBeforeTrying
<1>20. ASSUME NEW m \in Name, StoreFails(m) PROVE NotedBeforeTrying'
  BY <1>20, <1>t DEF StoreFails, NotedBeforeTrying
<1>21. CASE EndStore
  BY <1>21, <1>t DEF EndStore, NotedBeforeTrying
<1>22. CASE Report
  BY <1>22, <1>t DEF Report, NotedBeforeTrying
<1>23. CASE NextCall
  BY <1>23, <1>t DEF NextCall, Fresh, NotedBeforeTrying
<1>24. CASE UNCHANGED vars
  BY <1>24, <1>t DEF vars, NotedBeforeTrying
<1> QED
  BY <1>1, <1>2, <1>3, <1>4, <1>5, <1>6, <1>7, <1>8, <1>9, <1>10, <1>11, <1>12,
     <1>13, <1>14, <1>15, <1>16, <1>17, <1>18, <1>19, <1>20, <1>21, <1>22, <1>23, <1>24 DEF Next

(* A borrowed file never gets to the writer without a status. *)
LEMMA LoansNext == ReportInv /\ ShadowInv /\ [Next]_vars => LoansHaveStatus'
<1> SUFFICES ASSUME ReportInv, ShadowInv, [Next]_vars PROVE LoansHaveStatus'
  OBVIOUS
<1>t. /\ TypeOK /\ TypeOK' /\ Turns /\ NotedBeforeTrying /\ LoansHaveStatus
  BY NextTyped DEF ReportInv, ShadowInv
<1> USE DEF sourceVars, outputVars, callVars
<1>1. CASE SkipSettled
  BY <1>1, <1>t DEF SkipSettled, LoansHaveStatus, TypeOK
<1>2. CASE Escape
  BY <1>2, <1>t DEF Escape, LoansHaveStatus, TypeOK
<1>3. CASE Conflict
  BY <1>3, <1>t DEF Conflict, Turns, Nothing, Looking, LoansHaveStatus, TypeOK
<1>4. CASE Missing
  BY <1>4, <1>t DEF Missing, Turns, Nothing, Looking, LoansHaveStatus, TypeOK
<1>5. CASE PickUp
  BY <1>5, <1>t DEF PickUp, LoansHaveStatus, TypeOK
<1>6. ASSUME NEW k \in Untried, Accept(k) PROVE LoansHaveStatus'
  BY <1>6, <1>t DEF Accept, TakeDeclared, Turns, Nothing, Looking,
     LoansHaveStatus, TypeOK
<1>7. ASSUME NEW k \in Untried, Reject(k) PROVE LoansHaveStatus'
  BY <1>7, <1>t DEF Reject, TakeDeclared, Turns, Nothing, Looking,
     LoansHaveStatus, TypeOK
<1>8. CASE EndParse
  BY <1>8, <1>t DEF EndParse, LoansHaveStatus, TypeOK
<1>9. ASSUME NEW m \in Name, CheckParsed(m) PROVE LoansHaveStatus'
  BY <1>9, <1>t DEF CheckParsed, Turns, Nothing, LoansHaveStatus
<1>10. CASE EndCheck
  BY <1>10, <1>t DEF EndCheck, LoansHaveStatus, TypeOK
<1>11. ASSUME NEW m \in Name, Generate(m) PROVE LoansHaveStatus'
  BY <1>11, <1>t, StatusNames DEF Generate, Copy, LoansHaveStatus, TypeOK
<1>12. CASE EndGenerate
  BY <1>12, <1>t DEF EndGenerate, LoansHaveStatus, TypeOK
<1>13. ASSUME NEW m \in Name, Borrow(m) PROVE LoansHaveStatus'
  BY <1>13, <1>t DEF Borrow, LoansHaveStatus, TypeOK
<1>14. CASE EndBorrow
  BY <1>14, <1>t DEF EndBorrow, LoansHaveStatus, TypeOK
<1>15. ASSUME NEW m \in Name, CheckBorrowed(m) PROVE LoansHaveStatus'
  <2>1. \A n \in Name \ {m} : built'[n] = built[n] /\ processed'[n] = processed[n]
    BY <1>15, <1>t, ZenonT(60) DEF CheckBorrowed, TypeOK
  <2>2. processed'[m] # None
    BY <1>15, <1>t, StatusNames DEF CheckBorrowed, TypeOK
  <2> QED
    BY <2>1, <2>2, <1>t DEF LoansHaveStatus
<1>16. CASE EndCheckBorrowed
  BY <1>16, <1>t DEF EndCheckBorrowed, LoansHaveStatus, TypeOK
<1>17. CASE Spread
  BY <1>17, <1>t DEF Spread, LoansHaveStatus, TypeOK
<1>18. CASE Omit
  BY <1>18, <1>t, StatusNames DEF Omit, LoansHaveStatus, TypeOK
<1>19. ASSUME NEW m \in Name, Store(m) PROVE LoansHaveStatus'
  BY <1>19, <1>t DEF Store, LoansHaveStatus, TypeOK
<1>20. ASSUME NEW m \in Name, StoreFails(m) PROVE LoansHaveStatus'
  BY <1>20, <1>t, StatusNames DEF StoreFails, LoansHaveStatus, TypeOK
<1>21. CASE EndStore
  BY <1>21, <1>t DEF EndStore, LoansHaveStatus, TypeOK
<1>22. CASE Report
  BY <1>22, <1>t DEF Report, Turns, Nothing, LoansHaveStatus
<1>23. CASE NextCall
  BY <1>23, <1>t DEF NextCall, Fresh, Nothing, LoansHaveStatus, TypeOK
<1>24. CASE UNCHANGED vars
  BY <1>24, <1>t DEF vars, LoansHaveStatus, TypeOK
<1> QED
  BY <1>1, <1>2, <1>3, <1>4, <1>5, <1>6, <1>7, <1>8, <1>9, <1>10, <1>11, <1>12,
     <1>13, <1>14, <1>15, <1>16, <1>17, <1>18, <1>19, <1>20, <1>21, <1>22, <1>23, <1>24 DEF Next

(* What was read is noted against all other copies of the module. *)
LEMMA ReadToldNext ==
  ASSUME ReportInv, ShadowInv, OwnNames, [Next]_vars, UNCHANGED call
  PROVE  ReadIsTold'
<1>t. /\ TypeOK /\ TypeOK' /\ Turns /\ NotedBeforeTrying /\ LoansHaveStatus
  BY NextTyped DEF ReportInv, ShadowInv
<1>c. OwnNames /\ ReadIsTold /\ CompiledIsTold
  BY DEF ShadowInv
<1>k. \A n \in Name : \A k \in Candidates(call, n) : k \in Unit
  BY <1>t, CandidatesAreCopies DEF TypeOK, Unit
<1>s. call' = call =>
        \A m \in Name, k \in Unit : shadow'[m] = shadow[m] => (Told(m, k)' <=> Told(m, k))
  BY DEF Told, ShadowOf
<1>u. \A m \in Name : /\ parsed[m] # None => parsed[m] \in Unit
                      /\ built[m] # None => built[m] \in Unit
  BY <1>t DEF TypeOK, Unit
<1> USE DEF sourceVars, outputVars, callVars
<1>1. CASE SkipSettled
  BY <1>1, <1>t, <1>c, <1>s, <1>u DEF SkipSettled, ReadIsTold, TypeOK
<1>2. CASE Escape
  BY <1>2, <1>t, <1>c, <1>s, <1>u DEF Escape, ReadIsTold, TypeOK
<1>3. CASE Conflict
  <2>1. PICK k \in Candidates(call, Head(queue)) : shadow' = NoteRivals(Head(queue), k)
    BY <1>3 DEF Conflict
  <2>2. pc = "parse" /\ UNCHANGED <<call, parsed, built>> /\ Head(queue) \in Name
    BY <1>3, <1>t, HeadIsAName DEF Conflict
  <2>3. \A m \in Name \ {Head(queue)} : shadow'[m] = shadow[m]
    BY <2>1, <2>2, <1>t, RivalsAreNoted
  <2>4. parsed[Head(queue)] = None /\ built = Nothing
    BY <1>3, <1>t DEF Conflict, Settled, Turns, Looking
  <2> QED
    BY <2>2, <2>3, <2>4, <1>c, <1>s, <1>u DEF ReadIsTold, Nothing
<1>4. CASE Missing
  BY <1>4, <1>t, <1>c, <1>s, <1>u DEF Missing, ReadIsTold, TypeOK
<1>5. CASE PickUp
  <2>1. PICK k \in Candidates(call, Head(queue)) : shadow' = NoteRivals(Head(queue), k)
    BY <1>5 DEF PickUp
  <2>2. pc = "parse" /\ UNCHANGED <<call, parsed, built>> /\ Head(queue) \in Name
    BY <1>5, <1>t, HeadIsAName DEF PickUp
  <2>3. \A m \in Name \ {Head(queue)} : shadow'[m] = shadow[m]
    BY <2>1, <2>2, <1>t, RivalsAreNoted
  <2>4. parsed[Head(queue)] = None /\ built = Nothing
    BY <1>5, <1>t DEF PickUp, Settled, Turns, Looking
  <2> QED
    BY <2>2, <2>3, <2>4, <1>c, <1>s, <1>u DEF ReadIsTold, Nothing
<1>6. ASSUME NEW k \in Untried, Accept(k) PROVE ReadIsTold'
  <2>1. pc = "try" /\ UNCHANGED <<call, built>> /\ TakeDeclared(k)
    BY <1>6 DEF Accept
  <2>2. lookup \in Name /\ k \in Candidates(call, lookup) /\ k \in Unit
    BY <1>t, <1>k DEF Untried, TypeOK
  <2>3. built = Nothing /\ Mib[k.text].declares \subseteq {lookup}
    BY <2>1, <2>2, <1>t DEF Turns, Looking, OwnNames
  <2> SUFFICES ASSUME NEW m \in Name, parsed'[m] # None PROVE Told(m, parsed[m])'
    BY <2>1, <2>3 DEF ReadIsTold, Nothing
  <2>4. CASE Declared(k, m)
    <3>1. m = lookup /\ parsed'[m] = k
      BY <2>1, <2>3, <2>4 DEF TakeDeclared, Declared
    <3>2. CASE shadow[m] # None
      <4>1. shadow'[m] = [others |-> Differing(Candidates(call, m), k.text),
                          rule |-> shadow[m].rule, used |-> k.src]
        BY <2>1, <2>4, <3>1, <3>2 DEF TakeDeclared
      <4>2. shadow'[m] # None
        BY <2>1, <3>1, <3>2, <1>t, NotedStay
      <4> QED
        BY <2>1, <2>2, <3>1, <4>1, <4>2 DEF Told, ShadowOf
    <3>3. CASE shadow[m] = None
      <4>1. shadow'[m] = None
        BY <2>1, <3>1, <3>3 DEF TakeDeclared
      <4>2. Differing(Candidates(call, m), k.text) = {}
        BY <2>1, <2>2, <3>1, <3>3, <1>t DEF NotedBeforeTrying, Differing
      <4> QED
        BY <2>1, <2>2, <3>1, <4>1, <4>2 DEF Told, ShadowOf
    <3> QED
      BY <3>2, <3>3
  <2>5. CASE ~Declared(k, m)
    <3>1. parsed'[m] = parsed[m] /\ shadow'[m] = shadow[m]
      BY <2>1, <2>5 DEF TakeDeclared
    <3> QED
      BY <2>1, <3>1, <1>c, <1>s, <1>u DEF ReadIsTold
  <2> QED
    BY <2>4, <2>5
<1>7. ASSUME NEW k \in Untried, Reject(k) PROVE ReadIsTold'
  <2>1. pc = "try" /\ UNCHANGED <<call, built>> /\ TakeDeclared(k)
    BY <1>7 DEF Reject
  <2>2. lookup \in Name /\ k \in Candidates(call, lookup) /\ k \in Unit
    BY <1>t, <1>k DEF Untried, TypeOK
  <2>3. built = Nothing /\ Mib[k.text].declares \subseteq {lookup}
    BY <2>1, <2>2, <1>t DEF Turns, Looking, OwnNames
  <2> SUFFICES ASSUME NEW m \in Name, parsed'[m] # None PROVE Told(m, parsed[m])'
    BY <2>1, <2>3 DEF ReadIsTold, Nothing
  <2>4. CASE Declared(k, m)
    <3>1. m = lookup /\ parsed'[m] = k
      BY <2>1, <2>3, <2>4 DEF TakeDeclared, Declared
    <3>2. CASE shadow[m] # None
      <4>1. shadow'[m] = [others |-> Differing(Candidates(call, m), k.text),
                          rule |-> shadow[m].rule, used |-> k.src]
        BY <2>1, <2>4, <3>1, <3>2 DEF TakeDeclared
      <4>2. shadow'[m] # None
        BY <2>1, <3>1, <3>2, <1>t, NotedStay
      <4> QED
        BY <2>1, <2>2, <3>1, <4>1, <4>2 DEF Told, ShadowOf
    <3>3. CASE shadow[m] = None
      <4>1. shadow'[m] = None
        BY <2>1, <3>1, <3>3 DEF TakeDeclared
      <4>2. Differing(Candidates(call, m), k.text) = {}
        BY <2>1, <2>2, <3>1, <3>3, <1>t DEF NotedBeforeTrying, Differing
      <4> QED
        BY <2>1, <2>2, <3>1, <4>1, <4>2 DEF Told, ShadowOf
    <3> QED
      BY <3>2, <3>3
  <2>5. CASE ~Declared(k, m)
    <3>1. parsed'[m] = parsed[m] /\ shadow'[m] = shadow[m]
      BY <2>1, <2>5 DEF TakeDeclared
    <3> QED
      BY <2>1, <3>1, <1>c, <1>s, <1>u DEF ReadIsTold
  <2> QED
    BY <2>4, <2>5
<1>8. CASE EndParse
  BY <1>8, <1>t, <1>c, <1>s, <1>u DEF EndParse, ReadIsTold, TypeOK
<1>9. ASSUME NEW m \in Name, CheckParsed(m) PROVE ReadIsTold'
  BY <1>9, <1>t, <1>c, <1>s, <1>u, ZenonT(60) DEF CheckParsed, ReadIsTold, TypeOK
<1>10. CASE EndCheck
  BY <1>10, <1>t, <1>c, <1>s, <1>u DEF EndCheck, ReadIsTold, TypeOK
<1>11. ASSUME NEW m \in Name, Generate(m) PROVE ReadIsTold'
  BY <1>11, <1>t, <1>c, <1>s, <1>u DEF Generate, ReadIsTold, TypeOK
<1>12. CASE EndGenerate
  BY <1>12, <1>t, <1>c, <1>s, <1>u DEF EndGenerate, ReadIsTold, TypeOK
<1>13. ASSUME NEW m \in Name, Borrow(m) PROVE ReadIsTold'
  BY <1>13, <1>t, <1>c, <1>s, <1>u DEF Borrow, ReadIsTold, TypeOK
<1>14. CASE EndBorrow
  BY <1>14, <1>t, <1>c, <1>s, <1>u DEF EndBorrow, ReadIsTold, TypeOK
<1>15. ASSUME NEW m \in Name, CheckBorrowed(m) PROVE ReadIsTold'
  <2>1. /\ \A n \in Name \ {m} : built'[n] = built[n]
        /\ UNCHANGED <<call, parsed, shadow>> /\ built'[m] \in {built[m], borrowed[m]}
    BY <1>15, <1>t DEF CheckBorrowed, TypeOK
  <2>2. borrowed[m] # None => borrowed[m].text \notin Text
    BY <1>t, LoansAreNoTexts DEF TypeOK
  <2> QED
    BY <1>15, <2>1, <2>2, <1>c, <1>s, <1>u DEF ReadIsTold, CheckBorrowed
<1>16. CASE EndCheckBorrowed
  BY <1>16, <1>t, <1>c, <1>s, <1>u DEF EndCheckBorrowed, ReadIsTold, TypeOK
<1>17. CASE Spread
  BY <1>17, <1>t, <1>c, <1>s, <1>u DEF Spread, ReadIsTold, TypeOK
<1>18. CASE Omit
  BY <1>18, <1>t, <1>c, <1>s, <1>u DEF Omit, ReadIsTold, TypeOK
<1>19. ASSUME NEW m \in Name, Store(m) PROVE ReadIsTold'
  BY <1>19, <1>t, <1>c, <1>s, <1>u DEF Store, ReadIsTold, TypeOK
<1>20. ASSUME NEW m \in Name, StoreFails(m) PROVE ReadIsTold'
  BY <1>20, <1>t, <1>c, <1>s, <1>u DEF StoreFails, ReadIsTold, TypeOK
<1>21. CASE EndStore
  BY <1>21, <1>t, <1>c, <1>s, <1>u DEF EndStore, ReadIsTold, TypeOK
<1>22. CASE Report
  BY <1>22, <1>t, <1>c, <1>s, <1>u DEF Report, ReadIsTold, TypeOK
<1>23. CASE NextCall
  BY <1>23 DEF NextCall, Fresh, ReadIsTold, Nothing
<1>24. CASE UNCHANGED vars
  BY <1>24, <1>t, <1>c, <1>s, <1>u DEF vars, ReadIsTold, TypeOK
<1> QED
  BY <1>1, <1>2, <1>3, <1>4, <1>5, <1>6, <1>7, <1>8, <1>9, <1>10, <1>11, <1>12,
     <1>13, <1>14, <1>15, <1>16, <1>17, <1>18, <1>19, <1>20, <1>21, <1>22, <1>23, <1>24 DEF Next

(* What is reported compiled names the copies passed over, to the end. *)
LEMMA CompiledToldNext ==
  ASSUME ReportInv, ShadowInv, OwnNames, [Next]_vars, UNCHANGED call
  PROVE  CompiledIsTold'
<1>t. /\ TypeOK /\ TypeOK' /\ Turns /\ NotedBeforeTrying /\ LoansHaveStatus
  BY NextTyped DEF ReportInv, ShadowInv
<1>c. OwnNames /\ ReadIsTold /\ CompiledIsTold
  BY DEF ShadowInv
<1>k. \A n \in Name : \A k \in Candidates(call, n) : k \in Unit
  BY <1>t, CandidatesAreCopies DEF TypeOK, Unit
<1>s. call' = call =>
        \A m \in Name, k \in Unit : shadow'[m] = shadow[m] => (Told(m, k)' <=> Told(m, k))
  BY DEF Told, ShadowOf
<1>u. \A m \in Name : /\ parsed[m] # None => parsed[m] \in Unit
                      /\ built[m] # None => built[m] \in Unit
  BY <1>t DEF TypeOK, Unit
<1>h. \A m \in Name : Has(m, "compiled") =>
        /\ pc \in Closing /\ built[m] = None
        /\ call.writes => wrote[m] # None
  BY DEF ReportInv, ReportedIsWritten
<1>v. ASSUME \A m \in Name : Has(m, "compiled")' =>
               /\ Has(m, "compiled") /\ processed'[m] = processed[m]
               /\ wrote'[m] = wrote[m] /\ shadow'[m] = shadow[m]
      PROVE  CompiledIsTold'
  BY <1>v, <1>c, <1>s, <1>k DEF CompiledIsTold
<1> USE DEF sourceVars, outputVars, callVars
<1>1. CASE SkipSettled
  <2>1. \A n \in Name : ~Has(n, "compiled")'
    BY <1>1, <1>t, <1>h, StatusNames DEF SkipSettled, Has, TypeOK, Closing
  <2> QED
    BY <2>1, <1>v
<1>2. CASE Escape
  <2>1. \A n \in Name : ~Has(n, "compiled")'
    BY <1>2, <1>t, <1>h, StatusNames DEF Escape, Has, TypeOK, Closing
  <2> QED
    BY <2>1, <1>v
<1>3. CASE Conflict
  <2>1. \A n \in Name : ~Has(n, "compiled")'
    BY <1>3, <1>t, <1>h, StatusNames, HeadIsAName DEF Conflict, Has, TypeOK, Closing
  <2> QED
    BY <2>1, <1>v
<1>4. CASE Missing
  <2>1. \A n \in Name : ~Has(n, "compiled")'
    BY <1>4, <1>t, <1>h, StatusNames, HeadIsAName DEF Missing, Has, TypeOK, Closing
  <2> QED
    BY <2>1, <1>v
<1>5. CASE PickUp
  <2>1. \A n \in Name : ~Has(n, "compiled")'
    BY <1>5, <1>t, <1>h, StatusNames DEF PickUp, Has, TypeOK, Closing
  <2> QED
    BY <2>1, <1>v
<1>6. ASSUME NEW k \in Untried, Accept(k) PROVE CompiledIsTold'
  <2>1. pc = "try" /\ \A n \in Name : processed'[n] \in {None, processed[n]}
    BY <1>6, <1>t DEF Accept, Unreport, TypeOK
  <2>2. \A n \in Name : ~Has(n, "compiled")'
    BY <2>1, <1>h DEF Has, Closing
  <2> QED
    BY <2>2, <1>v
<1>7. ASSUME NEW k \in Untried, Reject(k) PROVE CompiledIsTold'
  <2>1. \A n \in Name : ~Has(n, "compiled")'
    BY <1>7, <1>t, <1>h, StatusNames DEF Reject, Has, TypeOK, Closing
  <2> QED
    BY <2>1, <1>v
<1>8. CASE EndParse
  <2>1. \A n \in Name : ~Has(n, "compiled")'
    BY <1>8, <1>t, <1>h, StatusNames DEF EndParse, Has, TypeOK, Closing
  <2> QED
    BY <2>1, <1>v
<1>9. ASSUME NEW m \in Name, CheckParsed(m) PROVE CompiledIsTold'
  <2>1. \A n \in Name \ {m} : processed'[n] = processed[n]
    BY <1>9, <1>t DEF CheckParsed, TypeOK
  <2>2. processed'[m] \in {processed[m], Plainly("untouched"), StatusBorrowed}
    BY <1>9, <1>t DEF CheckParsed, TypeOK
  <2>3. pc \notin Closing
    BY <1>9 DEF CheckParsed, Closing
  <2>4. \A n \in Name : ~Has(n, "compiled")'
    BY <2>1, <2>2, <2>3, <1>h, StatusNames DEF Has
  <2> QED
    BY <2>4, <1>v
<1>10. CASE EndCheck
  <2>1. \A n \in Name : ~Has(n, "compiled")'
    BY <1>10, <1>t, <1>h, StatusNames DEF EndCheck, Has, TypeOK, Closing
  <2> QED
    BY <2>1, <1>v
<1>11. ASSUME NEW m \in Name, Generate(m) PROVE CompiledIsTold'
  <2>1. \A n \in Name : ~Has(n, "compiled")'
    BY <1>11, <1>t, <1>h, StatusNames DEF Generate, Has, TypeOK, Closing
  <2> QED
    BY <2>1, <1>v
<1>12. CASE EndGenerate
  <2>1. \A n \in Name : ~Has(n, "compiled")'
    BY <1>12, <1>t, <1>h, StatusNames DEF EndGenerate, Has, TypeOK, Closing
  <2> QED
    BY <2>1, <1>v
<1>13. ASSUME NEW m \in Name, Borrow(m) PROVE CompiledIsTold'
  <2>1. \A n \in Name : ~Has(n, "compiled")'
    BY <1>13, <1>t, <1>h, StatusNames DEF Borrow, Has, TypeOK, Closing
  <2> QED
    BY <2>1, <1>v
<1>14. CASE EndBorrow
  <2>1. \A n \in Name : ~Has(n, "compiled")'
    BY <1>14, <1>t, <1>h, StatusNames DEF EndBorrow, Has, TypeOK, Closing
  <2> QED
    BY <2>1, <1>v
<1>15. ASSUME NEW m \in Name, CheckBorrowed(m) PROVE CompiledIsTold'
  <2>1. \A n \in Name \ {m} : processed'[n] = processed[n]
    BY <1>15, <1>t DEF CheckBorrowed, TypeOK
  <2>2. processed'[m] \in {processed[m], Plainly("untouched"), StatusBorrowed}
    BY <1>15, <1>t DEF CheckBorrowed, TypeOK
  <2>3. pc \notin Closing
    BY <1>15 DEF CheckBorrowed, Closing
  <2>4. \A n \in Name : ~Has(n, "compiled")'
    BY <2>1, <2>2, <2>3, <1>h, StatusNames DEF Has
  <2> QED
    BY <2>4, <1>v
<1>16. CASE EndCheckBorrowed
  <2>1. \A n \in Name : ~Has(n, "compiled")'
    BY <1>16, <1>t, <1>h, StatusNames DEF EndCheckBorrowed, Has, TypeOK, Closing
  <2> QED
    BY <2>1, <1>v
<1>17. CASE Spread
  <2>1. \A n \in Name : ~Has(n, "compiled")'
    BY <1>17, <1>t, <1>h, StatusNames DEF Spread, Has, TypeOK, Closing
  <2> QED
    BY <2>1, <1>v
<1>18. CASE Omit
  <2>1. pc = "taint" /\ \A n \in Name : processed'[n] \in {processed[n], Plainly("unprocessed")}
    BY <1>18 DEF Omit
  <2>2. \A n \in Name : ~Has(n, "compiled")'
    BY <2>1, <1>h, StatusNames DEF Has, Closing
  <2> QED
    BY <2>2, <1>v
<1>19. ASSUME NEW m \in Name, Store(m) PROVE CompiledIsTold'
  <2>1. /\ \A n \in Name \ {m} : processed'[n] = processed[n] /\ wrote'[n] = wrote[n]
        /\ UNCHANGED <<pc, call, shadow>> /\ built[m] # None /\ built[m] \in Unit
        /\ call.writes => wrote'[m] = built[m]
    BY <1>19, <1>t, <1>u DEF Store, TypeOK
  <2>2. ~Has(m, "compiled")
    BY <2>1, <1>h
  <2>3. CASE processed[m] # None
    <3>1. processed'[m] = processed[m]
      BY <1>19, <2>3, <1>t DEF Store, TypeOK
    <3>2. ~Has(m, "compiled")'
      BY <2>2, <3>1 DEF Has
    <3> QED
      BY <2>1, <3>2, <1>v DEF Has
  <2>4. CASE processed[m] = None
    <3>1. processed'[m] = Compiled(m, built[m])
      BY <1>19, <2>4, <1>t DEF Store, TypeOK
    <3>2. Told(m, built[m])
      BY <2>1, <2>4, <1>c, <1>t DEF ReadIsTold, LoansHaveStatus
    <3>3. /\ processed'[m].path = built[m].src
          /\ processed'[m].shadowed = Differing(Candidates(call, m), built[m].text)
      BY <3>1, <3>2 DEF Compiled, Told
    <3>4. built[m] \in Candidates(call, m) /\ \A k \in Unit : k = built[m] => Told(m, k)'
      BY <2>1, <3>2, <1>s DEF Told
    <3>5. \A n \in Name \ {m} :
             Has(n, "compiled")' => Has(n, "compiled") /\ processed'[n] = processed[n]
      BY <2>1 DEF Has
    <3>6. \E k \in Candidates(call, m) :
             /\ Told(m, k)' /\ processed'[m].path = k.src
             /\ processed'[m].shadowed = Differing(Candidates(call, m), k.text)
             /\ call.writes => wrote'[m] = k
      BY <2>1, <3>3, <3>4
    <3>7. ASSUME NEW n \in Name \ {m}, Has(n, "compiled")'
          PROVE  \E k \in Candidates(call, n) :
                   /\ Told(n, k)' /\ processed'[n].path = k.src
                   /\ processed'[n].shadowed = Differing(Candidates(call, n), k.text)
                   /\ call.writes => wrote'[n] = k
      BY <2>1, <3>5, <3>7, <1>c, <1>s, <1>k DEF CompiledIsTold
    <3> QED
      BY <2>1, <3>6, <3>7 DEF CompiledIsTold
  <2> QED
    BY <2>3, <2>4
<1>20. ASSUME NEW m \in Name, StoreFails(m) PROVE CompiledIsTold'
  <2>1. /\ \A n \in Name \ {m} : processed'[n] = processed[n]
        /\ UNCHANGED <<pc, call, shadow, wrote>>
    BY <1>20, <1>t DEF StoreFails, TypeOK
  <2>2. ~Has(m, "compiled")'
    BY <1>20, <1>t, StatusNames DEF StoreFails, Has, TypeOK
  <2> QED
    BY <2>1, <2>2, <1>v DEF Has
<1>21. CASE EndStore
  BY <1>21, <1>v DEF EndStore, Has
<1>22. CASE Report
  <2>1. UNCHANGED <<call, shadow, wrote>> /\ \A m \in Name : processed'[m] = Annotated(m)
    BY <1>22 DEF Report
  <2>2. \A m \in Name : Has(m, "compiled")' <=> Has(m, "compiled")
    BY <1>22, <1>t, ReportKeepsStatus
  <2>3. ASSUME NEW m \in Name, Has(m, "compiled") PROVE Annotated(m) = processed[m]
    <3>1. PICK k \in Candidates(call, m) :
             Told(m, k) /\ processed[m].shadowed = Differing(Candidates(call, m), k.text)
      BY <2>3, <1>c DEF CompiledIsTold
    <3>2. shadow[m] # None => processed[m].shadowed = shadow[m].others
      BY <3>1 DEF Told, ShadowOf
    <3> QED
      BY <3>2 DEF Annotated
  <2> QED
    BY <2>1, <2>2, <2>3, <1>v
<1>23. CASE NextCall
  <2>1. \A n \in Name : ~Has(n, "compiled")'
    BY <1>23, <1>t, <1>h, StatusNames DEF NextCall, Has, TypeOK, Closing, Fresh, Nothing
  <2> QED
    BY <2>1, <1>v
<1>24. CASE UNCHANGED vars
  BY <1>24, <1>v DEF vars, Has
<1> QED
  BY <1>1, <1>2, <1>3, <1>4, <1>5, <1>6, <1>7, <1>8, <1>9, <1>10, <1>11, <1>12,
     <1>13, <1>14, <1>15, <1>16, <1>17, <1>18, <1>19, <1>20, <1>21, <1>22, <1>23, <1>24 DEF Next

(* The parts of ShadowInv are kept together. *)
LEMMA ShadowNext == ReportInv /\ ShadowInv /\ [Next]_vars => ShadowInv'
<1> SUFFICES ASSUME ReportInv, ShadowInv, [Next]_vars
             PROVE  OwnNames' => ReadIsTold' /\ CompiledIsTold'
  BY NotedNext, LoansNext DEF ShadowInv
<1>1. CASE UNCHANGED call
  <2>1. OwnNames' <=> OwnNames
    BY <1>1 DEF OwnNames
  <2> QED
    BY <1>1, <2>1, ReadToldNext, CompiledToldNext
<1>2. CASE NextCall
  BY <1>2 DEF NextCall, Fresh, ReadIsTold, CompiledIsTold, Has, Nothing
<1>3. Next => NextCall \/ UNCHANGED call
  BY DEF Next, SkipSettled, Escape, Conflict, Missing, PickUp, Accept, Reject, EndParse,
     CheckParsed, EndCheck, Generate, EndGenerate, Borrow, EndBorrow, CheckBorrowed,
     EndCheckBorrowed, Spread, Omit, Store, StoreFails, EndStore, Report, callVars
<1> QED
  BY <1>1, <1>2, <1>3 DEF vars

(* A module reported compiled names its file and exactly the sources whose     *)
(* copy of it holds another text, however many candidates were tried.          *)
THEOREM ShadowsAreReported == Spec => []ShadowsAreTold
<1>1. ShadowInv => ShadowsAreTold
  BY DEF ShadowInv, CompiledIsTold, ShadowsAreTold
<1>2. Init => ReportInv /\ ShadowInv
  BY ReportInit, ShadowInit
<1>3. ReportInv /\ ShadowInv /\ [Next]_vars => (ReportInv /\ ShadowInv)'
  BY ReportNext, ShadowNext
<1> QED
  BY <1>1, <1>2, <1>3, PTL DEF Spec

-------------------------------------------------------------------------------
(* What is written, said without queues and phases: WritesAsExpected.          *)

(* n has come up: it waits, is being looked up, or was read or given up *)
Seen(n) == InQueue(n) \/ n = lookup \/ Settled(n)

(* the names whose text compile() reads *)
Read(n) == n \in Reached /\ Used(n) # None

LookupFollows ==
  /\ \A n \in Name : Seen(n) => n \in Reached
  /\ \A n \in Requested : Seen(n)
  /\ \A n \in Name : parsed[n] # None =>
       parsed[n] = Used(n) /\ \A m \in Imports(n) : Seen(m)
  /\ \A n \in failed \ {lookup} : Used(n) = None
  /\ pc = "try" =>
       /\ \A k \in Candidates(call, lookup) : k.src \in tried => ~Mib[k.text].whole
       /\ ~(call.strict /\ Rivals(lookup, Resolve(call, lookup)) # {})

(* what has a symbol table by now *)
ReadSoFar == IF pc \in Looking THEN Held(parsed) ELSE {n \in Name : Read(n)}

TablesFollow ==
  \A n \in Name :
    /\ tables[n] = IF n \in ReadSoFar THEN Used(n).text ELSE None
    /\ n \in ReadSoFar => Used(n) \in Copy
    /\ n \in canon <=> (n \in ReadSoFar /\ Used(n).alias \in Requested)

LoanIsCurrent(n) == Current(before, n, Loan(n, call.lends[n]), FALSE)

(* Between the look-up and the writer: everything reached is where it should   *)
(* be by now, as the unit it should be.                                        *)
WorkAt(n) ==
  /\ parsed[n] # None =>
       parsed[n] = Used(n) /\ Read(n) /\ (~Idle(n) \/ (pc = "check" /\ n \in todo))
  /\ built[n] # None =>
       /\ n \in Reached /\ ~Idle(n)
       /\ \/ built[n] = Used(n) /\ Sound(n)
          \/ built[n] = Loan(n, call.lends[n]) /\ OnLoan(n) /\ ~LoanIsCurrent(n)
  /\ borrowed[n] # None =>
       borrowed[n] = Loan(n, call.lends[n]) /\ n \in Reached /\ OnLoan(n)
  /\ n \in failed =>
       /\ n \in Reached /\ ~Idle(n) /\ ~Sound(n)
       /\ pc \in {"check", "generate"} \/ (pc = "borrow" /\ n \in todo) \/ ~OnLoan(n)
  /\ n \in Reached /\ ~Idle(n) =>
       \/ parsed[n] # None \/ built[n] # None \/ borrowed[n] # None \/ n \in failed
       \/ pc \in {"checkBorrowed", "taint"} /\ OnLoan(n) /\ LoanIsCurrent(n)

WorkFollows == \A n \in Name : WorkAt(n)

TaintFollows ==
  pc = "taint" => failed \subseteq tainted /\ tainted \subseteq Broken

Delivered(n) == built[n] # None \/ wrote[n] # None

WriterFollows ==
  \A n \in Name :
    /\ Delivered(n) => n \in Expected
    /\ call.writes /\ n \in Expected => Delivered(n) \/ Has(n, "failed")

OutcomeInv ==
  OneModuleEach =>
    /\ pc \in Looking => LookupFollows
    /\ pc # "raised" => TablesFollow
    /\ pc \in Early \ Looking => WorkFollows /\ TaintFollows
    /\ pc \in Closing => WriterFollows

(* what the names of a call lead to is settled when the call begins *)
LEMMA OutcomeStays ==
  ASSUME UNCHANGED <<call, before>>
  PROVE  /\ Requested' = Requested /\ Reached' = Reached /\ Broken' = Broken
         /\ Expected' = Expected
         /\ \A n \in Name :
              /\ Used(n)' = Used(n) /\ Imports(n)' = Imports(n)
              /\ (Idle(n)' <=> Idle(n)) /\ (Sound(n)' <=> Sound(n))
              /\ (OnLoan(n)' <=> OnLoan(n)) /\ (LoanIsCurrent(n)' <=> LoanIsCurrent(n))
<1>1. Requested' = Requested
  BY DEF Requested
<1>2. \A n \in Name : Used(n)' = Used(n)
  BY DEF Used, Rivals
<1>3. \A n \in Name : Imports(n)' = Imports(n)
  BY <1>2 DEF Imports
<1>4. Reached' = Reached
  BY <1>1, <1>3 DEF Reached, Least
<1>13. Reached \subseteq Name
  BY DEF Reached, Least
<1>5. \A n \in Name : LeftOut(n)' <=> LeftOut(n)
  BY <1>1, <1>2 DEF LeftOut
<1>6. \A n \in Name : Idle(n)' <=> Idle(n)
  BY <1>5, <1>2 DEF Idle, Current
<1>7. \A n \in Name : Sound(n)' <=> Sound(n)
  <2>1. {m \in Reached : Used(m) # None}' = {m \in Reached : Used(m) # None}
    BY <1>2, <1>4, <1>13
  <2>2. \A S \in SUBSET {m \in Reached : Used(m) # None} : \A m \in S :
          Used(m)' = Used(m)
    BY <1>2, <1>13
  <2> QED
    BY <1>2, <2>1, <2>2 DEF Sound
<1>8. \A n \in Name : OnLoan(n)' <=> OnLoan(n)
  BY <1>7, <1>6, <1>5, <1>2 DEF OnLoan
<1>9. Broken' = Broken
  <2>1. \A n \in Reached :
          /\ (Idle(n)' <=> Idle(n)) /\ (OnLoan(n)' <=> OnLoan(n))
          /\ (Sound(n)' <=> Sound(n)) /\ Imports(n)' = Imports(n)
    BY <1>3, <1>6, <1>7, <1>8, <1>13
  <2>2. {m \in Reached : ~Idle(m) /\ ~OnLoan(m)}' = {m \in Reached : ~Idle(m) /\ ~OnLoan(m)}
    BY <1>4, <2>1
  <2>3. \A n \in {m \in Reached : ~Idle(m) /\ ~OnLoan(m)} :
          (Sound(n)' <=> Sound(n)) /\ Imports(n)' = Imports(n)
    BY <2>1
  <2> QED
    BY <2>2, <2>3 DEF Broken, Least
<1>10. \A n \in Name : LoanIsCurrent(n)' <=> LoanIsCurrent(n)
  BY DEF LoanIsCurrent, Current, Loan
<1>11. Expected = {n \in Reached \ Broken : ~Idle(n) /\ (OnLoan(n) => ~LoanIsCurrent(n))}
  BY DEF Expected, LoanIsCurrent
<1>12. Expected' = {n \in Reached \ Broken : ~Idle(n) /\ (OnLoan(n) => ~LoanIsCurrent(n))}'
  BY DEF Expected, LoanIsCurrent
<1>14. Expected' = Expected
  BY <1>4, <1>6, <1>8, <1>9, <1>10, <1>11, <1>12, <1>13
<1> QED
  BY <1>1, <1>2, <1>3, <1>4, <1>6, <1>7, <1>8, <1>9, <1>10, <1>14

(* What is reached is the least set that holds the names asked for and what    *)
(* the texts used import.                                                      *)
LEMMA ReachedIsLeast ==
  /\ Reached \subseteq Name
  /\ Requested \cap Name \subseteq Reached
  /\ \A n \in Reached : Imports(n) \cap Name \subseteq Reached
  /\ \A S \in SUBSET Name :
       Requested \subseteq S /\ (\A n \in S : Imports(n) \subseteq S) => Reached \subseteq S
BY DEF Reached, Least

(* ... and what is broken the least set that holds what is not sound and what  *)
(* imports something broken.                                                   *)
LEMMA BrokenIsLeast ==
  /\ Broken \subseteq Name
  /\ \A n \in Reached : ~Idle(n) /\ ~OnLoan(n) /\ ~Sound(n) => n \in Broken
  /\ \A n \in Reached :
       ~Idle(n) /\ ~OnLoan(n) /\ (Imports(n) \ Fake) \cap Broken # {} => n \in Broken
  /\ \A S \in SUBSET Name :
       (\A n \in Reached : ~Idle(n) /\ ~OnLoan(n) =>
          (~Sound(n) \/ (Imports(n) \ Fake) \cap S # {} => n \in S)) => Broken \subseteq S
<1>1. Broken \subseteq Name /\ Reached \subseteq Name
  BY ReachedIsLeast DEF Broken, Least
<1>2. ASSUME NEW n \in Reached, ~Idle(n), ~OnLoan(n), ~Sound(n) PROVE n \in Broken
  BY <1>1, <1>2 DEF Broken, Least
<1>3. ASSUME NEW n \in Reached, ~Idle(n), ~OnLoan(n), (Imports(n) \ Fake) \cap Broken # {}
      PROVE  n \in Broken
  BY <1>1, <1>3 DEF Broken, Least
<1>4. ASSUME NEW S \in SUBSET Name,
             \A n \in Reached : ~Idle(n) /\ ~OnLoan(n) =>
               (~Sound(n) \/ (Imports(n) \ Fake) \cap S # {} => n \in S)
      PROVE  Broken \subseteq S
  BY <1>4 DEF Broken, Least
<1> QED
  BY <1>1, <1>2, <1>3, <1>4

(* Of two candidates at most one is ranked before all others. *)
LEMMA BestIsOne ==
  ASSUME NEW c \in CallRecord, NEW n \in Name, NEW L \in SUBSET Candidates(c, n), NEW a,
         IsBest(c, Candidates(c, n), L, a)
  PROVE  Best(c, Candidates(c, n), L) = a
<1> DEFINE b == Best(c, Candidates(c, n), L)
<1>1. a \in L /\ IsBest(c, Candidates(c, n), L, b) /\ b \in L
  BY DEF Best, IsBest
<1>2. Candidates(c, n) \subseteq Copy
  BY CandidatesAreCopies
<1>3. SUFFICES ASSUME a # b PROVE FALSE
  OBVIOUS
<1>4. a.src # b.src
  BY <1>1, <1>3 DEF Candidates, CopyAt
<1>5. Better(c, Candidates(c, n), a, b) /\ Better(c, Candidates(c, n), b, a)
  BY <1>1, <1>3 DEF IsBest
<1> QED
  BY <1>1, <1>2, <1>4, <1>5, BetterDecides

(* Where files hold their module whole or not at all, a text appends what its  *)
(* module imports, or nothing.                                                 *)
LEMMA TextOfItsOwn ==
  ASSUME TypeOK, OneModuleEach, NEW n \in Name, NEW k \in Candidates(call, n)
  PROVE  /\ k \in Copy /\ Mib[k.text].appends \in Seq(Name)
         /\ Mib[k.text].declares = IF Mib[k.text].whole THEN {n} ELSE {}
         /\ {Mib[k.text].appends[i] : i \in 1..Len(Mib[k.text].appends)} =
              IF Mib[k.text].whole THEN Mib[k.text].imports[n] ELSE {}
         /\ Mib[k.text].imports[n] \subseteq Name
<1>1. k \in Copy /\ Mib[k.text] \in MibRecord /\ k.text \in Text
  BY DeclaredAreNames, CompileAssumption DEF Copy
<1>2. Mib[k.text].declares = IF Mib[k.text].whole THEN {n} ELSE {}
  BY DEF OneModuleEach
<1>3. {Mib[k.text].appends[i] : i \in 1..Len(Mib[k.text].appends)}
      = UNION {Mib[k.text].imports[m] : m \in Mib[k.text].declares}
  BY <1>1, CompileAssumption
<1>4. UNION {Mib[k.text].imports[m] : m \in Mib[k.text].declares} =
        IF Mib[k.text].whole THEN Mib[k.text].imports[n] ELSE {}
  BY <1>2
<1>5. Mib[k.text].appends \in Seq(Name) /\ Mib[k.text].imports[n] \subseteq Name
  BY <1>1 DEF MibRecord
<1> QED
  BY <1>1, <1>2, <1>3, <1>4, <1>5

(* A call begins with what was asked for in the queue and nothing else done. *)
Begun ==
  /\ pc = "parse" /\ queue = call.request /\ lookup = None /\ failed = {}
  /\ parsed = Nothing /\ tables = Nothing /\ canon = {}

(* What a call leads to is open when it begins. *)
LEMMA OutcomeBegins == TypeOK /\ Begun => OutcomeInv
<1> SUFFICES ASSUME TypeOK, Begun PROVE LookupFollows /\ TablesFollow
  BY DEF OutcomeInv, Begun, Looking, Closing, Early
<1>1. \A n \in Name : Seen(n) <=> n \in Requested
  BY SourcesAssumption DEF Begun, Seen, Settled, InQueue, Requested, Nothing
<1>2. LookupFollows
  BY <1>1, ReachedIsLeast, RequestedAreNames DEF Begun, LookupFollows, Nothing
<1>3. TablesFollow
  BY DEF Begun, TablesFollow, ReadSoFar, Looking, Held, Nothing
<1> QED
  BY <1>2, <1>3

(* What a step of the look-up has to keep. *)
LEMMA LookupKept ==
  ASSUME UNCHANGED <<call, before>>, TypeOK, TypeOK', LookupFollows,
         \A n \in Name : Seen(n) => Seen(n)',
         \A n \in Name : Seen(n)' => n \in Reached,
         \A n \in Name : parsed'[n] # None =>
            parsed'[n] = parsed[n] \/ (parsed'[n] = Used(n) /\ \A m \in Imports(n) : Seen(m)'),
         \A n \in failed' \ {lookup'} : Used(n) = None,
         (pc = "try" =>
            /\ \A k \in Candidates(call, lookup) : k.src \in tried => ~Mib[k.text].whole
            /\ ~(call.strict /\ Rivals(lookup, Resolve(call, lookup)) # {}))'
  PROVE  LookupFollows'
<1>1. /\ Requested' = Requested /\ Reached' = Reached
      /\ \A n \in Name : Used(n)' = Used(n) /\ Imports(n)' = Imports(n)
  BY OutcomeStays
<1>2. Requested \subseteq Name /\ failed' \subseteq Name
  BY RequestedAreNames DEF TypeOK
<1>3. ASSUME NEW n \in Name, parsed'[n] # None
      PROVE  parsed'[n] = Used(n) /\ \A m \in Imports(n) : Seen(m)'
  <2>1. CASE parsed'[n] = parsed[n]
    <3>1. parsed[n] = Used(n) /\ \A m \in Imports(n) : Seen(m)
      BY <1>3, <2>1 DEF LookupFollows
    <3>2. parsed[n].text \in Text
      BY <1>3, <2>1 DEF TypeOK, Copy
    <3>3. Imports(n) \subseteq Name
      BY <1>3, <2>1, <3>1, <3>2, CompileAssumption DEF Imports, MibRecord
    <3> QED
      BY <2>1, <3>1, <3>3
  <2> QED
    BY <1>3, <2>1
<1>4. \A n \in Requested : Seen(n)'
  BY <1>2 DEF LookupFollows
<1>5. \A n \in Name : (parsed[n] # None)' =>
        (parsed[n] = Used(n) /\ \A m \in Imports(n) : Seen(m))'
  BY <1>1, <1>3
<1>6. \A n \in (failed \ {lookup})' : Used(n)' = None
  BY <1>1, <1>2
<1> QED
  BY <1>1, <1>2, <1>4, <1>5, <1>6 DEF LookupFollows

(* The head of the queue is in it. *)
LEMMA HeadWaits == ASSUME TypeOK, queue # <<>> PROVE InQueue(Head(queue))
<1>1. 1 \in 1..Len(queue) /\ queue[1] = Head(queue)
  BY DEF TypeOK
<1> QED
  BY <1>1 DEF InQueue

(* the name at the head of the queue is taken off *)
LEMMA HeadTaken ==
  ASSUME TypeOK, queue # <<>>, queue' = Tail(queue), NEW n \in Name
  PROVE  /\ InQueue(n) => n = Head(queue) \/ InQueue(n)'
         /\ InQueue(n)' => InQueue(n)
<1>2. ASSUME InQueue(n)' PROVE InQueue(n)
  <2>1. PICK i \in 1..Len(Tail(queue)) : Tail(queue)[i] = n
    BY <1>2 DEF InQueue
  <2>2. i + 1 \in 1..Len(queue) /\ queue[i + 1] = n
    BY <2>1 DEF TypeOK
  <2> QED
    BY <2>2 DEF InQueue
<1> QED
  BY <1>2, QueueMoves

(* what a text imports is put behind the rest *)
LEMMA ImportsQueued ==
  ASSUME TypeOK, NEW k \in Untried, TakeDeclared(k), NEW n \in Name
  PROVE  InQueue(n)' <=>
           (InQueue(n) \/ n \in {Mib[k.text].appends[i] : i \in 1..Len(Mib[k.text].appends)})
<1>1. k \in Copy
  BY DeclaredAreNames DEF Untried, TypeOK
<1>2. queue' = queue \o Mib[k.text].appends /\ Mib[k.text].appends \in Seq(Name)
  BY <1>1, TextsAreTyped DEF TakeDeclared, Copy
<1>3. ASSUME InQueue(n)'
      PROVE  InQueue(n) \/ n \in {Mib[k.text].appends[i] : i \in 1..Len(Mib[k.text].appends)}
  <2>1. PICK i \in 1..Len(queue') : queue'[i] = n
    BY <1>3 DEF InQueue
  <2>2. CASE i <= Len(queue)
    <3>1. i \in 1..Len(queue) /\ queue[i] = n
      BY <1>2, <2>1, <2>2 DEF TypeOK
    <3> QED
      BY <3>1 DEF InQueue
  <2>3. CASE i > Len(queue)
    <3>1. i - Len(queue) \in 1..Len(Mib[k.text].appends)
          /\ Mib[k.text].appends[i - Len(queue)] = n
      BY <1>2, <2>1, <2>3 DEF TypeOK
    <3> QED
      BY <3>1
  <2> QED
    BY <1>2, <2>1, <2>2, <2>3 DEF TypeOK
<1>4. ASSUME NEW i \in 1..Len(Mib[k.text].appends), n = Mib[k.text].appends[i]
      PROVE  InQueue(n)'
  <2>1. Len(queue') = Len(queue) + Len(Mib[k.text].appends)
    BY <1>2 DEF TypeOK
  <2>2. Len(queue) + i \in 1..Len(queue')
    BY <1>2, <2>1 DEF TypeOK
  <2>3. queue'[Len(queue) + i] = n
    BY <1>2, <1>4, <2>2 DEF TypeOK
  <2> QED
    BY <2>2, <2>3 DEF InQueue
<1> QED
  BY <1>3, <1>4, QueueGrows

(* The copy ranked first decides whether strictSources refuses the name. *)
LEMMA FirstIsResolved ==
  ASSUME TypeOK, NEW n \in Name, NEW k \in Candidates(call, n), First(n, k)
  PROVE  Resolve(call, n) = k
BY BestIsOne DEF First, Resolve, TypeOK

(* Of the candidates for the name looked up, those tried before are no use.    *)
LEMMA TryingIsUsed ==
  ASSUME TypeOK, LookupFollows, pc = "try", NEW k \in Untried, Trying(k)
  PROVE  /\ lookup \in Name /\ k \in Candidates(call, lookup)
         /\ Mib[k.text].whole => Used(lookup) = k
         /\ ~Mib[k.text].whole /\ Untried = {k} => Used(lookup) = None
<1> DEFINE K == Candidates(call, lookup)
           W == {a \in K : Mib[a.text].whole}
<1>1. lookup \in Name /\ k \in K /\ Untried = {a \in K : a.src \notin tried} /\ call \in CallRecord
  BY DEF Untried, TypeOK
<1>2. W \subseteq Untried
  BY <1>1 DEF LookupFollows
<1>3. ~(call.strict /\ Rivals(lookup, Resolve(call, lookup)) # {})
  BY DEF LookupFollows
<1>4. Used(lookup) = IF W = {} THEN None ELSE Best(call, K, W)
  BY <1>3 DEF Used
<1>5. ASSUME Mib[k.text].whole PROVE Used(lookup) = k
  <2>1. k \in W /\ IsBest(call, K, W, k)
    BY <1>1, <1>2, <1>5 DEF Trying, IsBest
  <2>2. Best(call, K, W) = k
    BY <1>1, <2>1, BestIsOne
  <2> QED
    BY <1>4, <2>1, <2>2
<1>6. ASSUME ~Mib[k.text].whole, Untried = {k} PROVE Used(lookup) = None
  BY <1>2, <1>4, <1>6
<1> QED
  BY <1>1, <1>5, <1>6

(* A text read to its end is the one to be used, and what it imports is queued. *)
LEMMA LookupAccepts ==
  ASSUME TypeOK, TypeOK', OneModuleEach, LookupFollows, pc = "try", NEW k \in Untried, Accept(k)
  PROVE  LookupFollows'
<1>1. /\ UNCHANGED <<call, before>> /\ TakeDeclared(k) /\ Trying(k) /\ Mib[k.text].whole
      /\ failed' = Forget(k, failed) /\ lookup' = None /\ pc' = "parse"
  BY DEF Accept, callVars
<1>2. lookup \in Name /\ k \in Candidates(call, lookup) /\ Used(lookup) = k
  BY <1>1, TryingIsUsed
<1>3. /\ k \in Copy /\ Mib[k.text].declares = {lookup}
      /\ {Mib[k.text].appends[i] : i \in 1..Len(Mib[k.text].appends)} = Imports(lookup)
      /\ Imports(lookup) \subseteq Name
  <2>1. k \in Copy /\ k # None
    BY <1>2, TextOfItsOwn, SourcesAssumption
  <2>2. Imports(lookup) = Mib[k.text].imports[lookup]
    BY <1>2, <2>1 DEF Imports
  <2> QED
    BY <1>1, <1>2, <2>1, <2>2, TextOfItsOwn
<1>4. /\ parsed'[lookup] = k /\ \A n \in Name \ {lookup} : parsed'[n] = parsed[n]
      /\ failed' = failed \ {lookup} /\ k # None
  BY <1>1, <1>2, <1>3, SourcesAssumption DEF TakeDeclared, Declared, Forget
<1>5. \A n \in Name : InQueue(n)' <=> InQueue(n) \/ n \in Imports(lookup)
  BY <1>1, <1>3, ImportsQueued
<1>6. \A n \in Name : Seen(n)' <=> Seen(n) \/ n \in Imports(lookup)
  BY <1>1, <1>2, <1>4, <1>5, SourcesAssumption DEF Seen, Settled, TypeOK
<1>7. lookup \in Reached /\ Imports(lookup) \subseteq Reached
  BY <1>2, <1>3, ReachedIsLeast DEF LookupFollows, Seen
<1>8. \A n \in Name : Seen(n)' => n \in Reached
  BY <1>6, <1>7 DEF LookupFollows
<1>9. \A n \in Name : parsed'[n] # None =>
        parsed'[n] = parsed[n] \/ (parsed'[n] = Used(n) /\ \A m \in Imports(n) : Seen(m)')
  BY <1>2, <1>3, <1>4, <1>6
<1>10. \A n \in failed' \ {lookup'} : Used(n) = None
  BY <1>4 DEF LookupFollows
<1> QED
  BY <1>1, <1>6, <1>8, <1>9, <1>10, LookupKept

(* A text that is given up leads nowhere, and leaves the next candidate in line. *)
LEMMA LookupRejects ==
  ASSUME TypeOK, TypeOK', OneModuleEach, LookupFollows, pc = "try", NEW k \in Untried, Reject(k)
  PROVE  LookupFollows'
<1>1. /\ UNCHANGED <<call, before>> /\ TakeDeclared(k) /\ Trying(k) /\ ~Mib[k.text].whole
      /\ failed' = failed \cup {lookup}
      /\ \/ Untried = {k} /\ pc' = "parse" /\ lookup' = None
         \/ Untried # {k} /\ UNCHANGED lookup /\ tried' = tried \cup {k.src}
  BY DEF Reject, callVars
<1>2. lookup \in Name /\ k \in Candidates(call, lookup)
  BY <1>1, TryingIsUsed
<1>3. /\ k \in Copy /\ Mib[k.text].declares = {}
      /\ {Mib[k.text].appends[i] : i \in 1..Len(Mib[k.text].appends)} = {}
  BY <1>1, <1>2, TextOfItsOwn
<1>4. \A n \in Name : parsed'[n] = parsed[n]
  BY <1>1, <1>3 DEF TakeDeclared, Declared
<1>5. \A n \in Name : InQueue(n)' <=> InQueue(n)
  BY <1>1, <1>3, ImportsQueued
<1>6. \A n \in Name : Seen(n)' <=> Seen(n)
  BY <1>1, <1>2, <1>4, <1>5, SourcesAssumption DEF Seen, Settled
<1>7. \A n \in Name : Seen(n)' => n \in Reached
  BY <1>6 DEF LookupFollows
<1>8. \A n \in failed' \ {lookup'} : Used(n) = None
  <2>1. \A n \in failed \ {lookup} : Used(n) = None
    BY DEF LookupFollows
  <2>2. Untried = {k} => Used(lookup) = None
    BY <1>1, TryingIsUsed
  <2> QED
    BY <1>1, <2>1, <2>2
<1>9. pc' = "try" =>
        /\ \A a \in Candidates(call, lookup') : a.src \in tried' => ~Mib[a.text].whole
        /\ ~(call.strict /\ Rivals(lookup, Resolve(call, lookup))' # {})
  <2> SUFFICES ASSUME pc' = "try"
               PROVE  /\ \A a \in Candidates(call, lookup') : a.src \in tried' => ~Mib[a.text].whole
                      /\ ~(call.strict /\ Rivals(lookup, Resolve(call, lookup))' # {})
    OBVIOUS
  <2>1. UNCHANGED <<call, lookup>> /\ tried' = tried \cup {k.src}
    BY <1>1
  <2>2. \A a \in Candidates(call, lookup) : a.src = k.src => a = k
    BY <1>2 DEF Candidates, CopyAt
  <2>3. Rivals(lookup, Resolve(call, lookup))' = Rivals(lookup, Resolve(call, lookup))
    BY <2>1 DEF Rivals
  <2> QED
    BY <1>1, <2>1, <2>2, <2>3 DEF LookupFollows
<1> QED
  BY <1>1, <1>4, <1>6, <1>7, <1>8, <1>9, LookupKept

(* What is looked up is reached, and what is reached is looked up. *)
LEMMA LookupNext ==
  ASSUME TypeOK, TypeOK', Turns, OneModuleEach, LookupFollows, pc \in Looking, pc' \in Looking,
         [Next]_vars, UNCHANGED <<call, before>>
  PROVE  LookupFollows'
<1>h. queue # <<>> => Head(queue) \in Name /\ Seen(Head(queue)) /\ Head(queue) \in Reached
  BY HeadIsAName, HeadWaits DEF Seen, LookupFollows
<1>1. CASE SkipSettled
  <2>1. /\ queue # <<>> /\ queue' = Tail(queue) /\ Settled(Head(queue)) /\ pc' = "parse"
        /\ UNCHANGED <<lookup, parsed, failed>>
    BY <1>1 DEF SkipSettled
  <2>2. \A n \in Name : Seen(n)' <=> Seen(n)
    BY <2>1, HeadTaken DEF Seen, Settled
  <2> QED
    BY <2>1, <2>2, LookupKept DEF LookupFollows
<1>2. CASE Conflict
  <2> DEFINE n == Head(queue)
  <2>1. /\ queue # <<>> /\ queue' = Tail(queue) /\ failed' = failed \cup {n} /\ pc' = "parse"
        /\ UNCHANGED <<lookup, parsed>> /\ call.strict
    BY <1>2 DEF Conflict
  <2>2. PICK k \in Candidates(call, n) : First(n, k) /\ Rivals(n, k) # {}
    BY <1>2 DEF Conflict
  <2>3. Used(n) = None
    BY <1>h, <2>1, <2>2, FirstIsResolved DEF Used
  <2>4. \A m \in Name : Seen(m)' <=> Seen(m)
    BY <1>h, <2>1, HeadTaken DEF Seen, Settled
  <2> QED
    BY <2>1, <2>3, <2>4, LookupKept DEF LookupFollows
<1>3. CASE Missing
  <2> DEFINE n == Head(queue)
  <2>1. /\ queue # <<>> /\ queue' = Tail(queue) /\ failed' = failed \cup {n} /\ pc' = "parse"
        /\ UNCHANGED <<lookup, parsed>> /\ Candidates(call, n) = {}
    BY <1>3 DEF Missing
  <2>2. Used(n) = None
    BY <2>1 DEF Used
  <2>3. \A m \in Name : Seen(m)' <=> Seen(m)
    BY <1>h, <2>1, HeadTaken DEF Seen, Settled
  <2> QED
    BY <2>1, <2>2, <2>3, LookupKept DEF LookupFollows
<1>4. CASE PickUp
  <2> DEFINE n == Head(queue)
  <2>1. /\ queue # <<>> /\ queue' = Tail(queue) /\ lookup' = n /\ tried' = {} /\ pc = "parse"
        /\ UNCHANGED <<parsed, failed>> /\ ~Settled(n)
    BY <1>4 DEF PickUp
  <2>2. PICK k \in Candidates(call, n) : First(n, k) /\ ~(call.strict /\ Rivals(n, k) # {})
    BY <1>4 DEF PickUp
  <2>3. Resolve(call, n) = k /\ lookup = None
    BY <1>h, <2>1, <2>2, FirstIsResolved DEF Turns
  <2>4. \A m \in Name : Seen(m)' <=> Seen(m)
    BY <1>h, <2>1, <2>3, HeadTaken, SourcesAssumption DEF Seen, Settled
  <2>5. \A m \in failed' \ {lookup'} : Used(m) = None
    BY <2>1, <2>3, SourcesAssumption DEF LookupFollows, TypeOK
  <2>6. ~(call.strict /\ Rivals(lookup, Resolve(call, lookup)) # {})'
    BY <2>1, <2>2, <2>3 DEF Rivals
  <2> QED
    BY <2>1, <2>4, <2>5, <2>6, LookupKept DEF LookupFollows
<1>5. ASSUME NEW k \in Untried, Accept(k) PROVE LookupFollows'
  BY <1>5, LookupAccepts DEF Accept
<1>6. ASSUME NEW k \in Untried, Reject(k) PROVE LookupFollows'
  BY <1>6, LookupRejects DEF Reject
<1>7. CASE UNCHANGED vars
  <2>1. \A n \in Name : Seen(n)' <=> Seen(n)
    BY <1>7 DEF vars, Seen, InQueue, Settled
  <2>2. Rivals(lookup, Resolve(call, lookup))' = Rivals(lookup, Resolve(call, lookup))
    BY <1>7 DEF vars, Rivals
  <2> QED
    BY <1>7, <2>1, <2>2, LookupKept DEF vars, LookupFollows
<1>8. CASE NextCall
  BY <1>8 DEF NextCall, Looking
<1> QED
  BY <1>1, <1>2, <1>3, <1>4, <1>5, <1>6, <1>7, <1>8
  DEF Next, Looking, Escape, EndParse, CheckParsed, EndCheck, Generate, EndGenerate, Borrow,
      EndBorrow, CheckBorrowed, EndCheckBorrowed, Spread, Omit, Store, StoreFails, EndStore, Report

(* When the queue is empty what was to be read has been.                       *)
LEMMA AllRead ==
  ASSUME TypeOK, LookupFollows, pc = "parse", queue = <<>>, lookup = None, OneModuleEach,
         FailedIsUnread
  PROVE  \A n \in Name : /\ parsed[n] # None <=> Read(n)
                         /\ n \in failed <=> n \in Reached /\ Used(n) = None
<1> DEFINE S == {n \in Name : Settled(n)}
<1>1. \A n \in Name : Seen(n) <=> n \in S
  BY SourcesAssumption DEF Seen, InQueue
<1>2. \A n \in failed : n \in Name /\ Used(n) = None
  BY SourcesAssumption DEF LookupFollows, TypeOK
<1>3. \A n \in S : Imports(n) \subseteq S
  <2> SUFFICES ASSUME NEW n \in S PROVE Imports(n) \subseteq S
    OBVIOUS
  <2>1. CASE parsed[n] # None
    <3>1. parsed[n] = Used(n) /\ \A m \in Imports(n) : Seen(m)
      BY <2>1 DEF LookupFollows
    <3>2. parsed[n].text \in Text
      BY <2>1 DEF TypeOK, Copy
    <3>3. Imports(n) \subseteq Name
      BY <2>1, <3>1, <3>2, CompileAssumption DEF Imports, MibRecord
    <3> QED
      BY <1>1, <3>1, <3>3
  <2>2. CASE n \in failed
    BY <1>2, <2>2 DEF Imports
  <2> QED
    BY <2>1, <2>2 DEF Settled
<1>4. Requested \subseteq S
  BY <1>1, RequestedAreNames DEF LookupFollows
<1>5. Reached = S
  BY <1>1, <1>3, <1>4, ReachedIsLeast DEF LookupFollows
<1>6. \A n \in Name : parsed[n] # None => Used(n) = parsed[n]
  BY DEF LookupFollows
<1> QED
  BY <1>2, <1>5, <1>6 DEF Read, Settled

(* the names read are what they were, or what they come to *)
LEMMA TablesKept ==
  ASSUME UNCHANGED <<call, before, tables, canon>>, TypeOK, TablesFollow,
         ReadSoFar' = ReadSoFar
  PROVE  TablesFollow'
BY OutcomeStays DEF TablesFollow

(* There is a symbol table for what was read and for nothing else. *)
LEMMA TablesNext ==
  ASSUME TypeOK, TypeOK', Turns, OneModuleEach, FailedIsUnread, pc \in Looking => LookupFollows,
         TablesFollow, pc # "raised", pc' # "raised", [Next]_vars, ~NextCall
  PROVE  TablesFollow'
<1> USE DEF sourceVars, outputVars, callVars
<1>1. ASSUME pc \in Looking, pc' \in Looking, UNCHANGED <<call, before, parsed, tables, canon>>
      PROVE  TablesFollow'
  BY <1>1, TablesKept DEF ReadSoFar, Held
<1>2. ASSUME pc \notin Looking, pc' \notin Looking, UNCHANGED <<call, before, tables, canon>>
      PROVE  TablesFollow'
  <2>1. ReadSoFar' = ReadSoFar
    BY <1>2, OutcomeStays DEF ReadSoFar, Read
  <2> QED
    BY <1>2, <2>1, TablesKept
<1>3. CASE EndParse
  <2>1. /\ UNCHANGED <<call, before, tables, canon>> /\ pc = "parse" /\ pc' = "check"
        /\ queue = <<>> /\ lookup = None /\ LookupFollows
    BY <1>3 DEF EndParse, Turns, Looking
  <2>2. ReadSoFar = Held(parsed) /\ ReadSoFar' = {n \in Name : Read(n)}'
    BY <2>1 DEF ReadSoFar, Looking
  <2>3. Held(parsed) = {n \in Name : Read(n)}
    BY <2>1, AllRead DEF Held
  <2>4. {n \in Name : Read(n)}' = {n \in Name : Read(n)}
    BY <2>1, OutcomeStays DEF Read
  <2> QED
    BY <2>1, <2>2, <2>3, <2>4, TablesKept
<1>4. ASSUME NEW k \in Untried, Accept(k) PROVE TablesFollow'
  <2>1. /\ UNCHANGED <<call, before>> /\ TakeDeclared(k) /\ Trying(k) /\ Mib[k.text].whole
        /\ pc = "try" /\ pc' = "parse" /\ LookupFollows
    BY <1>4 DEF Accept, Looking
  <2>2. lookup \in Name /\ k \in Candidates(call, lookup) /\ Used(lookup) = k
    BY <2>1, TryingIsUsed
  <2>3. k \in Copy /\ Mib[k.text].declares = {lookup}
    BY <2>1, <2>2, TextOfItsOwn
  <2>n. k # None
    BY <2>3, SourcesAssumption
  <2>4. parsed[lookup] = None
    BY <2>1 DEF FailedIsUnread
  <2>5. /\ parsed'[lookup] = k /\ tables'[lookup] = k.text
        /\ \A n \in Name \ {lookup} : parsed'[n] = parsed[n] /\ tables'[n] = tables[n]
        /\ canon' = IF k.alias \in Requested THEN canon \cup {lookup} ELSE canon
    BY <2>1, <2>2, <2>3 DEF TakeDeclared, Declared
  <2>6. ReadSoFar = Held(parsed) /\ ReadSoFar' = Held(parsed)'
    BY <2>1 DEF ReadSoFar, Looking
  <2>7. lookup \notin canon
    BY <2>2, <2>4, <2>6 DEF TablesFollow, Held
  <2>8. /\ lookup \in ReadSoFar'
        /\ \A n \in Name \ {lookup} : n \in ReadSoFar' <=> n \in ReadSoFar
    BY <2>2, <2>n, <2>5, <2>6 DEF Held
  <2>9. Requested' = Requested /\ \A n \in Name : Used(n)' = Used(n)
    BY <2>1, OutcomeStays
  <2> QED
    BY <2>2, <2>3, <2>5, <2>7, <2>8, <2>9 DEF TablesFollow
<1>5. ASSUME NEW k \in Untried, Reject(k) PROVE TablesFollow'
  <2>1. /\ UNCHANGED <<call, before>> /\ TakeDeclared(k) /\ Trying(k) /\ ~Mib[k.text].whole
        /\ pc = "try" /\ pc' \in Looking /\ LookupFollows
    BY <1>5 DEF Reject, Looking
  <2>2. lookup \in Name /\ k \in Candidates(call, lookup)
    BY <2>1, TryingIsUsed
  <2>3. Mib[k.text].declares = {}
    BY <2>1, <2>2, TextOfItsOwn
  <2>4. /\ \A n \in Name : parsed'[n] = parsed[n] /\ tables'[n] = tables[n]
        /\ canon' = canon
    BY <2>1, <2>3 DEF TakeDeclared, Declared
  <2>5. ReadSoFar' = ReadSoFar
    BY <2>1, <2>4 DEF ReadSoFar, Held, Looking
  <2>6. tables' = tables
    BY <2>4 DEF TypeOK
  <2> QED
    BY <2>1, <2>4, <2>5, <2>6, TablesKept
<1>6. CASE SkipSettled \/ Conflict \/ Missing \/ PickUp
  BY <1>1, <1>6 DEF SkipSettled, Conflict, Missing, PickUp, Looking
<1>7. ASSUME NEW m \in Name,
             \/ CheckParsed(m) \/ Generate(m) \/ Borrow(m) \/ CheckBorrowed(m)
             \/ Store(m) \/ StoreFails(m)
      PROVE  TablesFollow'
  BY <1>2, <1>7 DEF CheckParsed, Generate, Borrow, CheckBorrowed, Store, StoreFails, Looking
<1>8. CASE UNCHANGED vars
  BY <1>1, <1>2, <1>8 DEF vars
<1>9. Escape => pc' = "raised"
  BY DEF Escape
<1>10. ASSUME EndCheck \/ EndGenerate \/ EndBorrow \/ EndCheckBorrowed \/ Spread \/ Omit
              \/ EndStore \/ Report
       PROVE  TablesFollow'
  BY <1>2, <1>10 DEF EndCheck, EndGenerate, EndBorrow, EndCheckBorrowed, Spread, Omit, EndStore,
     Report, Looking
<1> QED
  BY <1>3, <1>4, <1>5, <1>6, <1>7, <1>8, <1>9, <1>10 DEF Next

(* A module that a step passes by is where it was. *)
LEMMA WorkKept ==
  ASSUME UNCHANGED <<call, before, pc>>, NEW n \in Name, WorkAt(n),
         parsed'[n] = parsed[n], built'[n] = built[n], borrowed'[n] = borrowed[n],
         n \in failed' <=> n \in failed, n \in todo' <=> n \in todo
  PROVE  WorkAt(n)'
<1>1. /\ Reached' = Reached /\ Used(n)' = Used(n)
      /\ (Idle(n)' <=> Idle(n)) /\ (Sound(n)' <=> Sound(n))
      /\ (OnLoan(n)' <=> OnLoan(n)) /\ (LoanIsCurrent(n)' <=> LoanIsCurrent(n))
  BY OutcomeStays
<1>2. (Read(n)' <=> Read(n)) /\ Loan(n, call.lends[n])' = Loan(n, call.lends[n])
  BY <1>1 DEF Read
<1> QED
  BY <1>1, <1>2 DEF WorkAt

(* When a phase ends, its loop has dealt with everything. *)
LEMMA WorkTurns ==
  ASSUME UNCHANGED <<call, before, parsed, built, borrowed, failed>>, WorkFollows,
         \/ pc = "check" /\ pc' = "generate" /\ todo = {}
         \/ pc = "generate" /\ pc' = "borrow" /\ todo' = failed
         \/ pc = "borrow" /\ pc' = "checkBorrowed" /\ todo = {}
         \/ pc = "checkBorrowed" /\ pc' = "taint"
  PROVE  WorkFollows'
<1> SUFFICES ASSUME NEW n \in Name, WorkAt(n) PROVE WorkAt(n)'
  BY DEF WorkFollows
<1>1. /\ Reached' = Reached /\ Used(n)' = Used(n)
      /\ (Idle(n)' <=> Idle(n)) /\ (Sound(n)' <=> Sound(n))
      /\ (OnLoan(n)' <=> OnLoan(n)) /\ (LoanIsCurrent(n)' <=> LoanIsCurrent(n))
  BY OutcomeStays
<1>2. (Read(n)' <=> Read(n)) /\ Loan(n, call.lends[n])' = Loan(n, call.lends[n])
  BY <1>1 DEF Read
<1> QED
  BY <1>1, <1>2 DEF WorkAt

(* The searchers get everything that was read. *)
LEMMA WorkBegins ==
  ASSUME TypeOK, Turns, OneModuleEach, FailedIsUnread, LookupFollows, EndParse
  PROVE  WorkFollows'
<1>1. /\ pc = "parse" /\ queue = <<>> /\ lookup = None /\ pc' = "check" /\ todo' = Held(parsed)
      /\ UNCHANGED <<call, before, parsed, built, borrowed, failed>>
      /\ built = Nothing /\ borrowed = Nothing
  BY DEF EndParse, Turns, Looking, callVars
<1> SUFFICES ASSUME NEW n \in Name PROVE WorkAt(n)'
  BY DEF WorkFollows
<1>2. /\ Reached' = Reached /\ Used(n)' = Used(n) /\ (Idle(n)' <=> Idle(n))
      /\ (Sound(n)' <=> Sound(n))
  BY <1>1, OutcomeStays
<1>3. (parsed[n] # None <=> Read(n)) /\ (n \in failed <=> n \in Reached /\ Used(n) = None)
  BY <1>1, AllRead
<1>4. parsed[n] # None => parsed[n] = Used(n)
  BY DEF LookupFollows
<1>5. Used(n) = None => ~Idle(n) /\ ~Sound(n)
  BY DEF Idle, Sound
<1>6. Read(n)' <=> Read(n)
  BY <1>2 DEF Read
<1> QED
  BY <1>1, <1>2, <1>3, <1>4, <1>5, <1>6 DEF WorkAt, Read, Held, Nothing

(* The searchers leave out what is idle. *)
LEMMA CheckFollows ==
  ASSUME TypeOK, TypeOK', Turns, OneModuleEach, TablesFollow, WorkFollows,
         NEW m \in Name, CheckParsed(m)
  PROVE  WorkFollows'
<1>1. /\ pc = "check" /\ UNCHANGED <<pc, call, before, disk, built, borrowed, failed>>
      /\ m \in todo /\ todo' = todo \ {m} /\ parsed[m] # None
      /\ \A n \in Name \ {m} : parsed'[n] = parsed[n]
  BY DEF CheckParsed, outputVars, callVars, TypeOK, Turns, Held
<1>2. \A n \in Name \ {m} : WorkAt(n)'
  BY <1>1, WorkKept DEF WorkFollows
<1>3. WorkAt(m) /\ parsed[m] = Used(m) /\ Read(m) /\ disk = before
  BY <1>1 DEF WorkFollows, WorkAt, Turns, Early
<1>4. m \in canon <=> Used(m).alias \in Requested
  BY <1>1, <1>3 DEF TablesFollow, ReadSoFar, Looking
<1>5. (Current(disk, m, parsed[m], TRUE) \/ Excluded(m)) <=> Idle(m)
  BY <1>3, <1>4 DEF Idle, Excluded, LeftOut, Read
<1>6. parsed'[m] = IF Idle(m) THEN None ELSE parsed[m]
  BY <1>5 DEF CheckParsed, TypeOK
<1>7. /\ Reached' = Reached /\ Used(m)' = Used(m)
      /\ (Idle(m)' <=> Idle(m)) /\ (Sound(m)' <=> Sound(m))
      /\ (OnLoan(m)' <=> OnLoan(m)) /\ (LoanIsCurrent(m)' <=> LoanIsCurrent(m))
  BY <1>1, OutcomeStays
<1>8. (Read(m)' <=> Read(m)) /\ Loan(m, call.lends[m])' = Loan(m, call.lends[m])
  BY <1>1, <1>7 DEF Read
<1>9. WorkAt(m)'
  BY <1>1, <1>3, <1>6, <1>7, <1>8 DEF WorkAt
<1> QED
  BY <1>2, <1>9 DEF WorkFollows

(* Code is generated for what is sound. *)
LEMMA GenerateFollows ==
  ASSUME TypeOK, TypeOK', Turns, OneModuleEach, FailedIsUnread, TablesFollow, WorkFollows,
         NEW m \in Name, Generate(m)
  PROVE  WorkFollows'
<1>1. /\ pc = "generate" /\ UNCHANGED <<pc, call, before, borrowed, todo>> /\ parsed[m] # None
      /\ \A n \in Name \ {m} : /\ parsed'[n] = parsed[n] /\ built'[n] = built[n]
                               /\ n \in failed' <=> n \in failed
      /\ parsed'[m] = None /\ borrowed[m] = None /\ m \notin failed /\ built[m] = None
  BY DEF Generate, callVars, TypeOK, Turns, Nothing, FailedIsUnread
<1>2. \A n \in Name \ {m} : WorkAt(n)'
  BY <1>1, WorkKept DEF WorkFollows
<1>3. WorkAt(m) /\ parsed[m] = Used(m) /\ Read(m) /\ ~Idle(m)
  BY <1>1 DEF WorkFollows, WorkAt
<1>4. \A n \in Name : /\ tables[n] # None <=> Read(n)
                      /\ Read(n) => tables[n] = Used(n).text
  <2> SUFFICES ASSUME NEW n \in Name PROVE /\ tables[n] # None <=> Read(n)
                                           /\ Read(n) => tables[n] = Used(n).text
    OBVIOUS
  <2>1. /\ tables[n] = IF Read(n) THEN Used(n).text ELSE None
        /\ Read(n) => Used(n).text \in Text
    BY <1>1 DEF TablesFollow, ReadSoFar, Looking, Copy
  <2> QED
    BY <2>1, SourcesAssumption
<1>5. Generates(m) <=> Sound(m)
  <2>1. Held(tables) = {n \in Reached : Used(n) # None}
    BY <1>4, ReachedIsLeast DEF Held, Read
  <2>2. \A n \in Held(tables) : tables[n] = Used(n).text
    BY <1>4 DEF Held
  <2>3. Resolvable(m) <=>
          \E S \in SUBSET {n \in Reached : Used(n) # None} :
            m \in S /\ \A n \in S : Mib[Used(n).text].needs[n] \subseteq S
    BY <2>1, <2>2 DEF Resolvable
  <2> QED
    BY <1>3, <2>3 DEF Generates, Sound, Read
<1>6. IF Sound(m) THEN built'[m] = parsed[m] /\ failed' = failed
      ELSE built'[m] = built[m] /\ failed' = failed \cup {m}
  BY <1>5 DEF Generate, TypeOK
<1>7. /\ Reached' = Reached /\ Used(m)' = Used(m)
      /\ (Idle(m)' <=> Idle(m)) /\ (Sound(m)' <=> Sound(m))
      /\ (OnLoan(m)' <=> OnLoan(m)) /\ (LoanIsCurrent(m)' <=> LoanIsCurrent(m))
  BY <1>1, OutcomeStays
<1>8. WorkAt(m)'
  BY <1>1, <1>3, <1>6, <1>7 DEF WorkAt, Read
<1> QED
  BY <1>2, <1>8 DEF WorkFollows

(* What is on loan is borrowed. *)
LEMMA BorrowFollows ==
  ASSUME TypeOK, TypeOK', Turns, OneModuleEach, FailedIsUnread, TablesFollow, WorkFollows,
         NEW m \in Name, Borrow(m)
  PROVE  WorkFollows'
<1>1. /\ pc = "borrow" /\ UNCHANGED <<pc, call, before, parsed, built>>
      /\ m \in todo /\ todo' = todo \ {m} /\ m \in failed
      /\ \A n \in Name \ {m} : borrowed'[n] = borrowed[n] /\ (n \in failed' <=> n \in failed)
  BY DEF Borrow, callVars, TypeOK, Turns
<1>2. \A n \in Name \ {m} : WorkAt(n)'
  BY <1>1, WorkKept DEF WorkFollows
<1>3. WorkAt(m) /\ m \in Reached /\ ~Idle(m) /\ ~Sound(m) /\ parsed[m] = None /\ built[m] = None
  BY <1>1 DEF WorkFollows, WorkAt, FailedIsUnread
<1>4. m \in canon <=> Used(m) # None /\ Used(m).alias \in Requested
  BY <1>1, <1>3 DEF TablesFollow, ReadSoFar, Looking, Read
<1>5. ~(Excluded(m) \/ call.lends[m] = None) <=> OnLoan(m)
  BY <1>3, <1>4 DEF OnLoan, Excluded, LeftOut
<1>6. IF OnLoan(m) THEN borrowed'[m] = Loan(m, call.lends[m]) /\ failed' = failed \ {m}
      ELSE borrowed' = borrowed /\ failed' = failed
  BY <1>5 DEF Borrow, TypeOK
<1>7. /\ Reached' = Reached /\ Used(m)' = Used(m)
      /\ (Idle(m)' <=> Idle(m)) /\ (Sound(m)' <=> Sound(m))
      /\ (OnLoan(m)' <=> OnLoan(m)) /\ (LoanIsCurrent(m)' <=> LoanIsCurrent(m))
  BY <1>1, OutcomeStays
<1>8. Loan(m, call.lends[m])' = Loan(m, call.lends[m])
  BY <1>1
<1>9. OnLoan(m) => Loan(m, call.lends[m]) # None
  BY LoansAreSomething DEF OnLoan
<1>10. WorkAt(m)'
  BY <1>1, <1>3, <1>6, <1>7, <1>8, <1>9 DEF WorkAt
<1> QED
  BY <1>2, <1>10 DEF WorkFollows

(* A loan goes to the writer unless the output is current. *)
LEMMA LoanFollows ==
  ASSUME TypeOK, TypeOK', Turns, OneModuleEach, FailedIsUnread, TablesFollow, WorkFollows,
         NEW m \in Name, CheckBorrowed(m)
  PROVE  WorkFollows'
<1>1. /\ pc = "checkBorrowed" /\ UNCHANGED <<pc, call, before, disk, parsed, failed, todo>>
      /\ borrowed[m] # None /\ borrowed'[m] = None /\ disk = before
      /\ parsed[m] = None /\ built[m] = None
      /\ \A n \in Name \ {m} : borrowed'[n] = borrowed[n] /\ built'[n] = built[n]
  BY DEF CheckBorrowed, outputVars, callVars, TypeOK, Turns, Early, FailedIsUnread
<1>2. \A n \in Name \ {m} : WorkAt(n)'
  BY <1>1, WorkKept DEF WorkFollows
<1>3. WorkAt(m) /\ borrowed[m] = Loan(m, call.lends[m]) /\ m \in Reached /\ OnLoan(m)
  BY <1>1 DEF WorkFollows, WorkAt
<1>4. m \in canon <=> Used(m) # None /\ Used(m).alias \in Requested
  BY <1>1, <1>3 DEF TablesFollow, ReadSoFar, Looking, Read
<1>5. (Current(disk, m, borrowed[m], FALSE) \/ Excluded(m)) <=> LoanIsCurrent(m)
  BY <1>1, <1>3, <1>4 DEF OnLoan, Excluded, LeftOut, LoanIsCurrent
<1>6. built'[m] = IF LoanIsCurrent(m) THEN None ELSE borrowed[m]
  <2>1. CASE LoanIsCurrent(m)
    BY <1>1, <1>5, <2>1 DEF CheckBorrowed
  <2>2. CASE ~LoanIsCurrent(m)
    <3>1. built' = [built EXCEPT ![m] = borrowed[m]]
      BY <1>5, <2>2 DEF CheckBorrowed
    <3> QED
      BY <2>2, <3>1 DEF TypeOK
  <2> QED
    BY <2>1, <2>2
<1>7. /\ Reached' = Reached /\ Used(m)' = Used(m)
      /\ (Idle(m)' <=> Idle(m)) /\ (Sound(m)' <=> Sound(m))
      /\ (OnLoan(m)' <=> OnLoan(m)) /\ (LoanIsCurrent(m)' <=> LoanIsCurrent(m))
  BY <1>1, OutcomeStays
<1>8. Loan(m, call.lends[m])' = Loan(m, call.lends[m])
  BY <1>1
<1>9. WorkAt(m)'
  BY <1>1, <1>3, <1>6, <1>7, <1>8 DEF WorkAt, OnLoan
<1> QED
  BY <1>2, <1>9 DEF WorkFollows

(* From the searchers to the omission every module takes its way. *)
LEMMA WorkNext ==
  ASSUME TypeOK, TypeOK', Turns, OneModuleEach, FailedIsUnread,
         pc \in Looking => LookupFollows, TablesFollow, pc \in Early \ Looking => WorkFollows,
         pc' \in Early \ Looking, [Next]_vars
  PROVE  WorkFollows'
<1> USE DEF sourceVars, outputVars, callVars
<1>1. CASE EndParse
  BY <1>1, WorkBegins DEF EndParse, Looking
<1>2. ASSUME NEW m \in Name, CheckParsed(m) PROVE WorkFollows'
  BY <1>2, CheckFollows DEF CheckParsed, Early, Looking
<1>3. CASE EndCheck
  BY <1>3, WorkTurns DEF EndCheck, Early, Looking
<1>4. ASSUME NEW m \in Name, Generate(m) PROVE WorkFollows'
  BY <1>4, GenerateFollows DEF Generate, Early, Looking
<1>5. CASE EndGenerate
  BY <1>5, WorkTurns DEF EndGenerate, Early, Looking
<1>6. ASSUME NEW m \in Name, Borrow(m) PROVE WorkFollows'
  BY <1>6, BorrowFollows DEF Borrow, Early, Looking
<1>7. CASE EndBorrow
  BY <1>7, WorkTurns DEF EndBorrow, Early, Looking
<1>8. ASSUME NEW m \in Name, CheckBorrowed(m) PROVE WorkFollows'
  BY <1>8, LoanFollows DEF CheckBorrowed, Early, Looking
<1>9. CASE EndCheckBorrowed
  BY <1>9, WorkTurns DEF EndCheckBorrowed, Early, Looking
<1>10. CASE Spread \/ UNCHANGED vars
  <2>1. WorkFollows /\ UNCHANGED <<pc, call, before, parsed, built, borrowed, failed, todo>>
    BY <1>10 DEF Spread, vars, Early, Looking
  <2> QED
    BY <2>1, WorkKept DEF WorkFollows
<1>12. SkipSettled \/ Escape \/ Conflict \/ Missing \/ PickUp \/ Omit \/ EndStore \/ Report
       \/ NextCall => pc' \notin Early \ Looking
  BY DEF SkipSettled, Escape, Conflict, Missing, PickUp, Omit, EndStore, Report, NextCall, Fresh,
     Early, Looking
<1>13. ASSUME NEW k \in Untried, Accept(k) \/ Reject(k) PROVE pc' \notin Early \ Looking
  BY <1>13 DEF Accept, Reject, Early, Looking
<1>14. ASSUME NEW m \in Name, Store(m) \/ StoreFails(m) PROVE pc' \notin Early \ Looking
  BY <1>14 DEF Store, StoreFails, Early, Looking
<1> QED
  BY <1>1, <1>2, <1>3, <1>4, <1>5, <1>6, <1>7, <1>8, <1>9, <1>10, <1>12, <1>13, <1>14 DEF Next

(* What is tainted is broken, whatever the order it is found in. *)
LEMMA TaintNext ==
  ASSUME TypeOK, OneModuleEach, WorkFollows, TaintFollows, FailedIsUnread,
         EndCheckBorrowed \/ Spread
  PROVE  TaintFollows'
<1> USE DEF callVars
<1>1. UNCHANGED <<call, before, failed>> /\ Broken' = Broken
  BY OutcomeStays DEF EndCheckBorrowed, Spread
<1>2. CASE EndCheckBorrowed
  <2>1. pc = "checkBorrowed" /\ tainted' = failed
    BY <1>2 DEF EndCheckBorrowed
  <2>2. \A n \in failed : n \in Reached /\ ~Idle(n) /\ ~Sound(n) /\ ~OnLoan(n)
    BY <2>1 DEF WorkFollows, WorkAt, TypeOK
  <2>3. failed \subseteq Broken
    BY <2>2, BrokenIsLeast
  <2> QED
    BY <1>1, <2>1, <2>3 DEF TaintFollows
<1>3. CASE Spread
  <2>1. pc = "taint" /\ tainted' = tainted \cup Spreading /\ tainted \subseteq Broken
        /\ failed \subseteq tainted
    BY <1>3 DEF Spread, TaintFollows
  <2>2. ASSUME NEW m \in Spreading PROVE m \in Broken
    <3>1. m \in Name /\ built[m] # None /\ ImportsOf(m, built[m]) \cap tainted # {}
      BY DEF Spreading, Held
    <3>2. WorkAt(m) /\ m \in Reached /\ ~Idle(m)
      BY <3>1 DEF WorkFollows, WorkAt
    <3>3. built[m].text \in Text
      BY <3>1 DEF ImportsOf
    <3>4. built[m] = Used(m) /\ Sound(m)
      BY <3>1, <3>2, <3>3, LoansAreSomething DEF WorkAt, OnLoan
    <3>5. Imports(m) \ Fake = ImportsOf(m, built[m]) /\ ~OnLoan(m)
      BY <3>1, <3>3, <3>4 DEF Imports, ImportsOf, OnLoan
    <3> QED
      BY <2>1, <3>1, <3>2, <3>5, BrokenIsLeast
  <2> QED
    BY <1>1, <2>1, <2>2 DEF TaintFollows
<1> QED
  BY <1>2, <1>3

(* When no more can be tainted, what is left is what was to be expected. *)
LEMMA OmitFollows ==
  ASSUME TypeOK, Turns, OneModuleEach, TablesFollow, WorkFollows, TaintFollows, Omit
  PROVE  WriterFollows'
<1>1. /\ pc = "taint" /\ Spreading = {} /\ UNCHANGED <<call, before, wrote>>
      /\ \A n \in Name : built'[n] = IF n \in tainted THEN None ELSE built[n]
      /\ wrote = Nothing /\ parsed = Nothing /\ borrowed = Nothing
      /\ failed \subseteq tainted /\ tainted \subseteq Broken
  BY DEF Omit, outputVars, callVars, Turns, Early, Looking, TaintFollows
<1>2. ASSUME NEW n \in Reached, ~Idle(n), ~OnLoan(n),
             ~Sound(n) \/ (Imports(n) \ Fake) \cap tainted # {}
      PROVE  n \in tainted
  <2>1. n \in Name /\ WorkAt(n)
    BY ReachedIsLeast DEF WorkFollows
  <2>2. CASE n \in failed
    BY <1>1, <2>2
  <2>3. CASE n \notin failed
    <3>1. built[n] # None /\ built[n] = Used(n) /\ Sound(n)
      BY <1>1, <1>2, <2>1, <2>3 DEF WorkAt, Nothing
    <3>2. built[n].text \in Text
      <4>1. Read(n)
        BY <1>2, <3>1 DEF Sound, Read
      <4>2. Used(n) \in Copy
        BY <1>1, <2>1, <4>1 DEF TablesFollow, ReadSoFar, Looking
      <4> QED
        BY <3>1, <4>2 DEF Copy
    <3>3. ImportsOf(n, built[n]) = Imports(n) \ Fake
      BY <3>1, <3>2 DEF ImportsOf, Imports
    <3> QED
      BY <1>1, <1>2, <2>1, <3>1, <3>3 DEF Spreading, Held
  <2> QED
    BY <2>2, <2>3
<1>3. Broken = tainted
  <2>1. tainted \in SUBSET Name
    BY DEF TypeOK
  <2> QED
    BY <1>1, <1>2, <2>1, BrokenIsLeast
<1>4. Expected = {n \in Reached \ Broken : ~Idle(n) /\ (OnLoan(n) => ~LoanIsCurrent(n))}
  BY DEF Expected, LoanIsCurrent
<1>5. ASSUME NEW n \in Name PROVE (built[n] # None /\ n \notin tainted) <=> n \in Expected
  <2>1. WorkAt(n) /\ parsed[n] = None /\ borrowed[n] = None
    BY <1>1 DEF WorkFollows, Nothing
  <2>2. Sound(n) => ~OnLoan(n)
    BY DEF OnLoan
  <2> QED
    BY <1>1, <1>3, <1>4, <2>1, <2>2 DEF WorkAt
<1>6. Expected' = Expected
  BY <1>1, OutcomeStays
<1>7. \A n \in Name : Delivered(n)' <=> n \in Expected
  BY <1>1, <1>5 DEF Delivered, Nothing
<1> QED
  BY <1>6, <1>7 DEF WriterFollows

(* The writer gets what was to be expected. *)
LEMMA WriterNext ==
  ASSUME ReportInv, ReportInv', OneModuleEach, TablesFollow,
         pc = "taint" => WorkFollows /\ TaintFollows,
         pc \in Closing => WriterFollows, pc' \in Closing, [Next]_vars, UNCHANGED call
  PROVE  WriterFollows'
<1> USE DEF sourceVars, outputVars, callVars
<1>t. TypeOK /\ TypeOK' /\ Turns
  BY DEF ReportInv
<1>1. CASE Omit
  BY <1>1, <1>t, OmitFollows DEF Omit
<1>2. ASSUME pc \in Closing, UNCHANGED <<call, before>>,
             \A n \in Name : /\ Delivered(n)' => Delivered(n)
                             /\ Delivered(n) => Delivered(n)' \/ ~call.writes \/ Has(n, "failed")'
                             /\ Has(n, "failed") => Has(n, "failed")'
      PROVE  WriterFollows'
  BY <1>2, OutcomeStays DEF WriterFollows
<1>3. ASSUME NEW m \in Name, Store(m) PROVE WriterFollows'
  <2>1. /\ pc = "store" /\ UNCHANGED <<call, before>> /\ built[m] # None
        /\ \A n \in Name \ {m} : /\ built'[n] = built[n] /\ wrote'[n] = wrote[n]
                                 /\ processed'[n] = processed[n]
        /\ processed[m] # None => processed'[m] = processed[m]
        /\ call.writes => wrote'[m] = built[m]
        /\ built'[m] = None /\ (~call.writes => wrote'[m] = wrote[m])
    BY <1>3, <1>t DEF Store, TypeOK
  <2> QED
    BY <2>1, <1>2 DEF Delivered, Has, Closing
<1>4. ASSUME NEW m \in Name, StoreFails(m) PROVE WriterFollows'
  <2>1. /\ pc = "store" /\ UNCHANGED <<call, before, wrote>> /\ built[m] # None
        /\ \A n \in Name \ {m} : built'[n] = built[n] /\ processed'[n] = processed[n]
        /\ built'[m] = None /\ processed'[m] = Plainly("failed")
    BY <1>4, <1>t DEF StoreFails, TypeOK
  <2>2. Has(m, "failed")'
    BY <2>1, StatusNames DEF Has
  <2> QED
    BY <2>1, <2>2, <1>2 DEF Delivered, Has, Closing
<1>5. CASE EndStore \/ UNCHANGED vars
  <2>1. pc \in Closing /\ UNCHANGED <<call, before, built, wrote, processed>>
    BY <1>5 DEF EndStore, vars, Closing
  <2> QED
    BY <2>1, <1>2 DEF Delivered, Has
<1>6. CASE Report
  <2>1. pc \in Closing /\ UNCHANGED <<call, before, built, wrote>>
    BY <1>6 DEF Report, Closing
  <2>2. \A n \in Name : Has(n, "failed")' <=> Has(n, "failed")
    BY <1>6, <1>t, ReportKeepsStatus
  <2> QED
    BY <2>1, <2>2, <1>2 DEF Delivered
<1>7. SkipSettled \/ Escape \/ Conflict \/ Missing \/ PickUp \/ EndParse \/ EndCheck \/ EndGenerate
      \/ EndBorrow \/ EndCheckBorrowed \/ Spread \/ NextCall => pc' \notin Closing
  BY DEF SkipSettled, Escape, Conflict, Missing, PickUp, EndParse, EndCheck, EndGenerate, EndBorrow,
     EndCheckBorrowed, Spread, NextCall, Fresh, Closing
<1>8. ASSUME NEW k \in Untried, Accept(k) \/ Reject(k) PROVE pc' \notin Closing
  BY <1>8 DEF Accept, Reject, Closing
<1>9. ASSUME NEW m \in Name, CheckParsed(m) \/ Generate(m) \/ Borrow(m) \/ CheckBorrowed(m)
      PROVE  pc' \notin Closing
  BY <1>9 DEF CheckParsed, Generate, Borrow, CheckBorrowed, Closing
<1> QED
  BY <1>1, <1>3, <1>4, <1>5, <1>6, <1>7, <1>8, <1>9 DEF Next

(* A call keeps to what its own names, texts and options lead to.              *)
LEMMA OutcomeNext == ReportInv /\ OutcomeInv /\ [Next]_vars => OutcomeInv'
<1> SUFFICES ASSUME ReportInv, OutcomeInv, [Next]_vars PROVE OutcomeInv'
  OBVIOUS
<1>t. TypeOK /\ TypeOK' /\ Turns /\ ReportInv' /\ FailedIsUnread
  BY NextTyped, ReportNext DEF ReportInv
<1>1. CASE NextCall
  <2>1. Begun'
    BY <1>1 DEF NextCall, Fresh, Begun
  <2>2. TypeOK' /\ Begun' => OutcomeInv'
    BY OutcomeBegins, PTL
  <2> QED
    BY <1>t, <2>1, <2>2
<1>2. CASE ~NextCall
  <2>1. UNCHANGED <<call, before>>
    BY <1>2 DEF Next, SkipSettled, Escape, Conflict, Missing, PickUp, Accept, Reject, EndParse,
       CheckParsed, EndCheck, Generate, EndGenerate, Borrow, EndBorrow, CheckBorrowed,
       EndCheckBorrowed, Spread, Omit, Store, StoreFails, EndStore, Report, callVars, vars
  <2>2. OneModuleEach' <=> OneModuleEach
    BY <2>1 DEF OneModuleEach
  <2> SUFFICES ASSUME OneModuleEach
               PROVE  /\ pc' \in Looking => LookupFollows'
                      /\ pc' # "raised" => TablesFollow'
                      /\ pc' \in Early \ Looking => WorkFollows' /\ TaintFollows'
                      /\ pc' \in Closing => WriterFollows'
    BY <2>2 DEF OutcomeInv
  <2>3. /\ pc \in Looking => LookupFollows
        /\ pc # "raised" => TablesFollow
        /\ pc \in Early \ Looking => WorkFollows /\ TaintFollows
        /\ pc \in Closing => WriterFollows
    BY DEF OutcomeInv
  <2>4. /\ pc' \in Looking => pc \in Looking
        /\ pc' # "raised" => pc # "raised"
        /\ pc' = "taint" => EndCheckBorrowed \/ Spread \/ UNCHANGED <<pc, call, before, failed, tainted>>
        /\ pc' = "taint" /\ ~EndCheckBorrowed => pc = "taint"
        /\ EndCheckBorrowed => pc = "checkBorrowed"
        /\ pc' \in Closing /\ pc \notin Closing => pc = "taint"
    BY <1>2 DEF Next, SkipSettled, Escape, Conflict, Missing, PickUp, Accept, Reject, EndParse,
       CheckParsed, EndCheck, Generate, EndGenerate, Borrow, EndBorrow, CheckBorrowed,
       EndCheckBorrowed, Spread, Omit, Store, StoreFails, EndStore, Report, callVars, vars,
       Looking, Closing
  <2>5. pc' \in Looking => LookupFollows'
    BY <1>t, <2>1, <2>3, <2>4, LookupNext
  <2>6. pc' # "raised" => TablesFollow'
    BY <1>2, <1>t, <2>3, <2>4, TablesNext
  <2>7. pc' \in Early \ Looking => WorkFollows'
    BY <1>t, <2>3, <2>4, WorkNext DEF Early
  <2>8. pc' = "taint" => TaintFollows'
    <3>1. CASE EndCheckBorrowed \/ Spread
      BY <1>t, <2>3, <2>4, <3>1, TaintNext DEF Early, Looking, Spread, TaintFollows
    <3>2. CASE UNCHANGED <<pc, call, before, failed, tainted>>
      BY <2>3, <3>2, OutcomeStays DEF TaintFollows, Early, Looking
    <3> QED
      BY <2>4, <3>1, <3>2
  <2>9. pc' \in Closing => WriterFollows'
    BY <1>t, <2>1, <2>3, <2>4, WriterNext DEF Early, Looking, Closing
  <2> QED
    BY <2>5, <2>6, <2>7, <2>8, <2>9 DEF TaintFollows
<1> QED
  BY <1>1, <1>2

(* What compile() writes is what the names asked for, the sources, the options *)
(* and the output directory lead to: the order of the request, the order the   *)
(* loops take and what earlier calls did make no difference.                   *)
THEOREM OutcomeIsExpected == Spec => []WritesAsExpected
<1>1. ReportInv /\ OutcomeInv => WritesAsExpected
  <2> SUFFICES ASSUME ReportInv, OutcomeInv, pc = "done", OneModuleEach, call.writes
               PROVE  Held(wrote) = {n \in Expected : ~Has(n, "failed")}
    BY DEF WritesAsExpected
  <2>1. built = Nothing /\ WriterFollows /\ WrittenIsReported
    BY DEF ReportInv, Turns, OutcomeInv, Closing
  <2>2. \A n \in Name : wrote[n] # None => ~Has(n, "failed")
    BY <2>1 DEF WrittenIsReported, Has, Blurred
  <2>3. Expected \subseteq Name
    BY ReachedIsLeast DEF Expected
  <2> QED
    BY <2>1, <2>2, <2>3 DEF WriterFollows, Delivered, Held, Nothing
<1>2. Init => ReportInv /\ OutcomeInv
  <2>1. Init => Begun
    BY DEF Init, Begun
  <2> QED
    BY <2>1, InitTyped, ReportInit, OutcomeBegins
<1>3. ReportInv /\ OutcomeInv /\ [Next]_vars => (ReportInv /\ OutcomeInv)'
  BY ReportNext, OutcomeNext
<1> QED
  BY <1>1, <1>2, <1>3, PTL DEF Spec

===============================================================================
