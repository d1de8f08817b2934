------------------------------ MODULE MibSources ------------------------------
(* How pysmi.compiler picks one copy of a module out of the sources that hold  *)
(* one: the walk over the sources, the ranking of what it finds, the copies    *)
(* reported as passed over, and resolve().  Everything here is a pure operator *)
(* over a call record c, of which this module reads                            *)
(*   c.holds[s][n]  what source s answers when it is asked for the name n,     *)
(*   c.local        the sources whose isLocal is set,                          *)
(*   c.bundled      useBundledMibs: source 1 is then the bundled package,      *)
(*   c.prefer       preferConfiguredSources.                                   *)
(* A text stands for a file's content and so for its digest; a copy's source   *)
(* stands for its path, one source having one path for one name.               *)
EXTENDS Integers, FiniteSets

CONSTANTS
  Name,         \* names a module can be asked for by, aliases included
  Text,         \* distinct file contents
  NumSources,   \* how many sources are configured, asked in the order 1, 2, ...
  Revision,     \* Text -> Nat: the LAST-UPDATED of a text, 0 where it has none
  None,         \* "nothing there"
  Refused       \* the source raises an error compile() does not handle

Source == 1..NumSources
BundledSource == 1

(* alias is the file name the reader matched the asked name against *)
Answer == [text : Text, alias : Name] \cup {None, Refused}
Copy == [src : Source, text : Text, alias : Name]

ASSUME SourcesAssumption ==
  /\ NumSources \in Nat \ {0}
  /\ Revision \in [Text -> Nat]
  /\ None \notin [text : Text, alias : Name] \cup Name \cup Text \cup Copy
  /\ Refused \notin [text : Text, alias : Name] \cup {None}

-------------------------------------------------------------------------------
(* The walk. *)

Hit(c, n, s) == c.holds[s][n] \notin {None, Refused}

(* A non-local source is asked only while nothing has been found; the first    *)
(* one met after a hit ends the walk, so the local ones behind it go unasked.  *)
Asked(c, n, s) ==
  \A u \in 1..s : u \in c.local \/ \A h \in 1..(u - 1) : ~Hit(c, n, h)

(* The error a source raises other than "not found" goes through compile().    *)
Raises(c, n) == \E s \in Source : Asked(c, n, s) /\ c.holds[s][n] = Refused

CopyAt(c, n, s) ==
  [src |-> s, text |-> c.holds[s][n].text, alias |-> c.holds[s][n].alias]

Candidates(c, n) ==
  {CopyAt(c, n, s) : s \in {t \in Source : Asked(c, n, t) /\ Hit(c, n, t)}}

-------------------------------------------------------------------------------
(* The ranking. *)

IsBundled(c, k) == c.bundled /\ k.src = BundledSource

(* source order, the bundled copy last when configured sources are preferred *)
Earlier(c, a, b) ==
  IF c.prefer /\ IsBundled(c, a) # IsBundled(c, b)
  THEN IsBundled(c, b)
  ELSE a.src < b.src

AllDated(K) == \A k \in K : Revision[k.text] # 0

(* a is ranked before b among the candidates K *)
Better(c, K, a, b) ==
  IF AllDated(K) /\ Revision[a.text] # Revision[b.text]
  THEN Revision[a.text] > Revision[b.text]
  ELSE Earlier(c, a, b)

IsBest(c, K, L, a) == a \in L /\ \A b \in L \ {a} : Better(c, K, a, b)

Best(c, K, L) == CHOOSE a \in L : IsBest(c, K, L, a)

(* the PRECEDENCE_* constants *)
Rule == {"", "no revision", "equal", "newest"}

Precedence(K) ==
  CASE Cardinality(K) < 2                             -> ""
    [] Cardinality(K) >= 2 /\ ~AllDated(K)            -> "no revision"
    [] OTHER -> IF Cardinality({Revision[k.text] : k \in K}) = 1
                THEN "equal" ELSE "newest"

(* the sources of the copies whose content differs from the text taken *)
Differing(K, text) == {k.src : k \in {j \in K : j.text # text}}

Resolve(c, n) ==
  LET K == Candidates(c, n) IN IF K = {} THEN None ELSE Best(c, K, K)

===============================================================================
