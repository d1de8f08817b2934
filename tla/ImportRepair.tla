---------------------------- MODULE ImportRepair ----------------------------
(***************************************************************************)
(* What one module of a tree needs (pysmi/patchgen.py): the base symbols   *)
(* it uses without importing them, and its text with the imports written   *)
(* in.  A line is a record of what the repair tells apart: what it is, the *)
(* symbols it names, the module it names, whether a ";" ends the clause on *)
(* it, and a word that makes it this line and no other.                    *)
(***************************************************************************)
EXTENDS PatchFormat

CONSTANTS
  Home,        \* base symbol -> the base module that exports it
  BaseModules  \* the base modules, in the order of their names

ASSUME HomeAssumption == \A s \in DOMAIN Home : Home[s] \in Range(BaseModules)

\* begin     the line with DEFINITIONS ::= BEGIN; split where BEGIN is on a
\*           line of its own; both name the module the text declares
\* imports   IMPORTS alone on its line; packed where symbols follow it
\* names     symbols; from: FROM and a module; inline: both on one line
\* end       a ";" alone
\* note      nothing, or a comment that is indented; comment: one that is not
\* body      a definition and the base symbols it uses; broken: one that
\*           does not parse
Line(is, names, module, ends, word) ==
  [is |-> is, names |-> names, module |-> module, ends |-> ends, word |-> word]

Begins  == {"begin", "split"}
Openers == {"imports", "packed"}
Clause  == {"names", "from", "inline", "end"}
Remarks == {"note", "comment"}

At(text, kinds) == {i \in DOMAIN text : text[i].is \in kinds}

\* The name a text gives itself.
Declared(text) == text[Min(At(text, Begins))].module

(***************************************************************************)
(* missing_imports(): the parser and the symbol table.  One clause at      *)
(* most, from its IMPORTS to its ";", made of symbols and the module they  *)
(* are from; everything else of a clause belongs inside it.                *)
(***************************************************************************)
ClauseSpan(text) ==
  IF At(text, Openers) = {} THEN {}
  ELSE LET open == Min(At(text, Openers))
           ends == {i \in DOMAIN text : i >= open /\ text[i].ends}
       IN  open .. (IF ends = {} THEN Len(text) ELSE Min(ends))

GroupsClosed(text) ==
  \A i \in At(text, {"names", "packed"}) :
    \E j \in At(text, {"from", "inline"}) :
       j > i /\ \A k \in i + 1 .. j - 1 : text[k].is \in {"names"} \cup Remarks

Parses(text) ==
  /\ At(text, {"broken"}) = {}
  /\ Cardinality(At(text, Openers)) <= 1
  /\ At(text, Clause) \subseteq ClauseSpan(text)
  /\ ClauseSpan(text) \subseteq At(text, Openers \cup Clause \cup Remarks)
  /\ At(text, Openers) # {} => \E i \in ClauseSpan(text) : text[i].ends
  /\ GroupsClosed(text)

Named(text, kinds) == UNION {text[i].names : i \in At(text, kinds)}

\* Symbols used, not imported, and some base module's.
Missing(text) == Named(text, {"body"}) \ Named(text, Openers \cup Clause)

(***************************************************************************)
(* repair_imports().                                                       *)
(***************************************************************************)
\* _grouped(): the modules symbols are missing from, in order of name.
Grouped(missing) ==
  SelectSeq(BaseModules, LAMBDA m : \E s \in missing : Home[s] = m)
From(missing, m) == {s \in missing : Home[s] = m}

\* _add_to_existing_group(): the last line of symbols above "FROM m" on a
\* line of its own.
GroupsOf(text, bounds, m) ==
  {i \in bounds : text[i].is = "from" /\ text[i].module = m}
AddToExistingGroup(text, bounds, m, symbols) ==
  LET group == Min(GroupsOf(text, bounds, m))
      above == Max({i \in bounds : i < group /\ text[i].is \notin Remarks})
  IN  [text EXCEPT ![above].names = @ \cup symbols]

\* The two lines of a group.
Group(m, symbols, ends) ==
  <<Line("names", symbols, "", FALSE, ""), Line("from", {}, m, ends, "")>>

\* _add_new_group(): the ";" moves from the line that ends the clause to the
\* new group behind it; a line that held nothing else is left empty.
WithoutEnd(line) ==
  IF line.is = "end" THEN Line("note", {}, "", FALSE, line.word)
  ELSE [line EXCEPT !.ends = FALSE]
\* mutant: the group is put behind the last line that begins with FROM, and
\* the ";" taken from there.
AddNewGroup_LastFrom(text, terminator, m, symbols) ==
  LET froms == {i \in 1 .. terminator : text[i].is = "from"}
      at    == IF froms = {} THEN terminator ELSE Max(froms)
  IN  SubSeq(text, 1, at - 1) \o <<WithoutEnd(text[at])>>
        \o Group(m, symbols, TRUE) \o SubSeq(text, at + 1, Len(text))

AddNewGroup(text, terminator, m, symbols) ==
  SubSeq(text, 1, terminator - 1) \o <<WithoutEnd(text[terminator])>>
    \o Group(m, symbols, TRUE) \o SubSeq(text, terminator + 1, Len(text))

\* _open_clause(): a whole clause behind the line that begins the module.
OpenClause(text, missing) ==
  IF At(text, {"begin"}) = {} THEN text
  ELSE LET begin  == Min(At(text, {"begin"}))
           groups == Grouped(missing)
           clause == FlattenSeq([i \in DOMAIN groups |->
                       Group(groups[i], From(missing, groups[i]), i = Len(groups))])
       IN  SubSeq(text, 1, begin)
             \o <<Line("note", {}, "", FALSE, "new"), Line("imports", {}, "", FALSE, "new")>>
             \o clause \o SubSeq(text, begin + 1, Len(text))

\* _clause_bounds(): from IMPORTS alone on a line to the next ";".
ClauseBounds(text) ==
  LET open == Min(At(text, {"imports"}))
      ends == {i \in DOMAIN text : i > open /\ text[i].ends}
  IN  open .. (IF ends = {} THEN Len(text) ELSE Min(ends))

RepairImports(text, missing) ==
  LET Step(done, m) ==
        LET bounds == ClauseBounds(done) IN
        IF GroupsOf(done, bounds, m) # {}
        THEN AddToExistingGroup(done, bounds, m, From(missing, m))
        ELSE AddNewGroup(done, Max(bounds), m, From(missing, m))
  IN  IF At(text, {"imports"}) = {} THEN OpenClause(text, missing)
      ELSE FoldLeft(Step, text, Grouped(missing))

(***************************************************************************)
(* inspect().  A text that does not parse has the name of its file; `file' *)
(* is that name.                                                           *)
(***************************************************************************)
Repairable == "repairable"
Clean == "clean"
Unparseable == "unparseable"

Inspect(text, file) ==
  LET missing  == Missing(text)
      repaired == RepairImports(text, missing)
      Finding(name, status, to) == [mibname |-> name, status |-> status, repaired |-> to]
  IN  IF ~Parses(text) THEN Finding(file, Unparseable, text)
      ELSE IF missing = {} THEN Finding(Declared(text), Clean, text)
      ELSE IF repaired = text THEN Finding(Declared(text), Unparseable, text)
      ELSE Finding(Declared(text), Repairable, repaired)
=============================================================================
