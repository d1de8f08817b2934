------------------------------ MODULE Searchers -------------------------------
(* How a searcher decides that a module need not be built: one operator per    *)
(* file_exists(), TRUE where it raises PySmiFileNotModifiedError.  Every other *)
(* way out of file_exists() -- a return, "not found", "older file", an error   *)
(* of the searcher -- makes compile() ask the next searcher and build at last, *)
(* so it is FALSE here.                                                        *)
EXTENDS Naturals, Sequences

CONSTANTS
  Name,      \* module names
  Text,      \* source texts, each standing for its digest
  None       \* no file, no marker

ASSUME SearchersAssumption == None \notin Text \cup {"this", "other"}

(* a stored module: its modification time and the two markers read back       *)
Producer == {"this", "other", None}      \* this release, another one, no marker
IsFile(f) == f # None

(* a byte code file: whether its magic number is this interpreter's, and the   *)
(* four bytes after it as a number                                             *)
ByteCode == [magic : BOOLEAN, word : Nat]

(* a source text asked about: its modification time and digest                 *)
(* q = [name, text, mtime, rebuild]                                            *)

-------------------------------------------------------------------------------
(* What a file with markers says. *)

(* mutant: the digest is not compared *)
MarkersAgree_AnyDigest(f, q) == f.producer \in {None, "this"}

MarkersAgree(f, q) ==
  /\ f.producer \in {None, "this"}
  /\ f.digest \in {None, q.text}

Fresh(f, q) == IsFile(f) /\ f.time >= q.mtime

(* AnyFileSearcher: files is the sequence of what is there for each suffix     *)
AnyFileCurrent(files, q) ==
  /\ ~q.rebuild
  /\ \E i \in 1..Len(files) : Fresh(files[i], q) /\ MarkersAgree(files[i], q)

(* PyFileSearcher: byte code of this interpreter beside the module decides     *)
(* before its source does, and either way                                      *)
Decides(code) == code # None /\ code.magic

PyFileCurrent(code, source, q) ==
  /\ ~q.rebuild
  /\ IF Decides(code) THEN code.word >= q.mtime ELSE AnyFileCurrent(<<source>>, q)

(* StubSearcher: never built, rebuild or not                                   *)
StubCurrent(stubs, q) == q.name \in stubs

(* the times of an archive are kept in steps of two seconds                    *)
DosTime(t) == 2 * (t \div 2)

(* PyPackageSearcher inside an egg: only times, no markers                     *)
EggCurrent(code, source, q) ==
  /\ ~q.rebuild
  /\ IF Decides(code)
     THEN code.word >= q.mtime
     ELSE IsFile(source) /\ DosTime(source.time) >= q.mtime

(* PyPackageSearcher: a package in an egg, or in a directory                   *)
PackageCurrent(package, q) ==
  IF package.egg
  THEN EggCurrent(package.code, package.source, q)
  ELSE PyFileCurrent(package.code, package.source, q)

===============================================================================
