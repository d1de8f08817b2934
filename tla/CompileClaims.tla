----------------------------- MODULE CompileClaims -----------------------------
(* What the documentation and the comments of pysmi say of compile() and what  *)
(* compile() does not do in every case.                                        *)
EXTENDS MibCompile

(* "What cannot be kept is a module that imports one that failed": a module    *)
(* the writer could not take has failed too, but what imports it is kept.      *)
NoOutputImportsAFailure ==
  pc = "done" =>
    \A m \in Held(wrote) : ImportsOf(m, wrote[m]) \cap failed = {}

(* "Rule 1 is deliberately confined to the bundled names": the newest revision *)
(* decides between copies of any module.                                       *)
NewestOnlyForBundledNames ==
  pc = "done" =>
    \A m \in Name : Has(m, "compiled") /\ processed[m].rule = "newest" =>
      call.bundled /\ call.holds[BundledSource][m] # None

(* resolve() "has to answer it the same way the compile will": compile() falls *)
(* back when the copy ranked first does not parse, resolve() does not.         *)
ResolveAgreesWithCompile ==
  \A m \in Held(wrote) :
    wrote[m].text \in Text => wrote[m].text = Resolve(call, m).text

(* "A module that failed takes down what imports it, and nothing else": a name *)
(* asked for before the file that declares it is looked up stays failed, and   *)
(* the module found later is omitted under it.                                 *)
OmittedDidNotFail ==
  pc = "done" => \A m \in Name : Has(m, "unprocessed") => m \notin failed

===============================================================================
