------------------------------- MODULE MCCompile -------------------------------
(* Small worlds for MibCompile.  A imports B, and C too where source 1 holds   *)
(* C; B imports C.  B comes in two revisions, in a copy that does not parse    *)
(* and in one that parses only half way; C comes clean and in a copy code      *)
(* generation refuses.                                                         *)
EXTENDS CompileClaims

MCName == {"A", "B", "C"}
MCText == {"a", "b1", "b2", "bBad", "bHalf", "c", "cFlaw", "aOne", "bBack"}

MCRevision == [t \in MCText |->
  CASE t = "b1" -> 1 [] t = "b2" -> 2 [] t = "bBad" -> 3 [] OTHER -> 0]

(* the record of a text of one module *)
One(m, imports, list) ==
  [declares |-> {m}, whole |-> TRUE,
   imports |-> [n \in MCName |-> IF n = m THEN imports ELSE {}],
   appends |-> list,
   needs |-> [n \in MCName |-> IF n = m THEN imports ELSE {}], defects |-> {}]

MCMib == [t \in MCText |->
  CASE t = "a" -> One("A", {"B", "C"}, <<"B", "C">>)
    [] t \in {"b1", "b2"} -> One("B", {"C"}, <<"C">>)
    [] t = "aOne" -> One("A", {"B"}, <<"B">>)
    [] t = "bBack" -> [One("B", {"A"}, <<"A">>) EXCEPT !.needs["B"] = {}]
    [] t = "bBad" ->
         [One("B", {}, <<>>) EXCEPT !.declares = {}, !.whole = FALSE]
    [] t = "bHalf" -> [One("B", {}, <<>>) EXCEPT !.whole = FALSE]
    [] t = "c" -> One("C", {}, <<>>)
    [] t = "cFlaw" -> [One("C", {}, <<>>) EXCEPT !.defects = {"C"}]]

File(t, n) == [text |-> t, alias |-> n]
Absent == [n \in MCName |-> None]

(* no output yet, output of another release, of no known origin, and stale *)
MCDisks ==
  {Absent, [n \in MCName |-> Foreign],
   [n \in MCName |-> IF n = "A" THEN "a" ELSE Plain],
   [Absent EXCEPT !["B"] = "b2", !["C"] = "cFlaw"]}

(* what a plain call looks like; the sets below vary it *)
Ordinary ==
  [request |-> <<"A">>, holds |-> [s \in Source |-> Absent], local |-> Source,
   bundled |-> TRUE, prefer |-> FALSE, strict |-> FALSE, noDeps |-> FALSE,
   rebuild |-> FALSE, writes |-> TRUE, touched |-> {}, stub |-> {},
   lends |-> Absent]

(* source 1, the bundled one, may hold C; source 2 holds A and may hold B and  *)
(* C; source 3 may hold another B                                              *)
Worlds ==
  {[s \in Source |->
      CASE s = 1 -> [Absent EXCEPT !["C"] = c1]
        [] s = 2 -> [Absent EXCEPT !["B"] = b2, !["C"] = c2,
                       !["A"] = File(IF c1 = None THEN "aOne" ELSE "a", "A")]
        [] OTHER -> [Absent EXCEPT !["B"] = b3]] :
     c1 \in {None, File("c", "C")},
     c2 \in {None, File("cFlaw", "C")},
     b2 \in {None, File("bBad", "B"), File("bHalf", "B"), File("b1", "B")},
     b3 \in {None, File("b2", "B"), File("bBad", "B"), Refused}}

Options == {"none", "strict", "rebuild", "remote", "noDeps", "lend"}

CallWith(w, r, o) ==
  [Ordinary EXCEPT !.holds = w, !.request = r, !.strict = o = "strict",
     !.noDeps = o = "noDeps", !.rebuild = o = "rebuild", !.prefer = o = "rebuild",
     !.local = IF o = "remote" THEN {1, 2} ELSE Source,
     !.stub = IF o = "remote" THEN {"C"} ELSE {},
     !.lends = IF o \in {"lend", "noDeps"}
               THEN [Absent EXCEPT !["B"] = Plain, !["C"] = Foreign] ELSE Absent]

MCCalls ==
  UNION {{CallWith(w, r, o) : r \in {<<"A">>, <<"C", "A">>}, o \in Options} : w \in Worlds}

(* For calls that follow one another on the same output directory: B and C     *)
(* change, go missing, are touched, or are lent; at times B imports A back.    *)
AgainCall(a, b, c, o) ==
  [Ordinary EXCEPT
     !.holds = <<[Absent EXCEPT !["A"] = File(a, "A")],
                 [Absent EXCEPT !["B"] = File(b, "B"), !["C"] = c]>>,
     !.rebuild = o = "rebuild", !.touched = IF o = "touched" THEN {2} ELSE {},
     !.lends = IF o = "lend" THEN [Absent EXCEPT !["C"] = Plain] ELSE Absent]

MCAgain ==
  {AgainCall("a", b, c, o) :
     b \in {"b1", "b2", "bBad"}, c \in {None, File("c", "C"), File("cFlaw", "C")},
     o \in {"none", "rebuild", "touched", "lend"}}
  \cup {AgainCall("aOne", b, None, "none") : b \in {"bBack", "b1"}}

===============================================================================
