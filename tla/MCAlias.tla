-------------------------------- MODULE MCAlias --------------------------------
(* Worlds for MibCompile in which a file and the modules in it go by different *)
(* names: a file that holds two modules, a file found under an alias, an empty *)
(* file, and modules that import themselves and each other.                    *)
EXTENDS CompileClaims

MCName == {"A", "B", "x"}
MCText == {"ab", "a", "b", "bSelf", "bCyc", "bLoop", "empty", "bad"}
MCRevision == [t \in MCText |-> IF t = "b" THEN 1 ELSE 0]

None2 == [n \in MCName |-> {}]

Of(declares, imports, list) ==
  [declares |-> declares, whole |-> TRUE, imports |-> imports,
   appends |-> list, needs |-> None2, defects |-> {}]

MCMib == [t \in MCText |->
  CASE t = "ab" -> Of({"A", "B"}, [None2 EXCEPT !["A"] = {"B"}], <<"B">>)
    [] t = "a" -> Of({"A"}, [None2 EXCEPT !["A"] = {"B"}], <<"B">>)
    [] t = "b" -> Of({"B"}, None2, <<>>)
    [] t = "bSelf" -> Of({"B"}, [None2 EXCEPT !["B"] = {"B"}], <<"B">>)
    [] t = "bCyc" -> Of({"B"}, [None2 EXCEPT !["B"] = {"A"}], <<"A">>)
    [] t = "bLoop" -> Of({"B"}, [None2 EXCEPT !["B"] = {"x"}], <<"x">>)
    [] t = "empty" -> Of({}, None2, <<>>)
    [] t = "bad" -> [Of({}, None2, <<>>) EXCEPT !.whole = FALSE]]

File(t, n) == [text |-> t, alias |-> n]
Absent == [n \in MCName |-> None]

MCDisks == {Absent, [n \in MCName |-> Foreign], [Absent EXCEPT !["B"] = "empty"]}

Ordinary ==
  [request |-> <<"A">>, holds |-> [s \in Source |-> Absent], local |-> Source,
   bundled |-> FALSE, prefer |-> FALSE, strict |-> FALSE, noDeps |-> FALSE,
   rebuild |-> FALSE, writes |-> TRUE, touched |-> {}, stub |-> {},
   lends |-> Absent]

(* Source 1 holds the two-module file or a plain A.  Source 2 may hold a text  *)
(* for B in a file of that name, or in a file x, which then answers to both.   *)
Second ==
  {[Absent EXCEPT !["B"] = b] :
     b \in {None, File("b", "B"), File("bSelf", "B"), File("bCyc", "B"), File("bad", "B")}}
  \cup {[Absent EXCEPT !["B"] = b, !["x"] = File("b", "x")] :
     b \in {File("b", "x"), File("bCyc", "B"), None}}
  \cup {[Absent EXCEPT !["A"] = File("a", "A"), !["x"] = File("empty", "x")],
        [Absent EXCEPT !["x"] = File("bLoop", "x")]}

Worlds ==
  {<<[Absent EXCEPT !["A"] = a], second>> :
     a \in {None, File("ab", "A"), File("a", "A"), File("bad", "A")}, second \in Second}

MCCalls ==
  {[Ordinary EXCEPT !.holds = w, !.request = r, !.noDeps = o = "noDeps",
      !.strict = o = "strict",
      !.lends = IF o = "none" THEN Absent ELSE [Absent EXCEPT !["B"] = Plain]] :
     w \in Worlds, r \in {<<"A">>, <<"B", "A">>, <<"x", "A">>, <<"x">>},
     o \in {"none", "noDeps", "strict"}}

===============================================================================
