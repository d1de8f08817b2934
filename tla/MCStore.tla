-------------------------------- MODULE MCStore -------------------------------
(* Two processes, a module stored without a suffix and one stored as Python,   *)
(* an old text and a newer one. Byte code beside the Python module is this     *)
(* interpreter's or not, or there is none; its package is an egg or not and    *)
(* holds byte code, a source or nothing; the module is a stub or is not.       *)
EXTENDS OutputStore

CONSTANTS bare, py, t1, t2

MCName == {bare, py}
MCText == {t1, t2}
MCKind == [n \in MCName |-> IF n = bare THEN "bare" ELSE "py"]
MCSourceTime == [t \in MCText |-> IF t = t1 THEN 0 ELSE 1]
Code == {None, [magic |-> FALSE, word |-> 1]} \cup [magic : {TRUE}, word : {0, 1}]
Source == {None} \cup [text : {t1}, amount : {"whole"}, time : {1}, producer : {None},
                       digest : {None}]
MCBeside == [n \in MCName |-> Code]
MCPackage == [n \in MCName |-> [egg : BOOLEAN, code : Code, source : Source]]
MCStubLists == {{}, {py}}

===============================================================================
