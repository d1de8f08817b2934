------------------------------ MODULE MCSession -------------------------------
(* A process that keeps its trees in memory, room for two, and two of          *)
(* different dialects that share a directory. The texts end in, and run into,  *)
(* every state of the lexer.                                                   *)
EXTENDS ParseSession

InModule(rest) == <<"head">> \o rest
Plain == InModule(<<"name", "CHOICE", "clause", "}", "name", "clause", "}", "END">>)
MCContent ==
  [plain |-> Plain,
   vendor |-> InModule(<<"name", "clause", "vendor", "--", "END", "newline", "}", "END">>),
   macro |-> InModule(<<"EXPORTS", "name", ";", "macroname", "MACRO", "name", "END", "END">>),
   inmacro |-> InModule(<<"name", "MACRO", "newline", "END", "END">>),
   inexports |-> InModule(<<"IMPORTS", ";", "EXPORTS", "name", "illegal">>),
   inchoice |-> Plain \o InModule(<<"name", "clause", "CHOICE">>)]
MCText == DOMAIN MCContent

MCProcess == {"m", "strict", "relaxed"}
MCRelaxed == [p \in MCProcess |-> p = "relaxed"]
MCInMemory == [p \in MCProcess |-> p = "m"]
===============================================================================
