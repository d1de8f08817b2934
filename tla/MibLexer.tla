------------------------------- MODULE MibLexer -------------------------------
(* One MIB text going through the lexer and the grammar: the lexer skips the   *)
(* bodies of MACRO, EXPORTS and CHOICE in states of its own, and whatever state *)
(* it is left in is the one the next text is read from.                        *)
EXTENDS Naturals, SequencesExt

(* A text is a sequence of chunks; "name" is any name that opens a declaration, *)
(* "macroname" one of the ten names that may be defined as macros, "head" the  *)
(* words from a module's name to BEGIN, "vendor" a deviation within a clause   *)
(* that only the relaxed dialect reads.                                        *)
Chunk == {"head", "EXPORTS", "IMPORTS", ";", "name", "macroname", "MACRO", "CHOICE",
          "clause", "vendor", "}", "END", "--", "newline", "illegal"}

LexState == {"INITIAL", "macro", "exports", "choice", "comment"}

(* the state a token switches the lexer to *)
Opens == [c \in {"EXPORTS", "MACRO", "CHOICE", "--"} |->
  CASE c = "EXPORTS" -> "exports" [] c = "MACRO" -> "macro"
    [] c = "CHOICE" -> "choice" [] c = "--" -> "comment"]
(* the chunk that ends a state; all others are skipped in it *)
Closes == [macro |-> "END", exports |-> ";", choice |-> "}", comment |-> "newline"]

(* Where the grammar stands, and the tokens it goes on with; the end of input  *)
(* is accepted between modules only.                                           *)
Place == {"between", "opened", "exported", "importing", "body", "named",
          "macronamed", "inmacro", "inclause"}
Grammar ==
  [between |-> ("head" :> "opened"),
   opened |-> [EXPORTS |-> "exported", IMPORTS |-> "importing", name |-> "named",
               macroname |-> "macronamed", END |-> "between"],
   exported |-> [IMPORTS |-> "importing", name |-> "named",
                 macroname |-> "macronamed", END |-> "between"],
   importing |-> (";" :> "body"),
   body |-> [name |-> "named", macroname |-> "macronamed", END |-> "between"],
   named |-> [clause |-> "inclause", CHOICE |-> "body"],
   macronamed |-> ("MACRO" :> "inmacro"),
   inmacro |-> [END |-> "body"],
   inclause |-> ("}" :> "body")]

(* A reader of a text: the lexer's state, the grammar's, whether characters    *)
(* were skipped since the state was entered, the modules read, and the error.  *)
Scan == [relaxed : BOOLEAN, lex : LexState, place : Place, skipped : BOOLEAN, trees : Nat,
         error : {"none", "lexer", "parser", "foreign"}]

Start(lex, relaxed) ==
  [relaxed |-> relaxed, lex |-> lex, place |-> "between", skipped |-> FALSE, trees |-> 0,
   error |-> "none"]

Silent(c) == c \in {"--", "newline"}

(* A token reaches the grammar, with the lexer already in state lex.           *)
Feed(s, c, lex) ==
  IF c = "vendor" /\ s.relaxed /\ s.place = "inclause" THEN s
  ELSE IF c \in DOMAIN Grammar[s.place]
  THEN [s EXCEPT !.lex = lex, !.skipped = FALSE, !.place = Grammar[s.place][c],
                 !.trees = @ + (IF Grammar[s.place][c] = "between" THEN 1 ELSE 0)]
  ELSE [s EXCEPT !.lex = lex, !.skipped = FALSE, !.error = "parser"]

(* Only the END of a macro is a token; the ends of the others are dropped.     *)
Step(s, c) ==
  IF s.error # "none" THEN s
  ELSE IF s.lex # "INITIAL"
  THEN IF c = Closes[s.lex]
       THEN IF c = "END" THEN Feed(s, c, "INITIAL")
            ELSE [s EXCEPT !.lex = "INITIAL", !.skipped = FALSE]
       ELSE [s EXCEPT !.skipped = @ \/ c # "newline"]
  ELSE IF c = "illegal" THEN [s EXCEPT !.error = "lexer"]
  ELSE IF Silent(c) THEN [s EXCEPT !.lex = IF c = "--" THEN "comment" ELSE @]
  ELSE Feed(s, c, IF c \in DOMAIN Opens THEN Opens[c] ELSE "INITIAL")

(* The end of the text. No rule of the macro state matches characters with no  *)
(* END after them, and that state has no error rule: PLY raises its own error. *)
(* The grammar's error at the end of input is not raised: yacc returns None.   *)
Finish(s) ==
  IF s.error = "none" /\ s.lex = "macro" /\ s.skipped
  THEN [s EXCEPT !.error = "foreign"]
  ELSE [s EXCEPT !.trees = IF s.error = "none" /\ s.place = "between" THEN @ ELSE 0]

(* the reader after each chunk of a text *)
Run(text, lex, relaxed) ==
  LET run[i \in 0..Len(text)] ==
        IF i = 0 THEN Start(lex, relaxed) ELSE Step(run[i - 1], text[i])
  IN run

(* parse(): the reader at the end of a text read from lexer state lex *)
Read(text, lex, relaxed) == Finish(Run(text, lex, relaxed)[Len(text)])
===============================================================================
