---------------------------- MODULE MCPatches ----------------------------
(***************************************************************************)
(* Two files: one its publisher prints in several layouts, one that        *)
(* sometimes declares the module of the other.                             *)
(***************************************************************************)
EXTENDS PatchTree, TLC

MCHome == [DisplayString |-> "SNMPv2-TC", enterprises |-> "SNMPv2-SMI", TruthValue |-> "SNMPv2-TC"]
MCBaseModules == <<"SNMPv2-SMI", "SNMPv2-TC">>

Begin(m)  == Line("begin", {}, m, FALSE, "")
Bare      == Line("imports", {}, "", FALSE, "")
Take(s)   == Line("names", {s}, "", FALSE, "")
Of(m, e)  == Line("from", {}, m, e, "")
Stop      == Line("end", {}, "", TRUE, "")
Body(s,w) == Line("body", s, "", FALSE, w)

Uses == Body({"DisplayString", "enterprises"}, "uses")
Range1 == Body({}, "too wide")
Dated == Line("comment", {}, "", FALSE, "dated")
\* What a person decides: a range too wide is narrowed, a line that does not
\* parse is replaced, a remark put right.
MCMended(t) ==
  [i \in DOMAIN t |->
     IF t[i].is = "broken" THEN Body({}, "mended")
     ELSE IF t[i] = Dated THEN [Dated EXCEPT !.word = "put right"]
     ELSE IF t[i].word = "too wide" THEN Body({}, "narrow") ELSE t[i]]

\* The rest of the text: a line of context apart from what is wrong in it.
Rest(last) == <<Uses, Body({}, "rows"), last>>
Clause1(m) == <<Begin(m), Bare, Take("TruthValue"), Of("SNMPv2-TC", TRUE)>>
Layouts(m) ==
  {\* a group to add to, and one to open
   Clause1(m) \o <<Uses, Body({}, "rows"), Body({}, "more rows"), Range1>>,
   \* the same where the publisher moved what is far from the clause
   Clause1(m) \o <<Uses, Body({}, "rows"), Body({}, "other rows"), Range1>>,
   \* the last group on one line, a remark in the clause
   <<Begin(m), Bare, Take("ifIndex"), Line("comment", {}, "", FALSE, "why"), Of("IF-MIB", FALSE),
     Line("inline", {"TruthValue"}, "SNMPv2-TC", TRUE, "")>> \o Rest(Body({}, "ok")),
   \* no clause, symbols behind IMPORTS, nothing missing but a remark to put
   \* right, nothing readable
   <<Begin(m)>> \o Rest(Range1),
   <<Begin(m), Line("packed", {"TruthValue"}, "", FALSE, ""), Line("from", {}, "SNMPv2-TC", TRUE, "theirs")>> \o Rest(Range1),
   <<Begin(m), Bare, Take("DisplayString"), Of("SNMPv2-TC", FALSE), Take("enterprises"), Of("SNMPv2-SMI", TRUE)>>
      \o <<Uses, Dated, Range1>>,
   Clause1(m) \o Rest(Line("broken", {}, "", FALSE, "broken"))}

MCFileOrder == <<"A", "B">>

MCPublished ==
  [A |-> Layouts("A"),
   B |-> {<<Line("split", {}, "B", FALSE, "")>> \o Rest(Range1),
          <<Begin("A"), Bare, Stop>> \o Rest(Range1)}]
=============================================================================
