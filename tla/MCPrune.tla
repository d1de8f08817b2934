-------------------------------- MODULE MCPrune --------------------------------
(* A small world for MibPrune: source 1 is the bundled package and may hold B, *)
(* sources 2 and 3 are directories.  The file "ab" declares A and B and is     *)
(* found as A only; "b" is a file for B alone.                                 *)
EXTENDS MibPrune

MCModule == {"A", "B"}
MCFile == {"ab", "b"}
MCDeclares == [f \in MCFile |-> IF f = "ab" THEN {"A", "B"} ELSE {"B"}]
MCSpelled == [f \in MCFile |-> IF f = "ab" THEN {"A"} ELSE {"B"}]

MCTrees == {[s \in Source |-> IF s = 1 THEN p ELSE IF s = 2 THEN t ELSE {}] :
              p \in {{}, {"b"}}, t \in SUBSET MCFile}

MCOutputs ==
  {[m \in Slot |-> "ours"],
   [m \in Slot |-> IF m = "A" THEN "theirs" ELSE None]}

===============================================================================
