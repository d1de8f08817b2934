------------------------------ MODULE AtomicStore ------------------------------
(* What an output directory promises those who read it, whoever builds into it *)
(* and whoever is killed: under each name there is nothing, or one document,   *)
(* and it changes in one step, to the document of somebody who was building    *)
(* that module or to nothing. A document is in part only once a write of the   *)
(* operating system fell short.                                                *)
CONSTANTS Name, Text, Process, None

VARIABLES
  shown,      \* [Name -> the text under the name and whether all of it is there, or None]
  building,   \* [Process -> the module and text it is about to publish, or None]
  short       \* whether a write fell short
avars == <<shown, building, short>>

Task == [name : Name, text : Text]

Init ==
  /\ shown \in [Name -> {None} \cup [text : Text, whole : {TRUE}]]
  /\ building = [p \in Process |-> None]
  /\ short = FALSE

Undertake(p) ==
  /\ building[p] = None
  /\ \E task \in Task : building' = [building EXCEPT ![p] = task]
  /\ UNCHANGED <<shown, short>>

Publish(p) ==
  /\ building[p] # None
  /\ \E whole \in {TRUE, ~short} :
       shown' = [shown EXCEPT ![building[p].name] =
                   [text |-> building[p].text, whole |-> whole]]
  /\ building' = [building EXCEPT ![p] = None]
  /\ UNCHANGED short

GiveUp(p) ==
  /\ building[p] # None
  /\ building' = [building EXCEPT ![p] = None]
  /\ UNCHANGED <<shown, short>>

Withdraw(n) ==
  /\ shown' = [shown EXCEPT ![n] = None]
  /\ UNCHANGED <<building, short>>

FallShort ==
  /\ short' = TRUE
  /\ UNCHANGED <<shown, building>>

Next ==
  \/ \E p \in Process : Undertake(p) \/ Publish(p) \/ GiveUp(p)
  \/ \E n \in Name : Withdraw(n)
  \/ FallShort

Spec == Init /\ [][Next]_avars
================================================================================
