------------------------------ MODULE MCCatalogue ------------------------------
(* Three modules, each with a few documents, under up to three enterprises. *)
EXTENDS Catalogue

Modules == {1, 2, 3}
TierOf == [m \in Modules |-> IF m = 3 THEN 1 ELSE 0]
RfcOf == [m \in Modules |-> IF m = 3 THEN 1 ELSE 0]
EnterpriseRoot == <<1>>
Registry == {<<1>>}
Names3 == [m \in Modules |-> <<<<1>>, <<1, 1>>, <<1, 2>>>>[m]]
Held == 1 :> TRUE @@ 2 :> FALSE
CitedArcs == {<<1, 5>>}

Identity(oid, stamps, updated, contact) ==
  [name |-> 1, class |-> "moduleidentity", oid |-> oid, obsolete |-> FALSE,
   stamps |-> stamps, updated |-> updated, contact |-> contact]
Object(name, oid, obsolete) ==
  [name |-> name, class |-> "objecttype", oid |-> oid, obsolete |-> obsolete,
   stamps |-> {}, updated |-> 0, contact |-> FALSE]
Node(name, oid) == [Object(name, oid, FALSE) EXCEPT !.class = "objectidentity"]
Doc(symbols, imports) == [symbols |-> symbols, imports |-> imports]

(* What each module may be found to be *)
Versions ==
  << { Doc(<<Identity(<<1, 1>>, {1}, 1, TRUE), Object(2, <<1, 1, 2>>, TRUE),
             Object(3, <<1, 1, 5>>, TRUE), Object(4, <<1, 1, 5>>, TRUE)>>, {2}),
       Doc(<<Node(1, <<1, 1>>), Node(2, <<1, 1, 2, 1>>), Node(3, <<1, 1, 5>>),
             Object(5, <<1, 1, 2>>, FALSE)>>, {2}) },
     { Doc(<<Identity(<<1, 1>>, {1, 2}, 2, TRUE), Node(6, <<1, 1, 5>>)>>, {3}),
       Doc(<<Identity(<<1, 1, 2>>, {}, 1, FALSE), Node(6, <<1, 1, 5>>),
             Object(2, <<1, 1, 16>>, FALSE)>>, {1, 3}) },
     { Doc(<<Identity(<<1, 1>>, {1}, 1, TRUE), Node(7, <<1, 2>>), Node(8, <<1, 3>>)>>, {1}),
       Doc(<<Object(1, <<1, 1, 2>>, FALSE), Object(2, <<1, 1, 5>>, FALSE),
             Object(3, <<1, 1, 11, 1>>, FALSE)>>, {}) } >>

Found ==
  UNION {[modules -> UNION {Versions[m] : m \in modules}] : modules \in SUBSET Modules}
Corpora3 ==
  {c \in Found : /\ \A m \in DOMAIN c : c[m] \in Versions[m]
                 /\ 1 \in DOMAIN c \/ DOMAIN c = {}}

===============================================================================
