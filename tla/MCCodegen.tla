------------------------------- MODULE MCCodegen -------------------------------
(* A base module, modules over it in several orders of their declarations, two  *)
(* SMIv1 modules with an index that names a base type, and modules whose OIDs   *)
(* and types come back to themselves.                                           *)
EXTENDS Codegen

Import(name, module) == [name |-> name, module |-> module]

CRank == [A |-> 1, B |-> 2, P |-> 3, Q |-> 4, SMI |-> 5, V |-> 6, W |-> 7, RFC |-> 8]
CCanonical == [ent |-> "SMI", Disp |-> "SMI"]
CFakeName(n) == "pysmiFakeCol" \o ToString(n)
CAlways == {Import("iso", "SMI")} \cup {Import(class, "SMI") : class \in Classes}
CRewritten == (Import("Old", "RFC") :> {Import("Disp", "SMI")})

Smi == Module("SMI", {},
  <<ValueDeclaration("ent", OidValue("iso", <<3>>)),
    TypeDeclaration("Disp", "OctetString", Bounds("size", 0..2))>>)

(* A leaves out its imports of ent and Disp; an object's type derives from one *)
(* declared later, or earlier.                                                 *)
ABody == <<ModuleIdentity("a", "r1", OidValue("ent", <<1>>)),
           TypeDeclaration("T", "Disp", Bounds("size", 1..3)),
           ObjectType("ao", "T", Unrestricted, Text(0), OidValue("a", <<7>>))>>
A1 == Module("A", {}, ABody)
A2 == Module("A", {}, Reverse(ABody))
A3 == Module("A", {Import("ent", "SMI"), Import("Old", "RFC")},
        [ABody EXCEPT ![1] = ModuleIdentity("a", "r2", OidValue("ent", <<2>>))])

(* B's entry augments one declared later; its default is narrowed twice *)
BBody == <<Augmenting("be", "Be", "bx", OidValue("bt", <<1>>)),
           Table("bt", "Be", OidValue("a", <<5>>)),
           Row("bx", "Bx", <<"bi">>, OidValue("bu", <<1>>)),
           Table("bu", "Bx", OidValue("a", <<6>>)),
           Sequence("Be"),
           ObjectType("bo", "T", Bounds("size", 0..1), Text(0), OidValue("be", <<2>>)),
           ObjectType("bd", "U", Unrestricted, Number(4), OidValue("be", <<3>>)),
           TypeDeclaration("U", "Integer32", Bounds("range", 0..3)),
           Group("bg", <<"bo", "a">>, OidValue("a", <<8>>)),
           Trap("bn", <<"bo">>, OidValue("a", <<>>), 3)>>
B1 == Module("B", {Import("a", "A"), Import("T", "A")}, BBody)
B2 == Module("B", {Import("a", "A"), Import("T", "A")}, Reverse(BBody))

V1 == Module("V", {Import("ent", "SMI")},
  <<Table("vt", "Ve", OidValue("ent", <<6>>)),
    Row("ve", "Ve", <<"INTEGER">>, OidValue("vt", <<1>>))>>)
W1 == Module("W", {}, [V1.clauses EXCEPT ![1] = Table("vt", "Ve", OidValue("ent", <<9>>))])

P1 == Module("P", {Import("X", "Q"), Import("q", "Q")},
  <<TypeDeclaration("Y", "X", Unrestricted),
    ValueDeclaration("p", OidValue("q", <<1>>)),
    ObjectType("po", "Y", Unrestricted, Number(1), OidValue("iso", <<8>>))>>)
Q1 == Module("Q", {Import("Y", "P"), Import("p", "P")},
  <<TypeDeclaration("X", "Y", Unrestricted), ValueDeclaration("q", OidValue("p", <<1>>))>>)
(* an OID under a type, and an enumeration narrowed *)
Q2 == Module("Q", {},
  <<TypeDeclaration("E", "Integer32", Names({"on", "off"})),
    TypeDeclaration("X", "E", Names({"on"})),
    ObjectType("qo", "X", Unrestricted, Name("off"), OidValue("iso", <<4>>)),
    ObjectType("qb", "Bits", Names({"b"}), Bits({"b"}), OidValue("q", <<2>>)),
    Compliance("qc", <<[name |-> "bg", module |-> "B"]>>, OidValue("q", <<3>>)),
    Capabilities("qk", <<[name |-> "bg", module |-> "B"]>>,
                 <<[object |-> "qo", default |-> Name("dim")]>>, OidValue("q", <<6>>)),
    ValueDeclaration("q", OidValue("iso", <<5>>))>>)
Q3 == Module("Q", {}, <<TypeDeclaration("X", "Integer32", Unrestricted),
                        ValueDeclaration("q", OidValue("X", <<2>>))>>)
Q4 == Module("Q", {}, <<ModuleIdentity("q", "r3", OidValue("iso", <<5>>)),
                        ModuleIdentity("r", "r4", OidValue("q", <<5>>))>>)
(* C's types, each declared before the one it derives from *)
C1 == Module("Q", {}, <<TypeDeclaration("X", "X2", Unrestricted),
                        TypeDeclaration("X2", "X3", Unrestricted),
                        TypeDeclaration("X3", "Integer32", Unrestricted)>>)

CTexts == {Smi, A1, A2, A3, B1, B2, V1, W1, P1, Q1, Q2, Q3, Q4, C1}
===============================================================================
