------------------------------ MODULE MibClauses ------------------------------
(* What the grammar makes of one module: its name, its imports and the clauses *)
(* of its body in the order of the text. A clause keeps what the generators go *)
(* by: names, the parent and arcs of its OID, its syntax and what narrows it.  *)
(* Texts, status, access and layout are left out.                              *)
EXTENDS Naturals, Sequences

CONSTANT None

(* A range or SIZE restriction, by the values it permits; the names of an      *)
(* enumeration or of BITS; neither.                                            *)
Bounds(kind, permits) == [sort |-> kind, permits |-> permits]
Names(labels) == [sort |-> "names", permits |-> labels]
Unrestricted == [sort |-> "none", permits |-> {}]

(* { parent arc arc ... }; parent None: all numbers *)
OidValue(parent, arcs) == [parent |-> parent, arcs |-> arcs]

Clause(kind, name) ==
  [kind |-> kind, name |-> name, oid |-> None, type |-> None, sub |-> Unrestricted,
   rowOf |-> None, augments |-> None, index |-> <<>>, default |-> None, objects |-> <<>>,
   revision |-> None, varied |-> <<>>]

ValueDeclaration(name, oid) == [Clause("node", name) EXCEPT !.oid = oid]
ObjectIdentity(name, oid) == [Clause("node", name) EXCEPT !.oid = oid]
NotificationType(name, objects, oid) ==
  [Clause("group", name) EXCEPT !.oid = oid, !.objects = objects]
Group(name, objects, oid) == [Clause("group", name) EXCEPT !.oid = oid, !.objects = objects]

(* the modules a compliance is about, each with its mandatory groups and the   *)
(* groups and objects it refines                                               *)
Compliance(name, objects, oid) ==
  [Clause("compliance", name) EXCEPT !.oid = oid, !.objects = objects]
(* the groups an agent supports, by module, and the objects it varies, each    *)
(* with the default it has there                                               *)
Capabilities(name, groups, varied, oid) ==
  [Clause("capabilities", name) EXCEPT !.oid = oid, !.objects = groups, !.varied = varied]

ModuleIdentity(name, revision, oid) ==
  [Clause("identity", name) EXCEPT !.oid = oid, !.revision = revision]

(* X ::= type (range), or a textual convention *)
TypeDeclaration(name, type, sub) == [Clause("type", name) EXCEPT !.type = type, !.sub = sub]
(* Row ::= SEQUENCE { ... } *)
Sequence(name) == Clause("sequence", name)

ObjectType(name, type, sub, default, oid) ==
  [Clause("object", name) EXCEPT !.oid = oid, !.type = type, !.sub = sub, !.default = default]
(* SYNTAX SEQUENCE OF row *)
Table(name, row, oid) == [Clause("object", name) EXCEPT !.oid = oid, !.rowOf = row]
(* SYNTAX row, with INDEX { ... } or AUGMENTS { entry } *)
Row(name, row, index, oid) == [Clause("object", name) EXCEPT !.oid = oid, !.type = row, !.index = index]
Augmenting(name, row, entry, oid) ==
  [Clause("object", name) EXCEPT !.oid = oid, !.type = row, !.augments = entry]

(* ENTERPRISE enterprise ::= value *)
Trap(name, objects, enterprise, value) ==
  [Clause("trap", name) EXCEPT !.objects = objects,
                               !.oid = OidValue(enterprise.parent, enterprise.arcs \o <<0, value>>)]

(* DEFVAL { 1 }, { "text" }, { name }, { { bit, bit } } *)
Number(n) == [sort |-> "number", value |-> n]
Text(length) == [sort |-> "text", value |-> length]
Name(label) == [sort |-> "name", value |-> label]
Bits(labels) == [sort |-> "bits", value |-> labels]

(* imports: a set of [name, module] *)
Module(name, imports, clauses) == [name |-> name, imports |-> imports, clauses |-> clauses]

(* supportIndex: an SMIv1 INDEX may name a base type *)
IndexTypes == {"INTEGER", "OCTET STRING", "IPADDRESS", "NETWORKADDRESS"}
===============================================================================
