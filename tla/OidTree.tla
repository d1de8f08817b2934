-------------------------------- MODULE OidTree --------------------------------
(* Object identifiers: their order, the tree they form, and the keys under     *)
(* which a corpus database stores them so that byte order is that order.       *)
EXTENDS Integers, SequencesExt, FiniteSetsExt

CONSTANTS
  Base,        \* how many values a byte has
  MaxWidth     \* how many bytes the largest sub-identifier takes

ASSUME OidAssumption == Base \in Nat /\ MaxWidth \in 1..(Base - 2)

(* how many values so many bytes have *)
Powers ==
  LET power[w \in 0..MaxWidth] == IF w = 0 THEN 1 ELSE Base * power[w - 1]
  IN power

MaxArc == Powers[MaxWidth] - 1
Refused == <<>>          \* no OID, and no key, is empty

(* arcs(): a path comes after every prefix of it, numbers in their order *)
Before(s, t) ==
  \/ IsStrictPrefix(s, t)
  \/ \E n \in DOMAIN s \cap DOMAIN t :
       SubSeq(s, 1, n - 1) = SubSeq(t, 1, n - 1) /\ s[n] < t[n]

(* each where as many come before it *)
Sorted(oids) ==
  [i \in 1..Cardinality(oids) |->
     CHOOSE oid \in oids : Cardinality({x \in oids : Before(x, oid)}) = i - 1]

(* prefixes() *)
PathTo(oid) == {SubSeq(oid, 1, n) : n \in 1..Len(oid)}
Above(oid) == PathTo(oid) \ {oid}
Parent(oid) == SubSeq(oid, 1, Len(oid) - 1)

(* children_of(): the arcs directly below each arc *)
ChildrenOf(oids, arc) == {oid \in oids : Len(oid) > 1 /\ Parent(oid) = arc}

-------------------------------------------------------------------------------
(* Keys. *)

Width(arc) == CHOOSE w \in 1..MaxWidth : arc < Powers[w] /\ \A v \in 1..(w - 1) : arc >= Powers[v]
Bytes(arc, width) == [i \in 1..width |-> (arc \div Powers[width - i]) % Base]

(* oid_key(), Refused where it raises *)
(* mutant: sub-identifiers without their widths *)
OidKey_NoWidth(oid) ==
  IF oid = <<>> \/ \E i \in DOMAIN oid : oid[i] \notin 0..MaxArc THEN Refused
  ELSE FlattenSeq([i \in DOMAIN oid |-> Bytes(oid[i], Width(oid[i]))])

OidKey(oid) ==
  IF oid = <<>> \/ \E i \in DOMAIN oid : oid[i] \notin 0..MaxArc THEN Refused
  ELSE FlattenSeq([i \in DOMAIN oid |-> <<Width(oid[i])>> \o Bytes(oid[i], Width(oid[i]))])

Number(bytes) ==
  LET number[n \in 0..Len(bytes)] == IF n = 0 THEN 0 ELSE number[n - 1] * Base + bytes[n]
  IN number[Len(bytes)]

(* oid_from_key(): what the key spells from each position on; a width of none, *)
(* or one that runs past the end, is refused                                   *)
OidFromKey(key) ==
  LET from[at \in 1..(Len(key) + 1)] ==
        IF at > Len(key) THEN <<<<>>>>
        ELSE LET next == at + 1 + key[at] IN
             IF key[at] < 1 \/ next > Len(key) + 1 \/ from[next] = Refused THEN Refused
             ELSE << <<Number(SubSeq(key, at + 1, next - 1))>> \o from[next][1] >>
  IN IF key = <<>> \/ from[1] = Refused THEN Refused ELSE from[1][1]

(* subtree_bound(): the last byte that can be raised is, and the rest dropped *)
SubtreeBound(key) ==
  LET raisable == {i \in DOMAIN key : key[i] < Base - 1} IN
  IF raisable = {} THEN key \o <<Base - 1>>
  ELSE [SubSeq(key, 1, Max(raisable)) EXCEPT ![Max(raisable)] = @ + 1]

-------------------------------------------------------------------------------
(* What a consumer asks of the rows of a database, a set of OIDs. *)

LeastBy(keys, S) == CHOOSE x \in S : \A y \in S : y = x \/ Before(keys[x], keys[y])

(* QUERIES["next_node"]; Refused where there is none *)
NextNode(oids, keys, after) ==
  LET later == {oid \in oids : Before(after, keys[oid])} IN
  IF later = {} THEN Refused ELSE LeastBy(keys, later)

(* QUERIES["subtree"] *)
Subtree(oids, keys, oid) ==
  LET low == OidKey(oid) IN
  {x \in oids : ~Before(keys[x], low) /\ Before(keys[x], SubtreeBound(low))}

(* run_vectors("find_module"), resolve(): the longest prefix that is a row *)
LongestPrefix(oid, rows) ==
  LET held == PathTo(oid) \cap rows IN
  IF held = {} THEN Refused ELSE CHOOSE p \in held : \A q \in held : Len(q) <= Len(p)
===============================================================================
