------------------------------- MODULE ListPages -------------------------------
(* A long list split into pages, each named for the range of entries it has.   *)
EXTENDS OidTree

CONSTANTS
  PageSize,     \* the entries of a page
  Minimum       \* the characters of the shortest label

ASSUME ListAssumption == PageSize \in Nat \ {0} /\ Minimum \in Nat

(* Names are sequences of characters, in byte order. A bucket of a list that   *)
(* needs no splitting has no labels.                                           *)
Bucket(low, high, entries) == [low |-> low, high |-> high, entries |-> entries]

Common(s, t) == Len(LongestCommonPrefix({s, t}))

(* _label(): as much of the entry as its neighbour does not have *)
(* mutant: as much as both have *)
Label_Shared(entry, neighbour, within) ==
  LET wanted == Max({Minimum, Common(entry, neighbour), Common(entry, within)})
  IN SubSeq(entry, 1, Min({wanted, Len(entry)}))

Label(entry, neighbour, within) ==
  LET wanted == Max({Minimum, Common(entry, neighbour) + 1} \cup
                    IF within = <<>> THEN {} ELSE {Common(entry, within) + 1})
  IN SubSeq(entry, 1, Min({wanted, Len(entry)}))

Buckets(names) ==
  LET ordered == Sorted(names)
      count == (Cardinality(names) + PageSize - 1) \div PageSize
      run == [i \in 1..count |->
                SubSeq(ordered, (i - 1) * PageSize + 1, Min({i * PageSize, Cardinality(names)}))]
      before(i) == IF i = 1 THEN <<>> ELSE Last(run[i - 1])
      after(i) == IF i = count THEN <<>> ELSE run[i + 1][1]
  IN IF count = 1 THEN << Bucket(<<>>, <<>>, Range(ordered)) >>
     ELSE [i \in 1..count |->
             Bucket(Label(run[i][1], before(i), <<>>),
                    Label(Last(run[i]), after(i), run[i][1]), Range(run[i]))]

KeyOf(bucket) == <<bucket.low, bucket.high>>
NoKey == << <<>>, <<>> >>
KeysOf(found) == {KeyOf(found[i]) : i \in DOMAIN found} \ {NoKey}

(* locate(): the last bucket that does not begin after the name; 0 for none.   *)
(* Buckets are looked at in order, up to the first that does.                  *)
Locate(name, found) ==
  IF found # <<>> /\ KeyOf(found[1]) = NoKey THEN 1
  ELSE Max({0} \cup {i \in DOMAIN found :
         \A j \in 1..i : ~Before(name, found[j].low)})

(* successors(): the buckets that are said to cover what a key covered *)
Successors(key, found) ==
  LET from(label) == {i \in DOMAIN found : ~Before(label, found[i].low)} IN
  IF found = <<>> \/ key = NoKey THEN {}
  ELSE IF KeyOf(found[1]) = NoKey THEN {1}
  ELSE IF from(key[2]) = {} THEN {}
  ELSE Max({1} \cup from(key[1]))..Max(from(key[2]))

(* retired() *)
Retired(before, found) ==
  [key \in before \ KeysOf(found) |-> Successors(key, found)]
===============================================================================
