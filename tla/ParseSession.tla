----------------------------- MODULE ParseSession -----------------------------
(* The parsing of source texts by several processes: each with a parser whose   *)
(* lexer outlives a text, and a cache of parse trees, in memory or in a         *)
(* directory they share.                                                       *)
EXTENDS MibLexer

CONSTANTS
  Process,
  None,
  Text,        \* the texts the sources hold
  Content,     \* Text -> sequences of chunks
  Relaxed,     \* Process -> BOOLEAN: the dialect of its parser
  InMemory,    \* Process -> BOOLEAN: its cache is an InMemoryParseCache
  Bound,       \* maxEntries of a cache in memory; 0 is no bound
  MaxAsks,     \* bound on the texts asked for, all processes together
  MaxKills     \* bound on kills and failures to store

ASSUME SessionAssumption ==
  /\ None \notin Nat /\ Text # {}
  /\ Content \in [Text -> Seq(Chunk)]
  /\ Relaxed \in [Process -> BOOLEAN] /\ InMemory \in [Process -> BOOLEAN]
  /\ Bound \in Nat /\ MaxAsks \in Nat /\ MaxKills \in Nat

VARIABLES
  lex,       \* the state each process's lexer is in
  raised,    \* the last parse of the process raised an error
  answer,    \* what its last question was answered
  job,       \* what the process is doing
  entries,   \* the entries of each cache in memory, least recently used first
  files,     \* the entries of the directory
  recent,    \* the keys a process found or stored, the last one first
  asks, kills
vars == <<lex, raised, answer, job, entries, files, recent, asks, kills>>

(* _parse_cache_key(): release and parser, and the digest of the text *)
Key == [relaxed : BOOLEAN, text : Text]
(* mutant: the digest is the key *)
KeyOf_DigestOnly(p, t) == [relaxed |-> FALSE, text |-> t]
KeyOf(p, t) == [relaxed |-> Relaxed[p], text |-> t]

(* parse(), by the state the lexer was left in *)
Outcomes == [x \in Text \X LexState \X BOOLEAN |-> Read(Content[x[1]], x[2], x[3])]
Outcome(t, l, relaxed) == Outcomes[<<t, l, relaxed>>]

Answer == [text : Text, by : {"cache", "parser"}, trees : Nat, raised : BOOLEAN]
Job == [at : {"idle", "parse", "store", "clear", "dead"}, text : Text,
        trees : Nat, doomed : SUBSET Key]
Idle == [at |-> "idle", text |-> CHOOSE t \in Text : TRUE, trees |-> 0, doomed |-> {}]
At(p, step) == job[p].at = step

Init ==
  /\ lex = [p \in Process |-> "INITIAL"]
  /\ raised = [p \in Process |-> FALSE]
  /\ answer = [p \in Process |-> {}]
  /\ job = [p \in Process |-> Idle]
  /\ entries = [p \in Process |-> <<>>]
  /\ files = [k \in Key |-> None]
  /\ recent = [p \in Process |-> <<>>]
  /\ asks = 0 /\ kills = 0

-------------------------------------------------------------------------------
(* the caches *)

Keys(s) == [i \in DOMAIN s |-> s[i].key]
Holds(keys, k) == \E i \in DOMAIN keys : keys[i] = k
PlaceOf(keys, k) == CHOOSE i \in DOMAIN keys : keys[i] = k
(* s without what it has under k *)
Without(s, keys, k) == IF Holds(keys, k) THEN RemoveAt(s, PlaceOf(keys, k)) ELSE s

(* trees under a key, None for a miss *)
Get(p, k) ==
  IF InMemory[p]
  THEN LET keys == Keys(entries[p]) IN
       IF Holds(keys, k) THEN entries[p][PlaceOf(keys, k)].trees ELSE None
  ELSE files[k]

(* mutant: a hit leaves the entry where it is *)
Touch_Stays(p, k) == UNCHANGED entries
Touch(p, k) ==
  entries' = [entries EXCEPT ![p] =
    Append(Without(@, Keys(@), k), @[PlaceOf(Keys(@), k)])]

(* InMemoryParseCache.set(): the oldest go while there are too many *)
Kept(s) == IF Bound > 0 /\ Len(s) > Bound THEN SubSeq(s, Len(s) - Bound + 1, Len(s)) ELSE s
Put(p, k, trees) ==
  entries' = [entries EXCEPT ![p] =
    Kept(Append(Without(@, Keys(@), k), [key |-> k, trees |-> trees]))]

Used(p, k) == recent' = [recent EXCEPT ![p] = <<k>> \o Without(@, @, k)]

-------------------------------------------------------------------------------
(* _parse_source() *)

Answered(p, t, by, trees, failed) ==
  answer' = [answer EXCEPT ![p] =
    {[text |-> t, by |-> by, trees |-> trees, raised |-> failed]}]

(* a hit: the trees are copied out *)
Hit(p, t) ==
  LET k == KeyOf(p, t) IN
  /\ At(p, "idle") /\ asks < MaxAsks
  /\ Get(p, k) # None
  /\ Answered(p, t, "cache", Get(p, k), FALSE)
  /\ IF InMemory[p] THEN Touch(p, k) /\ Used(p, k) ELSE UNCHANGED <<entries, recent>>
  /\ asks' = asks + 1
  /\ UNCHANGED <<lex, raised, job, files, kills>>

Miss(p, t) ==
  /\ At(p, "idle") /\ asks < MaxAsks
  /\ Get(p, KeyOf(p, t)) = None
  /\ job' = [job EXCEPT ![p] = [Idle EXCEPT !.at = "parse", !.text = t]]
  /\ asks' = asks + 1
  /\ UNCHANGED <<lex, raised, answer, entries, files, recent, kills>>

(* mutant: the lexer is left as the text leaves it *)
Parse_NoReset(p) ==
  LET t == job[p].text
      r == Outcome(t, lex[p], Relaxed[p]) IN
  /\ At(p, "parse")
  /\ lex' = [lex EXCEPT ![p] = r.lex]
  /\ raised' = [raised EXCEPT ![p] = r.error # "none"]
  /\ Answered(p, t, "parser", r.trees, r.error # "none")
  /\ job' = [job EXCEPT ![p] =
       IF r.error = "none" THEN [@ EXCEPT !.at = "store", !.trees = r.trees] ELSE Idle]
  /\ UNCHANGED <<entries, files, recent, asks, kills>>

(* parse(): an error leaves before the lexer is reset, and nothing is stored *)
Parse(p) ==
  LET t == job[p].text
      r == Outcome(t, lex[p], Relaxed[p]) IN
  /\ At(p, "parse")
  /\ lex' = [lex EXCEPT ![p] = IF r.error = "none" THEN "INITIAL" ELSE r.lex]
  /\ raised' = [raised EXCEPT ![p] = r.error # "none"]
  /\ Answered(p, t, "parser", r.trees, r.error # "none")
  /\ job' = [job EXCEPT ![p] =
       IF r.error = "none" THEN [@ EXCEPT !.at = "store", !.trees = r.trees] ELSE Idle]
  /\ UNCHANGED <<entries, files, recent, asks, kills>>

(* set(): into memory, or a file complete under another name put in place *)
Store(p) ==
  LET k == KeyOf(p, job[p].text) IN
  /\ At(p, "store")
  /\ IF InMemory[p]
     THEN Put(p, k, job[p].trees) /\ Used(p, k) /\ UNCHANGED files
     ELSE files' = [files EXCEPT ![k] = job[p].trees] /\ UNCHANGED <<entries, recent>>
  /\ job' = [job EXCEPT ![p] = Idle]
  /\ UNCHANGED <<lex, raised, answer, asks, kills>>

(* any error on the way removes the other file and is let pass *)
StoreFails(p) ==
  /\ At(p, "store") /\ ~InMemory[p]
  /\ kills < MaxKills /\ kills' = kills + 1
  /\ job' = [job EXCEPT ![p] = Idle]
  /\ UNCHANGED <<lex, raised, answer, entries, files, recent, asks>>

(* clear_parse_cache(): the names listed first are unlinked one by one *)
Clear(p) ==
  /\ At(p, "idle") /\ asks < MaxAsks
  /\ asks' = asks + 1
  /\ IF InMemory[p]
     THEN /\ entries' = [entries EXCEPT ![p] = <<>>]
          /\ recent' = [recent EXCEPT ![p] = <<>>]
          /\ UNCHANGED job
     ELSE /\ job' = [job EXCEPT ![p] =
               [Idle EXCEPT !.at = "clear", !.doomed = {k \in Key : files[k] # None}]]
          /\ UNCHANGED <<entries, recent>>
  /\ UNCHANGED <<lex, raised, answer, files, kills>>

Unlink(p) ==
  /\ At(p, "clear")
  /\ IF job[p].doomed = {}
     THEN job' = [job EXCEPT ![p] = Idle] /\ UNCHANGED files
     ELSE \E k \in job[p].doomed :
            /\ files' = [files EXCEPT ![k] = None]
            /\ job' = [job EXCEPT ![p].doomed = @ \ {k}]
  /\ UNCHANGED <<lex, raised, answer, entries, recent, asks, kills>>

(* The process ends, and another starts in its place: what it kept in memory   *)
(* is gone, a file it was writing stays under a name that no one reads.        *)
Kill(p) ==
  /\ ~At(p, "idle")
  /\ kills < MaxKills /\ kills' = kills + 1
  /\ lex' = [lex EXCEPT ![p] = "INITIAL"]
  /\ raised' = [raised EXCEPT ![p] = FALSE]
  /\ answer' = [answer EXCEPT ![p] = {}]
  /\ job' = [job EXCEPT ![p] = Idle]
  /\ entries' = [entries EXCEPT ![p] = <<>>]
  /\ recent' = [recent EXCEPT ![p] = <<>>]
  /\ UNCHANGED <<files, asks>>

Next ==
  \E p \in Process :
    \/ \E t \in Text : Hit(p, t) \/ Miss(p, t)
    \/ Parse(p) \/ Store(p) \/ StoreFails(p) \/ Clear(p) \/ Unlink(p) \/ Kill(p)

Spec == Init /\ [][Next]_vars
-------------------------------------------------------------------------------
TypeOK ==
  /\ lex \in [Process -> LexState]
  /\ raised \in [Process -> BOOLEAN]
  /\ answer \in [Process -> SUBSET Answer]
  /\ job \in [Process -> Job]
  /\ \A p \in Process : \A i \in DOMAIN entries[p] :
       entries[p][i].key \in Key /\ entries[p][i].trees \in Nat
  /\ files \in [Key -> Nat \cup {None}]
  /\ asks \in 0..MaxAsks /\ kills \in 0..MaxKills

(* trees that the parser of the key gives for the text of the key, whatever    *)
(* state its lexer was left in *)
IsParse(k, trees) ==
  \E l \in LexState :
    LET r == Outcome(k.text, l, k.relaxed) IN r.error = "none" /\ r.trees = trees

(* The shared directory's part of EntriesAreParses: each of its entries is a   *)
(* parse of the text its key names.                                            *)
FilesAreParses == \A k \in Key : files[k] # None => IsParse(k, files[k])

(* No process is handed trees of another text, of another dialect, or of a     *)
(* file half written, whoever stores, clears or dies in between                *)
(* (_parse_cache_key, and the caches' get and set).                            *)
EntriesAreParses ==
  /\ FilesAreParses
  /\ \A p \in Process : \A i \in DOMAIN entries[p] :
       IsParse(entries[p][i].key, entries[p][i].trees)

(* A cache in memory holds exactly the trees last found or stored, as many as  *)
(* it may: a hit counts as a use (InMemoryParseCache).                         *)
KeepsTheMostRecent ==
  \A p \in Process :
    LET held == IF Bound > 0 /\ Len(recent[p]) > Bound
                THEN SubSeq(recent[p], 1, Bound) ELSE recent[p] IN
    Keys(entries[p]) = Reverse(held)

(* A text the parser reads after one that raised no error gives what it gives  *)
(* on its own: what a text leaves behind is gone unless it raised (parse).     *)
OnlyErrorsLinger ==
  [][\A p \in Process :
       At(p, "parse") /\ ~raised[p] /\ answer'[p] # answer[p] /\ answer'[p] # {} =>
         LET a == Outcome(job[p].text, "INITIAL", Relaxed[p]) IN
         \A b \in answer'[p] :
           b.trees = a.trees /\ b.raised = (a.error # "none")]_vars

(* Claim of parse() and of the cache ("one parse tree for each module in the   *)
(* text"): an answer without an error has every module of its text.            *)
OneTreePerModule ==
  \A p \in Process : \A a \in answer[p] :
    ~a.raised => a.trees = Outcome(a.text, "INITIAL", Relaxed[p]).trees
===============================================================================
