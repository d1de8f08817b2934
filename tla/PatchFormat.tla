---------------------------- MODULE PatchFormat ----------------------------
(***************************************************************************)
(* The diffs that repair a module: reading, offering and cutting them      *)
(* (pysmi/patches.py).  A text is a sequence of lines; what a line holds   *)
(* is the business of the module that extends this one, but for a line     *)
(* that begins with "-- ", a comment.  Line endings are left out: a diff   *)
(* is cut from and offered to lines, and the ending a file had is put      *)
(* back.  Positions count lines from 0, as a Hunk's do.                    *)
(***************************************************************************)
EXTENDS Naturals, Sequences, FiniteSets, SequencesExt, FiniteSetsExt

\* Lines of unchanged text about a change (CONTEXT_LINES).
CONSTANT Context

ASSUME ContextAssumption == Context \in Nat \ {0}

(***************************************************************************)
(* What offering a diff to a text can come to.                             *)
(***************************************************************************)
Applied == "applied"
AlreadyApplied == "already-applied"
NotApplicable == "not-applicable"
Unpatched == "unpatched"

\* A patch file: a person's or the tool's words above it, and its hunks.
\* A name without a patch has one that is not written.
NoPatch == [written |-> FALSE, header |-> {}, hunks |-> <<>>]
Patch(header, hunks) == [written |-> TRUE, header |-> header, hunks |-> hunks]

\* The lines after the first n of a text, k of them or as many as there are.
Lines(text, n, k) == SubSeq(text, n + 1, IF n + k < Len(text) THEN n + k ELSE Len(text))

(***************************************************************************)
(* parse_patch().  A hunk on disk has its two sides, those of the removed  *)
(* lines that print as a header does, and whether a line in it is none of  *)
(* a diff's.                                                               *)
(***************************************************************************)
\* "-- x" taken away is printed "--- x", and every line that begins so is
\* skipped, wherever it stands: the text has the line and the hunk has not.
Parsed(hunk) ==
  IF hunk.lost = {} THEN hunk
  ELSE [hunk EXCEPT !.before = SelectSeq(@, LAMBDA line : line \notin hunk.lost)]
ParsePatch(hunks) == [i \in DOMAIN hunks |-> Parsed(hunks[i])]

\* What is refused: a line that is none of a diff's, and hunks that do not
\* run forwards.
Unreadable(hunks) == \E i \in DOMAIN hunks : hunks[i].torn
Overlapping(hunks) ==
  \E i \in 1 .. Len(hunks) - 1 :
     hunks[i + 1].old < hunks[i].old + Len(hunks[i].before)
Malformed(hunks) == Unreadable(hunks) \/ Overlapping(ParsePatch(hunks))

\* One side of a hunk is looked for where that side says it starts, and the
\* other side put in its place.
Turned(hunk, reverse) ==
  IF reverse THEN [at |-> hunk.new, want |-> hunk.after, give |-> hunk.before]
             ELSE [at |-> hunk.old, want |-> hunk.before, give |-> hunk.after]

\* _splice(): the text with every hunk in place, or that one did not match.
Spliced(text, done, h) ==
  IF /\ done.ok
     /\ h.at >= done.cursor
     /\ Lines(text, h.at, Len(h.want)) = h.want
  THEN [ok |-> TRUE, cursor |-> h.at + Len(h.want),
        out |-> done.out \o Lines(text, done.cursor, h.at - done.cursor) \o h.give]
  ELSE [done EXCEPT !.ok = FALSE]
Splice(text, hunks, reverse) ==
  LET after[n \in 0 .. Len(hunks)] ==
        IF n = 0 THEN [ok |-> TRUE, cursor |-> 0, out |-> <<>>]
        ELSE Spliced(text, after[n - 1], Turned(hunks[n], reverse))
      all == after[Len(hunks)]
  IN  [ok |-> all.ok, text |-> all.out \o Lines(text, all.cursor, Len(text))]

\* apply_patch() of a diff that is not malformed: forwards, and if it does
\* not match, backwards, to tell a text that carries it from another text.
ApplyPatch(text, hunks) ==
  LET parsed  == ParsePatch(hunks)
      forward == Splice(text, parsed, FALSE)
  IN
  IF hunks = <<>> THEN [text |-> text, status |-> NotApplicable]
  ELSE IF forward.ok THEN [text |-> forward.text, status |-> Applied]
  ELSE [text |-> text,
        status |-> IF Splice(text, parsed, TRUE).ok THEN AlreadyApplied ELSE NotApplicable]

\* PatchSet.apply(): no patch and a malformed one leave the text alone.
Offer(text, patch) ==
  IF ~patch.written \/ Malformed(patch.hunks) THEN [text |-> text, status |-> Unpatched]
  ELSE ApplyPatch(text, patch.hunks)

(***************************************************************************)
(* make_patch().  The lines of a text differ from each other here, so what *)
(* two texts have in common is the lines both hold, in their order.        *)
(***************************************************************************)
PlaceOf(line, text) == CHOOSE i \in DOMAIN text : text[i] = line

\* Places of the old text a hunk shows: a line that goes, or Context lines
\* either side of one that goes or of a gap something is put into.
Shown(old, new) ==
  LET kept == {i \in DOMAIN old : old[i] \in Range(new)}
      gone == DOMAIN old \ kept
      next(i) == {j \in kept : j > i}
      \* Something is put into the text right after its line i.
      grows(i) ==
        LET lo == IF i = 0 THEN 0 ELSE PlaceOf(old[i], new)
            hi == IF next(i) = {} THEN Len(new) + 1 ELSE PlaceOf(old[Min(next(i))], new)
        IN  hi > lo + 1
      gaps == {i \in {0} \cup kept : grows(i)}
  IN  {k \in DOMAIN old :
         \/ \E g \in gone : k <= g + Context /\ g <= k + Context
         \/ \E g \in gaps : g < k + Context /\ k <= g + Context}

\* The hunks: the runs of places shown, in their order, each with what the
\* new text has between the lines around the run.
Starts(shown) == {k \in shown : k - 1 \notin shown}
EndOf(shown, k) == Min({j \in shown : j >= k /\ j + 1 \notin shown})
Nth(places, i) == CHOOSE k \in places : Cardinality({j \in places : j < k}) = i - 1
Hunk(old, new, k, end) ==
  LET lo == IF k = 1 THEN 0 ELSE PlaceOf(old[k - 1], new)
      hi == IF end = Len(old) THEN Len(new) ELSE PlaceOf(old[end + 1], new) - 1
  IN  [old |-> k - 1, new |-> lo,
       before |-> SubSeq(old, k, end), after |-> SubSeq(new, lo + 1, hi),
       lost |-> {old[i] : i \in {j \in k .. end : /\ old[j].is = "comment"
                                                /\ old[j] \notin Range(new)}},
       torn |-> FALSE]
Hunks(old, new) ==
  LET shown  == Shown(old, new)
      starts == Starts(shown)
  IN  [i \in 1 .. Cardinality(starts) |->
         Hunk(old, new, Nth(starts, i), EndOf(shown, Nth(starts, i)))]

\* Every removed line can be told from a header.
Legible(old, new) ==
  \A i \in DOMAIN old : old[i] \notin Range(new) => old[i].is # "comment"
=============================================================================
