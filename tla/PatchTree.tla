----------------------------- MODULE PatchTree -----------------------------
(***************************************************************************)
(* A tree of modules and the patches beside it: mibpatch writes and checks *)
(* the patches (pysmi/scripts/mibpatch.py), people edit them, callers      *)
(* apply them (PatchSet), publishers replace the texts, and a distribution *)
(* is staged from both (hatch_build.py).                                   *)
(***************************************************************************)
EXTENDS ImportRepair

CONSTANTS
  FileOrder,   \* the files of the tree, in the order of their paths
  Published,   \* file -> the texts its publisher may put there
  Mended(_),   \* a text with what a person repairs by hand repaired
  Gone         \* what a file holds that is not there

Files == Range(FileOrder)
Names == {Declared(t) : t \in UNION {Published[f] : f \in Files}} \cup Files

\* A path is listed once.
ASSUME FileOrderAssumption ==
  /\ FileOrder \in Seq(Files)
  /\ \A i, j \in DOMAIN FileOrder : FileOrder[i] = FileOrder[j] => i = j
ASSUME GoneAssumption == Gone \notin UNION {Published[f] : f \in Files}

VARIABLES
  tree,     \* file -> its text, or Gone
  patches,  \* module -> the patch file named for it
  verdict   \* what the last --check said of the tree and patches as they are

vars == <<tree, patches, verdict>>

\* _scan() finds the files there are in the order of their paths.
There(t) == {f \in Files : t[f] # Gone}
\* A file's name is its module's, as far as a module that does not parse goes.
FoundIn(t, f) == Inspect(t[f], f)
DeclaredBy(t, m) == {f \in There(t) : FoundIn(t, f).mibname = m}

Tool == "the tool"
Person == "a person"

Init ==
  /\ tree \in {t \in [Files -> UNION {Published[f] : f \in Files}] :
                 \A f \in Files : t[f] \in Published[f]}
  /\ patches = [m \in Names |-> NoPatch]
  /\ verdict = "unchecked"

\* Whatever changes the tree or the patches leaves no verdict standing.
Changed == verdict' = "unchecked"

(***************************************************************************)
(* People and publishers.                                                  *)
(***************************************************************************)
Publish(f) ==
  /\ \E t \in Published[f] \cup {Gone} : tree' = [tree EXCEPT ![f] = t]
  /\ UNCHANGED patches
  /\ Changed

\* A patch for all a text needs, the derived imports and what only a person
\* can decide, with nothing above it.  It may come out wrong: hunks in the
\* wrong order, or the only one with a line that is none of a diff's.
Whole(f) == Inspect(Mended(tree[f]), f).repaired
Spoilt(hunks) ==
  IF Len(hunks) > 1 THEN Reverse(hunks) ELSE [hunks EXCEPT ![1].torn = TRUE]

WriteByHand(f) ==
  /\ tree[f] # Gone
  /\ LET hunks == Hunks(tree[f], Whole(f))
     IN  /\ hunks # <<>>
         /\ \E h \in {hunks, Spoilt(hunks)} :
              patches' = [patches EXCEPT ![Declared(Mended(tree[f]))] = Patch({}, h)]
  /\ UNCHANGED tree
  /\ Changed

Explain(m) ==
  /\ patches[m].written
  /\ patches' = [patches EXCEPT ![m].header = {Person}]
  /\ UNCHANGED tree
  /\ Changed

Withdraw(m) ==
  /\ patches[m].written
  /\ patches' = [patches EXCEPT ![m] = NoPatch]
  /\ UNCHANGED tree
  /\ Changed

\* A caller repairs a file with the patch for its module.
Repair(f) ==
  /\ tree[f] # Gone
  /\ LET offered == Offer(tree[f], patches[FoundIn(tree, f).mibname]) IN
     /\ offered.status = Applied
     /\ tree' = [tree EXCEPT ![f] = offered.text]
  /\ UNCHANGED patches
  /\ Changed

(***************************************************************************)
(* mibpatch without --check: _write().  Every file was inspected before    *)
(* the first is written.  The words above a patch on disk are kept, its    *)
(* hunks are not.                                                          *)
(***************************************************************************)
KeepingHeader(old, hunks) ==
  Patch(IF old.header # {} THEN old.header ELSE {Tool}, hunks)

WriteOne(apply, done, f) ==
  LET found == FoundIn(tree, f)
      hunks == Hunks(tree[f], found.repaired)
      text  == ApplyPatch(done.tree[f], hunks).text
  IN  IF f \notin There(tree) \/ found.status # Repairable THEN done
      ELSE [patches |-> [done.patches EXCEPT ![found.mibname] = KeepingHeader(@, hunks)],
            tree |-> IF apply THEN [done.tree EXCEPT ![f] = text] ELSE done.tree]

Write(apply) ==
  LET after[n \in 0 .. Len(FileOrder)] ==
        IF n = 0 THEN [patches |-> patches, tree |-> tree]
        ELSE WriteOne(apply, after[n - 1], FileOrder[n])
      done == after[Len(FileOrder)]
  IN  /\ patches' = done.patches
      /\ tree' = done.tree
      /\ Changed

(***************************************************************************)
(* mibpatch --check: _check().  The derived hunks have to be among those   *)
(* on disk, and all those on disk have to apply; a module that needs       *)
(* nothing, or cannot be read, may carry its patch already.  A malformed   *)
(* patch ends the program.                                                 *)
(***************************************************************************)
\* mutant: a patch that holds the repair derived is not offered to the text.
Stale_Contained(t, p, f) ==
  LET found  == FoundIn(t, f)
      patch  == p[found.mibname]
  IN  IF found.status = Repairable
      THEN ~patch.written \/ ~(Range(Hunks(t[f], found.repaired)) \subseteq Range(patch.hunks))
      ELSE patch.written /\ ApplyPatch(t[f], patch.hunks).status = NotApplicable

Stale(t, p, f) ==
  LET found  == FoundIn(t, f)
      patch  == p[found.mibname]
      status == ApplyPatch(t[f], patch.hunks).status
  IN  IF found.status = Repairable
      THEN \/ ~patch.written
           \/ ~(Range(Hunks(t[f], found.repaired)) \subseteq Range(patch.hunks))
           \/ status # Applied
      ELSE patch.written /\ status = NotApplicable

Breaks(t, p, f) ==
  LET found == FoundIn(t, f) IN
  /\ Malformed(p[found.mibname].hunks)
  /\ found.status = Repairable =>
       Range(Hunks(t[f], found.repaired)) \subseteq Range(p[found.mibname].hunks)

Check ==
  /\ verdict' =
       IF \E f \in There(tree) : Breaks(tree, patches, f) THEN "ended"
       ELSE IF \E f \in There(tree) : Stale(tree, patches, f) THEN "stale"
       ELSE "clean"
  /\ UNCHANGED <<tree, patches>>

\* patch_asn1(): the tree is copied, and each patch applied to the file that
\* has the name of its module, if there is one; or nothing is staged.
Staged(m) == m \notin Files \/ tree[m] = Gone \/ Offer(tree[m], patches[m]).status = Applied

\* start(): --check writes nothing, and does not go with --apply.
Mibpatch == Check \/ \E apply \in BOOLEAN : Write(apply)

Next ==
  \/ \E f \in Files : Publish(f) \/ WriteByHand(f) \/ Repair(f)
  \/ \E m \in Names : Explain(m) \/ Withdraw(m)
  \/ Mibpatch

Spec == Init /\ [][Next]_vars

(***************************************************************************)
(* Properties.                                                             *)
(***************************************************************************)
\* After mibpatch wrote what it derived for a module that no other file goes
\* by the name of, into the patch or into the text as well, and after a caller
\* applied a patch --check had nothing against, --check has nothing against
\* the module: what is applied is told from what does not apply (_check();
\* apply_patch()).  And a text that was changed parses and needs nothing more,
\* unless symbols follow IMPORTS on its line: see EveryRepairMends.
SettlesWhatItTouches ==
  [][LET Scan == {[file |-> f, found |-> FoundIn(tree, f)] : f \in There(tree)} IN
     \A s \in Scan : LET f == s.file IN
       /\ \A other \in Scan : other.found.mibname = s.found.mibname => other = s
       /\ s.found.status # Unparseable
       /\ \/ Repair(f) /\ ~Stale(tree, patches, f)
          \/ s.found.status = Repairable /\ \E apply \in BOOLEAN : Write(apply)
       => /\ ~Stale(tree', patches', f)
          /\ tree'[f] # tree[f] /\ At(tree[f], {"packed"}) = {} =>
               FoundIn(tree', f).status = Clean]_vars

\* A tree --check calls clean can be staged for a distribution: the only
\* patches that then stop patch_asn1() are for texts that carry them already,
\* or lie in a file that goes by the name of another module.
CleanMeansStaged ==
  verdict = "clean" =>
    \A m \in Names :
       \/ ~patches[m].written
       \/ Staged(m)
       \/ FoundIn(tree, m).mibname # m
       \/ Offer(tree[m], patches[m]).status = AlreadyApplied

\* "The tree then compiles under mibdump --strict-imports": a text with the
\* repair derived for it written in parses and needs nothing more.
EveryRepairMends ==
  \A f \in There(tree) :
     FoundIn(tree, f).status = Repairable =>
       Inspect(FoundIn(tree, f).repaired, f).status = Clean

\* "The inverse of apply_patch": the diff make_patch() cuts makes of the text
\* it is cut from the text it is cut to.  Not where a line that begins "-- "
\* goes: see Parsed.
CutsAreInverse ==
  \A f \in There(tree) :
     Whole(f) # tree[f] =>
       ApplyPatch(tree[f], Hunks(tree[f], Whole(f))) = [text |-> Whole(f), status |-> Applied]

\* The diffs mibpatch cuts take no such line away: patchgen changes the lines
\* of symbols and the one that ends the clause.
RepairsAreLegible ==
  \A f \in There(tree) : Legible(tree[f], FoundIn(tree, f).repaired)
=============================================================================
