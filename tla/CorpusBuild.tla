----------------------------- MODULE CorpusBuild -----------------------------
(***************************************************************************)
(* The corpus target of the Makefile: corpus_import.sh, the removal of the *)
(* old results, scan.py, refine.py, branch_check.py, make_sankey.py and    *)
(* corpus_pie.py, each reading from the disk what the ones before wrote.   *)
(* A run may fail or be interrupted in any line, and be started again.     *)
(***************************************************************************)
EXTENDS CorpusStudy

CONSTANT Worlds   \* functions from repository names to what a clone contains
ASSUME WorldsAssumption ==
  \A w \in Worlds : IsFiniteSet(DOMAIN w) /\ \A r \in DOMAIN w : IsRepo(w[r])

VARIABLES
  world,      \* the repositories as they are on their server
  importDir,  \* repo_src exists
  todo,       \* repositories the import has still to clone
  cloned,     \* repositories in repo_src
  results,    \* repositories with results/<repo>.json
  refined,    \* repositories in refined/_REFINED_SUMMARY.json
  branch,     \* repositories in branch_check/_BRANCH_SUMMARY.json
  pie,        \* corpus_breakdown_pie.png exists
  sankey,     \* corpus_sankey.png exists
  line        \* the line of the recipe make is at

disk == <<importDir, cloned, results, refined, branch, pie, sankey>>
buildVars == <<world, todo, disk, line>>

NoFile == {"no file"}

\* The repository is published with the results of a complete run, but without
\* repo_src.
BuildInit ==
  /\ world \in Worlds
  /\ importDir = FALSE /\ cloned = {} /\ todo = {}
  /\ results = DOMAIN world /\ refined = DOMAIN world /\ branch = DOMAIN world
  /\ pie = TRUE /\ sankey = TRUE
  /\ line = "idle"

Interactions(repos) ==
  UNION {{[repo |-> r, file |-> x.file, access |-> x.access] : x \in ScanRepo(world[r])} :
           r \in repos}

TypeOK ==
  /\ world \in Worlds
  /\ importDir \in BOOLEAN /\ pie \in BOOLEAN /\ sankey \in BOOLEAN
  /\ todo \subseteq DOMAIN world /\ cloned \subseteq DOMAIN world
  /\ results \subseteq DOMAIN world
  /\ \A summary \in {refined, branch} : summary = NoFile \/ summary \subseteq DOMAIN world
  /\ line \in {"idle", "import", "rm_branch", "rm_refined", "rm_results", "rm_pie",
               "rm_sankey", "scan", "refine", "branch", "sankey", "pie"}

(***************************************************************************)
(* The lines of the recipe.                                                *)
(***************************************************************************)
Make ==
  /\ line = "idle"
  /\ IF importDir THEN line' = "rm_branch" /\ UNCHANGED <<importDir, todo>>
     ELSE line' = "import" /\ importDir' = TRUE /\ todo' = DOMAIN world
  /\ UNCHANGED <<world, cloned, results, refined, branch, pie, sankey>>

\* A clone that fails does not end the import, nor make it fail.
Clone ==
  /\ line = "import" /\ todo # {}
  /\ \E repo \in todo : /\ todo' = todo \ {repo}
                        /\ cloned' \in {cloned, cloned \cup {repo}}
  /\ UNCHANGED <<world, importDir, results, refined, branch, pie, sankey, line>>

Imported ==
  /\ line = "import" /\ todo = {}
  /\ line' = "rm_branch"
  /\ UNCHANGED <<world, todo, disk>>

RemoveBranch ==
  /\ line = "rm_branch" /\ branch' = NoFile /\ line' = "rm_refined"
  /\ UNCHANGED <<world, todo, importDir, cloned, results, refined, pie, sankey>>

RemoveRefined ==
  /\ line = "rm_refined" /\ refined' = NoFile /\ line' = "rm_results"
  /\ UNCHANGED <<world, todo, importDir, cloned, results, branch, pie, sankey>>

RemoveResults ==
  /\ line = "rm_results" /\ results' = {} /\ line' = "rm_pie"
  /\ UNCHANGED <<world, todo, importDir, cloned, refined, branch, pie, sankey>>

\* rm -r of a file that does not exist fails, and ends the run.
RemovePie ==
  /\ line = "rm_pie" /\ pie' = FALSE
  /\ line' = IF pie THEN "rm_sankey" ELSE "idle"
  /\ UNCHANGED <<world, todo, importDir, cloned, results, refined, branch, sankey>>

\* Mutant of RemoveSankey: rm -f, which does not fail.
RemoveSankeyForced ==
  /\ line = "rm_sankey" /\ sankey' = FALSE /\ line' = "scan"
  /\ UNCHANGED <<world, todo, importDir, cloned, results, refined, branch, pie>>

RemoveSankey ==
  /\ line = "rm_sankey" /\ sankey' = FALSE
  /\ line' = IF sankey THEN "scan" ELSE "idle"
  /\ UNCHANGED <<world, todo, importDir, cloned, results, refined, branch, pie>>

ScanNext ==
  /\ line = "scan"
  /\ \E repo \in cloned \ results : results' = results \cup {repo}
  /\ UNCHANGED <<world, todo, importDir, cloned, refined, branch, pie, sankey, line>>

Scanned ==
  /\ line = "scan" /\ cloned \subseteq results
  /\ line' = "refine"
  /\ UNCHANGED <<world, todo, disk>>

\* Without any interaction it divides by zero.
Refine ==
  /\ line = "refine"
  /\ IF Interactions(results) = {} THEN line' = "idle" /\ UNCHANGED refined
     ELSE line' = "branch" /\ refined' = results
  /\ UNCHANGED <<world, todo, importDir, cloned, results, branch, pie, sankey>>

\* Results without a clone are left out, and repositories with nothing destructive.
BranchCheck ==
  /\ line = "branch"
  /\ branch' = {repo \in results \cap cloned : HasDestructiveNames(world[repo])}
  /\ line' = "sankey"
  /\ UNCHANGED <<world, todo, importDir, cloned, results, refined, pie, sankey>>

\* An export that fails leaves no figure, and does not end the run.
MakeSankey ==
  /\ line = "sankey" /\ sankey' \in BOOLEAN /\ line' = "pie"
  /\ UNCHANGED <<world, todo, importDir, cloned, results, refined, branch, pie>>

FlaggedIn(repos, split) ==
  UNION {{[repo |-> r, flagged |-> x] : x \in Flagged(world[r], split)} : r \in repos}
FlaggedTotal(repos) ==
  Cardinality(UNION {FlaggedIn(repos, split) : split \in {"data", "bounded", "unbounded"}})

\* build_breakdown divides by flagged_total.
CorpusPie ==
  /\ line = "pie"
  /\ pie' = (FlaggedTotal(branch) # 0)
  /\ line' = "idle"
  /\ UNCHANGED <<world, todo, importDir, cloned, results, refined, branch, sankey>>

Interrupt ==
  /\ line # "idle"
  /\ line' = "idle"
  /\ UNCHANGED <<world, todo, disk>>

BuildNext ==
  \/ Make \/ Clone \/ Imported \/ RemoveBranch \/ RemoveRefined \/ RemoveResults
  \/ RemovePie \/ RemoveSankey \/ ScanNext \/ Scanned \/ Refine \/ BranchCheck
  \/ MakeSankey \/ CorpusPie \/ Interrupt

BuildSpec == BuildInit /\ [][BuildNext]_buildVars

(***************************************************************************)
(* Properties.                                                             *)
(***************************************************************************)
\* Key key is written by statement i, as Python resolves names.
DeclaredHere(c, d, name) ==
  \E i \in Inside(c, d) : c[i].k = "global" /\ FnOf(c, i) = d /\ c[i].name = name
BoundHere(c, d, name) ==
  LET own == {i \in Inside(c, d) : Innermost(c, i, {"def", "class"}) = d}
  IN  /\ ~DeclaredHere(c, d, name)
      /\ name \in c[d].params \cup NamesBound(c, own, BINDING \cup {"with", "for", "comp"})

WritesKey(c, i, key) ==
  LET d == FnOf(c, i)
      object == IF c[i].k \in BINDING \cup {"setitem", "for", "del", "with", "delitem"}
                THEN c[i].to
                ELSE IF Len(c[i].f) > 1 /\ FormOfCall(Last(c[i].f)) # "read"
                     THEN Front(c[i].f) ELSE None
      outer == {b \in EnclosingFunctions(c, d) : BoundHere(c, b, object[1])}
  IN  /\ object # None /\ Direct(object)
      /\ CASE OwnAttr(object) -> key = <<"SELF_ATTR", object[2]>>
           [] Len(object) = 1 /\ ~BoundHere(c, d, object[1]) ->
                key = <<IF outer # {} THEN "CLOSURE" ELSE "GLOBAL", object[1]>>
           [] OTHER -> FALSE

\* The writes the scan does not see: the "as" of a with, the deletion of an item,
\* a name that is declared global or nonlocal and bound, a name that is local to an
\* enclosing function that is not async, an imported name, and one of the module
\* that ModuleNames does not have or that an enclosing function declares or is
\* called.
Overlooked(c, i, key) ==
  LET name == key[2]
      around == EnclosingFunctions(c, FnOf(c, i))
  IN  \/ c[i].k \in {"with", "delitem"}
      \/ DeclaredHere(c, FnOf(c, i), name) /\ name \in CollectLocalBinds(c, FnOf(c, i))
      \/ key[1] = "CLOSURE" /\ \E b \in around : ~c[b].async
      \/ key[1] \in {"CLOSURE", "GLOBAL"} /\ name \in ImportNames(c)
      \/ /\ key[1] = "GLOBAL"
         /\ name \notin ModuleNames(c) \/ \E b \in around : DeclaredHere(c, b, name) \/ c[b].name = name

\* What is in the bucket READ_ONLY is "never written ... anywhere in the scanned
\* async code" (refine.py:11), in whatever file, unless the write is one of those
\* that are overlooked.
ReadOnlyIsUnwritten ==
  line = "branch" => \A r \in results : LET all == ScanRepo(world[r]) IN
    \A x \in InBucket(all, "READ_ONLY"), j \in DOMAIN world[r] :
      world[r][j].where = "source" =>
        LET c == world[r][j].code
        IN  \A i \in DOMAIN c :
              FnOf(c, i) \in AsyncFunctions(c) /\ WritesKey(c, i, x.access.key)
                => Overlooked(c, i, x.access.key)

\* The split of the destructive interactions errs on the safe side only
\* (branch_check.py:360-364): what is flagged as data is in no condition of the
\* repository, and what is called bounded in none of a while; except names that
\* are also methods of a dict.
SplitIsConservative ==
  line = "sankey" => \A r \in branch :
    \A x \in Flagged(world[r], "data") \cup Flagged(world[r], "bounded") :
      \A y \in ScanRepo(world[r]) :
        y.access.slot = "test" /\ y.access.key = x.access.key =>
          \/ /\ x \in Flagged(world[r], "bounded")
             /\ world[r][y.file].code[y.access.line].k # "while"
          \/ x.access.key[1] # "SELF_ATTR" /\ x.access.key[2] \in DICT_ATTRIBUTES

\* The interactions that refine.py and scan.py count, repository by repository.
InBucketCount(repos, bucket) ==
  MapThenSumSet(LAMBDA r : Cardinality(Unmediated(InBucket(ScanRepo(world[r]), bucket))), repos)
MediatedCount(repos) ==
  MapThenSumSet(LAMBDA r : Cardinality(Mediated(ScanRepo(world[r]))), repos)

\* The three files that corpus_pie.py puts together are of one run: the slices sum
\* up to the total of the scan, and the three last ones are what was counted, not
\* scaled.
SlicesAreCounts ==
  line = "pie" =>
    /\ MediatedCount(cloned) + InBucketCount(refined, "READ_ONLY")
         + InBucketCount(refined, "COMMUTATIVE") + InBucketCount(refined, "DESTRUCTIVE")
         = Cardinality(Interactions(cloned))
    /\ FlaggedTotal(branch) = InBucketCount(refined, "DESTRUCTIVE")

\* What a failed or interrupted run has lost, or one whose export failed unnoticed, is
\* not made up for: once one of the figures is missing each later run removes the
\* results and stops where the figure should be (Makefile:29-30), and a repository
\* that the import missed is never cloned (:16).
LostForGood ==
  /\ [](line = "idle" /\ ~(pie /\ sankey) => []~(pie /\ sankey))
  /\ [](importDir /\ line # "import" /\ cloned # DOMAIN world => [](cloned # DOMAIN world))

\* "avoid double count with generic Attribute walk below" (scan.py:546): the method call
\* on a shared attribute is one interaction, not a call and a read.
CountedOnce ==
  line = "refine" => \A x, y \in Interactions(results) :
    (/\ x.repo = y.repo /\ x.file = y.file /\ x.access.line = y.access.line
     /\ x.access.slot = "call" /\ x.access.key[1] = "SELF_ATTR"
     /\ y.access.slot = "read") => x.access.key # y.access.key
=============================================================================
