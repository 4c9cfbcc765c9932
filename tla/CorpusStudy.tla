----------------------------- MODULE CorpusStudy -----------------------------
(***************************************************************************)
(* The classification of shared-state accesses in corpus-study: scan.py    *)
(* finds the interactions in async functions, refine.py puts their names   *)
(* into buckets, branch_check.py splits the destructive ones.              *)
(*                                                                         *)
(* A repository is a sequence of files, each with its place (where) and    *)
(* code.  Every statement of a file has the same fields: the kind k, depth *)
(* and name; async and params of a def; the target it binds (to), the name *)
(* it reads (from), the method it calls (f) and the names its condition    *)
(* reads (test).                                                           *)
(***************************************************************************)
EXTENDS SourceTree

CONSTANTS
  LockHinted,  \* names with lock, semaphore, condition or mutex in them
  SyncHinted   \* those and names with event, queue or cond
ASSUME HintAssumption == LockHinted \subseteq SyncHinted

MEDIATING_METHODS ==
  {"acquire", "release", "wait", "wait_for", "set", "clear", "is_set", "notify", "notify_all",
   "put", "put_nowait", "get", "get_nowait", "join", "task_done"}
ASYNCIO_PRIMITIVE_CTORS ==
  {"Lock", "RLock", "BoundedSemaphore", "Semaphore", "Condition", "Event", "Queue",
   "LifoQueue", "PriorityQueue"}
MUTATING_METHODS_COMMUTATIVE ==
  {"append", "extend", "add", "update", "setdefault", "union", "put", "put_nowait"}
MUTATING_METHODS_NONCOMMUTATIVE ==
  {"pop", "remove", "discard", "clear", "insert", "popitem", "sort", "reverse", "get"}

\* BUILTINS is dir(__builtins__): some of the builtins in the module that is run,
\* the attributes of a dict in a module that is imported.
BUILTINS == {"filter", "format", "hash", "id", "input", "list", "type"}
DICT_ATTRIBUTES == {"clear", "copy", "fromkeys", "get", "items", "keys", "pop", "popitem",
                    "setdefault", "update", "values"}

(***************************************************************************)
(* Scopes.                                                                 *)
(***************************************************************************)
FnOf(c, i) == Innermost(c, i, {"def"})
EnclosingFunctions(c, d) == {b \in Around(c, d) : c[b].k = "def"}
AsyncFunctions(c) == {d \in DOMAIN c : c[d].k = "def" /\ c[d].async}

BINDING == {"bind", "aug", "augn"}
NamesBound(c, lines, kinds) ==
  {c[i].name : i \in {j \in lines : c[j].k \in {"def", "class"}}}
  \cup {c[i].to[1] : i \in {j \in lines : c[j].k \in kinds /\ Len(c[j].to) = 1}}

\* What ModuleScope descends into: not the loops.
ModuleLevel(c) ==
  {i \in DOMAIN c : \A b \in Around(c, i) : c[b].k \in {"if", "try", "with"}}
ModuleNames(c) == NamesBound(c, ModuleLevel(c), BINDING \cup {"with"})
ImportNames(c) == {c[i].name : i \in {j \in ModuleLevel(c) : c[j].k = "import"}}

\* Of a plain function only the parameters and its own name are collected; a
\* global or nonlocal declaration changes nothing.
CollectLocalBinds(c, d) ==
  LET own == {i \in Inside(c, d) : Innermost(c, i, {"def", "class"}) = d}
  IN  c[d].params \cup IF c[d].async
                       THEN NamesBound(c, own, BINDING \cup {"with", "for", "comp"})
                       ELSE {c[d].name}

\* The key that a name read or written in function d has, if it is shared.
\* Of self.x.y the shared part is self.x, of x.y it is x.
SharedKey(c, d, e, builtins) ==
  LET name == Head(e)
      skipped == CollectLocalBinds(c, d) \cup builtins \cup ImportNames(c) \cup {"self", "cls"}
      closure == \E outer \in EnclosingFunctions(c, d) : name \in CollectLocalBinds(c, outer)
  IN  CASE e = None -> {}
        [] OwnAttr(e) -> {<<"SELF_ATTR", e[2]>>}
        [] e # None /\ ~OwnAttr(e) /\ name \notin skipped /\ closure -> {<<"CLOSURE", name>>}
        [] e # None /\ ~OwnAttr(e) /\ name \notin skipped /\ ~closure /\ name \in ModuleNames(c) ->
             {<<"GLOBAL", name>>}
        [] OTHER -> {}

\* The object itself, and not an attribute of what it holds.
Direct(e) == Len(e) = 1 \/ (Len(e) = 2 /\ OwnAttr(e))

(***************************************************************************)
(* Interactions.                                                           *)
(***************************************************************************)
StmtGuard(c, b) ==
  /\ c[b].k = "with"
  /\ \/ (ToSet(c[b].from) \cup ToSet(c[b].f)) \cap LockHinted # {}
     \/ c[b].f # None /\ Last(c[b].f) \in ASYNCIO_PRIMITIVE_CTORS

Guarded(c, i) == \E b \in Around(c, i) : StmtGuard(c, b) /\ FnOf(c, b) = FnOf(c, i)

FormOfTarget(k) ==
  CASE k = "bind" -> "full_rebind"
    [] k = "setitem" -> "subscript_write"
    [] k = "aug" -> "augmented_commutative"
    [] k = "augn" -> "augmented_noncommutative"
    [] OTHER -> "other_write"

FormOfCall(method) ==
  CASE method \in MUTATING_METHODS_COMMUTATIVE -> "mutating_method_commutative"
    [] method \in MUTATING_METHODS_NONCOMMUTATIVE -> "mutating_method_noncommutative"
    [] OTHER -> "read"

\* An access: its slot in the statement, its key and form, and whether a method
\* that synchronizes mediates it.
Accesses(c, i, slot, e, form, safe) ==
  {[line |-> i, slot |-> slot, key |-> key, form |-> form, mediated |-> safe \/ Guarded(c, i)] :
     key \in SharedKey(c, FnOf(c, i), e, BUILTINS)}

\* Neither the "as" of a with nor the deletion of an item is a write.
TargetAccesses(c, i) ==
  CASE c[i].k \in BINDING \cup {"setitem", "for", "del"} /\ Direct(c[i].to) ->
         Accesses(c, i, "target", c[i].to, FormOfTarget(c[i].k), FALSE)
    [] c[i].k \in {"with", "comp"} -> {}
    [] OTHER -> Accesses(c, i, "target", c[i].to, "read", FALSE)

\* A method call on a shared object counts as the call and as a read of the
\* object; in the head of a with only as the call.
CallAccesses(c, i) ==
  LET f == c[i].f
      receiver == Front(f)
      safe == Last(f) \in MEDIATING_METHODS /\ Last(receiver) \in SyncHinted
      call == IF Len(f) > 1 /\ Direct(receiver)
              THEN Accesses(c, i, "call", receiver, FormOfCall(Last(f)), safe) ELSE {}
  IN  IF f = None THEN {}
      ELSE call \cup IF c[i].k = "with" THEN {} ELSE Accesses(c, i, "read", f, "read", FALSE)

ReadAccesses(c, i) ==
  IF c[i].k = "with" /\ ~Direct(c[i].from) THEN {}
  ELSE Accesses(c, i, "from", c[i].from, "read", FALSE)
       \cup UNION {Accesses(c, i, "test", e, "read", FALSE) : e \in c[i].test}

ScanFile(c) ==
  UNION {TargetAccesses(c, i) \cup CallAccesses(c, i) \cup ReadAccesses(c, i) :
           i \in {j \in DOMAIN c : FnOf(c, j) \in AsyncFunctions(c)}}

\* Tests and excluded directories are left out.
ScanRepo(repo) ==
  UNION {{[file |-> j, access |-> a] : a \in ScanFile(repo[j].code)} :
           j \in {n \in DOMAIN repo : repo[n].where = "source"}}

Mediated(interactions) == {x \in interactions : x.access.mediated}
Unmediated(interactions) == interactions \ Mediated(interactions)

(***************************************************************************)
(* refine.py.                                                              *)
(***************************************************************************)
COMMUTATIVE_FORMS == {"subscript_write", "augmented_commutative", "mutating_method_commutative"}
DESTRUCTIVE_FORMS == {"full_rebind", "augmented_noncommutative",
                      "mutating_method_noncommutative", "other_write"}

\* Mutant of BucketOf: every file has buckets of its own.
BucketOfFile(interactions, x) ==
  LET forms == {y.access.form : y \in {z \in interactions : /\ z.access.key = x.access.key
                                                            /\ z.file = x.file}} \ {"read"}
  IN  IF forms = {} THEN "READ_ONLY"
      ELSE IF forms \subseteq COMMUTATIVE_FORMS THEN "COMMUTATIVE" ELSE "DESTRUCTIVE"

\* The bucket of the name of interaction x.
BucketOf(interactions, x) ==
  LET forms == {y.access.form : y \in {z \in interactions : z.access.key = x.access.key}}
               \ {"read"}
  IN  IF forms = {} THEN "READ_ONLY"
      ELSE IF forms \subseteq COMMUTATIVE_FORMS THEN "COMMUTATIVE" ELSE "DESTRUCTIVE"

InBucket(interactions, bucket) == {x \in interactions : BucketOf(interactions, x) = bucket}

(***************************************************************************)
(* branch_check.py.                                                        *)
(***************************************************************************)
\* The names read in conditions of async functions; of a while, and of all.
\* The conditions in a class body count for the function around it.
GuardNames(repo, kinds) ==
  UNION {LET c == repo[j].code
         IN  UNION {UNION {SharedKey(c, FnOf(c, i), e, DICT_ATTRIBUTES) : e \in c[i].test} :
                      i \in {n \in DOMAIN c : /\ c[n].k \in kinds
                                              /\ FnOf(c, n) \in AsyncFunctions(c)}} :
           j \in {n \in DOMAIN repo : repo[n].where \in {"source", "excluded"}}}

CONDITIONS == {"if", "while", "cond", "comp"}

\* Mutant of SplitOf: a bounded condition decides, whatever else there is.
SplitOfAny(repo, key) ==
  IF key \in GuardNames(repo, CONDITIONS \ {"while"}) THEN "bounded"
  ELSE IF key \in GuardNames(repo, {"while"}) THEN "unbounded" ELSE "data"

SplitOf(repo, key) ==
  IF key \notin GuardNames(repo, CONDITIONS) THEN "data"
  ELSE IF key \in GuardNames(repo, {"while"}) THEN "unbounded" ELSE "bounded"

\* Mutant of Flagged: what is mediated is counted too, as it once was.
FlaggedAll(repo, split) ==
  LET all == ScanRepo(repo)
  IN  {x \in InBucket(all, "DESTRUCTIVE") : SplitOf(repo, x.access.key) = split}

Flagged(repo, split) ==
  LET all == ScanRepo(repo)
  IN  {x \in Unmediated(InBucket(all, "DESTRUCTIVE")) : SplitOf(repo, x.access.key) = split}

HasDestructiveNames(repo) == InBucket(ScanRepo(repo), "DESTRUCTIVE") # {}

\* What a clone contains: files, whose statements read finitely many names in
\* their condition, and none if they have no condition.
IsFile(c) ==
  /\ DOMAIN c = 1..Len(c) /\ Len(c) \in Nat
  /\ \A i \in DOMAIN c : IsFiniteSet(c[i].test) /\ (c[i].test # {} => c[i].k \in CONDITIONS)
IsRepo(repo) ==
  /\ DOMAIN repo = 1..Len(repo) /\ Len(repo) \in Nat
  /\ \A j \in DOMAIN repo : IsFile(repo[j].code)
=============================================================================
