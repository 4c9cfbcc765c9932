------------------------------ MODULE Extractor ------------------------------
(***************************************************************************)
(* snf-pipeline/extractor.py on one source file.                           *)
(*                                                                         *)
(* A file is the sequence of what the visitors look at, in source order:   *)
(* the statements that open a block, their "end", the "finally" of a try,  *)
(* and calls.  A call statement has the dotted name f that is called, the  *)
(* arguments args, the target to it is assigned to, if any, and whether it *)
(* is awaited.  The calls nested in a statement, in its arguments or in    *)
(* the head of a block, are its inner ones, in the order of ast.walk, each *)
(* with its level below the first call there may be.  A comprehension is   *)
(* a "for" block.                                                          *)
(***************************************************************************)
EXTENDS SourceTree

VARIABLES
  code,       \* the file
  node,       \* the statement the visitor is at
  frames,     \* blocks entered: their statement and, for async with, the lock
  visited,    \* _visited_func_ids
  seenWaits,  \* _seen_wait_for_ids
  program     \* ir.Program: sync objects, ops, sites, mult, assumed

extractVars == <<code, node, frames, visited, seenWaits, program>>

CONSTRUCTOR_KIND == [Lock |-> "LOCK", Queue |-> "QUEUE", LifoQueue |-> "QUEUE",
                     PriorityQueue |-> "QUEUE", Event |-> "EVENT"]
CLEANUP_CALL_NAMES ==
  {"put_nowait", "put", "release", "cancel", "close", "discard", "set", "clear",
   "reset", "disconnect", "abort", "rollback", "shutdown", "terminate", "requeue",
   "unlock", "free", "dispose", "giveback", "recycle"}

(***************************************************************************)
(* The tree.                                                               *)
(***************************************************************************)
IsCall(c, i) == c[i].k = "call"
InnerCalls(c, i) == IF "inner" \in DOMAIN c[i] THEN c[i].inner ELSE <<>>

\* The calls of statement i, 0 is its own.
CallsOf(c, i) == (IF IsCall(c, i) THEN 0 ELSE 1)..Len(InnerCalls(c, i))
CallAt(c, i, n) ==
  IF n = 0 THEN [f |-> c[i].f, args |-> c[i].args, level |-> 0] ELSE InnerCalls(c, i)[n]

\* Calls have names, inner ones are in the order of ast.walk, and arguments that are
\* calls are among them.
WellCalled(c) ==
  \A i \in DOMAIN c :
    /\ InnerCalls(c, i) \in Seq(ToSet(InnerCalls(c, i)))
    /\ \A n \in CallsOf(c, i) :
         LET call == CallAt(c, i, n)
         IN  /\ call.f \in Seq(ToSet(call.f)) \ {None}
             /\ call.args \in Seq(ToSet(call.args))
             /\ call.level \in Nat
             /\ \A m \in CallsOf(c, i) : m <= n => CallAt(c, i, m).level <= call.level
             /\ \A arg \in ToSet(call.args) : arg.called =>
                  \E m \in CallsOf(c, i) : m > n /\ CallAt(c, i, m).f = arg.f

\* The names on the stack of ScopeTracker at statement i.
NamesAround(c, i, kind) ==
  LET B == {b \in Around(c, i) : c[b].k = kind}
      nth(j) == CHOOSE b \in B : Cardinality({a \in B : a <= b}) = j
  IN  [j \in 1..Cardinality(B) |-> c[nth(j)].name]
ClassScope(c, i) == NamesAround(c, i, "class")
FunctionScope(c, i) ==
  IF NamesAround(c, i, "def") = None THEN None
  ELSE ClassScope(c, i) \o NamesAround(c, i, "def")

(***************************************************************************)
(* The symbol table: which names are assigned a lock, queue or event.      *)
(***************************************************************************)
IsRecognizedConstructor(f) ==
  /\ Last(f) \in DOMAIN CONSTRUCTOR_KIND
  /\ Len(f) > 1 => f[Len(f) - 1] \in {"asyncio", "compat"}

TargetKey(c, i) ==
  LET short == Last(c[i].to)
  IN  IF OwnAttr(c[i].to) /\ ClassScope(c, i) # None
      THEN <<"class", ClassScope(c, i), short>>
      ELSE IF FunctionScope(c, i) # None THEN <<"function", FunctionScope(c, i), short>>
      ELSE <<"module", None, short>>

Recordable(to) == Len(to) = 1 \/ (Len(to) = 2 /\ OwnAttr(to))

Symbols(c) ==
  LET made == {i \in DOMAIN c : /\ IsCall(c, i) /\ ~c[i].await /\ Recordable(c[i].to)
                                /\ IsRecognizedConstructor(c[i].f)}
  IN  [key \in {TargetKey(c, i) : i \in made} |->
         CONSTRUCTOR_KIND[Last(c[Max({i \in made : TargetKey(c, i) = key})].f)]]

\* task_refs: what created self.attr, when that is not a constructor above.
TaskRef(c, cls, attr) ==
  LET made == {i \in DOMAIN c : /\ IsCall(c, i) /\ ~c[i].await /\ ClassScope(c, i) = cls
                                /\ c[i].to \in {<<"self", attr>>, <<"cls", attr>>}
                                /\ ~IsRecognizedConstructor(c[i].f)}
  IN  IF made = {} THEN None ELSE <<Last(c[Max(made)].f)>>

(***************************************************************************)
(* wait_for sites: what is awaited, and whether something handles it.      *)
(***************************************************************************)
WaitForsIn(c, i) ==
  {n \in CallsOf(c, i) : Last(CallAt(c, i, n).f) = "wait_for" /\ Len(CallAt(c, i, n).f) <= 2}
HasWaitFor(c, i) == WaitForsIn(c, i) # {}
IsWaitFor(c, i) == 0 \in WaitForsIn(c, i)

\* The first wait_for of statement i, and how deep in the tree it is: an await is a
\* node of its own.
WaitForCall(c, i) == CallAt(c, i, Min(WaitForsIn(c, i)))
WaitLevel(c, i) ==
  c[i].depth + (IF IsCall(c, i) /\ c[i].await THEN 1 ELSE 0) + WaitForCall(c, i).level

\* _contains_wait_for_call: the statement with the first one in walk order, if any.
FirstWaitFor(c, b) ==
  {i \in Inside(c, b) :
     HasWaitFor(c, i) /\ \A j \in Inside(c, b) : HasWaitFor(c, j) /\ j # i =>
       \/ WaitLevel(c, i) < WaitLevel(c, j)
       \/ WaitLevel(c, i) = WaitLevel(c, j) /\ i < j}

WaitForCallee(c, d, i) ==
  LET args == WaitForCall(c, i).args
      made == {j \in Inside(c, d) : IsCall(c, j) /\ ~c[j].await /\ c[j].to = args[1].f}
      last == CHOOSE j \in made : \A k \in made : k # j => WalkedBefore(c, k, j)
  IN  IF args = <<>> THEN None
      ELSE IF args[1].called THEN <<Last(args[1].f)>>
      ELSE IF Len(args[1].f) = 1 /\ made # {} THEN <<Last(c[last].f)>>
      ELSE IF Len(args[1].f) = 2 /\ OwnAttr(args[1].f)
           THEN TaskRef(c, ClassScope(c, d), Last(args[1].f))
      ELSE None

\* What is in the handlers of try block b, and in its finally.
InHandler(c, b) ==
  {i \in Inside(c, b) : \E x \in Inside(c, b) :
     /\ c[x].depth = c[b].depth + 1
     /\ \/ c[x].k = "except" /\ i \in Inside(c, x)
        \/ c[x].k = "finally" /\ i > x}

IsSuppressWith(c, b) ==
  c[b].k = "suppress" \/ (c[b].k = "async_with" /\ Last(c[b].obj) = "suppress")

TryHasCleanupHandler(c, b) ==
  \E i \in InHandler(c, b) :
    \/ IsSuppressWith(c, i)
    \/ \E n \in CallsOf(c, i) : LET f == CallAt(c, i, n).f
                               IN  Len(f) >= 2 /\ Last(f) \in CLEANUP_CALL_NAMES

FunctionHasCleanupHandler(c, d) ==
  \E b \in Inside(c, d) : \/ c[b].k = "try" /\ TryHasCleanupHandler(c, b)
                          \/ IsSuppressWith(c, b)

Funcs(c) == {d \in DOMAIN c : c[d].k = "def"}
FuncNames(c) == {c[d].name : d \in Funcs(c)}

\* all_funcs: of functions with the same name the last in walk order.
FuncNamed(c, name) ==
  CHOOSE d \in Funcs(c) : /\ c[d].name = name
                          /\ \A e \in Funcs(c) : c[e].name = name /\ e # d
                                                   => WalkedBefore(c, e, d)

\* Whatever is called in d.
CalledIn(c, d) ==
  UNION {{Last(CallAt(c, i, n).f) : n \in CallsOf(c, i)} : i \in Inside(c, d)}

CalledFuncs(c, name) == CalledIn(c, FuncNamed(c, name)) \cap FuncNames(c)

\* Mutant of ResolveChain: it stops after five calls, as MAX_HOPS says.
ResolveChainBounded(c, callee) ==
  LET handled[seen \in SUBSET FuncNames(c)] ==
        [name \in FuncNames(c) |->
           /\ name \notin seen /\ Cardinality(seen) < 5
           /\ \/ FunctionHasCleanupHandler(c, FuncNamed(c, name))
              \/ \E inner \in CalledFuncs(c, name) \ {name} : handled[seen \cup {name}][inner]]
  IN  callee \in FuncNames(c) /\ handled[{}][callee]

ResolveChain(c, callee) ==
  LET handled[seen \in SUBSET FuncNames(c)] ==
        [name \in FuncNames(c) |->
           /\ name \notin seen
           /\ \/ FunctionHasCleanupHandler(c, FuncNamed(c, name))
              \/ \E inner \in CalledFuncs(c, name) \ {name} : handled[seen \cup {name}][inner]]
  IN  callee \in FuncNames(c) /\ handled[{}][callee]

(***************************************************************************)
(* Which coroutines are spawned concurrently, and how often: once per      *)
(* call, twice in a loop, and in gather when named more than once.         *)
(***************************************************************************)
AllCalls(c) == UNION {{i} \X CallsOf(c, i) : i \in DOMAIN c}

\* Here x is call x[2] of statement x[1].
SpawnedBy(c, x, name) ==
  LET call == CallAt(c, x[1], x[2])
      spawns == {j \in DOMAIN call.args : call.args[j].called /\ Last(call.args[j].f) = name}
      inLoop == \E b \in Around(c, x[1]) \cup {x[1]} : c[b].k \in {"for", "while"}
  IN  CASE Last(call.f) \in {"create_task", "ensure_future"} /\ 1 \in spawns ->
             IF inLoop THEN 2 ELSE 1
        [] Last(call.f) = "gather" /\ Cardinality(spawns) >= 2 -> Cardinality(spawns)
        [] OTHER -> 0

SpawnTargets(c) ==
  LET count(name) == Cardinality(UNION {{x} \X (1..SpawnedBy(c, x, name)) : x \in AllCalls(c)})
      called == UNION {{Last(a.f) : a \in ToSet(CallAt(c, x[1], x[2]).args)} : x \in AllCalls(c)}
  IN  [name \in {n \in called : count(n) > 0} |-> count(name)]

(***************************************************************************)
(* The visitor.                                                            *)
(***************************************************************************)
CurrentDef ==
  frames[Max({j \in DOMAIN frames : code[frames[j].block].k = "def"})].block
CurrentCoro == code[CurrentDef].name

\* Mutant of Lookups: any class's attribute of that name will do.
LookupsByName(name) ==
  LET short == Last(name)
      keys == {key \in DOMAIN Symbols(code) : key[3] = short}
  IN  SetToSeq(keys)

\* The scopes a name is looked up in: its class, the enclosing functions from
\* the inside out, the module.  The function scope of a method starts with its
\* own bare name, not with its class.
Lookups(name) ==
  LET short == Last(name)
      outer == FunctionScope(code, CurrentDef)
      scope == Append(outer, CurrentCoro)
      cls == ClassScope(code, CurrentDef)
      functions == [j \in 1..Len(scope) |->
                      <<"function", SubSeq(scope, 1, Len(scope) + 1 - j), short>>]
  IN  (IF OwnAttr(name) /\ cls # None THEN <<<<"class", cls, short>>>> ELSE <<>>)
      \o functions \o <<<<"module", None, short>>>>

ResolveSync(name) ==
  LET keys == Lookups(name)
      found == {j \in DOMAIN keys : keys[j] \in DOMAIN Symbols(code)}
  IN  IF found = {} THEN None ELSE keys[Min(found)]

\* A resolved object is added to the program even if nothing is done to it.
WithSync(p, obj) == IF obj = None THEN p ELSE [p EXCEPT !.sync = @ \cup {obj}]

Emit(p, kind, obj, note) ==
  [p EXCEPT !.ops[CurrentCoro] =
     Append(@, [kind |-> kind, obj |-> obj, line |-> node, note |-> note])]

WithSite(p, i, handled) ==
  [p EXCEPT !.sites = Append(@, [coro |-> CurrentCoro, line |-> i, handled |-> handled,
                                 callee |-> WaitForCallee(code, CurrentDef, i)])]

Push(lock) == frames' = Append(frames, [block |-> node, lock |-> lock])

\* _visit_function_common enters the function at i.
EnterFunction(i) ==
  /\ visited' = visited \cup {i}
  /\ frames' = Append(frames, [block |-> i, lock |-> None])
  /\ node' = i + 1

\* The loop of extract() over ast.walk(tree): it skips what was visited as part
\* of an enclosing function.
VisitNextFunction ==
  /\ frames = <<>>
  /\ \E d \in Funcs(code) \ visited :
       /\ \A e \in Funcs(code) \ visited : e # d => WalkedBefore(code, d, e)
       /\ EnterFunction(d)
  /\ UNCHANGED <<code, seenWaits, program>>

At(kind) == frames # <<>> /\ code[node].k = kind

\* Mutant of VisitFunctionDef: a nested function is not marked as visited.
VisitFunctionDefUnmarked ==
  /\ At("def")
  /\ frames' = Append(frames, [block |-> node, lock |-> None])
  /\ node' = node + 1
  /\ UNCHANGED <<code, visited, seenWaits, program>>

VisitFunctionDef ==
  /\ At("def")
  /\ EnterFunction(node)
  /\ UNCHANGED <<code, seenWaits, program>>

VisitAsyncWith ==
  /\ At("async_with")
  /\ LET obj == ResolveSync(code[node].obj)
         lock == IF obj # None /\ Symbols(code)[obj] = "LOCK" THEN obj ELSE None
     IN  /\ Push(lock)
         /\ program' = IF lock = None THEN WithSync(program, obj)
                       ELSE Emit(WithSync(program, obj), "ACQUIRE", lock, None)
  /\ node' = node + 1
  /\ UNCHANGED <<code, visited, seenWaits>>

VisitWith ==
  /\ At("suppress")
  /\ LET new == FirstWaitFor(code, node) \ seenWaits
     IN  /\ seenWaits' = seenWaits \cup new
         /\ program' = IF new = {} THEN program
                       ELSE WithSite(program, CHOOSE i \in new : TRUE, TRUE)
  /\ Push(None)
  /\ node' = node + 1
  /\ UNCHANGED <<code, visited>>

\* Unlike the other two, it does not ask whether the wait_for was seen before.
VisitTry ==
  /\ At("try")
  /\ LET first == FirstWaitFor(code, node)
     IN  /\ seenWaits' = seenWaits \cup first
         /\ program' = IF first = {} THEN program
                       ELSE WithSite(program, CHOOSE i \in first : TRUE,
                                     TryHasCleanupHandler(code, node))
  /\ Push(None)
  /\ node' = node + 1
  /\ UNCHANGED <<code, visited>>

\* The operation a method is, in an async def or a plain one.
OpOf(kind, method, async) ==
  CASE kind = "LOCK" /\ method = "acquire" /\ async -> "ACQUIRE"
    [] kind = "LOCK" /\ method = "release" -> "RELEASE"
    [] kind = "QUEUE" /\ method = "get" /\ async -> "Q_GET"
    [] kind = "QUEUE" /\ method = "put_nowait" -> "Q_PUT"
    [] kind = "QUEUE" /\ method = "put" /\ async -> "Q_PUT"
    [] kind = "EVENT" /\ method = "wait" /\ async -> "EV_WAIT"
    [] kind = "EVENT" /\ method = "set" -> "EV_SET"
    [] OTHER -> "none"

\* _handle_call_expr for any call but a wait_for.
AfterCall(p) ==
  LET t == code[node]
      obj == IF Len(t.f) = 1 THEN None ELSE ResolveSync(Front(t.f))
      op == IF obj = None THEN "none"
            ELSE OpOf(Symbols(code)[obj], Last(t.f), code[CurrentDef].async)
  IN  IF obj = None
      THEN IF t.await THEN Emit(p, "GENERIC_AWAIT", None, Last(t.f)) ELSE p
      ELSE IF op = "none" THEN WithSync(p, obj) ELSE Emit(WithSync(p, obj), op, obj, None)

HandleCallExpr ==
  /\ At("call")
  /\ IF IsWaitFor(code, node) /\ code[node].await
     THEN /\ seenWaits' = seenWaits \cup {node}
          /\ program' = IF node \in seenWaits THEN program ELSE WithSite(program, node, FALSE)
     ELSE program' = AfterCall(program) /\ UNCHANGED seenWaits
  /\ node' = node + 1
  /\ UNCHANGED <<code, frames, visited>>

\* The end of a block; that of an async with releases what it acquired.
LeaveBlock ==
  /\ At("end")
  /\ program' = IF Last(frames).lock = None THEN program
                ELSE Emit(program, "RELEASE", Last(frames).lock, None)
  /\ frames' = Front(frames)
  /\ node' = node + 1
  /\ UNCHANGED <<code, visited, seenWaits>>

\* generic_visit of what no visitor is defined for.
VisitOther ==
  /\ frames # <<>>
  /\ code[node].k \in {"class", "for", "while", "if", "with", "except", "finally"}
  /\ IF code[node].k = "finally" THEN UNCHANGED frames ELSE Push(None)
  /\ node' = node + 1
  /\ UNCHANGED <<code, visited, seenWaits, program>>

Visit == \/ VisitNextFunction \/ VisitFunctionDef \/ VisitAsyncWith \/ VisitWith
         \/ VisitTry \/ HandleCallExpr \/ LeaveBlock \/ VisitOther

AllVisited == frames = <<>> /\ Funcs(code) \subseteq visited

Resolved(c, sites) ==
  [j \in DOMAIN sites |->
     [sites[j] EXCEPT !.handled = @ \/ (sites[j].callee # None
                                        /\ ResolveChain(c, Head(sites[j].callee)))]]

\* _find_coro_name_collisions, filtered to what touches a sync object or waits.
CoroNameCollisions(c, p) ==
  {name \in FuncNames(c) :
     /\ Cardinality({ClassScope(c, d) : d \in {e \in Funcs(c) : c[e].name = name}}) > 1
     /\ \/ \E j \in DOMAIN p.ops[name] : p.ops[name][j].kind # "GENERIC_AWAIT"
        \/ \E j \in DOMAIN p.sites : p.sites[j].coro = name}

EmptyProgram(c) ==
  [sync |-> {}, ops |-> [name \in FuncNames(c) |-> <<>>], sites |-> <<>>,
   mult |-> SpawnTargets(c), assumed |-> {}, collisions |-> {}]

\* extract() up to its visits.
BeginExtract(c) ==
  /\ code' = c
  /\ node' = 1
  /\ frames' = <<>>
  /\ visited' = {}
  /\ seenWaits' = {}
  /\ program' = EmptyProgram(c)

\* extract() after its visits.
EndExtract ==
  /\ AllVisited
  /\ program' = [program EXCEPT !.sites = Resolved(code, @),
                                !.collisions = CoroNameCollisions(code, program)]
  /\ UNCHANGED <<code, node, frames, visited, seenWaits>>
=============================================================================
