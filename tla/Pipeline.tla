------------------------------ MODULE Pipeline -------------------------------
(***************************************************************************)
(* The pipeline on a corpus: sweep_corpus.sh runs pipeline.py on one file  *)
(* after the other and collects the rows it prints; inspect_gaps.py then   *)
(* looks the gaps up in the sources.  Extractor visits a file, Encoder has *)
(* the verdicts.                                                           *)
(***************************************************************************)
EXTENDS Extractor, Encoder

CONSTANT Corpora     \* sequences of files: records with path and code

\* Each path is listed once, and each file is parsed.
ASSUME CorporaAssumption ==
  \A files \in Corpora :
    /\ files \in Seq(ToSet(files))
    /\ \A j \in DOMAIN files : DOMAIN files[j] = {"path", "code"}
    /\ \A i, j \in DOMAIN files : files[i].path = files[j].path => i = j
    /\ \A j \in DOMAIN files :
         LET c == files[j].code
         IN  /\ WellFormed(c)
             /\ WellCalled(c)
             /\ \A i \in DOMAIN c :
                  c[i].k = "async_with" => c[i].obj \in Seq(ToSet(c[i].obj)) \ {None}

VARIABLES
  corpus,    \* the files of the sweep
  assume,    \* ASSUME_PUBLIC_CONCURRENT
  done,      \* how many files are done
  stage,     \* where the run of pipeline.py on the current file is
  raised,    \* files whose run ended with an exception
  csv,       \* results.csv
  smt2,      \* names of the files in the smt2 directory
  report     \* inspect.txt: what is shown of each gap

sweepVars == <<corpus, assume, done, raised, csv, smt2, report>>
vars == <<extractVars, corpus, assume, done, stage, raised, csv, smt2, report>>

Init ==
  /\ corpus \in Corpora /\ assume \in BOOLEAN
  /\ done = 0 /\ stage = "idle" /\ raised = {} /\ csv = <<>> /\ smt2 = {} /\ report = {}
  /\ code = <<>> /\ node = 1 /\ frames = <<>> /\ visited = {} /\ seenWaits = {}
  /\ program = EmptyProgram(<<>>)

CurrentPath == corpus[done + 1].path

NextFile ==
  /\ stage = "idle" /\ done < Len(corpus)
  /\ BeginExtract(corpus[done + 1].code)
  /\ stage' = "extract"
  /\ UNCHANGED sweepVars

VisitFile == stage = "extract" /\ Visit /\ UNCHANGED <<stage, sweepVars>>

Extracted ==
  /\ stage = "extract"
  /\ EndExtract
  /\ stage' = "extracted"
  /\ UNCHANGED sweepVars

(***************************************************************************)
(* --assume-public-concurrent.                                             *)
(***************************************************************************)
SYNC_OP_KINDS == {"ACQUIRE", "Q_GET", "Q_PUT", "EV_WAIT", "EV_SET"}
MAX_HOPS == 5

OpsOf(p, name) == ToSet(p.ops[name])
TouchesSync(p, name) == \E op \in OpsOf(p, name) : op.kind \in SYNC_OP_KINDS

CalleesOf(p, name) ==
  {op.note : op \in {o \in OpsOf(p, name) : o.kind = "GENERIC_AWAIT"}} \cap DOMAIN p.ops

\* What find_sync_touching_descendant may return, one for each order in which
\* the sets of callees are iterated.
Descendants5(p) ==
  LET found[hops \in 0..(MAX_HOPS + 1)] ==
        [name \in DOMAIN p.ops |->
           CASE hops > MAX_HOPS -> {}
             [] hops <= MAX_HOPS /\ TouchesSync(p, name) -> {name}
             [] OTHER -> UNION {found[hops + 1][callee] : callee \in CalleesOf(p, name)}]
  IN  found[0]

IsPublic(c, name) == \E d \in Funcs(c) : c[d].name = name /\ c[d].public

MultOf(p, name) == IF name \in DOMAIN p.mult THEN p.mult[name] ELSE 1

\* Mutant of Assumed: what the source says is replaced too.
AssumedAnyway(p, targets) ==
  [p EXCEPT !.mult = [name \in DOMAIN @ \cup targets |-> IF name \in targets THEN 2 ELSE @[name]],
            !.assumed = targets]

Assumed(p, targets) ==
  LET new == {t \in targets : MultOf(p, t) < 2}
  IN  [p EXCEPT !.mult = [name \in DOMAIN @ \cup new |-> IF name \in new THEN 2 ELSE @[name]],
                !.assumed = new]

ApplyPublicConcurrentAssumption ==
  /\ stage = "extracted"
  /\ IF assume
     THEN LET reach == Descendants5(program)
              starts == {name \in DOMAIN reach : IsPublic(code, name) /\ reach[name] # {}}
          IN  \E target \in [starts -> DOMAIN reach] :
                /\ \A name \in starts : target[name] \in reach[name]
                /\ program' = Assumed(program, Range(target))
     ELSE UNCHANGED program
  /\ stage' = "ready"
  /\ UNCHANGED <<code, node, frames, visited, seenWaits, sweepVars>>

(***************************************************************************)
(* check_all, check_wait_for, the export and the rows.                     *)
(***************************************************************************)
WAITS == [LOCK |-> "ACQUIRE", QUEUE |-> "Q_GET", EVENT |-> "EV_WAIT"]
RELEASES == [LOCK |-> "RELEASE", QUEUE |-> "Q_PUT", EVENT |-> "EV_SET"]

\* Mutant of CountOf: every operation of a coroutine counts.
CountOfSites(p, obj, kind) ==
  MapThenSumSet(LAMBDA name : AtLeast(1, MultOf(p, name)) *
      Cardinality({op \in OpsOf(p, name) : op.obj = obj /\ op.kind = kind}), DOMAIN p.ops)

\* The coroutines with such an operation count with their multiplicity, however
\* many operations each has.
UsersOf(p, obj, kind) ==
  {name \in DOMAIN p.ops : \E op \in OpsOf(p, name) : op.obj = obj /\ op.kind = kind}
CountOf(p, obj, kind) ==
  Cardinality(UNION {{name} \X (1..AtLeast(1, MultOf(p, name))) : name \in UsersOf(p, obj, kind)})

KindOf(obj) == Symbols(code)[obj]
Waiters(obj) == CountOf(program, obj, WAITS[KindOf(obj)])
Releases(obj) == CountOf(program, obj, RELEASES[KindOf(obj)])

Verdict(satisfiable) == IF satisfiable THEN "sat" ELSE "unsat"

ObjectRow(obj) ==
  LET k == KindOf(obj)
  IN  [path |-> CurrentPath, type |-> k, name |-> obj, line |-> 0,
       naive |-> Verdict(NaiveSat(k, Waiters(obj), Releases(obj))),
       structured |-> Verdict(StructuredSat(k, Waiters(obj), Releases(obj))),
       gap |-> Gap(k, Waiters(obj), Releases(obj))]

WaitForRow(site) ==
  [path |-> CurrentPath, type |-> "wait_for", name |-> <<site.coro>>, line |-> site.line,
   naive |-> Verdict(WaitForNaiveSat),
   structured |-> Verdict(WaitForStructuredSat(site.handled)), gap |-> FALSE]

Rows == [j \in 1..Cardinality(program.sync) |-> ObjectRow(SetToSeq(program.sync)[j])]
        \o [j \in DOMAIN program.sites |-> WaitForRow(program.sites[j])]

SafeComponent(path) ==
  [j \in DOMAIN path |-> IF path[j] \in {"/", ":", " "} THEN "_" ELSE path[j]]

\* How what is exported of a source file is called: object x of class A is A.x, a local
\* of function f, which is f::x in the output, f__x.  An identifier is made of letters,
\* digits and underscores.
Dotted(scope) == FoldLeft(LAMBDA name, part : name \o "." \o part, Head(scope), Tail(scope))
ObjectFile(obj) ==
  CASE obj[1] = "class" -> Dotted(obj[2]) \o "." \o obj[3]
    [] obj[1] = "function" -> Dotted(obj[2]) \o "__" \o obj[3]
    [] obj[1] = "module" -> obj[3]
WaitForFile(coro, at) == "waitfor_" \o coro \o "_L" \o ToString(at)

\* So these names tell apart what they are of, locals of functions excepted.
ASSUME NamesAssumption ==
  \A files \in Corpora : \A j \in DOMAIN files :
    LET c == files[j].code
        objects == {obj \in DOMAIN Symbols(c) : obj[1] # "function"}
        waits == FuncNames(c) \X {i \in DOMAIN c : HasWaitFor(c, i)}
    IN  /\ \A x, y \in waits : WaitForFile(x[1], x[2]) = WaitForFile(y[1], y[2]) => x = y
        /\ \A obj1, obj2 \in objects : ObjectFile(obj1) = ObjectFile(obj2) => obj1 = obj2
        /\ \A obj \in objects, x \in waits :
             ObjectFile(obj) = WaitForFile(x[1], x[2]) => obj[1] = "module"

\* Mutant of ExportName: wait_for sites are told apart by their coroutine only.
ExportNameUnlined(row) ==
  <<SafeComponent(row.path),
    IF row.type = "wait_for" THEN "waitfor_" \o row.name[1] ELSE ObjectFile(row.name)>>

\* The path, which ends in .py, and what comes after it.
ExportName(row) ==
  <<SafeComponent(row.path),
    IF row.type = "wait_for" THEN WaitForFile(row.name[1], row.line) ELSE ObjectFile(row.name)>>

\* An exception in one check ends pipeline.py before it has printed a row, and
\* the sweep goes on with the next file.
CheckRaises ==
  /\ stage = "ready"
  /\ \E obj \in program.sync : RaisesException(KindOf(obj), Waiters(obj))
  /\ raised' = raised \cup {done + 1}
  /\ done' = done + 1
  /\ stage' = "idle"
  /\ UNCHANGED <<extractVars, corpus, assume, csv, smt2, report>>

CheckAndExport ==
  /\ stage = "ready"
  /\ \A obj \in program.sync : ~RaisesException(KindOf(obj), Waiters(obj))
  /\ csv' = csv \o Rows
  /\ smt2' = smt2 \cup {ExportName(row) : row \in ToSet(Rows)}
  /\ done' = done + 1
  /\ stage' = "idle"
  /\ UNCHANGED <<extractVars, corpus, assume, raised, report>>

(***************************************************************************)
(* inspect_gaps.py.                                                        *)
(***************************************************************************)
CodeOf(path) == corpus[CHOOSE j \in DOMAIN corpus : corpus[j].path = path].code

Mentions(c, i, bare) ==
  \/ c[i].k = "async_with" /\ bare \in ToSet(c[i].obj)
  \/ IsCall(c, i) /\ bare \in ToSet(c[i].to)
  \/ \E n \in CallsOf(c, i) :
       LET call == CallAt(c, i, n)
       IN  bare \in ToSet(call.f) \cup UNION {ToSet(a.f) : a \in ToSet(call.args)}

TargetScope(obj) == obj[2]

\* Mutant of BareName: the name that is printed, which no source line contains.
QualifiedName(obj) == IF obj[1] = "module" THEN obj[3] ELSE "scope." \o obj[3]

BareName(obj) == obj[3]

\* "DIFFERENT SCOPE": the class around the line is not the object's scope.
ForeignHit(c, i, obj) == TargetScope(obj) # None /\ ClassScope(c, i) # TargetScope(obj)

Shown(row) ==
  LET c == CodeOf(row.path)
      hits == {i \in DOMAIN c : Mentions(c, i, BareName(row.name))}
      made == {i \in hits : IsCall(c, i) /\ c[i].to # None /\ c[i].f[1] = "asyncio"}
  IN  [path |-> row.path, name |-> row.name, hits |-> hits,
       foreign |-> {i \in hits : ForeignHit(c, i, row.name)},
       conflated |-> Cardinality({ClassScope(c, i) : i \in made}) > 1]

InspectGaps ==
  /\ stage = "idle" /\ done = Len(corpus)
  /\ report' = {Shown(row) : row \in {r \in ToSet(csv) : r.gap}}
  /\ stage' = "inspected"
  /\ UNCHANGED <<extractVars, corpus, assume, done, raised, csv, smt2>>

Finished == stage = "inspected" /\ UNCHANGED vars

Next ==
  \/ NextFile \/ VisitFile \/ Extracted \/ ApplyPublicConcurrentAssumption
  \/ CheckRaises \/ CheckAndExport \/ InspectGaps \/ Finished

Spec == Init /\ [][Next]_vars

(***************************************************************************)
(* Properties.                                                             *)
(***************************************************************************)
\* Every statement is visited once: a function nested in another is reached by
\* the visit of the outer one and by the loop over all functions, and counts
\* only once (README_pipeline.md:58); no two operations come from one line.
EachCallOnce ==
  \A f, g \in DOMAIN program.ops : \A i \in DOMAIN program.ops[f], j \in DOMAIN program.ops[g] :
    program.ops[f][i].line = program.ops[g][j].line => f = g /\ i = j

DefAround(c, i) == Innermost(c, i, {"def"})

\* An object of function d: an attribute of its class, a local of d or of a function
\* around it, or of the module.
OwnObject(obj, d) ==
  CASE obj[1] = "class" -> obj[2] = ClassScope(code, d)
    [] obj[1] = "function" -> IsPrefix(obj[2], Append(FunctionScope(code, d), code[d].name))
    [] obj[1] = "module" -> obj[2] = None

\* An operation is put down to the coroutine it is in, and to the attribute of its
\* own class or to a local of an enclosing function, never to its namesake
\* elsewhere; with one exception: a method's function scope begins with its bare
\* name, so it is taken for inside the free function of the same name.  Operations of
\* methods of several classes may come together under one name, and are reported.
ScopesKeptApart ==
  /\ \A name \in DOMAIN program.ops : \A op \in OpsOf(program, name) :
       LET d == DefAround(code, op.line)
       IN  code[d].name = name /\ (op.obj # None => OwnObject(op.obj, d))
  /\ stage = "extracted" => \A name \in DOMAIN program.ops :
       \A op1, op2 \in {op \in OpsOf(program, name) : op.obj # None} :
         ClassScope(code, DefAround(code, op1.line)) # ClassScope(code, DefAround(code, op2.line))
           => name \in program.collisions

\* Function f and what is called from it, directly or not: what is in every set of
\* functions that f is in and no call leads out of.
CalledFrom(c, f) ==
  LET calls == [g \in FuncNames(c) |-> CalledFuncs(c, g)]
      closed == {S \in SUBSET FuncNames(c) : f \in S /\ \A g \in S : calls[g] \subseteq S}
  IN  {g \in FuncNames(c) : \A S \in closed : g \in S}

HandlerReachable(callee) ==
  /\ callee # None /\ Head(callee) \in FuncNames(code)
  /\ \E g \in CalledFrom(code, Head(callee)) :
       FunctionHasCleanupHandler(code, FuncNamed(code, g))

\* A site that nothing handles on the spot counts as handled exactly if a function
\* with a handler can be reached from what it awaits, however long the chain of
\* calls is and through whatever cycles (extractor.py:793-802 limits it to 5).
ChainIsReachability ==
  stage = "extracted" => \A j \in DOMAIN program.sites :
    LET site == program.sites[j]
    IN  /\ HandlerReachable(site.callee) => site.handled
        /\ site.handled => \/ HandlerReachable(site.callee)
                           \/ \E b \in Around(code, site.line) :
                                \/ code[b].k = "suppress"
                                \/ code[b].k = "try" /\ TryHasCleanupHandler(code, b)

LastDone == corpus[done]
LastRows == {j \in DOMAIN csv : csv[j].path = LastDone.path}

\* A lock or queue is reported as a gap exactly if two tasks can want it: two
\* coroutines use it, or one that is spawned twice or assumed to be; several uses
\* in one coroutine exclude each other (encoder.py:50-57).  An event is one
\* exactly if it is waited for and set in the file.
GapIffContended ==
  stage = "idle" /\ done > 0 =>
    \A row \in ToSet(csv) : row.path = LastDone.path /\ row.type # "wait_for" =>
    LET users(kind) == UsersOf(program, row.name, kind)
        spawnedTwice(name) ==
          \E x, y \in AllCalls(code) :
             /\ SpawnedBy(code, x, name) > 0 /\ SpawnedBy(code, y, name) > 0
             /\ (x # y \/ SpawnedBy(code, x, name) > 1)
    IN  row.gap <=>
          IF row.type = "EVENT" THEN users("EV_WAIT") # {} /\ users("EV_SET") # {}
          ELSE \/ Cardinality(users(WAITS[row.type])) > 1
               \/ \E name \in users(WAITS[row.type]) :
                    name \in program.assumed \/ spawnedTwice(name)

\* What a public coroutine calls in at most five awaits.
CalledByPublic(c, p) ==
  LET within[awaits \in 0..5] ==
        IF awaits = 0 THEN {name \in DOMAIN p.ops : IsPublic(c, name)}
        ELSE within[awaits - 1] \cup UNION {CalleesOf(p, f) : f \in within[awaits - 1]}
  IN  within[5]

\* What is assumed is kept apart from what the source shows (pipeline.py:35-40):
\* no multiplicity found in the source changes, an assumed one is 2, and belongs
\* to a coroutine that touches an object and is called, in at most five awaits,
\* by a public one.
AssumedIsApart ==
  stage = "ready" =>
    LET found == SpawnTargets(code)
    IN  /\ \A name \in DOMAIN found : found[name] >= 2 =>
             program.mult[name] = found[name] /\ name \notin program.assumed
        /\ \A name \in program.assumed :
             /\ program.mult[name] = 2 /\ TouchesSync(program, name)
             /\ name \in CalledByPublic(code, program)

\* The statements that record the wait_for w, once each: every try around it whose first
\* wait_for it is, a suppress of that kind that is around all of these, and w itself if
\* there is none of them and it is awaited.  What is in no function is not visited.
Recorders(c, w) ==
  LET first == {b \in Around(c, w) : /\ c[b].k \in {"try", "suppress"} /\ DefAround(c, b) # 0
                                     /\ w \in FirstWaitFor(c, b)}
      alone == first = {} /\ c[w].await /\ DefAround(c, w) # 0
  IN  {b \in first : c[b].k = "try" \/ \A a \in first : b <= a}
      \cup (IF IsWaitFor(c, w) /\ alone THEN {w} ELSE {})

\* Two rows of one file may share an exported file: those of a wait_for that one coroutine
\* records twice, those of an object local to a function and of any other object or
\* wait_for (f::x and f__x), and those of a wait_for and an object of the module.
MayShare(row1, row2) ==
  \/ row1.type = "wait_for" /\ row2.type = "wait_for" /\ row1.name = row2.name /\ row1.line = row2.line
  \/ \E row \in {row1, row2} : row.type # "wait_for" /\ row.name[1] = "function"
  \/ /\ \E row \in {row1, row2} : row.type = "wait_for"
     /\ \E row \in {row1, row2} : row.type # "wait_for" /\ row.name[1] = "module"

\* A file has one row for every object and one for every statement that records a
\* wait_for, so that one in nested tries has several.  What is exported for it is each
\* object, and each wait_for in each coroutine that it is recorded in, unless another
\* file's name is written the same way; and no two rows overwrite each other's export,
\* except for those above.  Or the file has nothing of this at all, and that exactly if
\* a lock or queue is never waited for.
RowsAccounted ==
  stage = "idle" /\ done > 0 =>
    LET idle(obj) == KindOf(obj) # "EVENT" /\ \A name \in DOMAIN program.ops :
                       \A op \in OpsOf(program, name) : op.obj = obj => op.kind # WAITS[KindOf(obj)]
        waits == {w \in DOMAIN code : Recorders(code, w) # {}}
        by(w) == {<<code[DefAround(code, b)].name, w>> : b \in Recorders(code, w)}
        recorded == UNION {by(w) : w \in waits}
        safe == SafeComponent(LastDone.path)
        exported == {e \in smt2 : e[1] = safe}
        namesake == \E j \in 1..(done - 1) : SafeComponent(corpus[j].path) = safe
    IN  IF \E obj \in program.sync : idle(obj)
        THEN LastRows = {} /\ (namesake \/ exported = {})
        ELSE /\ \A j \in LastRows : \/ csv[j].type = "wait_for" /\ csv[j].line \in waits
                                    \/ csv[j].type # "wait_for" /\ csv[j].name \in program.sync
             /\ \A obj \in program.sync :
                  Cardinality({j \in LastRows : csv[j].type # "wait_for" /\ csv[j].name = obj}) = 1
             /\ \A w \in waits :
                  Cardinality({j \in LastRows : csv[j].type = "wait_for" /\ csv[j].line = w})
                    = Cardinality(Recorders(code, w))
             /\ namesake \/ exported = {<<safe, ObjectFile(obj)>> : obj \in program.sync}
                                         \cup {<<safe, WaitForFile(x[1], x[2])>> : x \in recorded}
             /\ \A j, l \in LastRows :
                  j # l /\ ExportName(csv[j]) = ExportName(csv[l]) => MayShare(csv[j], csv[l])

\* The report shows every line where the object of a gap was used.  It shows a line as
\* the object's own if that is an attribute, and no class inside of a function is in
\* between; if it is local to a function, then all of its lines are said to belong to
\* something else (inspect_gaps.py:153), unless a class is called like a function.
InspectShowsUses ==
  stage = "inspected" /\ done > 0 => \A shown \in report : shown.path = LastDone.path =>
    LET uses == {i \in DOMAIN code : code[i].k # "end" /\ \E name \in DOMAIN program.ops :
                   \E op \in OpsOf(program, name) : op.line = i /\ op.obj = shown.name}
        classOf(i) == Innermost(code, i, {"class"})
    IN  /\ uses \subseteq shown.hits
        /\ CASE shown.name[1] = "module" -> uses \cap shown.foreign = {}
             [] shown.name[1] = "class" ->
                  uses \cap shown.foreign = {i \in uses : classOf(i) > DefAround(code, i)}
             [] shown.name[1] = "function" ->
                  \A i \in uses \ shown.foreign :
                    classOf(i) # 0 /\ code[classOf(i)].name \in FuncNames(code)

\* "One CSV row per sync-object check and per wait_for site, across every
\* repo/file found" (README_pipeline.md:125).
RowPerObject ==
  stage = "idle" /\ done > 0 =>
    \A obj \in program.sync : \E j \in LastRows : csv[j].name = obj
=============================================================================
