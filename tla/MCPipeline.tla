----------------------------- MODULE MCPipeline ------------------------------
(* Small source files for Pipeline, put together from the shapes that the   *)
(* extractor tells apart.                                                   *)
EXTENDS Pipeline

End == <<[k |-> "end", depth |-> 0]>>
Deeper(body) == [j \in DOMAIN body |-> [body[j] EXCEPT !.depth = @ + 1]]
Block(kind, body) == <<[k |-> kind, depth |-> 0]>> \o Deeper(body) \o End
Class(name, body) == <<[k |-> "class", name |-> name, depth |-> 0]>> \o Deeper(body) \o End

Private ==
  {"_step", "_get", "_more", "_open", "_1", "_2", "_3", "_4", "_5", "_6", "_7"}
Function(name, body, async) ==
  <<[k |-> "def", name |-> name, async |-> async, depth |-> 0, public |-> name \notin Private]>>
  \o Deeper(body) \o End
Def(name, body) == Function(name, body, TRUE)
PlainDef(name, body) == Function(name, body, FALSE)

Try(body, handler) == Block("try", body \o Block("except", handler))
Finally(body, handler) == Block("try", body \o <<[k |-> "finally", depth |-> 0]>> \o handler)
With(obj) == <<[k |-> "async_with", obj |-> obj, depth |-> 0]>> \o End

\* The calls in arguments, and those in the head of a block.
Nested(args) ==
  LET called == SelectSeq(args, LAMBDA a : a.called)
  IN  [j \in DOMAIN called |-> [f |-> called[j].f, args |-> <<>>, level |-> 1]]
Calling(to, f, args, await) ==
  <<[k |-> "call", to |-> to, f |-> f, args |-> args, await |-> await,
     inner |-> Nested(args), depth |-> 0]>>
Inner(call, level) ==
  <<[f |-> call.f, args |-> call.args, level |-> level]>>
  \o [j \in DOMAIN call.inner |-> [call.inner[j] EXCEPT !.level = @ + level]]
Passed(to, f, call, await) ==
  [Calling(to, f, <<[called |-> TRUE, f |-> call.f]>>, await) EXCEPT ![1].inner = Inner(call, 1)]
BlockOn(kind, call, body) ==
  [Block(kind, body) EXCEPT ![1] = @ @@ [inner |-> Inner(call, IF call.await THEN 1 ELSE 0)]]
WithCall(f) ==
  <<[k |-> "async_with", obj |-> f, inner |-> Inner(Calling(None, f, <<>>, FALSE)[1], 1),
     depth |-> 0]>> \o End
Await(f) == Calling(None, f, <<>>, TRUE)
Do(f) == Calling(None, f, <<>>, FALSE)
Make(to, kind) == Calling(to, <<"asyncio", kind>>, <<>>, FALSE)
ACall(f) == [called |-> TRUE, f |-> f]
ARef(f) == [called |-> FALSE, f |-> f]
WaitFor(arg) == Calling(None, <<"asyncio", "wait_for">>, <<arg>>, TRUE)
Spawn(f) == Calling(None, <<"asyncio", "create_task">>, <<ACall(<<f>>)>>, FALSE)
Gather(f) == Calling(None, <<"asyncio", "gather">>, <<ACall(<<f>>), ACall(<<f>>)>>, TRUE)

(* Two classes, a module-level object and who spawns what. *)
X == <<"self", "x">>
UsesOf(kind) ==
  CASE kind = "Lock" -> {With(X), Await(X \o <<"acquire">>) \o Do(X \o <<"release">>),
                         With(X) \o With(X), Do(X \o <<"release">>),
                         Calling(<<"y">>, X \o <<"locked">>, <<>>, FALSE)}
    [] kind = "Queue" -> {Await(X \o <<"get">>), Do(X \o <<"put_nowait">>),
                          WaitFor(ACall(X \o <<"get">>))}
    [] kind = "Event" -> {Await(X \o <<"wait">>), Do(X \o <<"set">>)}

Init_(kind) == PlainDef("__init__", Make(X, kind))
Optional(b, s) == IF b THEN s ELSE <<>>
Spawns == {<<>>, Block("for", Spawn("run")), Gather("run"), Spawn("run")}

ObjectFiles ==
  UNION {{Optional(m, Make(<<"x">>, kind))
          \o Class("A", Init_(kind) \o Def("run", u1))
          \o Class("B", Optional(b, Init_(kind)) \o Def(name, u2))
          \o Def("main", s) :
            m \in BOOLEAN, b \in BOOLEAN, name \in {"run", "_step"},
            u1 \in UsesOf(kind), u2 \in UsesOf(kind), s \in Spawns} :
         kind \in {"Lock", "Queue", "Event"}}

(* One wait_for, in and around handlers, on all kinds of awaitables. *)
Cleanup == Do(<<"self", "pool", "release">>)
Logging == Do(<<"log", "warn">>)
Shapes(w) ==
  {w, Block("suppress", w), Try(w, Block("suppress", <<>>)), Def("inner", w),
   Try(Def("inner", w), Cleanup), Try(Logging, w), Try(w \o w, Cleanup),
   Block("suppress", Try(w, Logging)), Try(Def("inner", Try(w, Cleanup)), Logging)}
  \cup {Try(w, h) : h \in {Cleanup, Logging}}
  \cup {Try(Try(w, h1), h2) : h1, h2 \in {Cleanup, Logging}}
  \cup {Try(Block("suppress", w), h) : h \in {Cleanup, Logging}}
Awaited == {ACall(<<"_get">>), ACall(<<"self", "_get">>), ARef(<<"t">>), ARef(<<"self", "t">>)}
Getters == {<<>>, Def("_get", Logging), Def("_get", Try(Logging, Cleanup)),
            Def("_get", Await(<<"_more">>)) \o Def("_more", Await(<<"_get">>)),
            Def("_get", Await(<<"_more">>)) \o Def("_more", Try(Logging, Cleanup) \o Await(<<"_get">>))}
WaitFiles ==
  UNION {{Class("A", PlainDef("__init__", Calling(X, <<"self", "_get">>, <<>>, FALSE)
                                          \o Calling(<<"self", "t">>, <<"_get">>, <<>>, FALSE))
                     \o Def("run", Calling(<<"t">>, <<"_get">>, <<>>, FALSE) \o body))
          \o g : body \in Shapes(WaitFor(arg)), g \in Getters} : arg \in Awaited}

(* The same in a try of the module, which no visitor enters, awaited and not. *)
Timed(await) == Calling(None, <<"asyncio", "wait_for">>, <<ACall(<<"_get">>)>>, await)

(* Of two in one block, the first in the order of the tree: nested in arguments, in *)
(* the head of a block, in a handler, in a nested function.                         *)
Waits ==
  UNION {{Timed(a), Passed(None, <<"log">>, Timed(a)[1], FALSE),
          Passed(<<"y">>, <<"asyncio", "wait_for">>, Timed(a)[1], TRUE),
          BlockOn("if", Timed(a)[1], Logging), BlockOn("while", Timed(a)[1], <<>>),
          Block("with", Timed(a)), Def("inner", Timed(a)),
          Do(<<"self", "condition", "wait_for">>)} : a \in BOOLEAN}
PairFiles ==
  UNION {{Def("run", Block("suppress", w1 \o w2)), Def("run", Try(w1 \o w2, Cleanup)),
          Def("run", Try(w1, w2) \o Def("_get", Logging))} : w1, w2 \in Waits}

(* What a handler is. *)
SuppressAsync == WithCall(<<"contextlib", "suppress">>)
Handlers ==
  {Finally(Logging, Cleanup), Finally(Cleanup, Logging), Try(Logging, SuppressAsync), SuppressAsync,
   Try(Logging, Passed(None, <<"log">>, Cleanup[1], FALSE)), Try(Logging, Do(<<"release">>)),
   Try(Cleanup, Try(Logging, Logging)), Try(Logging, Block("if", Finally(Logging, Cleanup))),
   Try(Logging, Logging) \o Cleanup, Block("try", Block("except", Logging) \o Cleanup),
   Block("try", Block("except", Logging) \o Block("except", Cleanup)),
   WithCall(<<"self", "_open">>) \o Def("_open", SuppressAsync),
   Passed(None, <<"log">>, Do(<<"self", "_open">>)[1], FALSE) \o Def("_open", Try(Logging, Cleanup))}
HandlerFiles ==
  {Def("_get", h) \o Def("run", WaitFor(ACall(<<"_get">>))) : h \in Handlers}
  \cup {Def("run", Try(WaitFor(ACall(<<"_get">>)), h) \o Finally(WaitFor(ARef(<<"t">>)), h)) : h \in Handlers}

(* Which of two assignments an awaited name is taken for. *)
Assign(to, await) == {Calling(to, <<f>>, <<>>, await) : f \in {"_get", "_more"}}
AssignFiles ==
  UNION {{Class("A", Def("run", Block("if", a1) \o a2 \o WaitFor(ARef(to)))
                     \o Def("_get", Try(Logging, Cleanup)) \o Def("_more", Logging)) :
            a1 \in UNION {Assign(to, a) : a \in BOOLEAN},
            a2 \in UNION {Assign(to, a) : a \in BOOLEAN}} :
         to \in {<<"t">>, <<"self", "t">>, <<"self", "t", "u">>}}
TopTryFiles ==
  {Try(Def("run", body), Cleanup) :
     body \in UNION {Shapes(Timed(a)) \cup {Block("suppress", Timed(TRUE) \o Timed(a))} : a \in BOOLEAN}}

(* A chain of calls longer than five. *)
Links == <<"_1", "_2", "_3", "_4", "_5", "_6", "_7">>
RECURSIVE ChainFrom(_, _, _)
ChainFrom(j, n, tail) ==
  IF j = n THEN Def(Links[n], tail)
  ELSE Def(Links[j], Await(<<Links[j + 1]>>)) \o ChainFrom(j + 1, n, tail)
ChainFiles ==
  {Make(<<"x">>, "Lock") \o Def("p", Await(<<"_1">>)) \o Def("main", WaitFor(ACall(<<"_1">>)))
   \o ChainFrom(1, n, tail) :
     n \in 1..7, tail \in {With(<<"x">>), Await(<<"_1">>), Try(With(<<"x">>), Cleanup),
                           Try(Logging, Cleanup)}}

(* Locals, closures and namesakes. *)
Local == Make(<<"x">>, "Lock")
ClosureFiles ==
  {Optional(m, Local)
   \o Class("A", Def("run", Optional(l, Local) \o u \o Def("inner", With(<<"x">>))))
   \o Def(name, Optional(f, Local) \o With(<<"x">>) \o Def("inner", With(<<"x">>))) \o s :
     m, l, f \in BOOLEAN, u \in {With(<<"x">>), Logging}, name \in {"run", "p"},
     s \in {<<>>, Def("main", Spawn("inner") \o Gather("run"))}}

(* A class inside of a method, and a class that is called like a function. *)
LocalEvent == Await(<<"x", "wait">>) \o Do(<<"x", "set">>)
NestedFiles ==
  {Class("A", Init_("Event") \o Def("run", Await(X \o <<"wait">>) \o Class(name, Do(X \o <<"set">>)))) :
     name \in {"A", "B"}}
  \cup {PlainDef(name, Make(<<"x">>, "Event") \o Def("inner", LocalEvent))
         \o Class("f", Def("run", Def("inner", LocalEvent))) : name \in {"f", "g"}}

(* A public coroutine that awaits two that use a lock. *)
ForkFiles ==
  {Make(<<"x">>, "Lock") \o Def("p", Await(<<"_1">>) \o Await(<<"_2">>))
   \o Def("_1", u1) \o Def("_2", u2) \o s :
     u1, u2 \in {With(<<"x">>), Await(<<"_2">>), Await(<<"_1">>)},
     s \in {<<>>, Def("main", Block("for", Spawn("_2"))), Def("main", Gather("_1"))}}

(* Spawns in arguments, in the head of a loop and under a while. *)
SpawnFiles ==
  {Make(<<"x">>, "Lock") \o Def("run", With(<<"x">>)) \o Def("main", s) :
     s \in {BlockOn("for", Spawn("run")[1], <<>>), Block("while", Spawn("run")),
            BlockOn("if", Spawn("run")[1], <<>>), Passed(None, <<"keep">>, Spawn("run")[1], FALSE),
            Passed(None, <<"asyncio", "create_task">>, Gather("run")[1], FALSE),
            Passed(None, <<"keep">>, Spawn("run")[1], FALSE) \o Spawn("run")}}

(* Names that are written alike. *)
NameFiles ==
  {Make(<<other>>, "Lock")
   \o PlainDef("f", Make(<<"x">>, "Lock") \o Def("run", With(<<"x">>) \o With(<<other>>) \o w \o w))
   \o Class("A", Init_("Lock") \o Def("run", With(X))) :
     other \in {"f__x", "waitfor_run_L9", "x"}, w \in {Timed(TRUE), Try(Timed(TRUE), Logging)}}

File(path, c) == [path |-> path, code |-> c]
LostFile == Make(<<"x">>, "Queue") \o Def("run", Do(<<"x", "put_nowait">>))

MCCorpora ==
  {<<File(<<"a", "/", "b">>, c)>> :
     c \in ObjectFiles \cup WaitFiles \cup TopTryFiles \cup ChainFiles \cup ClosureFiles
           \cup ForkFiles \cup NestedFiles \cup PairFiles \cup HandlerFiles \cup AssignFiles
           \cup SpawnFiles \cup NameFiles}
  \cup {<<File(<<"a">>, LostFile), File(<<"b">>, c)>> : c \in ChainFiles}
  \cup {<<File(<<"b">>, c), File(<<"a">>, LostFile)>> : c \in ForkFiles}
  \cup {<<File(<<"a", s, "b">>, c), File(<<"a", "_", "b">>, d)>> :
           s \in {"/", ":"},
           c, d \in {Make(<<"x">>, "Lock") \o Def("p", With(<<"x">>)), LostFile}}
=============================================================================
