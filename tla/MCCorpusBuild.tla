---------------------------- MODULE MCCorpusBuild ----------------------------
(* Small repositories for CorpusBuild: which statements use a name, in which *)
(* scopes and under which guards.                                            *)
EXTENDS CorpusBuild

Plain == [k |-> "use", depth |-> 0, name |-> "", async |-> FALSE, params |-> {},
          to |-> None, from |-> None, f |-> None, test |-> {}]
Stmt(k, to) == <<[Plain EXCEPT !.k = k, !.to = to]>>
Read(e) == <<[Plain EXCEPT !.from = e]>>
Call(f) == <<[Plain EXCEPT !.f = f]>>
Import(name) == <<[Plain EXCEPT !.k = "import", !.name = name]>>
Global(name) == <<[Plain EXCEPT !.k = "global", !.name = name]>>
Cond(k, e) == <<[Plain EXCEPT !.k = k, !.test = {e}]>>
Around_(head, body) == <<head>> \o [j \in DOMAIN body |-> [body[j] EXCEPT !.depth = @ + 1]]
If(k, e, body) == Around_([Plain EXCEPT !.k = k, !.test = {e}], body)
With(ctx, as, body) == Around_([Plain EXCEPT !.k = "with", !.from = ctx, !.to = as], body)
WithCall(f, as, body) == Around_([Plain EXCEPT !.k = "with", !.f = f, !.to = as], body)
Class(body) == Around_([Plain EXCEPT !.k = "class", !.name = "A"], body)
Def(name, async, params, body) ==
  Around_([Plain EXCEPT !.k = "def", !.name = name, !.async = async, !.params = params], body)

X == <<"self", "x">>
Y == <<"y">>
Items == <<"items">>

(* Everything that can be done to a name. *)
Uses(e) ==
  {Read(e), Call(Append(e, "append")), Call(Append(e, "pop")), Call(Append(e, "show")),
   With(e, None, Read(e)), WithCall(Append(e, "acquire"), None, Read(e)),
   With(<<"self", "lock">>, None, Stmt("bind", e)), WithCall(<<"Lock">>, e, Read(e)),
   If("if", e, Stmt("augn", e)), Cond("comp", e), Stmt("bind", Append(e, "part"))}
  \cup {Stmt(k, e) : k \in {"bind", "setitem", "aug", "augn", "del", "delitem", "for"}}
Conditions(e) == {Read(e), If("if", e, <<>>), If("while", e, <<>>), Cond("cond", e)}

Method(body) == Class(Def("f", TRUE, {"self"}, body))
ModuleVariable(name) == Stmt("bind", <<name>>)

(* An attribute: used, and read in a condition in another file. *)
AttributeRepos ==
  {<<[where |-> "source", code |-> Method(use)], [where |-> w, code |-> Method(test)]>> :
     use \in Uses(X), test \in Conditions(X), w \in {"source", "excluded"}}
  \cup {<<[where |-> "source", code |-> Method(use)],
          [where |-> "source", code |-> Method(test1 \o test2)]>> :
          use \in {Stmt("bind", X)}, test1, test2 \in Conditions(X)}
  \cup {<<[where |-> "tests", code |-> Method(Stmt("bind", X))],
          [where |-> "source", code |-> Method(Stmt("setitem", X))]>>}

(* A variable of the module, with declarations, locals and namesakes. *)
GlobalRepos ==
  {<<[where |-> "source",
      code |-> Import("os") \o ModuleVariable(e[1])
               \o Def("f", TRUE, {}, declared \o use)
               \o Def("g", TRUE, params, Read(e) \o test \o Read(<<"os">>))]>> :
     declared \in {<<>>, Global("y")}, use \in Uses(Y), params \in {{}, {"y"}},
     test \in {Read(Y), If("if", Y, <<>>)}, e \in {Y}}
  \cup {<<[where |-> "source",
           code |-> ModuleVariable("items") \o ModuleVariable("id")
                    \o Def("f", TRUE, {}, use \o test \o Stmt("setitem", <<"id">>) \o Read(<<"id">>))]>> :
          use \in {Call(<<"items", "pop">>), Call(<<"items", "append">>)},
          test \in Conditions(Items)}

(* A variable of an enclosing function, async or not. *)
ClosureRepos ==
  {<<[where |-> "source",
      code |-> top \o Def("outer", async, params, Stmt("bind", Y)
                          \o Def("f", TRUE, {}, use) \o Def("g", TRUE, {}, Read(Y)))]>> :
     top \in {<<>>, ModuleVariable("y")}, async \in BOOLEAN, params \in {{}, {"y"}},
     use \in Uses(Y)}
  \cup {<<[where |-> "source",
           code |-> Def("outer", TRUE, {}, Stmt("bind", Y) \o Def("g", TRUE, {}, Read(Y)))],
          [where |-> "source",
           code |-> Def("outer", async, {}, Stmt("bind", Y) \o Def("f", TRUE, {}, use))]>> :
          async \in BOOLEAN, use \in Uses(Y)}

\* A variable of one module, and a namesake in another: imported, not bound on the
\* module's level, the name of a function around, or bound in a class.
NamesakeRepos ==
  {<<[where |-> "source", code |-> ModuleVariable("y") \o Def("g", TRUE, {}, Read(Y))],
     [where |-> "source", code |-> file]>> :
     file \in {Import("y") \o Def("f", TRUE, {}, use) : use \in {Stmt("setitem", Y), Read(Y)}}
              \cup {Def("f", TRUE, {}, Stmt("setitem", Y)),
                    Def("y", FALSE, {}, Def("f", TRUE, {}, Stmt("setitem", Y))),
                    ModuleVariable("y") \o Def("outer", TRUE, {}, Class(Stmt("bind", Y))
                                              \o Def("f", TRUE, {}, Stmt("setitem", Y)))}}

Queue == <<"self", "queue">>
QueueRepo == <<[where |-> "source", code |-> Method(Call(Append(Queue, "get")) \o Read(Queue))]>>
EmptyRepo == <<[where |-> "source", code |-> Import("os")]>>

MCWorlds ==
  {[a |-> repo] : repo \in AttributeRepos \cup GlobalRepos \cup ClosureRepos \cup NamesakeRepos}
  \cup {[a |-> repo, b |-> QueueRepo, e |-> EmptyRepo] :
          repo \in {<<[where |-> "source", code |-> Method(use)]>> : use \in {Read(X), Stmt("bind", X)}}}

MCLockHinted == {"lock", "Lock"}
MCSyncHinted == {"lock", "Lock", "queue", "Queue"}
=============================================================================
