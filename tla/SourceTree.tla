----------------------------- MODULE SourceTree ------------------------------
(***************************************************************************)
(* Python sources, as the analyses of the repository walk them: the        *)
(* sequence of the statements of a file in source order, each with its     *)
(* depth in the syntax tree.  A statement whose kind k is in Blocks has    *)
(* the deeper ones after it inside.  In a try these are its body, then an  *)
(* "except" block for each handler, and what comes after "finally".  The   *)
(* index of a statement is its line and the identity of its node.  A       *)
(* dotted name is a sequence of names.                                     *)
(***************************************************************************)
EXTENDS Integers, Sequences, FiniteSets, SequencesExt, FiniteSetsExt

None == <<>>
Blocks ==
  {"class", "def", "async_with", "suppress", "try", "except", "with", "if", "while", "for"}

IsBlock(c, i) == c[i].k \in Blocks

\* The depth of what may follow statement i.
DepthAfter(c, i) ==
  IF i = 0 THEN 0 ELSE IF IsBlock(c, i) THEN c[i].depth + 1 ELSE c[i].depth

\* A parsed file: every block has an "end" of its own depth behind what is in it.
WellFormed(c) ==
  /\ c \in Seq(ToSet(c))
  /\ \A i \in DOMAIN c :
       /\ c[i].depth \in Nat
       /\ DepthAfter(c, i - 1) = c[i].depth + (IF c[i].k = "end" THEN 1 ELSE 0)
  /\ DepthAfter(c, Len(c)) = 0

Inside(c, b) ==
  {i \in (b + 1)..Len(c) : \A j \in (b + 1)..i : c[j].depth > c[b].depth}
Around(c, i) ==
  {b \in 1..(i - 1) : IsBlock(c, b) /\ \A j \in (b + 1)..i : c[j].depth > c[b].depth}

\* The order in which ast.walk comes to two statements, breadth first.
WalkedBefore(c, i, j) ==
  c[i].depth < c[j].depth \/ (c[i].depth = c[j].depth /\ i < j)

\* The innermost block of one of the kinds around statement i, 0 if there is none.
Innermost(c, i, kinds) == Max({b \in Around(c, i) : c[b].k \in kinds} \cup {0})

\* self.x, cls.x and what hangs on them.
OwnAttr(name) == Len(name) >= 2 /\ name[1] \in {"self", "cls"}
=============================================================================
