------------------------------ MODULE Selection ------------------------------
(* SelectSeq for membership in a set, as a recursive function: TLAPS can    *)
(* unfold this one.                                                         *)
EXTENDS Naturals, Sequences

\* The members of s that are in S, in their order.
SelectIn(s, S) ==
  LET sel[n \in 0..Len(s)] ==
        IF n = 0 THEN <<>>
        ELSE IF s[n] \in S THEN Append(sel[n - 1], s[n]) ELSE sel[n - 1]
  IN  sel[Len(s)]
=============================================================================
