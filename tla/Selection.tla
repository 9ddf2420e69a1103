------------------------------ MODULE Selection ------------------------------
(***************************************************************************)
(* The elements of a list that are in a set, in their order: SelectSeq for *)
(* specifications that are reasoned about, as a recursive function.        *)
(***************************************************************************)
EXTENDS Integers, Sequences

Selected(s, T) ==
  LET sel[n \in 0..Len(s)] == IF n = 0 THEN <<>>
                              ELSE IF s[n] \in T THEN Append(sel[n - 1], s[n])
                              ELSE sel[n - 1]
  IN  sel[Len(s)]
================================================================================
