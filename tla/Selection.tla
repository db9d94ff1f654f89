----------------------------- MODULE Selection -----------------------------
(* The members of a sequence that are in a set, in their order: what       *)
(* filter() of an array returns.                                           *)
EXTENDS Naturals, Sequences

\* What is selected of the first n members, for each n.
SelectedUpTo(s, T) ==
  LET upTo[n \in 0 .. Len(s)] ==
        IF n = 0 THEN << >>
        ELSE IF s[n] \in T THEN Append(upTo[n - 1], s[n]) ELSE upTo[n - 1]
  IN  upTo

Selected(s, T) == SelectedUpTo(s, T)[Len(s)]
=============================================================================
