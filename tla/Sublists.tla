------------------------------ MODULE Sublists ------------------------------
(***************************************************************************)
(* SelectSeq with a set in the place of the test: what a loop keeps of a   *)
(* list that it filters.  Induction has the lemmas, for every set.         *)
(***************************************************************************)
EXTENDS Integers, Sequences

\* The elements of the list that are in S, in their order.
Within(list, S) ==
  LET upTo[n \in 0 .. Len(list)] ==
        IF n = 0 THEN <<>>
        ELSE IF list[n] \in S THEN Append(upTo[n - 1], list[n]) ELSE upTo[n - 1]
  IN upTo[Len(list)]
=============================================================================
