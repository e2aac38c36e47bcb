------------------------------ MODULE ListOps -------------------------------
(***************************************************************************)
(* What the engine does with a linked list in one walk: keep the members   *)
(* of a set in their order, and add up a field of all members.  The        *)
(* community modules have both (SelectSeq, FoldSeq), but take an operator  *)
(* as an argument, which nothing can be proved about; these take a set and *)
(* a function, and recursion is over the places in the list.               *)
(***************************************************************************)
EXTENDS Integers, Sequences

(* The elements of q that are in S, in the order of q.                     *)
Keep(q, S) ==
  LET keep[i \in 0..Len(q)] ==
        IF i = 0 THEN << >>
        ELSE IF q[i] \in S THEN Append(keep[i - 1], q[i]) ELSE keep[i - 1]
  IN  keep[Len(q)]

(* The sum of w[e] over the elements e of q.                               *)
Total(q, w) ==
  LET sum[i \in 0..Len(q)] == IF i = 0 THEN 0 ELSE sum[i - 1] + w[q[i]]
  IN  sum[Len(q)]
=============================================================================
