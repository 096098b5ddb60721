------------------------------- MODULE Lists -------------------------------
(***************************************************************************)
(* List comprehensions and sorting of the Python code, as far as the       *)
(* modules of its sequential parts need them.                              *)
(***************************************************************************)
EXTENDS Naturals, Sequences, FiniteSets

(* [x for x in s if x in V]: the elements of s that are in V, in order. *)
Keep(s, V) ==
  LET kept[n \in 0 .. Len(s)] ==
        IF n = 0 THEN <<>>
        ELSE IF s[n] \in V THEN Append(kept[n - 1], s[n]) ELSE kept[n - 1]
  IN kept[Len(s)]

(* sorted(S, key = ...): the elements of S, each after those before it;    *)
(* before has the pairs <<y, x>>, y before x, of a strict total order.     *)
Arranged(S, before) ==
  [n \in 1 .. Cardinality(S) |->
     CHOOSE x \in S : Cardinality({y \in S : <<y, x>> \in before}) = n - 1]
=============================================================================
