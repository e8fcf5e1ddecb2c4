------------------------------- MODULE Filter -------------------------------
(***************************************************************************)
(* Array.filter, as a function of positions: what SelectSeq is for TLC, in *)
(* a form that can be reasoned about.                                      *)
(***************************************************************************)
EXTENDS Integers, Sequences, FiniteSets

UpTo(I, n) == {i \in I : i <= n}

(* The member of I that has k members of I up to it. *)
Nth(I, k) == CHOOSE i \in I : Cardinality(UpTo(I, i)) = k

Places(q, S) == {i \in DOMAIN q : q[i] \in S}

(* The entries of q that are in S, in order. *)
Only(q, S) == [k \in 1 .. Cardinality(Places(q, S)) |-> q[Nth(Places(q, S), k)]]

(* x is in q, somewhere ahead of y. *)
Precedes(q, x, y) == \E i, j \in DOMAIN q : i < j /\ q[i] = x /\ q[j] = y
=============================================================================
