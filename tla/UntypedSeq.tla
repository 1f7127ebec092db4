------------------------------ MODULE UntypedSeq ------------------------------
(***************************************************************************)
(* Sequences whose elements have no common type: tensors are uninterpreted *)
(* terms, and the set of all of them is of no use to a type invariant.     *)
(***************************************************************************)
EXTENDS Integers, Sequences

IsSeq(s) == /\ Len(s) \in Nat
            /\ s = [i \in 1 .. Len(s) |-> s[i]]

Pop(s) == SubSeq(s, 1, Len(s) - 1)
=============================================================================
