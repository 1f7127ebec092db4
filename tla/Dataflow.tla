------------------------------- MODULE Dataflow -------------------------------
(***************************************************************************)
(* What evaluating a network promises, whatever the order of evaluation: a *)
(* node fires once all the nodes it needs have fired, never twice, the     *)
(* result is ready only when every output has been computed, and a network *)
(* whose references all resolve never fails on the right number of inputs. *)
(* ForwardPass is one sequential, depth-first, memoizing implementation.   *)
(***************************************************************************)
EXTENDS Naturals

CONSTANTS
  Roots,        \* the networks
  Nodes(_),     \* Nodes(r): the nodes of r, those of nested models included
  Needs(_, _),  \* Needs(r, x): the nodes that must fire before x
  Wanted(_),    \* Wanted(r): the nodes the outputs are read from
  Value(_),     \* Value(r): the output tensors
  Sound(_),     \* Sound(r): nothing in r can be rejected
  Arity(_)      \* Arity(r): the number of inputs of r

VARIABLES root, given, done, status, result

vars == <<root, given, done, status, result>>

Init ==
  /\ root \in Roots
  /\ given = 0
  /\ done = {}
  /\ status = "idle"
  /\ result = << >>

Begin ==
  /\ status # "running"
  /\ given' \in Nat
  /\ status' = IF given' = Arity(root) THEN "running" ELSE "threw"
  /\ done' = {}
  /\ result' = << >>
  /\ root' = root

Fire(x) ==
  /\ status = "running"
  /\ x \notin done
  /\ Needs(root, x) \subseteq done
  /\ done' = done \cup {x}
  /\ UNCHANGED <<root, given, status, result>>

Finish ==
  /\ status = "running"
  /\ Wanted(root) \subseteq done
  /\ status' = "returned"
  /\ result' = Value(root)
  /\ UNCHANGED <<root, given, done>>

Fail ==
  /\ status = "running"
  /\ ~Sound(root)
  /\ status' = "threw"
  /\ UNCHANGED <<root, given, done, result>>

Next == Begin \/ (\E x \in Nodes(root) : Fire(x)) \/ Finish \/ Fail

Spec == Init /\ [][Next]_vars
=============================================================================
