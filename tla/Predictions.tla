----------------------------- MODULE Predictions -----------------------------
(***************************************************************************)
(* What a loaded model promises to the threads that share it: a call of    *)
(* predict or predict_multi is answered as if it ran alone, on the numbers *)
(* its tensors held when it was made.  The answer is the list of           *)
(* predictions in the order of the data entries, or else the exception of  *)
(* the first entry whose prediction throws.  A parallel call may instead   *)
(* fail because the system has no thread left.                             *)
(***************************************************************************)
EXTENDS Sequences

CONSTANTS
  Callers,      \* the threads of the application
  Outcome(_),   \* Outcome(r): the answer a call on r deserves
  NoThread,     \* the exception of a system without threads
  NoAnswer      \* what there is before a call is answered

VARIABLES state, asked, answer

vars == <<state, asked, answer>>

Init ==
  /\ state = [c \in Callers |-> "idle"]
  /\ asked = [c \in Callers |-> << >>]
  /\ answer = [c \in Callers |-> NoAnswer]

\* A caller may ask for any list of data entries.
Ask(c) ==
  /\ state[c] = "idle"
  /\ \E p \in {"sequential", "parallel"} : state' = [state EXCEPT ![c] = p]
  /\ asked' = [asked EXCEPT ![c] = asked'[c]]
  /\ UNCHANGED answer

Answer(c) ==
  /\ state[c] \in {"sequential", "parallel"}
  /\ \/ answer' = [answer EXCEPT ![c] = Outcome(asked[c])]
     \/ state[c] = "parallel" /\ answer' = [answer EXCEPT ![c] = NoThread]
  /\ state' = [state EXCEPT ![c] = "answered"]
  /\ UNCHANGED asked

Take(c) ==
  /\ state[c] = "answered"
  /\ state' = [state EXCEPT ![c] = "idle"]
  /\ asked' = [asked EXCEPT ![c] = << >>]
  /\ answer' = [answer EXCEPT ![c] = NoAnswer]

Next == \E c \in Callers : Ask(c) \/ Answer(c) \/ Take(c)

Spec == Init /\ [][Next]_vars
=============================================================================
