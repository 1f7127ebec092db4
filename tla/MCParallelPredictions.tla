------------------------ MODULE MCParallelPredictions ------------------------
(***************************************************************************)
(* Two threads of an application share a model with a residual branch and  *)
(* a dropout layer: three layers, of which the second passes its argument  *)
(* on, and three outputs, one of them the model's own input.               *)
(***************************************************************************)
EXTENDS ParallelPredictions

CONSTANTS alice, bob      \* callers
CONSTANTS img, bad, odd   \* tensors: a proper one, one the first layer
                          \* refuses, one that leads to outputs of a wrong shape

MCCallers == {alice, bob}
MCGiven == {img, bad, odd}

Network == << [shares |-> FALSE, args |-> <<1>>],
              [shares |-> TRUE,  args |-> <<2>>],
              [shares |-> FALSE, args |-> <<3, 1>>] >>
MCLayers == Network
MCOuts == <<4, 3, 1>>

MCCompute(l, vs) == <<l, vs>>
MCRefuses(l, vs) ==
  \/ l = 1 /\ vs[1] = <<bad>>
  \/ l = Len(Network) + 1 /\ vs[3] = <<odd>>
MCEdited(v) == IF v[1] = 0 THEN v ELSE <<0, <<v>>>>

MCMaxCalls(c) == IF c = alice THEN 2 ELSE 1

\* Caller alice passes data whose entries both fail, no data at all, and
\* what it got back before; caller bob passes one of the shared tensors.
MCBatches(c, held) ==
  IF c = alice
  THEN {<< >>, << <<odd>>, <<bad>> >>}
       \cup {<< <<x>>, <<img>> >> : x \in held \ {bad, odd}}
  ELSE {<< <<img>> >>}
=============================================================================
