------------------------------- MODULE MCNode -------------------------------
(* A small node: two or three calls of one or two contracts.               *)
EXTENDS Node

CONSTANTS c1, c2, c3, nobody

MCTypes    == {"WASMER", "DOCKER_GO", "GO"}
MCFirst    == [r \in MCTypes |-> IF r = "WASMER" THEN 1 ELSE 0]
MCSupports == {<<"WASMER">>, <<"GO", "DOCKER_GO">>, <<"DOCKER_GO">>}

Busy(calls, contracts) ==
  [calls |-> calls, contracts |-> contracts, closes |-> TRUE, starts |-> FALSE, lists |-> {}]

MCLoads ==
  {Busy({c1, c2, c3}, {"a"}),
   Busy({c1, c2}, {"a", "b"}),
   [Busy({c1, c2}, {"a"}) EXCEPT !.lists = {<<"WASMER">>}],
   [Busy({}, {}) EXCEPT !.starts = TRUE, !.lists = MCSupports]}
=============================================================================
