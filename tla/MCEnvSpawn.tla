----------------------------- MODULE MCEnvSpawn -----------------------------
(* Instances of EnvSpawn for TLC. *)
EXTENDS EnvSpawn

Keys == {<<"+">>, <<"q">>, <<"+", "+">>, <<"+", "q">>}
==============================================================================
