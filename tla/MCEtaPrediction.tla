-------------------------- MODULE MCEtaPrediction --------------------------
(* One delivery, two prediction workers. *)
EXTENDS EtaPrediction, TLC

CONSTANTS w1, w2

MCWorkers == {w1, w2}
Symm == Permutations(MCWorkers)
=============================================================================
