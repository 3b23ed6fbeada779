-------------------------------- MODULE MCCli --------------------------------
(* Bounds for the model checking of Cli. *)
EXTENDS Cli, TLC

CliSymmetry == Permutations(Job) \cup Permutations(Poll)
=============================================================================
