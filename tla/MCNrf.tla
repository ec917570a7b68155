------------------------------- MODULE MCNrf -------------------------------
(***************************************************************************)
(* Nrf for TLC: the threads that serve requests are alike, and an earlier  *)
(* process has left no file or one with everything in it, and then the one *)
(* restart of the run is behind it.                                        *)
(***************************************************************************)
EXTENDS Nrf, TLC

LeftFiles == {None, Doc([n \in Nfs |-> "REGISTERED"], Subs)}

TaskSymmetry == Permutations(Tasks)
=============================================================================
