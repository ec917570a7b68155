---------------------------- MODULE MCSmContext ----------------------------
(* SmContext for TLC: the keys of the NSACF are interchangeable.           *)
EXTENDS SmContext, TLC

KeySymmetry == Permutations(Key)

=============================================================================
