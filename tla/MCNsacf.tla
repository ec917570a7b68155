------------------------------ MODULE MCNsacf ------------------------------
(* Nsacf for TLC: ceilings, and UEs that are interchangeable.              *)
EXTENDS Nsacf, TLC

Uniform(n, l) == [max |-> [k \in Kinds |-> n], per |-> [k \in Kinds |-> l]]

\* Room for two; and for one, which may not come from outside 3GPP
Two == Uniform(2, [a \in Access |-> NoLimit])
Home == Uniform(1, [a \in Access |-> IF a = "n3gpp" THEN 0 ELSE NoLimit])
TwoOrHome == {Two, Home}

UeSymmetry == Permutations(Ues) \cup Permutations(Tasks)

=============================================================================
