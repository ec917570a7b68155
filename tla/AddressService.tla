--------------------------- MODULE AddressService ---------------------------
(***************************************************************************)
(* What the SMF promises of UE addresses, without the handlers that keep   *)
(* the promise: requests come numbered, a request gets an address that     *)
(* nobody has, or is refused when every address is taken, and gives it     *)
(* back once.  The promise ends with a fault of the service.               *)
(***************************************************************************)
EXTENDS Naturals

CONSTANTS
    Ref,     \* requests
    Addr,    \* addresses
    NoAddr   \* none of them

VARIABLES
    asked,   \* number of the next request
    lease,   \* [Ref -> Addr \cup {NoAddr}]: the address of each context
    intact   \* no fault so far

vars == <<asked, lease, intact>>

Leased == {lease[r] : r \in Ref} \ {NoAddr}

Init ==
    /\ asked = 1
    /\ lease = [r \in Ref |-> NoAddr]
    /\ intact = TRUE

Lease ==
    /\ asked \in Ref
    /\ \E a \in Addr \ Leased : lease' = [lease EXCEPT ![asked] = a]
    /\ asked' = asked + 1
    /\ UNCHANGED intact

Refuse ==
    /\ Leased = Addr
    /\ asked' = asked + 1
    /\ UNCHANGED <<lease, intact>>

GiveBack(r) ==
    /\ lease[r] # NoAddr
    /\ lease' = [lease EXCEPT ![r] = NoAddr]
    /\ UNCHANGED <<asked, intact>>

\* Nothing is promised from here on.
Fault == intact' = FALSE

Next == Lease \/ Refuse \/ Fault \/ \E r \in Ref : GiveBack(r)

Spec == Init /\ [][Next]_vars

=============================================================================
