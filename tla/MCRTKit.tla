------------------------------ MODULE MCRTKit ------------------------------
(* Coprocessors for TLC, with two endpoints per rollcall block. *)
EXTENDS RTKit

Registered(U) == {EP_MANAGEMENT, EP_CRASHLOG} \cup {EpUserStart + u : u \in U}

\* The SMC of protocol 10, and an IOP of protocol 12 with any user endpoints.
SmallDevices ==
  {[role |-> "SMC", version |-> 10, endpoints |-> Registered({0})]} \cup
  {[role |-> "other", version |-> 12, endpoints |-> Registered(U)] : U \in SUBSET {0, 1, 2, 5}}

\* The SMC of protocol 12.
NewSmc == {[role |-> "SMC", version |-> 12, endpoints |-> Registered({0})]}

\* A reset of the SMC during its boot ends in an assertion; it has a run of its own.
OtherResets == [SMC |-> 0, other |-> 1]
SmcResets == [SMC |-> 1, other |-> 0]
=============================================================================
