------------------------------ MODULE MCUSBTCP ------------------------------
(* Instances of USBTCP for TLC.                                            *)
EXTENDS USBTCP

\* A packet's kind by its name.
MCKind == [p \in Pkts |-> CASE p = "sa" -> "setaddr" [] p = "st" -> "status" [] OTHER -> "bulk"]

\* A connection that stays, with a port reset; one that may break, with a cancellation.
MCPlans ==
  {[pkts |-> {"sa", "st", "b"}, cancels |-> {}, resets |-> 1, breaks |-> FALSE],
   [pkts |-> {"b", "d"}, cancels |-> {"d"}, resets |-> 0, breaks |-> TRUE]}
====
