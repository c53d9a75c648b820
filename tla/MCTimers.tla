------------------------------ MODULE MCTimers ------------------------------
(***************************************************************************)
(* The watchdog and the fast IPIs for TLC: two parts of the machine that   *)
(* share no state, each with its own timer. A behaviour is of one of them, *)
(* chosen by world; the other part stays in its initial state.             *)
(***************************************************************************)
EXTENDS WDT, FastIPI

VARIABLE world

\* One CPU in a cluster of its own and a cluster of two.
SmallClusters == [c \in Core |-> IF c = 0 THEN 0 ELSE 1]

MCInit ==
  /\ Init /\ IPIInit
  /\ world \in {"wdt", "ipi"}
  /\ world = "ipi" => clock = 0

MCNext ==
  \/ world = "wdt" /\ Next /\ UNCHANGED <<ipivars, world>>
  \/ world = "ipi" /\ IPINext /\ UNCHANGED <<vars, world>>

\* IPIFairness, in a behaviour of the fast IPIs.
MCFairness ==
  /\ WF_ipivars(world = "ipi" /\ IpicrTick)
  /\ \A c \in Core : WF_ipivars(world = "ipi" /\ Kernel(c))

MCSpec == MCInit /\ [][MCNext]_<<vars, ipivars, world>> /\ MCFairness
=============================================================================
