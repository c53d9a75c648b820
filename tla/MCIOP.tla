------------------------------- MODULE MCIOP -------------------------------
(***************************************************************************)
(* The coprocessors for TLC: the RTKit boot, and an endpoint of the AOP on *)
(* a link that is up. A behaviour is of one of them, chosen by world; the  *)
(* other stays in its initial state, where none of its fair actions is     *)
(* enabled.                                                                *)
(***************************************************************************)
EXTENDS MCRTKit, AOP

VARIABLE world

MCInit ==
  /\ Init /\ AOPInit
  /\ world \in {"rtkit", "aop"}
  /\ world = "aop" => dev = CHOOSE d \in Devices : TRUE

MCNext ==
  \/ world = "rtkit" /\ Next /\ UNCHANGED <<aopvars, world>>
  \/ world = "aop" /\ AOPNext /\ UNCHANGED <<vars, world>>

MCSpec ==
  MCInit /\ [][MCNext]_<<vars, aopvars, world>> /\ Fairness /\ AOPFairness
=============================================================================
