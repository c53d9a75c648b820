------------------------------ MODULE MCSPMI ------------------------------
(***************************************************************************)
(* The SPMI controller with its bus, and the GPIO controller, for TLC.  A  *)
(* behaviour is of one of them, chosen by world; the other part stays in   *)
(* its initial state.                                                      *)
(***************************************************************************)
EXTENDS SPMI, GPIO

VARIABLE world

MCInit ==
  /\ Init /\ GpInit
  /\ world \in {"spmi", "gpio"}
  /\ world = "spmi" => \A p \in Pins : gdev[p].mode = "hi"
  /\ world = "gpio" => DOMAIN dev = {}

MCNext ==
  \/ world = "spmi" /\ Next /\ UNCHANGED <<gpvars, world>>
  \/ world = "gpio" /\ GpNext /\ UNCHANGED <<vars, world>>

\* The fair actions of the part that stands still are disabled.
MCSpec ==
  /\ MCInit /\ [][MCNext]_<<vars, gpvars, world>>
  /\ Fairness /\ WF_gpvars(GpHandle)
=============================================================================
