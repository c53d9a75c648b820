----------------------------- MODULE MCDevices -----------------------------
(***************************************************************************)
(* Four devices for TLC that share no state and each answer the kernel     *)
(* from another thread or a bottom half: the AES engine, the simulated     *)
(* SEP, the UART and the display pipe.  A behaviour is of one of them,     *)
(* chosen by world; the others stay in their initial states.               *)
(***************************************************************************)
EXTENDS MCAES, SEPSim, UART, DisplayPipe

VARIABLE world

MCInit ==
  /\ Init /\ SepInit /\ UartInit /\ DispInit
  /\ world \in {"aes", "sep", "uart", "display"}

MCNext ==
  \/ world = "aes" /\ Next /\ UNCHANGED <<sepvars, uartvars, dispvars, world>>
  \/ world = "sep" /\ SepNext /\ UNCHANGED <<vars, uartvars, dispvars, world>>
  \/ world = "uart" /\ UartNext /\ UNCHANGED <<vars, sepvars, dispvars, world>>
  \/ world = "display" /\ DispNext /\ UNCHANGED <<vars, sepvars, uartvars, world>>

\* The fairness of each device, in its own behaviours.
MCFairness ==
  /\ \A w \in Workers : WF_vars(world = "aes" /\ Thread(w))
  /\ WF_vars(world = "aes" /\ \E save \in BOOLEAN : StopEnd(save))
  /\ WF_sepvars(world = "sep" /\ ~sep.aborted /\ RunSepBh)
  /\ WF_sepvars(world = "sep" /\ ~sep.aborted /\ SepDriverStep)
  /\ WF_uartvars(world = "uart" /\ ~uart.aborted /\ UartHandler)

MCSpec == MCInit /\ [][MCNext]_<<vars, sepvars, uartvars, dispvars, world>> /\ MCFairness
=============================================================================
