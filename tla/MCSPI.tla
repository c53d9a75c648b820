------------------------------- MODULE MCSPI -------------------------------
(***************************************************************************)
(* The SPI controller with SIO, and the multi-touch digitizer, for TLC.  A *)
(* behaviour is of one of them, chosen by world; the other part stays in   *)
(* its initial state.                                                      *)
(***************************************************************************)
EXTENDS SPI, MultiTouch

VARIABLE world

MCInit ==
  /\ Init /\ MtInit
  /\ world \in {"spi", "touch"}
  /\ world = "touch" => drv.st # "other"

MCNext ==
  \/ world = "spi" /\ Next /\ UNCHANGED <<mtvars, world>>
  \/ world = "touch" /\ MtNext /\ UNCHANGED <<vars, world>>

\* The fairness of FairSpec, whose actions are disabled in the initial state,
\* and of MtFairness in a behaviour of the digitizer.
MCFairness ==
  /\ WF_vars(Driver) /\ WF_vars(Serve)
  /\ WF_mtvars(world = "touch" /\ MtDriverStep)
  /\ WF_mtvars(world = "touch" /\ MtEndTick)

MCSpec == MCInit /\ [][MCNext]_<<vars, mtvars, world>> /\ MCFairness
=============================================================================
