------------------------------- MODULE MCAIC -------------------------------
(* Instances of the interrupt controller for model checking.               *)
EXTENDS AIC
=============================================================================
