------------------------------- MODULE MCAES -------------------------------
(* Instances of the AES engine for model checking.                         *)
EXTENDS AES

\* A data command and a key command have several words.
SmallWords == [op \in Op |-> IF op \in {"key", "data", "badlen"} THEN 2 ELSE 1]
=============================================================================
