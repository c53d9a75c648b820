------------------------------- MODULE MCDART -------------------------------
(* Instances of DART for TLC.                                              *)
EXTENDS DART, TLC

\* Stream s has a mapped page, stream z is bypassed.
SmallSetups ==
  {[regs |-> [remap |-> "s" :> "s" @@ "z" :> "z", tcr |-> "s" :> "on" @@ "z" :> "bypass",
              ttbr |-> "s" :> (0 :> "d") @@ "z" :> (0 :> "none"), sid_mask |-> {"s"}],
    dir |-> "d" :> (0 :> "t"),
    tab |-> "t" :> (0 :> "x") @@ "u" :> (0 :> "y")]}

SmallPerm == "x" :> {"r", "w"} @@ "y" :> {"r"}

SmallIovas == {<<0, 0, 0>>}
=============================================================================
