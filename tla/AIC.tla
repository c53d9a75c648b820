-------------------------------- MODULE AIC --------------------------------
(***************************************************************************)
(* The interrupt controller (hw/intc/apple_aic.c): external interrupts     *)
(* with a mask and a set of destination CPUs, inter-processor interrupts,  *)
(* the periodic tick that raises the CPUs' lines and the acknowledge       *)
(* register that lowers them.                                              *)
(*                                                                         *)
(* The kernel's interrupt handler is outside the repository: a CPU whose   *)
(* line is up acknowledges, serves the cause it is told and unmasks it.    *)
(***************************************************************************)
EXTENDS Integers, FiniteSets

CONSTANTS
  NumCPU,      \* numCPU
  NumIRQ,      \* numIRQ
  MaxInputs    \* bound: assertions, IPIs, moves and resets

ASSUME AICAssumption ==
  NumCPU \in 1 .. 31 /\ NumIRQ \in Nat /\ MaxInputs \in Nat

VARIABLES
  cpus,       \* per CPU: pendingIPI, deferredIPI, ipi_mask and the line
  eir_state,  \* the external interrupts that are asserted
  eir_mask,   \* those that are masked
  eir_dest,   \* the CPUs that may take one
  run,        \* what a CPU's handler is working on
  inputs      \* counts against MaxInputs

vars == <<cpus, eir_state, eir_mask, eir_dest, run, inputs>>

CPU == 0 .. NumCPU - 1
IRQ == 0 .. NumIRQ - 1

\* pendingIPI and deferredIPI have one bit per sending CPU, and AIC_IPI_SELF, bit 31.
SelfBit == 31
Sender == CPU \cup {SelfBit}
Causes == {"self", "norm"}

Idle == [kind |-> "idle"]
-----------------------------------------------------------------------------
(* apple_aic_update.                                                       *)

SelfPending(c) == SelfBit \in c.pendingIPI /\ "self" \notin c.ipi_mask
NormPending(c) == c.pendingIPI \cap CPU # {} /\ "norm" \notin c.ipi_mask

Lowest(S) == CHOOSE x \in S : \A y \in S : x <= y

Spread(w, dest) ==
  LET more == w.potential \ w.intr
  IN  IF w.intr \cap dest = {}
      THEN [intr |-> w.intr \cup {Lowest(dest)}, potential |-> w.potential \cup dest]
      ELSE IF more = {} THEN w ELSE [w EXCEPT !.intr = @ \cup {Lowest(more)}]

Interrupted(C) ==
  LET ipis == {c \in CPU : SelfPending(C[c]) \/ NormPending(C[c])}
      walk[i \in 0 .. NumIRQ] ==
        IF i = 0 THEN [intr |-> ipis, potential |-> {}]
        ELSE LET w == walk[i - 1]
             IN  IF i - 1 \in eir_state \ eir_mask /\ eir_dest[i - 1] # {}
                 THEN Spread(w, eir_dest[i - 1]) ELSE w
  IN  walk[NumIRQ].intr

Undeferred ==
  [c \in CPU |-> [cpus[c] EXCEPT !.pendingIPI = @ \cup cpus[c].deferredIPI,
                                 !.deferredIPI = {}]]

\* Fault: deferred interrupts stay deferred.
Tick_KeepsDeferred ==
  /\ cpus' = [c \in CPU |-> [cpus[c] EXCEPT !.irq = @ \/ c \in Interrupted(cpus)]]
  /\ UNCHANGED <<eir_state, eir_mask, eir_dest, run, inputs>>

\* The timer: no line is ever lowered here.
Tick ==
  /\ \E C \in {Undeferred} : \E intr \in {Interrupted(C)} :
       cpus' = [c \in CPU |-> [C[c] EXCEPT !.irq = @ \/ c \in intr]]
  /\ UNCHANGED <<eir_state, eir_mask, eir_dest, run, inputs>>

-----------------------------------------------------------------------------
(* Registers.                                                              *)

\* IPI_SET and IPI_DEFER_SET through bank o, to the CPUs in T and to o itself.
IpiSet(o, T, self) ==
  cpus' = [c \in CPU |->
    LET norm == c \in T
        slf == self /\ c = o
    IN  [cpus[c] EXCEPT
           !.pendingIPI = @ \cup (IF norm THEN {o} ELSE {}) \cup (IF slf THEN {SelfBit} ELSE {}),
           !.irq = @ \/ (norm /\ "norm" \notin cpus[c].ipi_mask)
                     \/ (slf /\ "self" \notin cpus[c].ipi_mask)]]

IpiDeferSet(o, T, self) ==
  cpus' = [c \in CPU |-> [cpus[c] EXCEPT
    !.deferredIPI = @ \cup (IF c \in T THEN {o} ELSE {})
                      \cup (IF self /\ c = o THEN {SelfBit} ELSE {})]]

IpiClr(o, T, self) ==
  cpus' = [c \in CPU |-> [cpus[c] EXCEPT
    !.pendingIPI = @ \ ((IF c \in T THEN {o} ELSE {})
                         \cup (IF self /\ c = o THEN {SelfBit} ELSE {}))]]

IpiDeferClr(o, T, self) ==
  cpus' = [c \in CPU |-> [cpus[c] EXCEPT
    !.deferredIPI = @ \ ((IF c \in T THEN {o} ELSE {})
                          \cup (IF self /\ c = o THEN {SelfBit} ELSE {}))]]

IpiMask(o, set, clear) ==
  cpus' = [cpus EXCEPT ![o].ipi_mask = (@ \cup set) \ clear]

\* REG_AIC_IACK: the line is lowered, and the first cause found is masked.
ExtFor(c) == {i \in eir_state \ eir_mask : c \in eir_dest[i]}

\* Fault: all the interrupts that wait are masked.
IackEffect_MasksAll(c, cause) ==
  /\ cpus' = [cpus EXCEPT ![c].irq = FALSE,
                          ![c].ipi_mask = @ \cup ({cause.kind} \cap Causes)]
  /\ eir_mask' = IF cause.kind = "ext" THEN eir_mask \cup ExtFor(c) ELSE eir_mask

IackEffect(c, cause) ==
  /\ cpus' = [cpus EXCEPT ![c].irq = FALSE,
                          ![c].ipi_mask = @ \cup ({cause.kind} \cap Causes)]
  /\ eir_mask' = IF cause.kind = "ext" THEN eir_mask \cup {cause.irq} ELSE eir_mask

IackCause(c) ==
  IF SelfPending(cpus[c]) THEN [kind |-> "self"]
  ELSE IF NormPending(cpus[c]) THEN [kind |-> "norm", todo |-> CPU]
  ELSE IF ExtFor(c) # {} THEN [kind |-> "ext", irq |-> Lowest(ExtFor(c))]
  ELSE Idle

-----------------------------------------------------------------------------
Init ==
  /\ cpus = [c \in CPU |-> [pendingIPI |-> {}, deferredIPI |-> {},
                            ipi_mask |-> Causes, irq |-> FALSE]]
  /\ eir_state = {} /\ eir_mask = IRQ
  /\ eir_dest = [i \in IRQ |-> {}]
  /\ run = [c \in CPU |-> Idle]
  /\ inputs = 0

Input == inputs < MaxInputs /\ inputs' = inputs + 1

\* apple_aic_reset, with the machine: levels and lines survive it.
Reset ==
  /\ Input
  /\ cpus' = [c \in CPU |-> [pendingIPI |-> {}, deferredIPI |-> {},
                             ipi_mask |-> Causes, irq |-> cpus[c].irq]]
  /\ eir_mask' = IRQ
  /\ eir_dest' = [i \in IRQ |-> {}]
  /\ run' = [c \in CPU |-> Idle]
  /\ UNCHANGED eir_state

\* apple_aic_set_irq by a device, or EIR_SW_SET and EIR_SW_CLR.
Assert(i) ==
  /\ Input
  /\ eir_state' = eir_state \cup {i}
  /\ UNCHANGED <<cpus, eir_mask, eir_dest, run>>

Deassert(i) ==
  /\ Input
  /\ eir_state' = eir_state \ {i}
  /\ UNCHANGED <<cpus, eir_mask, eir_dest, run>>

-----------------------------------------------------------------------------
(* The kernel (external): it sets interrupts up, moves them, sends IPIs.   *)

Setup(i, D) ==
  /\ eir_dest[i] = {} /\ i \in eir_mask
  /\ eir_dest' = [eir_dest EXCEPT ![i] = D]
  /\ eir_mask' = eir_mask \ {i}
  /\ UNCHANGED <<cpus, eir_state, run, inputs>>

Move(i, D) ==
  /\ Input /\ eir_dest[i] # {}
  /\ eir_dest' = [eir_dest EXCEPT ![i] = D]
  /\ UNCHANGED <<cpus, eir_state, eir_mask, run>>

SendIpi(o, T, self) ==
  /\ Input
  /\ IpiSet(o, T, self) \/ IpiDeferSet(o, T, self)
  /\ UNCHANGED <<eir_state, eir_mask, eir_dest, run>>

WithdrawIpi(o, T, self) ==
  /\ Input
  /\ IpiClr(o, T, self) \/ IpiDeferClr(o, T, self)
  /\ UNCHANGED <<eir_state, eir_mask, eir_dest, run>>

\* A CPU goes on line, or off line.
Online(c) ==
  /\ run[c] = Idle /\ cpus[c].ipi_mask # {}
  /\ IpiMask(c, {}, Causes)
  /\ UNCHANGED <<eir_state, eir_mask, eir_dest, run, inputs>>

Offline(c) ==
  /\ Input /\ run[c] = Idle
  /\ IpiMask(c, Causes, {})
  /\ UNCHANGED <<eir_state, eir_mask, eir_dest, run>>

Iack(c) ==
  /\ cpus[c].irq /\ run[c] = Idle
  /\ IackEffect(c, IackCause(c))
  /\ run' = [run EXCEPT ![c] = IackCause(c)]
  /\ UNCHANGED <<eir_state, eir_dest, inputs>>

\* An external interrupt: the device is served, then the interrupt is unmasked.
Serve(c) ==
  /\ run[c].kind = "ext" /\ run[c].irq \in eir_state
  /\ eir_state' = eir_state \ {run[c].irq}
  /\ UNCHANGED <<cpus, eir_mask, eir_dest, run, inputs>>

EoiExt(c) ==
  /\ run[c].kind = "ext" /\ run[c].irq \notin eir_state
  /\ eir_mask' = eir_mask \ {run[c].irq}
  /\ run' = [run EXCEPT ![c] = Idle]
  /\ UNCHANGED <<cpus, eir_state, eir_dest, inputs>>

\* An IPI: its bit is cleared through each sender's bank, then IPIs are unmasked.
AckIpi(c, k) ==
  /\ run[c].kind = "norm" /\ k \in run[c].todo
  /\ IpiClr(k, {c}, FALSE)
  /\ run' = [run EXCEPT ![c].todo = @ \ {k}]
  /\ UNCHANGED <<eir_state, eir_mask, eir_dest, inputs>>

EoiNorm(c) ==
  /\ run[c].kind = "norm" /\ run[c].todo = {}
  /\ IpiMask(c, {}, {"norm"})
  /\ run' = [run EXCEPT ![c] = Idle]
  /\ UNCHANGED <<eir_state, eir_mask, eir_dest, inputs>>

EoiSelf(c) ==
  /\ run[c].kind = "self"
  /\ cpus' = [cpus EXCEPT ![c].pendingIPI = @ \ {SelfBit}, ![c].ipi_mask = @ \ {"self"}]
  /\ run' = [run EXCEPT ![c] = Idle]
  /\ UNCHANGED <<eir_state, eir_mask, eir_dest, inputs>>

-----------------------------------------------------------------------------
Handler(c) ==
  \/ Serve(c) \/ EoiExt(c) \/ EoiNorm(c) \/ EoiSelf(c)
  \/ \E k \in CPU : AckIpi(c, k)

Dests == SUBSET CPU \ {{}}

Next ==
  \/ Tick
  \/ Reset
  \/ \E i \in IRQ : Assert(i) \/ Deassert(i)
  \/ \E i \in IRQ, D \in Dests : Setup(i, D) \/ Move(i, D)
  \/ \E o \in CPU, T \in Dests : SendIpi(o, T, FALSE) \/ WithdrawIpi(o, T, FALSE)
  \/ \E o \in CPU : SendIpi(o, {}, TRUE) \/ WithdrawIpi(o, {}, TRUE)
  \/ \E c \in CPU : Online(c) \/ Offline(c) \/ Iack(c) \/ Handler(c)

Spec == Init /\ [][Next]_vars

\* The timer re-arms itself; a CPU takes an interrupt whose line stays up, and a
\* handler runs to its end.
Fairness ==
  WF_vars(Tick) /\ \A c \in CPU : WF_vars(Iack(c)) /\ WF_vars(Handler(c))
FairSpec == Spec /\ Fairness

-----------------------------------------------------------------------------
(* Properties.                                                             *)

\* An interrupt that is asserted, unmasked and has a destination is served: an
\* acknowledge that lowers the line with more causes waiting loses none of them.
ExtServed ==
  \A i \in IRQ : i \in eir_state \ eir_mask /\ eir_dest[i] # {} ~> i \notin eir_state \/ eir_dest[i] = {}

\* An IPI, deferred or not, reaches its target, also one sent while the target
\* handles an earlier one; or it is withdrawn, or the target masks its IPIs.
IpiServed ==
  \A c \in CPU, k \in Sender :
    k \in cpus[c].pendingIPI \cup cpus[c].deferredIPI ~>
      k \notin cpus[c].pendingIPI \cup cpus[c].deferredIPI \/ (run[c] = Idle /\ cpus[c].ipi_mask # {})
=============================================================================
