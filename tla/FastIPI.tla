------------------------------ MODULE FastIPI ------------------------------
(***************************************************************************)
(* The fast inter-processor interrupts of the A13                          *)
(* (hw/arm/apple-silicon/a13.c): the request registers IPI_RR_LOCAL and    *)
(* IPI_RR_GLOBAL, the status register IPI_SR, the deferred and no-wake     *)
(* requests a cluster keeps, and the timer that delivers them.             *)
(*                                                                         *)
(* The FIQ of a CPU is its bit in interrupt_request: an OR gate drives it, *)
(* and the gate's fast_ipi input is up exactly while ipi_sr is not 0. The  *)
(* gate drives the bit only when one of its inputs is written, so a CPU    *)
(* reset clears the bit and leaves the input up.                           *)
(*                                                                         *)
(* The kernel is outside the repository. A sender posts its request in     *)
(* memory and then writes IPI_RR; the handler reads IPI_SR, writes back    *)
(* what it read and then serves everything that was posted to its CPU.     *)
(***************************************************************************)
EXTENDS Integers, FiniteSets

CONSTANTS
  NumCores,     \* the CPUs, those of all clusters
  ClusterOf,    \* cluster_id of a CPU
  MaxRequests,  \* bound: IPIs and retractions
  MaxRestarts   \* bound: machine resets

Core == 0 .. NumCores - 1

ASSUME FastIPIAssumption ==
  /\ NumCores \in 1 .. 6
  /\ DOMAIN ClusterOf = Core
  /\ MaxRequests \in Nat /\ MaxRestarts \in Nat

VARIABLES
  core,      \* per CPU: ipi_sr, the FIQ in interrupt_request, power and halted
  deferred,  \* deferredIPI: <<source, target>> pairs
  nowake,    \* noWakeIPI
  kernel,    \* per CPU: what its kernel is doing
  posted,    \* per CPU: the requests posted to it and not served
  requests   \* counts against MaxRequests and MaxRestarts

ipivars == <<core, deferred, nowake, kernel, posted, requests>>

Types == {"immediate", "deferred", "nowake"}
NoIpi == [src |-> 0, type |-> "none"]

LeastCore(S) == CHOOSE x \in S : \A y \in S : x <= y
-----------------------------------------------------------------------------
(* Delivery.                                                               *)

\* apple_a13_cluster_deliver_ipi: dropped while an earlier one is in IPI_SR.
DeliverIpi(C, j, i, type) ==
  IF C[j].sr # NoIpi THEN C
  ELSE [C EXCEPT ![j].sr = [src |-> i, type |-> type], ![j].fiq = TRUE]

\* One pass of apple_a13_cluster_tick over the flags of targets that are ready: in
\* each cluster a source reaches the first of its targets, and sources go in order.
TickPass(C, flags, type) ==
  LET sources(j) == {i \in Core : <<i, j>> \in flags /\
                       \A k \in 0 .. j - 1 : ClusterOf[k] = ClusterOf[j] => <<i, k>> \notin flags}
  IN  [j \in Core |-> IF sources(j) = {} THEN C[j]
                      ELSE DeliverIpi(C, j, LeastCore(sources(j)), type)[j]]

Running(j) == core[j].on
Awake(j) == core[j].on /\ ~core[j].halted
DeferredDue == {f \in deferred : Running(f[2])}
NowakeDue == {f \in nowake : Awake(f[2])}

\* Fault: a sleeping CPU is passed over for deferred requests too.
IpicrTick_SkipsSleeping ==
  /\ core' = TickPass(TickPass(core, {f \in deferred : Awake(f[2])}, "deferred"), NowakeDue, "nowake")
  /\ UNCHANGED <<deferred, nowake, kernel, posted, requests>>

IpicrTick ==
  /\ core' = TickPass(TickPass(core, DeferredDue, "deferred"), NowakeDue, "nowake")
  /\ UNCHANGED <<deferred, nowake, kernel, posted, requests>>

-----------------------------------------------------------------------------
(* The registers.                                                          *)

\* apple_a13_ipi_rr_local and apple_a13_ipi_rr_global: a write of CPU i for CPU j.
IpiRr(i, j, type) ==
  \/ /\ type = "immediate" \/ (type = "nowake" /\ ~core[j].halted)
     /\ core' = DeliverIpi(core, j, i, "immediate")
     /\ UNCHANGED <<deferred, nowake>>
  \/ /\ type = "nowake" /\ core[j].halted
     /\ nowake' = nowake \cup {<<i, j>>}
     /\ UNCHANGED <<core, deferred>>
  \/ /\ type = "deferred"
     /\ deferred' = deferred \cup {<<i, j>>}
     /\ UNCHANGED <<core, nowake>>

IpiRetract(i, j) ==
  /\ deferred' = deferred \ {<<i, j>>}
  /\ nowake' = nowake \ {<<i, j>>}
  /\ UNCHANGED core

\* apple_a13_ipi_write_sr by CPU c, with the value it read.
IpiWriteSr(c, v) ==
  /\ core' = [core EXCEPT ![c].sr = NoIpi, ![c].fiq = FALSE]
  /\ deferred' = IF v.type = "deferred" THEN deferred \ {<<v.src, c>>} ELSE deferred
  /\ nowake' = IF v.type = "nowake" THEN nowake \ {<<v.src, c>>} ELSE nowake

-----------------------------------------------------------------------------
(* Power.                                                                  *)

IPIInit ==
  /\ core = [c \in Core |-> [sr |-> NoIpi, fiq |-> FALSE, on |-> c = 0, halted |-> c # 0]]
  /\ deferred = {} /\ nowake = {}
  /\ kernel = [c \in Core |-> IF c = 0 THEN "boot" ELSE "off"]
  /\ posted = [c \in Core |-> {}]
  /\ requests = [ipi |-> 0, reset |-> 0]

IPIRequest ==
  /\ requests.ipi < MaxRequests
  /\ requests' = [requests EXCEPT !.ipi = @ + 1]

\* Fault: powering up also clears IPI_SR.
CpuStart_ClearsSr(i, c) ==
  /\ kernel[i] = "idle" /\ ~core[c].on
  /\ core' = [core EXCEPT ![c] = [sr |-> NoIpi, fiq |-> FALSE, on |-> TRUE, halted |-> FALSE]]
  /\ kernel' = [kernel EXCEPT ![c] = "boot"]
  /\ UNCHANGED <<deferred, nowake, posted, requests>>

\* t8030_start_cpus, apple_a13_cpu_start: the CPU is reset and powered on.
CpuStart(i, c) ==
  /\ kernel[i] = "idle" /\ ~core[c].on
  /\ core' = [core EXCEPT ![c].fiq = FALSE, ![c].on = TRUE, ![c].halted = FALSE]
  /\ kernel' = [kernel EXCEPT ![c] = "boot"]
  /\ UNCHANGED <<deferred, nowake, posted, requests>>

\* t8030_machine_reset, t8030_cpu_reset: every CPU is reset and CPU 0 powered on. The
\* clusters and the OR gates are on no bus, so nothing resets them.
MachineReset ==
  /\ requests.reset < MaxRestarts
  /\ requests' = [requests EXCEPT !.reset = @ + 1]
  /\ core' = [c \in Core |-> [sr |-> core[c].sr, fiq |-> FALSE, on |-> c = 0, halted |-> c # 0]]
  /\ kernel' = [c \in Core |-> IF c = 0 THEN "boot" ELSE "off"]
  /\ posted' = [c \in Core |-> {}]
  /\ UNCHANGED <<deferred, nowake>>

-----------------------------------------------------------------------------
(* The kernel (external).                                                  *)

\* A CPU that comes up programs its virtual timer: the OR gate is evaluated again.
Boot(c) ==
  /\ kernel[c] = "boot"
  /\ kernel' = [kernel EXCEPT ![c] = "idle"]
  /\ core' = [core EXCEPT ![c].fiq = core[c].sr # NoIpi]
  /\ UNCHANGED <<deferred, nowake, posted, requests>>

Send(i, j, type) ==
  /\ IPIRequest
  /\ kernel[i] = "idle" /\ Awake(i) /\ i # j
  /\ IpiRr(i, j, type)
  /\ posted' = [posted EXCEPT ![j] = @ \cup {<<i, type>>}]
  /\ UNCHANGED kernel

Retract(i, j) ==
  /\ IPIRequest
  /\ kernel[i] = "idle" /\ Awake(i) /\ i # j
  /\ IpiRetract(i, j)
  /\ posted' = [posted EXCEPT ![j] = @ \ {<<i, "deferred">>, <<i, "nowake">>}]
  /\ UNCHANGED kernel

\* WFI; and a wake-up by some other interrupt.
Sleep(c) ==
  /\ kernel[c] = "idle" /\ Awake(c) /\ ~core[c].fiq
  /\ core' = [core EXCEPT ![c].halted = TRUE]
  /\ UNCHANGED <<deferred, nowake, kernel, posted, requests>>

Wake(c) ==
  /\ core[c].on /\ core[c].halted
  /\ core' = [core EXCEPT ![c].halted = FALSE]
  /\ UNCHANGED <<deferred, nowake, kernel, posted, requests>>

\* The FIQ handler: it wakes the CPU and reads IPI_SR, writes it back, serves.
TakeFiq(c) ==
  /\ kernel[c] = "idle" /\ core[c].fiq
  /\ core' = [core EXCEPT ![c].halted = FALSE]
  /\ kernel' = [kernel EXCEPT ![c] = "ack"]
  /\ UNCHANGED <<deferred, nowake, posted, requests>>

AckFiq(c) ==
  /\ kernel[c] = "ack"
  /\ IpiWriteSr(c, core[c].sr)
  /\ kernel' = [kernel EXCEPT ![c] = "serve"]
  /\ UNCHANGED <<posted, requests>>

ServePosted(c) ==
  /\ kernel[c] = "serve"
  /\ posted' = [posted EXCEPT ![c] = {}]
  /\ kernel' = [kernel EXCEPT ![c] = "idle"]
  /\ UNCHANGED <<core, deferred, nowake, requests>>

-----------------------------------------------------------------------------
Kernel(c) == Boot(c) \/ TakeFiq(c) \/ AckFiq(c) \/ ServePosted(c)

IPINext ==
  \/ IpicrTick
  \/ MachineReset
  \/ \E i, j \in Core : CpuStart(i, j) \/ Retract(i, j) \/ \E t \in Types : Send(i, j, t)
  \/ \E c \in Core : Sleep(c) \/ Wake(c) \/ Kernel(c)

IPISpec == IPIInit /\ [][IPINext]_ipivars

\* The timer re-arms itself, also over a reset; a CPU that is on runs its kernel.
IPIFairness ==
  WF_ipivars(IpicrTick) /\ \A c \in Core : WF_ipivars(Kernel(c))
IPIFairSpec == IPISpec /\ IPIFairness

-----------------------------------------------------------------------------
(* Properties.                                                             *)

\* Every request posted to a CPU is served, although an IPI sent while another is in
\* IPI_SR is dropped, a tick gives up on a source after its first ready target and a
\* reset or a power-up wipes the FIQ of a delivered IPI. Only a no-wake request may
\* wait, while its target sleeps.
FastIpiServed ==
  \A j \in Core : posted[j] # {} ~>
    \/ posted[j] = {} \/ ~core[j].on
    \/ core[j].halted /\ \A p \in posted[j] : p[2] = "nowake"

\* A request that is still posted has something on its way to the target: an IPI in
\* its status register, a flag that the tick will deliver, or a handler that has not
\* served yet. No interleaving of senders, tick and acknowledge loses the last one.
RequestCarried ==
  \A i, j \in Core, t \in Types : <<i, t>> \in posted[j] =>
    \/ core[j].sr # NoIpi \/ kernel[j] = "serve"
    \/ t = "deferred" /\ <<i, j>> \in deferred
    \/ t = "nowake" /\ <<i, j>> \in nowake
=============================================================================
