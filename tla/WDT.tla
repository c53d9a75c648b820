-------------------------------- MODULE WDT --------------------------------
(***************************************************************************)
(* The watchdog (hw/watchdog/apple_wdt.c): two counters on one clock, the  *)
(* chip's, which interrupts and resets, and the system's, which resets;    *)
(* one QEMU timer serves every deadline.                                   *)
(*                                                                         *)
(* The 32-bit clock wraps after M ticks.  The timer is kept as the ticks   *)
(* it has left, negative while the main loop is late.                      *)
(***************************************************************************)
EXTENDS Integers

CONSTANTS
  M,        \* the clock counts modulo M (2^32)
  Counts,   \* the values the driver writes into the counters
  MaxLate   \* bound: ticks by which the main loop may be late

ASSUME WDTAssumption ==
  M \in Nat \ {0} /\ Counts \subseteq 0 .. M - 1 /\ 0 \in Counts /\ MaxLate \in Nat

VARIABLES
  clock,  \* wdt_get_clock
  chip,   \* chip_timer, chip_reset_counter, chip_interrupt_counter, chip_control
  sys,    \* sys_timer, sys_reset_counter, sys_control
  timer,  \* ticks left of the QEMU timer
  line,   \* the interrupt line
  fed,    \* what each counter would show if it did not wrap; at most M, as after a reset
  acts    \* the counter that made the last step a reset, or "no"

vars == <<clock, chip, sys, timer, line, fed, acts>>

Off == M + MaxLate
Ctl == {"irq", "ack", "reset"}

\* 32-bit subtraction.
Sub(a, b) == IF a >= b THEN a - b ELSE a - b + M

\* wdt_get_chip_timer, wdt_get_sys_timer.
Elapsed(d) == Sub(clock, d.base)

Least(a, b) == IF a <= b THEN a ELSE b

\* apple_wdt_reset: the registers; the timer and the line are left alone.
NoChip == [base |-> 0, reset |-> 0, irq |-> 0, ctl |-> {}]
NoSys == [base |-> 0, reset |-> 0, ctl |-> {}]

Unfed == [chip |-> M, sys |-> M]

\* apple_wdt_realize, at any time of the clock.
Init ==
  /\ clock \in 0 .. M - 1
  /\ chip = NoChip /\ sys = NoSys /\ timer = Off /\ line = FALSE
  /\ fed = Unfed /\ acts = "no"

\* wdt_reg_write ends by making the timer due.
Due == timer' = 0 /\ acts' = "no" /\ UNCHANGED clock

\* wdt_reg_write: the timers.  The counters then show v.
WriteTimer(d, v) ==
  /\ chip' = IF d = "chip" THEN [chip EXCEPT !.base = Sub(clock, v)] ELSE chip
  /\ sys' = IF d = "sys" THEN [sys EXCEPT !.base = Sub(clock, v)] ELSE sys
  /\ fed' = [fed EXCEPT ![d] = v]
  /\ Due /\ UNCHANGED line

\* wdt_reg_write: the counts and the system's control.
WriteCount(c, s) ==
  /\ chip' = c /\ sys' = s
  /\ Due /\ UNCHANGED <<line, fed>>

WriteCounts ==
  \/ \E v \in Counts : \/ WriteCount([chip EXCEPT !.reset = v], sys)
                       \/ WriteCount([chip EXCEPT !.irq = v], sys)
                       \/ WriteCount(chip, [sys EXCEPT !.reset = v])
  \/ \E c \in SUBSET {"reset"} : WriteCount(chip, [sys EXCEPT !.ctl = c])

\* wdt_reg_write: the chip's control.
WriteChipControl(c) ==
  /\ chip' = [chip EXCEPT !.ctl = c \ {"ack"}]
  /\ line' = IF "ack" \in c THEN FALSE ELSE line
  /\ Due /\ UNCHANGED <<sys, fed>>

\* watchdog_perform_action and apple_wdt_reset.
Bite(d) ==
  /\ acts' = d /\ chip' = NoChip /\ sys' = NoSys
  /\ timer' = Off /\ fed' = Unfed
  /\ UNCHANGED <<clock, line>>

\* Fault: a tick early.
Bites_Early(d) == "reset" \in d.ctl /\ Elapsed(d) + 1 >= d.reset

\* wdt_update: the reset counters.
Bites(d) == "reset" \in d.ctl /\ Elapsed(d) >= d.reset

\* Ticks to the deadlines that lie ahead; 2^32 - 1 without any.
ToReset(d) == IF "reset" \in d.ctl /\ Elapsed(d) < d.reset THEN d.reset - Elapsed(d) ELSE M - 1
ToIrq(d) == IF "irq" \in d.ctl /\ Elapsed(d) < d.irq THEN d.irq - Elapsed(d) ELSE M - 1

\* Fault: the interrupt's deadline replaces those of the resets.
Expiry_Last ==
  IF "irq" \in chip.ctl THEN ToIrq(chip) ELSE Least(ToReset(chip), ToReset(sys))

\* wdt_update: how long the timer is set for.
Expiry == Least(Least(ToReset(chip), ToReset(sys)), ToIrq(chip))

\* wdt_update: the interrupt counter.
IrqDue(d) == "irq" \in d.ctl /\ Elapsed(d) >= d.irq

\* wdt_update, once no reset is due.
Rearm ==
  /\ LET raise == IrqDue(chip) /\ "ack" \notin chip.ctl IN
     /\ chip' = IF raise THEN [chip EXCEPT !.ctl = @ \cup {"ack"}] ELSE chip
     /\ line' = (line \/ raise)
  /\ timer' = Expiry
  /\ acts' = "no"
  /\ UNCHANGED <<clock, sys, fed>>

\* wdt_update, called by the timer.
Update ==
  /\ timer <= 0
  /\ \/ Bites(chip) /\ Bite("chip")
     \/ ~Bites(chip) /\ Bites(sys) /\ Bite("sys")
     \/ ~Bites(chip) /\ ~Bites(sys) /\ Rearm

\* A system reset.
Reset ==
  /\ chip' = NoChip /\ sys' = NoSys /\ acts' = "no" /\ fed' = Unfed
  /\ UNCHANGED <<clock, timer, line>>

Older(n) == Least(n + 1, M)

\* A tick of the virtual clock; a timer that is due runs within MaxLate.
Tick ==
  /\ timer > -MaxLate
  /\ clock' = IF clock = M - 1 THEN 0 ELSE clock + 1
  /\ timer' = IF timer = Off THEN Off ELSE timer - 1
  /\ fed' = [chip |-> Older(fed.chip), sys |-> Older(fed.sys)]
  /\ acts' = "no"
  /\ UNCHANGED <<chip, sys, line>>

Next ==
  \/ \E d \in {"chip", "sys"}, v \in Counts : WriteTimer(d, v)
  \/ WriteCounts
  \/ \E c \in SUBSET Ctl : WriteChipControl(c)
  \/ Update
  \/ Reset
  \/ Tick

Spec == Init /\ [][Next]_vars

-----------------------------------------------------------------------------
(* Properties.                                                             *)

\* The type invariant.
TypeOK ==
  /\ clock \in 0 .. M - 1
  /\ chip \in [base : 0 .. M - 1, reset : 0 .. M - 1, irq : 0 .. M - 1, ctl : SUBSET Ctl]
  /\ sys \in [base : 0 .. M - 1, reset : 0 .. M - 1, ctl : SUBSET {"reset"}]
  /\ timer \in (-MaxLate) .. M - 1 \cup {Off}
  /\ line \in BOOLEAN
  /\ fed \in [{"chip", "sys"} -> 0 .. M]
  /\ acts \in {"no", "chip", "sys"}

\* The one timer covers every deadline that is enabled: it runs wdt_update no later than the
\* tick at which a counter reaches its reset count or its interrupt count.
TimerCovers ==
  /\ "reset" \in chip.ctl => timer <= 0 \/ (timer < M /\ timer <= chip.reset - Elapsed(chip))
  /\ "reset" \in sys.ctl => timer <= 0 \/ (timer < M /\ timer <= sys.reset - Elapsed(sys))
  /\ "irq" \in chip.ctl /\ "ack" \notin chip.ctl =>
       timer <= 0 \/ (timer < M /\ timer <= chip.irq - Elapsed(chip))

\* A watchdog that is fed does not bite: the machine is reset only when the counter that
\* did it has run for its whole count since it was last set.
FedNeverBites == [][acts' # "no" => fed[acts'] >= (IF acts' = "chip" THEN chip ELSE sys).reset]_vars
====
