------------------------------ MODULE TimerProofs -----------------------------
(***************************************************************************)
(* The two timers of the machine that a kernel relies on without reading   *)
(* them.                                                                   *)
(*                                                                         *)
(* The watchdog's timer covers its deadlines, for every width of the       *)
(* clock, every set of counts and every lateness.  TimerCovers is          *)
(* inductive with the types: a register write makes the timer due,         *)
(* wdt_update leaves it at the least of the deadlines ahead, a tick brings *)
(* the timer and each deadline one nearer.  The last needs that a counter  *)
(* below its count does not wrap, which the range of the counts gives.     *)
(*                                                                         *)
(* No fast IPI is lost, for every arrangement of the CPUs in clusters.     *)
(* RequestCarried is inductive with the types and the fact that the kernel *)
(* of a CPU that is off does nothing: without it a power-up could end a    *)
(* handler that has acknowledged and not served.                           *)
(***************************************************************************)
EXTENDS WDT, FastIPI, TLAPS

Inv == TypeOK /\ TimerCovers

\* The 32-bit difference is in range.
LEMMA SubRange ==
  ASSUME NEW a \in 0 .. M - 1, NEW b \in 0 .. M - 1
  PROVE  Sub(a, b) \in 0 .. M - 1
  BY WDTAssumption DEF Sub

\* After a tick a counter that is not at its last value shows one more.
LEMMA SubTick ==
  ASSUME NEW a \in 0 .. M - 1, NEW b \in 0 .. M - 1, Sub(a, b) # M - 1
  PROVE  Sub(IF a = M - 1 THEN 0 ELSE a + 1, b) = Sub(a, b) + 1
  BY WDTAssumption DEF Sub

\* The registers after a reset have their types.
LEMMA ResetTypes ==
  /\ NoChip \in [base : 0 .. M - 1, reset : 0 .. M - 1, irq : 0 .. M - 1, ctl : SUBSET Ctl]
  /\ NoSys \in [base : 0 .. M - 1, reset : 0 .. M - 1, ctl : SUBSET {"reset"}]
  /\ Unfed \in [{"chip", "sys"} -> 0 .. M]
  BY WDTAssumption DEF NoChip, NoSys, Unfed

\* A device out of reset satisfies the invariant: nothing is enabled.
LEMMA InitInv == Init => Inv
  <1> SUFFICES ASSUME Init PROVE Inv OBVIOUS
  <1>1. TypeOK BY ResetTypes, WDTAssumption DEF Init, TypeOK, Off
  <1>2. TimerCovers BY DEF Init, TimerCovers, NoChip, NoSys
  <1> QED BY <1>1, <1>2 DEF Inv

\* Every step keeps the types.
LEMMA TypeStep == TypeOK /\ [Next]_vars => TypeOK'
  <1> SUFFICES ASSUME TypeOK, [Next]_vars PROVE TypeOK' OBVIOUS
  <1> USE WDTAssumption
  <1> DEFINE Chips == [base : 0 .. M - 1, reset : 0 .. M - 1, irq : 0 .. M - 1, ctl : SUBSET Ctl]
             Syss == [base : 0 .. M - 1, reset : 0 .. M - 1, ctl : SUBSET {"reset"}]
  <1>0. 0 \in (-MaxLate) .. M - 1 OBVIOUS
  <1>1. ASSUME NEW d \in {"chip", "sys"}, NEW v \in Counts, WriteTimer(d, v) PROVE TypeOK'
    <2>1. v \in 0 .. M - 1 OBVIOUS
    <2>2. Sub(clock, v) \in 0 .. M - 1 BY <2>1, SubRange DEF TypeOK
    <2>3. chip' \in Chips /\ sys' \in Syss BY <1>1, <2>2 DEF WriteTimer, TypeOK
    <2>4. fed' \in [{"chip", "sys"} -> 0 .. M] BY <1>1, <2>1 DEF WriteTimer, TypeOK
    <2> QED BY <1>0, <1>1, <2>3, <2>4 DEF WriteTimer, Due, TypeOK
  <1>2. ASSUME WriteCounts PROVE TypeOK'
    <2>1. PICK c, s : WriteCount(c, s) /\ c \in Chips /\ s \in Syss
      <3>1. chip \in Chips /\ sys \in Syss BY DEF TypeOK
      <3>2. ASSUME NEW v \in Counts
            PROVE /\ [chip EXCEPT !.reset = v] \in Chips /\ [chip EXCEPT !.irq = v] \in Chips
                  /\ [sys EXCEPT !.reset = v] \in Syss
        BY <3>1
      <3>3. ASSUME NEW c \in SUBSET {"reset"} PROVE [sys EXCEPT !.ctl = c] \in Syss
        BY <3>1
      <3> QED BY <1>2, <3>1, <3>2, <3>3 DEF WriteCounts
    <2> QED BY <1>0, <2>1 DEF WriteCount, Due, TypeOK
  <1>3. ASSUME NEW c \in SUBSET Ctl, WriteChipControl(c) PROVE TypeOK'
    <2>1. chip' \in Chips BY <1>3 DEF WriteChipControl, TypeOK
    <2>2. line' \in BOOLEAN BY <1>3 DEF WriteChipControl, TypeOK
    <2> QED BY <1>0, <1>3, <2>1, <2>2 DEF WriteChipControl, Due, TypeOK
  <1>4. ASSUME NEW d \in {"chip", "sys"}, Bite(d) PROVE TypeOK'
    BY <1>4, ResetTypes DEF Bite, TypeOK
  <1>5. ASSUME Rearm PROVE TypeOK'
    <2>1. chip' \in Chips BY <1>5 DEF Rearm, TypeOK, Ctl
    <2>2. line' \in BOOLEAN BY <1>5 DEF Rearm, TypeOK
    <2>3. Elapsed(chip) \in 0 .. M - 1 /\ Elapsed(sys) \in 0 .. M - 1
      BY SubRange DEF Elapsed, TypeOK
    <2>4. ToReset(chip) \in 0 .. M - 1 /\ ToReset(sys) \in 0 .. M - 1 /\ ToIrq(chip) \in 0 .. M - 1
      BY <2>3 DEF ToReset, ToIrq, TypeOK
    <2>5. Expiry \in 0 .. M - 1 BY <2>4 DEF Expiry, Least
    <2> QED BY <1>5, <2>1, <2>2, <2>5 DEF Rearm, TypeOK
  <1>6. ASSUME Reset PROVE TypeOK' BY <1>6, ResetTypes DEF Reset, TypeOK
  <1>7. ASSUME Tick PROVE TypeOK'
    <2>1. clock' \in 0 .. M - 1 BY <1>7 DEF Tick, TypeOK
    <2>2. timer' \in (-MaxLate) .. M - 1 \cup {Off} BY <1>7 DEF Tick, TypeOK, Off
    <2>3. fed' \in [{"chip", "sys"} -> 0 .. M] BY <1>7 DEF Tick, TypeOK, Older, Least
    <2> QED BY <1>7, <2>1, <2>2, <2>3 DEF Tick, TypeOK
  <1>8. CASE UNCHANGED vars BY <1>8 DEF vars, TypeOK
  <1> QED BY <1>1, <1>2, <1>3, <1>4, <1>5, <1>6, <1>7, <1>8 DEF Next, Update

\* Every step keeps the deadlines covered.
LEMMA CoversStep == Inv /\ [Next]_vars => TimerCovers'
  <1> SUFFICES ASSUME Inv, [Next]_vars PROVE TimerCovers' OBVIOUS
  <1> USE WDTAssumption
  <1>t. TypeOK /\ TimerCovers BY DEF Inv
  <1>e. /\ Elapsed(chip) \in 0 .. M - 1 /\ Elapsed(sys) \in 0 .. M - 1
        /\ chip.reset \in 0 .. M - 1 /\ chip.irq \in 0 .. M - 1 /\ sys.reset \in 0 .. M - 1
    BY <1>t, SubRange DEF Elapsed, TypeOK
  <1>1. ASSUME timer' = 0 PROVE TimerCovers' BY <1>1 DEF TimerCovers
  <1>2. ASSUME chip' = NoChip, sys' = NoSys PROVE TimerCovers'
    BY <1>2 DEF TimerCovers, NoChip, NoSys
  <1>3. ASSUME ~Bites(chip), ~Bites(sys), Rearm PROVE TimerCovers'
    <2>1. /\ UNCHANGED <<clock, sys>> /\ timer' = Expiry
          /\ chip'.base = chip.base /\ chip'.reset = chip.reset /\ chip'.irq = chip.irq
          /\ "reset" \in chip'.ctl => "reset" \in chip.ctl
          /\ "irq" \in chip'.ctl => "irq" \in chip.ctl
          /\ "irq" \in chip'.ctl /\ "ack" \notin chip'.ctl => Elapsed(chip) < chip.irq
      BY <1>3, <1>t, <1>e DEF Rearm, TypeOK, IrqDue
    <2>2. Elapsed(chip)' = Elapsed(chip) /\ Elapsed(sys)' = Elapsed(sys)
      BY <2>1 DEF Elapsed
    <2>3. "reset" \in chip.ctl => Elapsed(chip) < chip.reset BY <1>3, <1>e DEF Bites
    <2>4. "reset" \in sys.ctl => Elapsed(sys) < sys.reset BY <1>3, <1>e DEF Bites
    <2>5. ToReset(chip) \in 0 .. M - 1 /\ ToReset(sys) \in 0 .. M - 1 /\ ToIrq(chip) \in 0 .. M - 1
      BY <1>e DEF ToReset, ToIrq
    <2>6. Expiry <= ToReset(chip) /\ Expiry <= ToReset(sys) /\ Expiry <= ToIrq(chip)
          /\ Expiry \in 0 .. M - 1
      BY <2>5 DEF Expiry, Least
    <2>7. "reset" \in chip'.ctl => timer' < M /\ timer' <= chip'.reset - Elapsed(chip)'
      BY <1>e, <2>1, <2>2, <2>3, <2>6 DEF ToReset
    <2>8. "reset" \in sys'.ctl => timer' < M /\ timer' <= sys'.reset - Elapsed(sys)'
      BY <1>e, <2>1, <2>2, <2>4, <2>6 DEF ToReset
    <2>9. "irq" \in chip'.ctl /\ "ack" \notin chip'.ctl =>
            timer' < M /\ timer' <= chip'.irq - Elapsed(chip)'
      BY <1>e, <2>1, <2>2, <2>6 DEF ToIrq
    <2> QED BY <2>7, <2>8, <2>9 DEF TimerCovers
  <1>4. ASSUME Tick PROVE TimerCovers'
    <2>1. chip' = chip /\ sys' = sys /\ timer \in (-MaxLate) .. M - 1 \cup {M + MaxLate}
          /\ clock' = (IF clock = M - 1 THEN 0 ELSE clock + 1)
          /\ timer' = IF timer = M + MaxLate THEN M + MaxLate ELSE timer - 1
      BY <1>4, <1>t DEF Tick, TypeOK, Off
    <2>2. ASSUME NEW d, d.base \in 0 .. M - 1, NEW k \in 0 .. M - 1,
                 timer <= 0 \/ (timer < M /\ timer <= k - Sub(clock, d.base))
          PROVE  timer' <= 0 \/ (timer' < M /\ timer' <= k - Sub(clock', d.base))
      <3> DEFINE e == Sub(clock, d.base)
                 f == Sub(clock', d.base)
      <3>1. clock \in 0 .. M - 1 /\ clock' \in 0 .. M - 1 BY <1>t, <2>1 DEF TypeOK
      <3>2. e \in 0 .. M - 1 /\ f \in 0 .. M - 1 BY <2>2, <3>1, SubRange
      <3>3. e # M - 1 => f = e + 1 BY <2>1, <2>2, <3>1, SubTick
      <3>4. timer <= 0 \/ (timer < M /\ timer <= k - e) BY <2>2
      <3> HIDE DEF e, f
      <3>5. timer' <= 0 \/ (timer' < M /\ timer' <= k - f) BY <2>1, <2>2, <3>2, <3>3, <3>4
      <3> QED BY <3>5 DEF f
    <2>3. chip.base \in 0 .. M - 1 /\ sys.base \in 0 .. M - 1 BY <1>t DEF TypeOK
    <2> QED BY <1>t, <1>e, <2>1, <2>2, <2>3 DEF TimerCovers, Elapsed
  <1>5. CASE UNCHANGED vars BY <1>5, <1>t DEF vars, TimerCovers, Elapsed
  <1>6. ASSUME NEW d \in {"chip", "sys"}, NEW v \in Counts, WriteTimer(d, v) PROVE TimerCovers'
    BY <1>1, <1>6 DEF WriteTimer, Due
  <1>7. ASSUME WriteCounts PROVE TimerCovers'
    BY <1>1, <1>7 DEF WriteCounts, WriteCount, Due
  <1>8. ASSUME NEW c \in SUBSET Ctl, WriteChipControl(c) PROVE TimerCovers'
    BY <1>1, <1>8 DEF WriteChipControl, Due
  <1>9. ASSUME Update PROVE TimerCovers' BY <1>2, <1>3, <1>9 DEF Update, Bite
  <1>10. ASSUME Reset PROVE TimerCovers' BY <1>2, <1>10 DEF Reset
  <1> QED BY <1>4, <1>5, <1>6, <1>7, <1>8, <1>9, <1>10 DEF Next

\* The invariant holds throughout: register writes, wdt_update, resets and ticks keep it.
THEOREM Invariance == Spec => []Inv
  <1>1. Inv /\ [Next]_vars => Inv' BY TypeStep, CoversStep DEF Inv
  <1> QED BY InitInv, <1>1, PTL DEF Spec

\* Type correctness of the watchdog.
THEOREM WDTTypeCorrect == Spec => []TypeOK
  <1>1. Inv => TypeOK BY DEF Inv
  <1> QED BY Invariance, <1>1, PTL

\* No deadline is missed: whenever a reset or an unraised interrupt is enabled, the timer that
\* runs wdt_update is due no later than its count.
THEOREM WDTTimerCovers == Spec => []TimerCovers
  <1>1. Inv => TimerCovers BY DEF Inv
  <1> QED BY Invariance, <1>1, PTL

-----------------------------------------------------------------------------
(* Feeding.                                                                *)

\* A counter never shows more than what has passed since it was set.
FedBound == Elapsed(chip) <= fed.chip /\ Elapsed(sys) <= fed.sys

\* Writing v makes a counter show v.
LEMMA SubSub ==
  ASSUME NEW a \in 0 .. M - 1, NEW v \in 0 .. M - 1
  PROVE  Sub(a, Sub(a, v)) = v
  BY WDTAssumption DEF Sub

\* A tick advances a counter by one or wraps it.
LEMMA SubTickBound ==
  ASSUME NEW a \in 0 .. M - 1, NEW b \in 0 .. M - 1
  PROVE  Sub(IF a = M - 1 THEN 0 ELSE a + 1, b) <= Sub(a, b) + 1
  BY WDTAssumption DEF Sub

\* Every step keeps FedBound: writes of the timers, resets and ticks change both sides.
LEMMA FedStep == TypeOK /\ FedBound /\ [Next]_vars => FedBound'
  <1> SUFFICES ASSUME TypeOK, FedBound, [Next]_vars PROVE FedBound' OBVIOUS
  <1> USE WDTAssumption
  <1>t. /\ clock \in 0 .. M - 1 /\ chip.base \in 0 .. M - 1 /\ sys.base \in 0 .. M - 1
        /\ fed.chip \in 0 .. M /\ fed.sys \in 0 .. M
    BY DEF TypeOK
  <1>e. Elapsed(chip) \in 0 .. M - 1 /\ Elapsed(sys) \in 0 .. M - 1 BY <1>t, SubRange DEF Elapsed
  <1>1. ASSUME UNCHANGED <<clock, fed>>, chip'.base = chip.base, sys'.base = sys.base
        PROVE  FedBound'
    BY <1>1 DEF FedBound, Elapsed
  <1>2. ASSUME chip' = NoChip, sys' = NoSys, fed' = Unfed, UNCHANGED clock PROVE FedBound'
    <2>1. Sub(clock, 0) \in 0 .. M - 1 BY <1>t, SubRange
    <2> QED BY <1>2, <2>1 DEF FedBound, Elapsed, NoChip, NoSys, Unfed
  <1>3. ASSUME NEW d \in {"chip", "sys"}, NEW v \in Counts, WriteTimer(d, v) PROVE FedBound'
    <2>1. v \in 0 .. M - 1 OBVIOUS
    <2>2. Sub(clock, Sub(clock, v)) = v BY <1>t, <2>1, SubSub
    <2>3. clock' = clock /\ fed' = [fed EXCEPT ![d] = v] BY <1>3 DEF WriteTimer, Due
    <2>4. CASE d = "chip"
      <3>1. chip'.base = Sub(clock, v) /\ sys' = sys BY <1>3, <2>4 DEF WriteTimer, TypeOK
      <3>2. fed'.chip = v /\ fed'.sys = fed.sys BY <2>3, <2>4 DEF TypeOK
      <3> QED BY <2>1, <2>2, <2>3, <3>1, <3>2 DEF FedBound, Elapsed
    <2>5. CASE d = "sys"
      <3>1. sys'.base = Sub(clock, v) /\ chip' = chip BY <1>3, <2>5 DEF WriteTimer, TypeOK
      <3>2. fed'.sys = v /\ fed'.chip = fed.chip BY <2>3, <2>5 DEF TypeOK
      <3> QED BY <2>1, <2>2, <2>3, <3>1, <3>2 DEF FedBound, Elapsed
    <2> QED BY <1>3, <2>4, <2>5
  <1>4. ASSUME WriteCounts PROVE FedBound'
    BY <1>1, <1>4 DEF WriteCounts, WriteCount, Due, TypeOK
  <1>5. ASSUME NEW c \in SUBSET Ctl, WriteChipControl(c) PROVE FedBound'
    BY <1>1, <1>5 DEF WriteChipControl, Due, TypeOK
  <1>6. ASSUME Update PROVE FedBound' 
    <2>1. ASSUME Rearm PROVE FedBound' BY <1>1, <2>1 DEF Rearm, TypeOK
    <2> QED BY <1>2, <1>6, <2>1 DEF Update, Bite
  <1>7. ASSUME Reset PROVE FedBound' BY <1>2, <1>7 DEF Reset
  <1>8. ASSUME Tick PROVE FedBound'
    <2>1. chip' = chip /\ sys' = sys /\ clock' = (IF clock = M - 1 THEN 0 ELSE clock + 1)
      BY <1>8 DEF Tick
    <2>2. fed'.chip = Older(fed.chip) /\ fed'.sys = Older(fed.sys) BY <1>8 DEF Tick
    <2>3. Elapsed(chip)' <= Elapsed(chip) + 1 /\ Elapsed(sys)' <= Elapsed(sys) + 1
      BY <1>t, <2>1, SubTickBound DEF Elapsed
    <2>4. clock' \in 0 .. M - 1 BY <1>t, <2>1
    <2>5. Elapsed(chip)' \in 0 .. M - 1 /\ Elapsed(sys)' \in 0 .. M - 1
      BY <1>t, <2>1, <2>4, SubRange DEF Elapsed
    <2> QED BY <1>t, <1>e, <2>2, <2>3, <2>5 DEF FedBound, Older, Least
  <1>9. CASE UNCHANGED vars BY <1>1, <1>9 DEF vars
  <1> QED BY <1>3, <1>4, <1>5, <1>6, <1>7, <1>8, <1>9 DEF Next

\* A watchdog that is fed does not bite: wdt_update resets the machine only after the counter
\* has run for its whole count.
THEOREM WDTFedNeverBites == Spec => FedNeverBites
  <1> DEFINE A == acts' # "no" => fed[acts'] >= (IF acts' = "chip" THEN chip ELSE sys).reset
  <1>1. Init => FedBound
    <2> SUFFICES ASSUME Init PROVE FedBound OBVIOUS
    <2>1. Sub(clock, 0) \in 0 .. M - 1 BY SubRange, WDTAssumption DEF Init
    <2> QED BY <2>1, WDTAssumption DEF Init, FedBound, Elapsed, NoChip, NoSys, Unfed
  <1>2. TypeOK /\ FedBound /\ [Next]_vars => [A]_vars
    <2> SUFFICES ASSUME TypeOK, FedBound, Next, acts' # "no"
                 PROVE  fed[acts'] >= (IF acts' = "chip" THEN chip ELSE sys).reset
      BY DEF vars
    <2>1. Update
      BY DEF Next, WriteTimer, WriteCounts, WriteCount, WriteChipControl, Due, Reset, Tick
    <2>e. Elapsed(chip) \in 0 .. M - 1 /\ Elapsed(sys) \in 0 .. M - 1
      BY SubRange DEF Elapsed, TypeOK
    <2>f. /\ fed.chip \in 0 .. M /\ fed.sys \in 0 .. M
          /\ chip.reset \in 0 .. M - 1 /\ sys.reset \in 0 .. M - 1
      BY DEF TypeOK
    <2>2. CASE Bites(chip) /\ Bite("chip")
      BY <2>2, <2>e, <2>f, WDTAssumption DEF Bites, Bite, FedBound
    <2>3. CASE Bites(sys) /\ Bite("sys")
      BY <2>3, <2>e, <2>f, WDTAssumption DEF Bites, Bite, FedBound
    <2> QED BY <2>1, <2>2, <2>3 DEF Update, Rearm
  <1>3. Spec => []FedBound BY <1>1, FedStep, WDTTypeCorrect, PTL DEF Spec
  <1> QED BY <1>2, <1>3, WDTTypeCorrect, PTL DEF Spec, FedNeverBites

-----------------------------------------------------------------------------
(* The fast IPIs.                                                          *)

IpiSr == [src : Core, type : Types \cup {"none"}]
CoreRegs == [sr : IpiSr, fiq : BOOLEAN, on : BOOLEAN, halted : BOOLEAN]
Cores == [Core -> CoreRegs]

IPITypeOK ==
  /\ core \in Cores
  /\ deferred \subseteq Core \X Core /\ nowake \subseteq Core \X Core
  /\ kernel \in [Core -> {"off", "boot", "idle", "ack", "serve"}]
  /\ posted \in [Core -> SUBSET (Core \X Types)]
  /\ requests \in [ipi : 0 .. MaxRequests, reset : 0 .. MaxRestarts]

\* The kernel of a CPU that is off does nothing, so that powering it up ends no handler.
OffIdle == \A c \in Core : ~core[c].on => kernel[c] = "off"

IPIInv == IPITypeOK /\ OffIdle /\ RequestCarried

\* A set of CPUs that is not empty has a first one, as the loops of the tick find it.
LEMMA LeastCoreIn ==
  ASSUME NEW S \in SUBSET Core, S # {}
  PROVE  LeastCore(S) \in S
  <1>1. S \subseteq 0 .. 5 BY FastIPIAssumption DEF Core
  <1>2. \E x \in S : \A y \in S : x <= y
    <2>1. CASE 0 \in S BY <1>1, <2>1
    <2>2. CASE 0 \notin S /\ 1 \in S BY <1>1, <2>2
    <2>3. CASE {0, 1} \cap S = {} /\ 2 \in S BY <1>1, <2>3
    <2>4. CASE {0, 1, 2} \cap S = {} /\ 3 \in S BY <1>1, <2>4
    <2>5. CASE {0, 1, 2, 3} \cap S = {} /\ 4 \in S BY <1>1, <2>5
    <2>6. CASE {0, 1, 2, 3, 4} \cap S = {}
      <3>1. \A y \in S : y = 5 BY <1>1, <2>6
      <3> QED BY <3>1
    <2> QED BY <2>1, <2>2, <2>3, <2>4, <2>5, <2>6
  <1> QED BY <1>2 DEF LeastCore

\* A delivery touches the status and the FIQ of its target alone, and what is in a status
\* register stays there.
LEMMA Delivered ==
  ASSUME NEW C \in Cores, NEW j \in Core, NEW i \in Core, NEW t \in Types
  PROVE  /\ DeliverIpi(C, j, i, t) \in Cores
         /\ DeliverIpi(C, j, i, t)[j].sr # NoIpi
         /\ \A k \in Core : /\ C[k].sr # NoIpi => DeliverIpi(C, j, i, t)[k].sr # NoIpi
                            /\ DeliverIpi(C, j, i, t)[k].on = C[k].on
  <1> DEFINE s == [src |-> i, type |-> t]
             D == DeliverIpi(C, j, i, t)
  <1>1. s \in IpiSr /\ s # NoIpi BY DEF IpiSr, NoIpi, Types
  <1> HIDE DEF s
  <1>2. CASE C[j].sr # NoIpi BY <1>2 DEF DeliverIpi
  <1>3. CASE C[j].sr = NoIpi
    <2>1. D = [C EXCEPT ![j].sr = s, ![j].fiq = TRUE] BY <1>3 DEF DeliverIpi, s
    <2> HIDE DEF D
    <2>2. D \in Cores /\ \A k \in Core : D[k].sr = (IF k = j THEN s ELSE C[k].sr) /\ D[k].on = C[k].on
      BY <1>1, <2>1 DEF Cores, CoreRegs
    <2> QED BY <1>1, <2>2 DEF D
  <1> QED BY <1>2, <1>3

\* A pass of the tick delivers and does nothing else.
LEMMA TickPassKeeps ==
  ASSUME NEW C \in Cores, NEW flags \in SUBSET (Core \X Core), NEW t \in Types
  PROVE  /\ TickPass(C, flags, t) \in Cores
         /\ \A k \in Core : /\ C[k].sr # NoIpi => TickPass(C, flags, t)[k].sr # NoIpi
                            /\ TickPass(C, flags, t)[k].on = C[k].on
  <1> DEFINE T == TickPass(C, flags, t)
             sources(j) == {i \in Core : <<i, j>> \in flags /\
                       \A k \in 0 .. j - 1 : ClusterOf[k] = ClusterOf[j] => <<i, k>> \notin flags}
  <1>1. T = [j \in Core |-> IF sources(j) = {} THEN C[j]
                      ELSE DeliverIpi(C, j, LeastCore(sources(j)), t)[j]]
    BY DEF TickPass
  <1> HIDE DEF T
  <1>2. ASSUME NEW j \in Core
        PROVE  /\ T[j] \in CoreRegs
               /\ C[j].sr # NoIpi => T[j].sr # NoIpi
               /\ T[j].on = C[j].on
    <2>1. sources(j) \in SUBSET Core OBVIOUS
    <2> DEFINE S == sources(j)
    <2>2. T[j] = IF S = {} THEN C[j] ELSE DeliverIpi(C, j, LeastCore(S), t)[j] BY <1>1
    <2> HIDE DEF S
    <2>3. CASE S = {} BY <2>2, <2>3 DEF Cores
    <2>4. CASE S # {}
      <3>1. LeastCore(S) \in Core BY <2>1, <2>4, LeastCoreIn DEF S
      <3> DEFINE D == DeliverIpi(C, j, LeastCore(S), t)
      <3>2. D \in Cores /\ (C[j].sr # NoIpi => D[j].sr # NoIpi) /\ D[j].on = C[j].on
        BY <3>1, Delivered
      <3>3. T[j] = D[j] BY <2>2, <2>4
      <3> HIDE DEF D
      <3> QED BY <3>2, <3>3 DEF Cores
    <2> QED BY <2>3, <2>4
  <1>3. T \in Cores BY <1>1, <1>2 DEF Cores
  <1> QED BY <1>2, <1>3 DEF T

\* The initial states satisfy the invariant: nothing is posted.
LEMMA IPIInitInv == IPIInit => IPIInv
  <1> SUFFICES ASSUME IPIInit PROVE IPIInv OBVIOUS
  <1>0. 0 \in Core /\ NoIpi \in IpiSr BY FastIPIAssumption DEF Core, NoIpi, IpiSr
  <1>1. core \in Cores BY <1>0 DEF IPIInit, Cores, CoreRegs
  <1>2. IPITypeOK BY <1>1, FastIPIAssumption DEF IPIInit, IPITypeOK
  <1>3. OffIdle BY DEF IPIInit, OffIdle
  <1>4. RequestCarried BY DEF IPIInit, RequestCarried
  <1> QED BY <1>2, <1>3, <1>4 DEF IPIInv

\* A step that posts nothing, takes no flag away, clears no status and ends no handler
\* leaves every posted request carried.
LEMMA CarriedFrame ==
  ASSUME RequestCarried,
         \A j \in Core : posted'[j] \subseteq posted[j],
         deferred \subseteq deferred', nowake \subseteq nowake',
         \A j \in Core : core[j].sr # NoIpi => core'[j].sr # NoIpi,
         \A j \in Core : kernel[j] = "serve" => kernel'[j] = "serve"
  PROVE  RequestCarried'
  BY DEF RequestCarried

\* Every step keeps the invariant.
LEMMA IPIStep == IPIInv /\ [IPINext]_ipivars => IPIInv'
  <1> SUFFICES ASSUME IPIInv, [IPINext]_ipivars PROVE IPIInv' OBVIOUS
  <1>i. IPITypeOK /\ OffIdle /\ RequestCarried BY DEF IPIInv
  <1>t. /\ core \in Cores
        /\ deferred \in SUBSET (Core \X Core) /\ nowake \in SUBSET (Core \X Core)
        /\ kernel \in [Core -> {"off", "boot", "idle", "ack", "serve"}]
        /\ posted \in [Core -> SUBSET (Core \X Types)]
        /\ requests \in [ipi : 0 .. MaxRequests, reset : 0 .. MaxRestarts]
    BY <1>i DEF IPITypeOK
  <1>c. core \in Cores BY <1>t
  <1>s. ASSUME core' \in Cores, deferred' \subseteq Core \X Core, nowake' \subseteq Core \X Core,
               kernel' \in [Core -> {"off", "boot", "idle", "ack", "serve"}],
               posted' \in [Core -> SUBSET (Core \X Types)],
               requests' \in [ipi : 0 .. MaxRequests, reset : 0 .. MaxRestarts],
               OffIdle', RequestCarried'
        PROVE  IPIInv'
    BY <1>s DEF IPIInv, IPITypeOK
  <1>n. NoIpi \in IpiSr BY FastIPIAssumption DEF NoIpi, IpiSr, Core
  <1>r. ASSUME IPIRequest
        PROVE  requests' \in [ipi : 0 .. MaxRequests, reset : 0 .. MaxRestarts]
    BY <1>r, <1>t, FastIPIAssumption DEF IPIRequest
  <1>1. CASE IpicrTick
    <2> DEFINE C == TickPass(core, DeferredDue, "deferred")
    <2>1. DeferredDue \in SUBSET (Core \X Core) /\ NowakeDue \in SUBSET (Core \X Core)
      BY <1>t DEF DeferredDue, NowakeDue
    <2>2. "deferred" \in Types /\ "nowake" \in Types BY DEF Types
    <2>3. C \in Cores /\ \A k \in Core : (core[k].sr # NoIpi => C[k].sr # NoIpi) /\ C[k].on = core[k].on
      BY <1>t, <2>1, <2>2, TickPassKeeps
    <2>4. core' = TickPass(C, NowakeDue, "nowake") /\ UNCHANGED <<deferred, nowake, kernel, posted, requests>>
      BY <1>1 DEF IpicrTick
    <2> HIDE DEF C
    <2>5. core' \in Cores /\ \A k \in Core : (C[k].sr # NoIpi => core'[k].sr # NoIpi) /\ core'[k].on = C[k].on
      BY <2>1, <2>2, <2>3, <2>4, TickPassKeeps
    <2>6. OffIdle' BY <1>i, <2>3, <2>4, <2>5 DEF OffIdle
    <2>7. RequestCarried' BY <1>i, <2>3, <2>4, <2>5, CarriedFrame
    <2> QED BY <1>s, <1>t, <2>4, <2>5, <2>6, <2>7
  <1>2. CASE MachineReset
    <2>1. core' \in Cores BY <1>2, <1>t DEF MachineReset, Cores, CoreRegs
    <2>2. kernel' \in [Core -> {"off", "boot", "idle", "ack", "serve"}] /\ OffIdle'
      BY <1>2 DEF MachineReset, OffIdle
    <2>3. posted' \in [Core -> SUBSET (Core \X Types)] /\ RequestCarried'
      BY <1>2 DEF MachineReset, RequestCarried
    <2>4. requests' \in [ipi : 0 .. MaxRequests, reset : 0 .. MaxRestarts]
      BY <1>2, <1>t, FastIPIAssumption DEF MachineReset
    <2> QED BY <1>2, <1>s, <1>t, <2>1, <2>2, <2>3, <2>4 DEF MachineReset
  <1>3. ASSUME NEW i \in Core, NEW c \in Core, CpuStart(i, c) PROVE IPIInv'
    <2>1. core' \in Cores /\ \A k \in Core : core'[k].sr = core[k].sr /\ (core[k].on => core'[k].on)
      BY <1>3, <1>t DEF CpuStart, Cores, CoreRegs
    <2>2. kernel' \in [Core -> {"off", "boot", "idle", "ack", "serve"}] BY <1>3, <1>t DEF CpuStart
    <2>3. core'[c].on /\ kernel[c] = "off" BY <1>3, <1>t, <1>i DEF CpuStart, Cores, CoreRegs, OffIdle
    <2>4. OffIdle' BY <1>3, <1>i, <1>t, <2>1, <2>3 DEF CpuStart, OffIdle
    <2>5. \A k \in Core : kernel[k] = "serve" => kernel'[k] = "serve"
      BY <1>3, <1>t, <2>3 DEF CpuStart
    <2>6. RequestCarried' BY <1>3, <1>i, <2>1, <2>5, CarriedFrame DEF CpuStart
    <2> QED BY <1>3, <1>s, <1>t, <2>1, <2>2, <2>4, <2>6 DEF CpuStart
  <1>4. ASSUME NEW i \in Core, NEW j \in Core, Retract(i, j) PROVE IPIInv'
    <2>1. /\ core' = core /\ kernel' = kernel
          /\ deferred' = deferred \ {<<i, j>>} /\ nowake' = nowake \ {<<i, j>>}
          /\ posted' = [posted EXCEPT ![j] = @ \ {<<i, "deferred">>, <<i, "nowake">>}]
      BY <1>4 DEF Retract, IpiRetract
    <2>2. posted' \in [Core -> SUBSET (Core \X Types)] BY <1>t, <2>1
    <2>3. OffIdle' BY <1>i, <2>1 DEF OffIdle
    <2>4. ASSUME NEW a \in Core, NEW k \in Core, NEW t \in Types, <<a, t>> \in posted'[k]
          PROVE  /\ <<a, t>> \in posted[k]
                 /\ a = i /\ k = j => t \notin {"deferred", "nowake"}
      BY <1>t, <2>1, <2>4
    <2>5. RequestCarried' BY <1>i, <2>1, <2>4 DEF RequestCarried
    <2> QED BY <1>4, <1>r, <1>s, <1>t, <2>1, <2>2, <2>3, <2>5 DEF Retract
  <1>5. ASSUME NEW i \in Core, NEW j \in Core, NEW t \in Types, Send(i, j, t) PROVE IPIInv'
    <2>1. kernel' = kernel /\ posted' = [posted EXCEPT ![j] = @ \cup {<<i, t>>}] /\ IPIRequest
          /\ IpiRr(i, j, t)
      BY <1>5 DEF Send
    <2>2. posted' \in [Core -> SUBSET (Core \X Types)] BY <1>t, <2>1
    <2>3. /\ core' \in Cores
          /\ \A k \in Core : (core[k].sr # NoIpi => core'[k].sr # NoIpi) /\ core'[k].on = core[k].on
          /\ deferred' \in SUBSET (Core \X Core) /\ deferred \subseteq deferred'
          /\ nowake' \in SUBSET (Core \X Core) /\ nowake \subseteq nowake'
          /\ \/ core'[j].sr # NoIpi
             \/ t = "nowake" /\ <<i, j>> \in nowake'
             \/ t = "deferred" /\ <<i, j>> \in deferred'
      <3>1. CASE core' = DeliverIpi(core, j, i, "immediate") /\ UNCHANGED <<deferred, nowake>>
        <4>1. "immediate" \in Types BY DEF Types
        <4> DEFINE D == DeliverIpi(core, j, i, "immediate")
        <4>2. /\ D \in Cores /\ D[j].sr # NoIpi
              /\ \A k \in Core : (core[k].sr # NoIpi => D[k].sr # NoIpi) /\ D[k].on = core[k].on
          BY <1>t, <4>1, Delivered
        <4>3. core' = D /\ deferred' = deferred /\ nowake' = nowake BY <3>1
        <4> HIDE DEF D
        <4> QED BY <1>t, <4>2, <4>3
      <3>2. CASE t = "nowake" /\ nowake' = nowake \cup {<<i, j>>} /\ UNCHANGED <<core, deferred>>
        BY <1>t, <3>2
      <3>3. CASE t = "deferred" /\ deferred' = deferred \cup {<<i, j>>} /\ UNCHANGED <<core, nowake>>
        BY <1>t, <3>3
      <3> QED BY <2>1, <3>1, <3>2, <3>3 DEF IpiRr
    <2>4. OffIdle' BY <1>i, <2>1, <2>3 DEF OffIdle
    <2>5. ASSUME NEW a \in Core, NEW k \in Core, NEW u \in Types, <<a, u>> \in posted'[k]
          PROVE  <<a, u>> \in posted[k] \/ (a = i /\ k = j /\ u = t)
      BY <1>t, <2>1, <2>5
    <2>6. RequestCarried' BY <1>i, <2>1, <2>3, <2>5 DEF RequestCarried
    <2> QED BY <1>r, <1>s, <1>t, <2>1, <2>2, <2>3, <2>4, <2>6
  <1>6. ASSUME NEW c \in Core, core' \in Cores, 
               \A k \in Core : core'[k].sr = core[k].sr /\ core'[k].on = core[k].on,
               deferred' = deferred, nowake' = nowake, posted' = posted, requests' = requests,
               \/ kernel' = kernel
               \/ kernel[c] = "idle" /\ kernel' = [kernel EXCEPT ![c] = "ack"]
               \/ kernel[c] = "boot" /\ kernel' = [kernel EXCEPT ![c] = "idle"]
        PROVE  IPIInv'
    <2>1. /\ kernel' \in [Core -> {"off", "boot", "idle", "ack", "serve"}]
          /\ \A k \in Core : /\ kernel[k] = "serve" => kernel'[k] = "serve"
                             /\ kernel[k] = "off" => kernel'[k] = "off"
      BY <1>6, <1>t
    <2>2. OffIdle' BY <1>6, <1>i, <2>1 DEF OffIdle
    <2>3. RequestCarried' BY <1>6, <1>i, <2>1, CarriedFrame
    <2> QED BY <1>6, <1>s, <1>t, <2>1, <2>2, <2>3
  <1>7. ASSUME NEW c \in Core, Boot(c) PROVE IPIInv'
    <2>1. CASE core[c].sr # NoIpi
      <3>1. core' = [core EXCEPT ![c].fiq = TRUE] BY <1>7, <2>1 DEF Boot
      <3>2. core' \in Cores /\ \A k \in Core : core'[k].sr = core[k].sr /\ core'[k].on = core[k].on
        BY <1>c, <3>1 DEF Cores, CoreRegs
      <3> QED BY <1>6, <1>7, <3>2 DEF Boot
    <2>2. CASE core[c].sr = NoIpi
      <3>1. core' = [core EXCEPT ![c].fiq = FALSE] BY <1>7, <2>2 DEF Boot
      <3>2. core' \in Cores /\ \A k \in Core : core'[k].sr = core[k].sr /\ core'[k].on = core[k].on
        BY <1>c, <3>1 DEF Cores, CoreRegs
      <3> QED BY <1>6, <1>7, <3>2 DEF Boot
    <2> QED BY <2>1, <2>2
  <1>8. ASSUME NEW c \in Core, AckFiq(c) PROVE IPIInv'
    <2>1. /\ kernel[c] = "ack" /\ kernel' = [kernel EXCEPT ![c] = "serve"]
          /\ posted' = posted /\ requests' = requests
          /\ core' = [core EXCEPT ![c].sr = NoIpi, ![c].fiq = FALSE]
          /\ deferred' \subseteq deferred /\ nowake' \subseteq nowake
          /\ \A a, k \in Core : k # c => /\ <<a, k>> \in deferred => <<a, k>> \in deferred'
                                         /\ <<a, k>> \in nowake => <<a, k>> \in nowake'
      BY <1>8 DEF AckFiq, IpiWriteSr
    <2>2. /\ core' \in Cores /\ \A k \in Core : core'[k].on = core[k].on
          /\ \A k \in Core : k # c => core'[k].sr = core[k].sr
      <3>1. core' = [core EXCEPT ![c].sr = NoIpi, ![c].fiq = FALSE] BY <2>1
      <3> QED BY <1>c, <1>n, <3>1 DEF Cores, CoreRegs
    <2>3. /\ kernel' \in [Core -> {"off", "boot", "idle", "ack", "serve"}]
          /\ \A k \in Core : kernel'[k] = IF k = c THEN "serve" ELSE kernel[k]
      BY <1>t, <2>1
    <2>4. OffIdle'
      <3>1. core[c].on BY <1>i, <2>1 DEF OffIdle
      <3> QED BY <1>i, <2>2, <2>3, <3>1 DEF OffIdle
    <2>5. ASSUME NEW a \in Core, NEW k \in Core, NEW t \in Types, <<a, t>> \in posted'[k]
          PROVE  \/ core'[k].sr # NoIpi \/ kernel'[k] = "serve"
                 \/ t = "deferred" /\ <<a, k>> \in deferred'
                 \/ t = "nowake" /\ <<a, k>> \in nowake'
      <3>1. CASE k = c BY <2>3, <3>1
      <3>2. CASE k # c
        <4>1. \/ core[k].sr # NoIpi \/ kernel[k] = "serve"
              \/ t = "deferred" /\ <<a, k>> \in deferred
              \/ t = "nowake" /\ <<a, k>> \in nowake
          BY <1>i, <2>1, <2>5 DEF RequestCarried
        <4> QED BY <2>1, <2>2, <2>3, <3>2, <4>1
      <3> QED BY <3>1, <3>2
    <2>6. RequestCarried' BY <2>5 DEF RequestCarried
    <2> QED BY <1>s, <1>t, <2>1, <2>2, <2>3, <2>4, <2>6
  <1>9. ASSUME NEW c \in Core, ServePosted(c) PROVE IPIInv'
    <2>1. /\ kernel[c] = "serve" /\ kernel' = [kernel EXCEPT ![c] = "idle"]
          /\ posted' = [posted EXCEPT ![c] = {}]
          /\ UNCHANGED <<core, deferred, nowake, requests>>
      BY <1>9 DEF ServePosted
    <2>2. /\ kernel' \in [Core -> {"off", "boot", "idle", "ack", "serve"}]
          /\ \A k \in Core : kernel'[k] = IF k = c THEN "idle" ELSE kernel[k]
      BY <1>t, <2>1
    <2>3. /\ posted' \in [Core -> SUBSET (Core \X Types)]
          /\ \A k \in Core : posted'[k] = IF k = c THEN {} ELSE posted[k]
      BY <1>t, <2>1
    <2>4. OffIdle' BY <1>i, <2>1, <2>2 DEF OffIdle
    <2>5. RequestCarried' BY <1>i, <2>1, <2>2, <2>3 DEF RequestCarried
    <2> QED BY <1>s, <1>t, <2>1, <2>2, <2>3, <2>4, <2>5
  <1>10. CASE UNCHANGED ipivars
    BY <1>10, <1>i DEF ipivars, IPIInv, IPITypeOK, OffIdle, RequestCarried
  <1>11. ASSUME NEW c \in Core, Sleep(c) \/ Wake(c) \/ TakeFiq(c) PROVE IPIInv'
    <2>1. CASE core' = [core EXCEPT ![c].halted = TRUE] /\ Sleep(c)
      <3>1. core' \in Cores /\ \A k \in Core : core'[k].sr = core[k].sr /\ core'[k].on = core[k].on
        BY <1>c, <2>1 DEF Cores, CoreRegs
      <3> QED BY <1>6, <2>1, <3>1 DEF Sleep
    <2>2. CASE core' = [core EXCEPT ![c].halted = FALSE] /\ (Wake(c) \/ TakeFiq(c))
      <3>1. core' \in Cores /\ \A k \in Core : core'[k].sr = core[k].sr /\ core'[k].on = core[k].on
        BY <1>c, <2>2 DEF Cores, CoreRegs
      <3> QED BY <1>6, <2>2, <3>1 DEF Wake, TakeFiq
    <2> QED BY <1>11, <2>1, <2>2 DEF Sleep, Wake, TakeFiq
  <1> QED BY <1>1, <1>2, <1>3, <1>4, <1>5, <1>7, <1>8, <1>9, <1>10, <1>11 DEF IPINext, Kernel

\* No request is lost: whatever senders, the tick, acknowledgements, power-ups and resets do,
\* in every arrangement of CPUs in clusters and for any number of requests, a request that is
\* still posted has a status, a flag or a handler on its way.
THEOREM IPIRequestCarried == IPISpec => []RequestCarried
  <1>1. IPIInv => RequestCarried BY DEF IPIInv
  <1> QED BY IPIInitInv, IPIStep, <1>1, PTL DEF IPISpec
=============================================================================
