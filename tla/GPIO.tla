-------------------------------- MODULE GPIO --------------------------------
(***************************************************************************)
(* The GPIO controller (hw/gpio/apple_gpio.c) as an interrupt controller:  *)
(* devices drive its input pins, a pin's configuration says which levels   *)
(* or edges latch it in an interrupt group, and a group's line to the AIC  *)
(* is up while a pin is latched in it.  All handlers run under the BQL.    *)
(*                                                                         *)
(* Around it are devices with one pin each, which hold a level while they  *)
(* have work or pulse the pin for each piece of it, and a kernel that      *)
(* masks, acknowledges, serves and unmasks.                                *)
(***************************************************************************)
EXTENDS Naturals, FiniteSets

CONSTANTS
  Pins, Groups,
  MaxWork,      \* bound: requests of a device that are not served yet
  MaxRequests,  \* bound: requests in all
  MaxConfigs,   \* bound: times a pin is given a group
  MaxGpResets   \* bound: machine resets

ASSUME GPIOAssumption ==
  /\ IsFiniteSet(Pins) /\ IsFiniteSet(Groups) /\ Groups \cap {"masked", "none"} = {}
  /\ {MaxWork, MaxRequests, MaxConfigs, MaxGpResets} \subseteq Nat

VARIABLES
  gp,     \* the controller: pin configurations, latches, inputs, group lines
  gdev,   \* the devices: how a pin is used, its level, the work to be served
  gcpu,   \* the kernel: the group it gave each pin, the interrupt under way
  gruns   \* how much of each bound is used up

gpvars == <<gp, gdev, gcpu, gruns>>

LevelModes == {"hi", "lo"}
EdgeModes  == {"ris", "fal", "any"}

-----------------------------------------------------------------------------
(* The controller. *)

Masked == [grp |-> "masked", mode |-> "off"]

\* The latch is in the group the pin has now; the other groups keep theirs.
Latch(G, p, g, set) ==
  LET latched == IF set THEN G.latch[g] \cup {p} ELSE G.latch[g]
  IN [G EXCEPT !.latch[g] = latched, !.irq[g] = latched # {}]

\* apple_gpio_update_pincfg: what was latched is forgotten, a level is looked at
\* afresh.
UpdatePincfg(G, p, c) ==
  LET H == [G EXCEPT !.cfg[p] = c]
  IN IF c.grp = "masked" THEN H
     ELSE Latch([H EXCEPT !.latch[c.grp] = @ \ {p}], p, c.grp,
                \/ c.mode = "hi" /\ p \in G.in
                \/ c.mode = "lo" /\ p \notin G.in)

\* What an input change latches.
Triggers(G, p, level) ==
  LET was == p \in G.old
  IN CASE G.cfg[p].mode = "hi"  -> level
       [] G.cfg[p].mode = "lo"  -> ~level
       [] G.cfg[p].mode = "ris" -> ~was /\ level
       [] G.cfg[p].mode = "fal" -> was /\ ~level
       [] G.cfg[p].mode = "any" -> was # level
       [] OTHER                 -> FALSE

\* A fault: the level before is not kept.
GpioSet_NoOld(G, p, level) ==
  LET H == [G EXCEPT !.in = IF level THEN @ \cup {p} ELSE @ \ {p}]
      c == G.cfg[p]
  IN IF c.grp = "masked" THEN H ELSE Latch(H, p, c.grp, Triggers(G, p, level))

\* apple_gpio_set: a device drives its pin, to a new level or to the same one.
GpioSet(G, p, level) ==
  LET in == IF level THEN G.in \cup {p} ELSE G.in \ {p}
      H  == [G EXCEPT !.in = in, !.old = in]
      c  == G.cfg[p]
  IN IF c.grp = "masked" THEN H ELSE Latch(H, p, c.grp, Triggers(G, p, level))

\* apple_gpio_int_write
IntWrite(G, g, ps) ==
  [G EXCEPT !.latch[g] = @ \ ps, !.irq[g] = IF G.latch[g] \subseteq ps THEN FALSE ELSE @]

\* apple_gpio_reset: the inputs are forgotten, the group lines stay as they are.
GpioReset(G) ==
  [cfg |-> [p \in Pins |-> Masked], latch |-> [g \in Groups |-> {}],
   in |-> {}, old |-> {}, irq |-> G.irq]

-----------------------------------------------------------------------------
(* The devices. *)

\* A device asks to be served: it holds its level, pulses its pin or flips it.
GpRequest(p) ==
  LET d == gdev[p]
  IN /\ gruns.requests < MaxRequests
     /\ d.work < MaxWork
     /\ gp' = CASE d.mode = "hi"  -> GpioSet(gp, p, TRUE)
                [] d.mode = "lo"  -> GpioSet(gp, p, FALSE)
                [] d.mode = "any" -> GpioSet(gp, p, ~d.level)
                [] OTHER          -> GpioSet(GpioSet(gp, p, TRUE), p, FALSE)
     /\ gdev' = [gdev EXCEPT ![p].work = @ + 1, ![p].level = (d.mode = "hi" \/ (d.mode = "any" /\ ~@))]
     /\ gruns' = [gruns EXCEPT !.requests = @ + 1]
     /\ UNCHANGED gcpu

\* The driver of pin p has done all the work; a held level goes back.
Serviced(p) ==
  /\ gdev' = [gdev EXCEPT ![p].work = 0,
                          ![p].level = IF gdev[p].mode \in LevelModes THEN gdev[p].mode = "lo" ELSE @]
  /\ gp' = IF gdev[p].mode \in LevelModes THEN GpioSet(gp, p, gdev[p].mode = "lo") ELSE gp

-----------------------------------------------------------------------------
(* The kernel. *)

GpGoto(st, p, g) == gcpu' = [gcpu EXCEPT !.st = st, !.pin = p, !.from = g]

\* At boot every latch is cleared.
GpBoot ==
  /\ gcpu.st = "boot"
  /\ gp' = [gp EXCEPT !.latch = [g \in Groups |-> {}], !.irq = [g \in Groups |-> FALSE]]
  /\ gcpu' = [gcpu EXCEPT !.st = "idle"]
  /\ UNCHANGED <<gdev, gruns>>

\* A driver asks for its pin's interrupt, or the pin moves to another group.
\* The write drops a latched edge, so the driver of an edge looks at its device.
GpConfigure(p, g) ==
  /\ gcpu.st = "idle"
  /\ gruns.configs < MaxConfigs
  /\ gp' = UpdatePincfg(gp, p, [grp |-> g, mode |-> gdev[p].mode])
  /\ gcpu' = [gcpu EXCEPT !.group[p] = g, !.pin = p, !.from = g,
                          !.st = IF gdev[p].mode \in EdgeModes THEN "acked" ELSE "idle"]
  /\ gruns' = [gruns EXCEPT !.configs = @ + 1]
  /\ UNCHANGED gdev

\* A group's interrupt: the pin is masked if it is a level, else acknowledged.
GpTake(g, p) ==
  /\ gcpu.st = "idle" /\ gp.irq[g] /\ p \in gp.latch[g]
  /\ IF gdev[p].mode \in LevelModes
     THEN gp' = UpdatePincfg(gp, p, Masked) /\ GpGoto("masked", p, g)
     ELSE gp' = IntWrite(gp, g, {p}) /\ GpGoto("acked", p, g)
  /\ UNCHANGED <<gdev, gruns>>

GpAck ==
  /\ gcpu.st = "masked"
  /\ gp' = IntWrite(gp, gcpu.from, {gcpu.pin})
  /\ GpGoto("acked", gcpu.pin, gcpu.from)
  /\ UNCHANGED <<gdev, gruns>>

GpServe ==
  /\ gcpu.st = "acked"
  /\ Serviced(gcpu.pin)
  /\ GpGoto(IF gdev[gcpu.pin].mode \in LevelModes THEN "served" ELSE "idle", gcpu.pin, gcpu.from)
  /\ UNCHANGED gruns

GpUnmask ==
  /\ gcpu.st = "served"
  /\ gp' = UpdatePincfg(gp, gcpu.pin, [grp |-> gcpu.group[gcpu.pin], mode |-> gdev[gcpu.pin].mode])
  /\ GpGoto("idle", gcpu.pin, gcpu.from)
  /\ UNCHANGED <<gdev, gruns>>

NoKernel == [st |-> "boot", group |-> [p \in Pins |-> "none"],
             pin |-> CHOOSE p \in Pins : TRUE, from |-> "none"]

\* A machine reset: the devices go idle, then the controller forgets its inputs.
GpMachineReset ==
  /\ gruns.resets < MaxGpResets
  /\ gp' = GpioReset(gp)
  /\ gdev' = [p \in Pins |-> [gdev[p] EXCEPT !.work = 0, !.level = gdev[p].mode = "lo"]]
  /\ gcpu' = NoKernel
  /\ gruns' = [gruns EXCEPT !.resets = @ + 1]

-----------------------------------------------------------------------------

GpInit ==
  /\ gp = GpioReset([irq |-> [g \in Groups |-> FALSE]])
  /\ \E mode \in [Pins -> LevelModes \cup EdgeModes] :
       gdev = [p \in Pins |-> [mode |-> mode[p], work |-> 0, level |-> mode[p] = "lo"]]
  /\ gcpu = NoKernel
  /\ gruns = [requests |-> 0, configs |-> 0, resets |-> 0]

\* The kernel's interrupt handling, which it does not put off.
GpHandle ==
  \/ \E g \in Groups, p \in Pins : GpTake(g, p)
  \/ GpAck \/ GpServe \/ GpUnmask

GpNext ==
  \/ \E p \in Pins : GpRequest(p)
  \/ \E p \in Pins, g \in Groups : GpConfigure(p, g)
  \/ GpBoot \/ GpHandle \/ GpMachineReset

GpSpec == GpInit /\ [][GpNext]_gpvars

GpFairSpec == GpSpec /\ WF_gpvars(GpHandle)

-----------------------------------------------------------------------------

Enabled(p) == gcpu.group[p] # "none"

\* Every request on a configured pin is served, or the machine is reset
\* (apple_gpio_set, apple_gpio_int_write).
PinServed ==
  \A p \in Pins : (Enabled(p) /\ gdev[p].work > 0) ~> gdev[p].work = 0
=============================================================================
