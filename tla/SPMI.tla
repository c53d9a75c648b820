-------------------------------- MODULE SPMI --------------------------------
(***************************************************************************)
(* The SPMI controller (hw/spmi/apple_spmi.c), the bus (hw/spmi/core.c)    *)
(* and slaves that are register files with an address that advances        *)
(* (spmi-pmu.c, spmi-baseband.c).                                          *)
(*                                                                         *)
(* A register holds one word of the queues.  The driver is outside the     *)
(* repository: it pushes requests, waits for the interrupt and pops the    *)
(* answers.                                                                *)
(***************************************************************************)
EXTENDS Integers, Sequences

CONSTANTS
  Sids,       \* the ids that requests name
  Buses,      \* the sets of ids that may be those of the devices on the bus
  Regs,       \* the registers 0 .. Regs - 1 of a slave
  MaxLen,     \* registers per request
  MaxReqs     \* bound: requests and resets

ASSUME SPMIAssumption ==
  /\ Sids \subseteq 0 .. 15 /\ Buses \subseteq SUBSET Sids
  /\ Regs \in Nat \ {0} /\ MaxLen \in 1 .. Regs /\ MaxReqs \in Nat

VARIABLES
  ctl,          \* the controller: request in progress, answers, interrupt
  current_dev,  \* the bus's current device
  dev,          \* per slave: address and registers
  drv,          \* the driver: words it owes, words it expects
  reqs          \* counts against MaxReqs

vars == <<ctl, current_dev, dev, drv, reqs>>

NoDev == 99

\* The devices on the bus.
Slaves == DOMAIN dev

Irqs == {"resp", "slave"}
Vals == {0, 1}

NoData == [len |-> 0, words |-> <<>>, cmd |-> [op |-> "none"]]

\* The driver's request; FINAL ends the transaction.
Commands ==
  [op : {"read", "write", "other"}, sid : Sids, addr : 0 .. Regs - 1, len : 1 .. MaxLen,
   final : BOOLEAN]

Fits(c) == c.addr + c.len <= Regs

\* Words of the answer queue.
Header(c, ack) == [word |-> "header", op |-> c.op, ack |-> ack]
Data(v) == [word |-> "data", val |-> v]

-----------------------------------------------------------------------------
(* The interrupt.                                                          *)

\* apple_spmi_update_irq.
UpdateIrq(c) == [c EXCEPT !.irq = c.status \cap c.enab # {}]

\* apple_spmi_set_irq.
SetIrq(c, irq, level) ==
  UpdateIrq([c EXCEPT !.status = IF level THEN @ \cup {irq} ELSE @ \ {irq}])

\* apple_spmi_update_queues_status.
UpdateQueues(c) == SetIrq(c, "resp", c.resp # <<>>)

-----------------------------------------------------------------------------
(* The bus.                                                                *)

\* spmi_start_transfer: who gets the command.  A device that was selected once is kept.
Selected(sid) ==
  IF current_dev # NoDev THEN current_dev ELSE IF sid \in Slaves THEN sid ELSE NoDev

\* The slave's command and recv: it answers reads from its address on.
Recv(d, c) == [i \in 1 .. c.len |-> Data(d.reg[c.addr + i - 1])]

\* The slave's send.
Sent(d, words) ==
  [addr |-> d.addr + Len(words),
   reg |-> [a \in DOMAIN d.reg |->
              IF a \in d.addr .. d.addr + Len(words) - 1 THEN words[a - d.addr + 1] ELSE d.reg[a]]]

\* The start failed: a write keeps its buffer and its data are taken all the same.
StartFailed(c) == [ctl EXCEPT !.data = IF c.op = "write" THEN [len |-> c.len, words |-> <<>>, cmd |-> c] ELSE @]

\* Fault: the answer line is not looked at.
Finished_NoQueues(c, final) == IF final THEN UpdateIrq(c) ELSE c

\* The end of a request.
Finished(c, final) == IF final THEN UpdateIrq(UpdateQueues(c)) ELSE c

\* SPMI_REQ_QUEUE_PUSH without a write in progress.
PushCommand(c) ==
  LET s == Selected(c.sid)
  IN  /\ ctl.data = NoData
      /\ current_dev' = s
      /\ IF s = NoDev \/ c.op = "other"
         THEN /\ ctl' = StartFailed(c)
              /\ dev' = IF s = NoDev THEN dev ELSE [dev EXCEPT ![s].addr = c.addr]
         ELSE /\ ctl' = IF c.op = "write"
                        THEN [ctl EXCEPT !.data = [len |-> c.len, words |-> <<>>, cmd |-> c]]
                        ELSE Finished([ctl EXCEPT !.resp = @ \o <<Header(c, TRUE)>> \o Recv(dev[s], c)],
                                      c.final)
              /\ dev' = [dev EXCEPT ![s].addr = IF c.op = "read" THEN c.addr + c.len ELSE c.addr]

\* Fault: a write is always acknowledged.
Acked_Always(d) == TRUE

\* spmi_send returns the length when a device takes the data.
Acked(d) == d # NoDev

\* SPMI_REQ_QUEUE_PUSH of one word of a write; the last one starts spmi_send.
PushWord(v) ==
  LET d == [ctl.data EXCEPT !.words = Append(@, v)]
  IN  /\ ctl.data # NoData
      /\ IF Len(d.words) < d.len
         THEN ctl' = [ctl EXCEPT !.data = d] /\ UNCHANGED dev
         ELSE /\ ctl' = Finished([ctl EXCEPT !.data = NoData,
                                             !.resp = Append(@, Header(d.cmd, Acked(current_dev)))],
                                 d.cmd.final)
              /\ dev' = IF current_dev = NoDev THEN dev
                        ELSE [dev EXCEPT ![current_dev] = Sent(@, d.words)]
      /\ UNCHANGED current_dev

-----------------------------------------------------------------------------
(* The other registers.                                                    *)

\* SPMI_RSP_QUEUE_POP.
PopResponse ==
  /\ ctl.resp # <<>>
  /\ ctl' = UpdateQueues([ctl EXCEPT !.resp = Tail(@)])
  /\ UNCHANGED <<current_dev, dev>>

\* SPMI_INT_STATUS, write one to clear.
ClearStatus(bits) ==
  ctl' = UpdateIrq([ctl EXCEPT !.status = @ \ bits]) /\ UNCHANGED <<current_dev, dev>>

\* SPMI_INT_ENAB.
Enable(bits) == ctl' = UpdateIrq([ctl EXCEPT !.enab = bits]) /\ UNCHANGED <<current_dev, dev>>

\* SPMI_CONTROL_QUEUE_RESET.
ResetQueues ==
  ctl' = UpdateQueues([ctl EXCEPT !.resp = <<>>]) /\ UNCHANGED <<current_dev, dev>>

\* A slave's interrupt line.
SlaveIrq(level) == ctl' = SetIrq(ctl, "slave", level) /\ UNCHANGED <<current_dev, dev>>

NoCtl == [data |-> NoData, resp |-> <<>>, status |-> {}, enab |-> {}, irq |-> FALSE]

\* apple_spmi_reset_enter and _exit; the bus keeps its device.
ResetCtl == ctl' = UpdateIrq(UpdateQueues(NoCtl)) /\ UNCHANGED <<current_dev, dev>>

-----------------------------------------------------------------------------
(* The driver.  mem is what it wrote to each id.                           *)

NoDriver == [owes |-> NoData, expects |-> <<>>, mem |-> [s \in Sids |-> [a \in 0 .. Regs - 1 |-> 0]],
             waiting |-> FALSE, handler |-> FALSE]

Init ==
  /\ ctl = NoCtl
  /\ current_dev = NoDev
  /\ \E S \in Buses : dev = [s \in S |-> [addr |-> 0, reg |-> [a \in 0 .. Regs - 1 |-> 0]]]
  /\ drv = NoDriver
  /\ reqs = 0

Boot == Enable(Irqs) /\ ctl.enab = {} /\ UNCHANGED <<drv, reqs>>

Ready == ctl.enab # {} /\ drv.owes = NoData /\ ~drv.waiting /\ ~drv.handler

\* The answer the driver expects of a request, from what it knows.
Expected(c) ==
  IF c.op # "read" \/ c.sid \notin Slaves THEN <<>>
  ELSE <<Header(c, TRUE)>> \o [i \in 1 .. c.len |-> Data(drv.mem[c.sid][c.addr + i - 1])]

Request(c) ==
  /\ reqs < MaxReqs /\ Ready /\ Fits(c)
  /\ PushCommand(c)
  /\ drv' = [drv EXCEPT
       !.owes = IF c.op = "write" THEN [len |-> c.len, words |-> <<>>, cmd |-> c] ELSE @,
       !.expects = @ \o Expected(c),
       !.waiting = c.final /\ Expected(c) # <<>>]
  /\ reqs' = reqs + 1

Supply(v) ==
  LET o == [drv.owes EXCEPT !.words = Append(@, v)]
      c == o.cmd
      last == Len(o.words) = o.len
      mine(a) == a \in c.addr .. c.addr + c.len - 1
  IN  /\ drv.owes # NoData
      /\ PushWord(v)
      /\ drv' = IF ~last THEN [drv EXCEPT !.owes = o]
                ELSE [drv EXCEPT
                        !.owes = NoData,
                        !.expects = Append(@, Header(c, c.sid \in Slaves)),
                        !.waiting = c.final,
                        !.mem[c.sid] = IF c.sid \notin Slaves THEN @ ELSE
                          [a \in DOMAIN @ |-> IF mine(a) THEN o.words[a - c.addr + 1] ELSE @[a]]]
      /\ UNCHANGED reqs

\* The interrupt handler clears what it saw and pops until the queue is empty.
HandleIrq ==
  /\ ctl.irq /\ ~drv.handler
  /\ ClearStatus(ctl.status)
  /\ drv' = [drv EXCEPT !.handler = TRUE]
  /\ UNCHANGED reqs

HandlePop ==
  /\ drv.handler /\ PopResponse
  /\ drv' = [drv EXCEPT !.expects = Tail(@)]
  /\ UNCHANGED reqs

HandleReturn ==
  /\ drv.handler /\ ctl.resp = <<>>
  /\ drv' = [drv EXCEPT !.handler = FALSE, !.waiting = @ /\ drv.expects # <<>>]
  /\ UNCHANGED <<ctl, current_dev, dev, reqs>>

SlaveStep ==
  /\ reqs < MaxReqs
  /\ \E level \in BOOLEAN : SlaveIrq(level)
  /\ reqs' = reqs + 1 /\ UNCHANGED drv

\* The driver discards what it has not read, between two requests.
DropAnswers ==
  /\ reqs < MaxReqs /\ Ready
  /\ ResetQueues
  /\ drv' = [drv EXCEPT !.expects = <<>>]
  /\ reqs' = reqs + 1

\* The machine is reset, with the driver in any state.
Restart ==
  /\ reqs < MaxReqs
  /\ ResetCtl
  /\ drv' = [NoDriver EXCEPT !.mem = drv.mem]
  /\ reqs' = reqs + 1

Next ==
  \/ Boot
  \/ \E c \in Commands : Request(c)
  \/ \E v \in Vals : Supply(v)
  \/ HandleIrq \/ HandlePop \/ HandleReturn
  \/ SlaveStep \/ DropAnswers \/ Restart

Spec == Init /\ [][Next]_vars

Fairness ==
  WF_vars(\E v \in Vals : Supply(v)) /\ WF_vars(HandleIrq) /\ WF_vars(HandlePop) /\ WF_vars(HandleReturn)

FairSpec == Spec /\ Fairness

-----------------------------------------------------------------------------
(* Properties.                                                             *)

\* The queue holds exactly the answers the driver expects: one header per answered
\* request, with the data last written to the registers read, in the order of the
\* requests, also after requests that no device takes, resets and answers that were
\* dropped; and the controller takes a word for data exactly when the driver means it as
\* data (apple_spmi_queue_reg_write and _read).
Framed == ctl.resp = drv.expects /\ ctl.data = drv.owes

\* Once the last request of a transaction is in, the answers are read: the driver never
\* waits for an interrupt that does not come.
AnswersRead == drv.waiting ~> ~drv.waiting
=============================================================================
