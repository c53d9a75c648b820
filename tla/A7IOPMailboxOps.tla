-------------------------- MODULE A7IOPMailboxOps --------------------------
(***************************************************************************)
(* The pair of mailboxes of an A7IOP coprocessor                           *)
(* (hw/misc/apple-silicon/a7iop/mailbox/core.c), as operators on the pair's *)
(* state.  "iop" is the mailbox whose inbox the coprocessor reads, "ap" the *)
(* one whose inbox the application processor reads.  Each of them is also  *)
(* a register bank with its own direction enables, interrupt mask, send and *)
(* receive registers.                                                      *)
(*                                                                         *)
(* Every entry point runs under the big QEMU lock, and the mailbox's own   *)
(* lock is only dropped and retaken inside one entry point, so each of the *)
(* functions of core.c is one operator from a pair to a pair.              *)
(***************************************************************************)
EXTENDS Integers, Sequences

CONSTANTS
  SepRole,          \* TRUE: the roles are "SEP-iop" and "SEP-ap"
  MaxMessageCount,  \* MAX_MESSAGE_COUNT, also the mask of the count field
  Word,             \* values of a message register; 0 is the reset value
  Status,           \* values pushed on an interrupt status queue
  Maskable          \* those of the form 0x1xxxx, which need an enable bit

ASSUME RoleAssumption == SepRole \in BOOLEAN
ASSUME CountAssumption == MaxMessageCount \in Nat \ {0}
ASSUME WordAssumption == 0 \in Word
ASSUME StatusAssumption == Status \subseteq Nat \ {0} /\ Maskable \subseteq Status

Side == {"iop", "ap"}

\* The four interrupt lines of a bank.
Irq == {"iop_empty", "iop_nonempty", "ap_empty", "ap_nonempty"}

\* A message is what the sender wrote into the low registers and into the last
\* one; the receiver finds the message count or-ed into the last one.
Msg == Word \X Word
RecvMsg == [msg : Msg, count : 0 .. MaxMessageCount]
NoMsg == [msg |-> <<0, 0>>, count |-> 0]

Mailbox ==
  [inbox : Seq(Msg), count : Int, underflow : BOOLEAN,
   dir_en : [Side -> BOOLEAN], int_mask : SUBSET Irq, irqs : SUBSET Irq,
   send_reg : [Side -> Word], recv_reg : [Side -> RecvMsg],
   interrupt_status : Seq(Status), interrupts_enabled : SUBSET Maskable,
   iop_irq : BOOLEAN]

Pair == [Side -> Mailbox]

-----------------------------------------------------------------------------
(* Interrupt lines.                                                        *)

is_interrupt_enabled(m, st) == st \in Maskable => st \in m.interrupts_enabled

\* The enabled entries of the status queue.
EnabledStatus(m) ==
  {i \in 1 .. Len(m.interrupt_status) : is_interrupt_enabled(m, m.interrupt_status[i])}

\* The levels the four lines of bank s should have: they depend on both inboxes.
IrqLevels(M, s) ==
  LET unmasked(i) == i \notin M[s].int_mask
  IN  {i \in Irq :
        \/ i = "iop_nonempty" /\ ((unmasked(i) /\ M["iop"].inbox # <<>>) \/ M["iop"].underflow)
        \/ i = "iop_empty"    /\ unmasked(i) /\ M["iop"].inbox = <<>>
        \/ i = "ap_nonempty"  /\ ((unmasked(i) /\ M["ap"].inbox # <<>>) \/ M["ap"].underflow)
        \/ i = "ap_empty"     /\ unmasked(i) /\ M["ap"].inbox = <<>>}

\* `irqs' stands for both the lines and the copies kept in the mailbox.
update_irq_status(M, s) == [M EXCEPT ![s].irqs = IrqLevels(M, s)]

\* The level the SEP's own interrupt line should have.
IopIrqLevel(M) == IrqLevels(M, "iop") # {} \/ EnabledStatus(M["iop"]) # {}

UpdateSepIop(M) ==
  [M EXCEPT !["iop"].irqs = IrqLevels(M, "iop"), !["iop"].iop_irq = IopIrqLevel(M)]

\* Fault: the SEP-ap bank does not refresh the SEP-iop bank.
update_irq_NoRefresh(M, s) ==
  IF SepRole /\ s = "iop" THEN UpdateSepIop(M) ELSE update_irq_status(M, s)

\* The SEP-ap bank refreshes the SEP-iop bank as well; the other roles do not.
update_irq(M, s) ==
  IF ~SepRole THEN update_irq_status(M, s)
  ELSE IF s = "iop" THEN UpdateSepIop(M)
  ELSE UpdateSepIop(update_irq_status(M, "ap"))

-----------------------------------------------------------------------------
(* Messages.  s is the bank that is used, d the direction of the message.  *)

is_empty(M, s) == M[s].underflow \/ M[s].inbox = <<>>

\* What a receive hands out: the head of the inbox and the count before it,
\* cut to the width of the count field; nothing when there is no message.
CanRecv(M, s, d) == M[s].dir_en[d] /\ ~is_empty(M, d)
Received(M, s, d) ==
  IF CanRecv(M, s, d)
  THEN [msg |-> Head(M[d].inbox), count |-> M[d].count % (MaxMessageCount + 1)]
  ELSE NoMsg

\* Fault: the message goes in front of the queue.
mailbox_send_AtHead(M, d, msg) ==
  update_irq([M EXCEPT ![d].inbox = <<msg>> \o @, ![d].count = @ + 1], d)

mailbox_send(M, d, msg) ==
  update_irq([M EXCEPT ![d].inbox = Append(@, msg), ![d].count = @ + 1], d)

\* send_iop (d = "iop") and send_ap (d = "ap").
Send(M, s, d, msg) ==
  IF ~M[s].dir_en[d] THEN M ELSE update_irq(mailbox_send(M, d, msg), s)

mailbox_recv(M, d) ==
  IF M[d].underflow THEN M
  ELSE IF M[d].inbox = <<>> THEN update_irq([M EXCEPT ![d].underflow = TRUE], d)
  ELSE update_irq([M EXCEPT ![d].inbox = Tail(@), ![d].count = @ - 1], d)

\* Fault: the lines of the bank that is used are not refreshed.
Recv_NoUpdate(M, s, d) == IF ~M[s].dir_en[d] THEN M ELSE mailbox_recv(M, d)

\* recv_iop (d = "iop") and recv_ap (d = "ap").
Recv(M, s, d) ==
  IF ~M[s].dir_en[d] THEN M ELSE update_irq(mailbox_recv(M, d), s)

\* The control register: direction enable, then the state of the inbox.
mailbox_ctrl(M, s, d) ==
  [enable |-> M[s].dir_en[d],
   underflow |-> M[d].underflow,
   full |-> ~M[d].underflow /\ M[d].count >= MaxMessageCount,
   empty |-> ~M[d].underflow /\ M[d].inbox = <<>>,
   count |-> IF M[d].underflow THEN 0
             ELSE IF M[d].count <= MaxMessageCount THEN M[d].count ELSE MaxMessageCount]

set_int_mask(M, s, v) == update_irq([M EXCEPT ![s].int_mask = @ \cup v], s)
clear_int_mask(M, s, v) == update_irq([M EXCEPT ![s].int_mask = @ \ v], s)

set_ctrl(M, s, d, en) == [M EXCEPT ![s].dir_en[d] = en]

-----------------------------------------------------------------------------
(* The interrupt status queue of the SEP.                                  *)

interrupt_status_push(M, s, st) ==
  update_irq([M EXCEPT ![s].interrupt_status = Append(@, st)], s)

\* The first of the lowest enabled entries.
IsLowest(m, i) ==
  /\ i \in EnabledStatus(m)
  /\ \A j \in EnabledStatus(m) :
       \/ m.interrupt_status[i] < m.interrupt_status[j]
       \/ m.interrupt_status[i] = m.interrupt_status[j] /\ i <= j

LowestIdx(m) == CHOOSE i \in 1 .. Len(m.interrupt_status) : IsLowest(m, i)

PoppedStatus(m) ==
  IF EnabledStatus(m) = {} THEN 0 ELSE m.interrupt_status[LowestIdx(m)]

DropIdx(q, i) == SubSeq(q, 1, i - 1) \o SubSeq(q, i + 1, Len(q))

interrupt_status_pop(M, s) ==
  update_irq(IF EnabledStatus(M[s]) = {} THEN M
             ELSE [M EXCEPT ![s].interrupt_status = DropIdx(@, LowestIdx(M[s]))], s)

-----------------------------------------------------------------------------
(* Creation and reset.                                                     *)

\* apple_a7iop_mailbox_new on zeroed memory.
NewMailbox ==
  [inbox |-> <<>>, count |-> 0, underflow |-> FALSE,
   dir_en |-> [d \in Side |-> FALSE], int_mask |-> {}, irqs |-> {},
   send_reg |-> [d \in Side |-> 0], recv_reg |-> [d \in Side |-> NoMsg],
   interrupt_status |-> <<>>, interrupts_enabled |-> {}, iop_irq |-> FALSE]

\* Everything but the interrupt mask and the levels goes back to its start.
mailbox_reset(M, s) ==
  update_irq([M EXCEPT ![s] = [NewMailbox EXCEPT !.dir_en = [d \in Side |-> TRUE],
                                                 !.int_mask = M[s].int_mask,
                                                 !.iop_irq = M[s].iop_irq]], s)

\* A bus resets its children from the youngest: the "ap" mailbox, realized
\* second, comes first.
system_reset(M) == mailbox_reset(mailbox_reset(M, "ap"), "iop")

InitPair == system_reset([s \in Side |-> NewMailbox])
=============================================================================
