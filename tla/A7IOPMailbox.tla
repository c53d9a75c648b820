--------------------------- MODULE A7IOPMailbox ---------------------------
(***************************************************************************)
(* The mailbox pair as a state machine: the register accesses of the AP's   *)
(* driver, the coprocessor's side, the SEP's interrupt status queue and the *)
(* system reset.                                                           *)
(*                                                                         *)
(* The coprocessor's side is either a CPU that uses the "iop" register bank *)
(* (SepRole, hw/arm/apple-silicon/sep.c) or device code that calls         *)
(* apple_a7iop_send_ap and apple_a7iop_recv_iop (RTKit).                   *)
(***************************************************************************)
EXTENDS A7IOPMailboxOps

CONSTANTS
  MaskBits,     \* the mask bits the drivers use, with the bank they are in
  CtrlDirs,     \* the directions whose enable bits the drivers write
  MaxAccepted,  \* bound: messages accepted per direction between two resets
  MaxStatus,    \* bound: length of the interrupt status queue
  Resets        \* TRUE: the system may be reset

ASSUME MaskBitsAssumption == MaskBits \subseteq Side \X Irq /\ CtrlDirs \subseteq Side
ASSUME BoundsAssumption == MaxAccepted \in Nat /\ MaxStatus \in Nat /\ Resets \in BOOLEAN

VARIABLES
  mb,         \* the mailbox pair
  vector,     \* the value the last read of REG_INTERRUPT_STATUS returned
  accepted,   \* history: messages put into each inbox since its last reset
  delivered   \* history: messages taken out of each inbox since its last reset

vars == <<mb, vector, accepted, delivered>>

\* Values of REG_INTERRUPT_STATUS when no queued status is enabled: 0x40000 to
\* 0x40003 for a line of the "iop" bank, 0x70001 when there is nothing to report.
Vectors == [iop_nonempty |-> 262144, iop_empty |-> 262145,
            ap_nonempty |-> 262146, ap_empty |-> 262147]
NoVector == 458753

\* Every field of the pair, the register last read and the histories have their
\* types; in particular the count handed out by a receive fits its bit field.
TypeOK ==
  /\ mb \in Pair
  /\ vector \in Nat
  /\ accepted \in [Side -> Seq(Msg)]
  /\ delivered \in [Side -> Seq(Msg)]

Init ==
  /\ mb = InitPair
  /\ vector = 0
  /\ accepted = [d \in Side |-> <<>>]
  /\ delivered = [d \in Side |-> <<>>]

-----------------------------------------------------------------------------
\* What a send or a receive adds to the histories.
LogSend(s, d, msg) ==
  /\ accepted' = IF mb[s].dir_en[d] THEN [accepted EXCEPT ![d] = Append(@, msg)]
                 ELSE accepted
  /\ UNCHANGED delivered

LogRecv(s, d) ==
  /\ delivered' = IF CanRecv(mb, s, d)
                  THEN [delivered EXCEPT ![d] = Append(@, Head(mb[d].inbox))]
                  ELSE delivered
  /\ UNCHANGED accepted

\* A bank sends towards the other side; only the SEP uses the "iop" bank.
BankInUse(s) == s = "ap" \/ SepRole
Towards(s) == IF s = "ap" THEN "iop" ELSE "ap"

\* A write of a send register other than the last one.
WriteSendLow(s, w) ==
  /\ BankInUse(s)
  /\ mb' = [mb EXCEPT ![s].send_reg[Towards(s)] = w]
  /\ UNCHANGED <<vector, accepted, delivered>>

\* A write of the last send register sends what the registers hold.
WriteSendLast(s, w) ==
  LET d == Towards(s)
      msg == <<mb[s].send_reg[d], w>>
  IN  /\ BankInUse(s)
      /\ Len(accepted[d]) < MaxAccepted
      /\ mb' = Send(mb, s, d, msg)
      /\ LogSend(s, d, msg)
      /\ UNCHANGED vector

\* A read of the first receive register of bank s takes the next message.
ReadRecv0(s) ==
  /\ BankInUse(s)
  /\ mb' = [Recv(mb, s, s) EXCEPT ![s].recv_reg[s] = Received(mb, s, s)]
  /\ LogRecv(s, s)
  /\ UNCHANGED vector

WriteMaskSet(s, i) ==
  /\ BankInUse(s)
  /\ mb' = set_int_mask(mb, s, {i})
  /\ UNCHANGED <<vector, accepted, delivered>>

WriteMaskClr(s, i) ==
  /\ BankInUse(s)
  /\ mb' = clear_int_mask(mb, s, {i})
  /\ UNCHANGED <<vector, accepted, delivered>>

WriteCtrl(s, d, en) ==
  /\ BankInUse(s)
  /\ mb' = set_ctrl(mb, s, d, en)
  /\ UNCHANGED <<vector, accepted, delivered>>

-----------------------------------------------------------------------------
\* Device code on the coprocessor's side.  It asks apple_a7iop_mailbox_is_empty
\* first and receives through the "ap" bank, sends through the "iop" bank.
ApiSendAp(msg) ==
  /\ ~SepRole
  /\ Len(accepted["ap"]) < MaxAccepted
  /\ mb' = Send(mb, "iop", "ap", msg)
  /\ LogSend("iop", "ap", msg)
  /\ UNCHANGED vector

ApiRecvIop ==
  /\ ~SepRole
  /\ ~is_empty(mb, "iop")
  /\ mb' = Recv(mb, "ap", "iop")
  /\ LogRecv("ap", "iop")
  /\ UNCHANGED vector

-----------------------------------------------------------------------------
\* A SEP device raises an interrupt.
StatusPush(st) ==
  /\ SepRole
  /\ Len(mb["iop"].interrupt_status) < MaxStatus
  /\ mb' = interrupt_status_push(mb, "iop", st)
  /\ UNCHANGED <<vector, accepted, delivered>>

\* The SEP reads REG_INTERRUPT_STATUS.
ReadInterruptStatus ==
  LET popped == PoppedStatus(mb["iop"])
      M == update_irq_status(interrupt_status_pop(mb, "iop"), "iop")
      lines == M["iop"].irqs
  IN  /\ SepRole
      /\ mb' = M
      /\ vector' = IF popped # 0 THEN popped
                   ELSE IF "iop_nonempty" \in lines THEN Vectors.iop_nonempty
                   ELSE IF "iop_empty" \in lines THEN Vectors.iop_empty
                   ELSE IF "ap_nonempty" \in lines THEN Vectors.ap_nonempty
                   ELSE IF "ap_empty" \in lines THEN Vectors.ap_empty
                   ELSE NoVector
      /\ UNCHANGED <<accepted, delivered>>

SetInterruptEnable(st, en) ==
  /\ SepRole
  /\ mb' = update_irq([mb EXCEPT !["iop"].interrupts_enabled =
                                    IF en THEN @ \cup {st} ELSE @ \ {st}], "iop")
  /\ UNCHANGED <<vector, accepted, delivered>>

\* Fault: only the mailbox of the "ap" bank is reset.
Reset_ApOnly ==
  /\ Resets
  /\ mb' = mailbox_reset(mb, "ap")
  /\ accepted' = [accepted EXCEPT !["ap"] = <<>>]
  /\ delivered' = [delivered EXCEPT !["ap"] = <<>>]
  /\ UNCHANGED vector

Reset ==
  /\ Resets
  /\ mb' = system_reset(mb)
  /\ accepted' = [d \in Side |-> <<>>]
  /\ delivered' = [d \in Side |-> <<>>]
  /\ UNCHANGED vector

-----------------------------------------------------------------------------
Next ==
  \/ \E s \in Side, w \in Word : WriteSendLow(s, w) \/ WriteSendLast(s, w)
  \/ \E s \in Side : ReadRecv0(s)
  \/ \E b \in MaskBits : WriteMaskSet(b[1], b[2]) \/ WriteMaskClr(b[1], b[2])
  \/ \E s \in Side, d \in CtrlDirs, en \in BOOLEAN : WriteCtrl(s, d, en)
  \/ \E msg \in Msg : ApiSendAp(msg)
  \/ ApiRecvIop
  \/ \E st \in Status : StatusPush(st)
  \/ ReadInterruptStatus
  \/ \E st \in Maskable, en \in BOOLEAN : SetInterruptEnable(st, en)
  \/ Reset

Spec == Init /\ [][Next]_vars

-----------------------------------------------------------------------------
(* Safety.                                                                 *)

\* The counter that FULL and the count field are computed from is the length of
\* the inbox (apple_a7iop_mailbox_send, _recv and _reset keep the two apart).
CountIsLength == \A d \in Side : mb[d].count = Len(mb[d].inbox)

\* Messages are handed out once each and in the order they were accepted; none
\* is made up and none vanishes, whatever underflows or is disabled meanwhile.
InOrderOnce == \A d \in Side : delivered[d] \o mb[d].inbox = accepted[d]

\* The interrupt line of the SEP CPU always has the level that the two inboxes,
\* the mask and the status queue call for: update_irq of the "ap" bank refreshes
\* the "iop" bank, so no access of either side leaves the line stale.
SepIrqExact ==
  SepRole => /\ mb["iop"].iop_irq = IopIrqLevel(mb)
             /\ mb["iop"].irqs = IrqLevels(mb, "iop")

-----------------------------------------------------------------------------
(* What the pair implements.                                               *)

Inboxes == [d \in Side |-> mb[d].inbox]

Pipe == INSTANCE Channel WITH
  Dirs <- Side, Messages <- Msg, queue <- Inboxes, taken <- delivered

\* To its two users the pair is a channel: every access of a register, by either
\* side, leaves the two queues alone, adds one message to one of them or takes the
\* oldest one; only the system reset empties them, and it empties both.
ImplementsChannel == Pipe!ChSpec

-----------------------------------------------------------------------------
(* What a step may do.                                                     *)

\* The lines of the "ap" bank, which are wired to the AIC, keep the level the inboxes
\* call for when the coprocessor is device code: its receives go through the "ap"
\* bank.  Only a reset can make them stale, since the "ap" mailbox is reset first.
ApLinesExact ==
  [][~SepRole /\ mb["ap"].irqs = IrqLevels(mb, "ap") =>
       Reset \/ mb'["ap"].irqs = IrqLevels(mb', "ap")]_vars

=============================================================================
