-------------------------------- MODULE UART --------------------------------
(***************************************************************************)
(* The receiving half of the UART (hw/char/apple_uart.c): the character    *)
(* backend hands it bytes, as many as it has room for, and breaks at any   *)
(* time; the kernel's console driver enables the FIFO at boot and reads on *)
(* the interrupt.  A write to UCON is not stored, so UCON stays 0 and with *)
(* it the thresholds and the receive timeout stay off: the data-ready bit  *)
(* alone raises the line.                                                  *)
(***************************************************************************)
EXTENDS Naturals, Sequences

CONSTANTS
  RxSize,       \* depth of the receive FIFO
  MaxTyped,     \* bound: bytes of the backend
  MaxBreaks,    \* bound: breaks
  MaxUartResets \* bound: machine resets

ASSUME UARTAssumption ==
  {RxSize, MaxTyped, MaxBreaks, MaxUartResets} \subseteq Nat /\ RxSize > 0

VARIABLES
  uart,    \* FIFO and its enable bit, URXH, data ready, the interrupt line
  udrv,    \* the console driver and what it has read since it enabled the FIFO
  ubytes,  \* the bytes the UART was given since then
  uruns    \* how much of each bound is used up

uartvars == <<uart, udrv, ubytes, uruns>>

NUL == 0

\* apple_uart_reset; the line is not touched.
UartReset(irq) ==
  [en |-> FALSE, rx |-> <<>>, urxh |-> NUL, ready |-> FALSE, irq |-> irq, aborted |-> FALSE]

\* apple_uart_update_irq, with UCON = 0
UartIrq(U) == [U EXCEPT !.irq = U.ready]

-----------------------------------------------------------------------------
(* The backend. *)

CanReceive(U) ==
  IF U.en THEN RxSize - Len(U.rx) ELSE IF U.ready THEN 0 ELSE 1

\* apple_uart_receive
ReceivedBytes(U, bs) ==
  UartIrq([IF U.en THEN [U EXCEPT !.rx = @ \o bs] ELSE [U EXCEPT !.urxh = bs[1]]
             EXCEPT !.ready = TRUE])

UartDeliver(n) ==
  LET bs == [i \in 1..n |-> uruns.typed + i]
  IN /\ n <= CanReceive(uart) /\ uruns.typed + n <= MaxTyped
     /\ uart' = ReceivedBytes(uart, bs)
     /\ ubytes' = ubytes \o bs
     /\ uruns' = [uruns EXCEPT !.typed = @ + n]
     /\ UNCHANGED udrv

\* apple_uart_event: the NUL of a break goes into the FIFO without a look at its
\* room, and fifo8_push aborts when there is none.
UartBreak ==
  /\ uruns.breaks < MaxBreaks
  /\ uart' = IF Len(uart.rx) = RxSize THEN [uart EXCEPT !.aborted = TRUE]
             ELSE UartIrq([uart EXCEPT !.rx = Append(@, NUL)])
  /\ uruns' = [uruns EXCEPT !.breaks = @ + 1]
  /\ UNCHANGED <<udrv, ubytes>>

-----------------------------------------------------------------------------
(* The register accesses of the console driver. *)

\* A fault: data ready is cleared by every read.
ReadUrxh_NotReady(U) ==
  IF ~U.en \/ U.rx # <<>> THEN [U EXCEPT !.rx = IF U.en THEN Tail(@) ELSE @, !.ready = FALSE] ELSE U

\* URXH: an empty FIFO answers 0 and leaves data ready as it is.
ReadUrxh(U) ==
  IF ~U.en THEN [U EXCEPT !.ready = FALSE]
  ELSE IF U.rx = <<>> THEN U
  ELSE [U EXCEPT !.rx = Tail(@), !.ready = Len(U.rx) > 1]

ByteRead(U) ==
  IF ~U.en THEN U.urxh ELSE IF U.rx = <<>> THEN NUL ELSE Head(U.rx)

\* UFCON: the FIFO is enabled and its contents are dropped; data ready stays.
UartBoot ==
  /\ udrv.st = "boot"
  /\ uart' = [uart EXCEPT !.en = TRUE, !.rx = <<>>]
  /\ udrv' = [st |-> "idle", got |-> <<>>]
  /\ ubytes' = <<>>
  /\ UNCHANGED uruns

UartInterrupt ==
  /\ udrv.st = "idle" /\ uart.irq
  /\ udrv' = [udrv EXCEPT !.st = "read"]
  /\ UNCHANGED <<uart, ubytes, uruns>>

\* The handler reads while data is ready; the console drops a NUL.
UartRead ==
  /\ udrv.st = "read" /\ uart.ready
  /\ uart' = ReadUrxh(uart)
  /\ udrv' = [udrv EXCEPT !.got = IF ByteRead(uart) = NUL THEN @ ELSE Append(@, ByteRead(uart))]
  /\ UNCHANGED <<ubytes, uruns>>

\* It has seen that none is and returns by a write to UTRSTAT, which a byte may
\* come before.
UartDone ==
  /\ udrv.st = "read" /\ ~uart.ready
  /\ udrv' = [udrv EXCEPT !.st = "ack"]
  /\ UNCHANGED <<uart, ubytes, uruns>>

UartAck ==
  /\ udrv.st = "ack"
  /\ uart' = UartIrq(uart)
  /\ udrv' = [udrv EXCEPT !.st = "idle"]
  /\ UNCHANGED <<ubytes, uruns>>

UartMachineReset ==
  /\ uruns.resets < MaxUartResets
  /\ uart' = UartReset(uart.irq)
  /\ udrv' = [st |-> "boot", got |-> <<>>]
  /\ ubytes' = <<>>
  /\ uruns' = [uruns EXCEPT !.resets = @ + 1]

-----------------------------------------------------------------------------

UartInit ==
  /\ uart = UartReset(FALSE)
  /\ udrv = [st |-> "boot", got |-> <<>>]
  /\ ubytes = <<>>
  /\ uruns = [typed |-> 0, breaks |-> 0, resets |-> 0]

UartHandler == UartInterrupt \/ UartRead \/ UartDone \/ UartAck

UartNext ==
  /\ ~uart.aborted
  /\ \/ \E n \in 1..RxSize : UartDeliver(n)
     \/ UartBreak \/ UartBoot \/ UartHandler \/ UartMachineReset

UartSpec == UartInit /\ [][UartNext]_uartvars

UartFairSpec == UartSpec /\ WF_uartvars(~uart.aborted /\ UartHandler)

-----------------------------------------------------------------------------

\* Every byte the running driver's UART accepts reaches the console, once and in
\* order, also with the FIFO full, with breaks among the bytes and with a byte
\* that arrives while the handler returns: the run ends with the console's bytes
\* equal to the backend's (apple_uart_receive, the URXH read, the UTRSTAT write).
BytesReachConsole ==
  (udrv.st # "boot" /\ udrv.got # ubytes) ~> (udrv.got = ubytes \/ uart.aborted)
=============================================================================
