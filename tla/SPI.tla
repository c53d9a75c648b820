-------------------------------- MODULE SPI --------------------------------
(***************************************************************************)
(* The SPI controller (hw/ssi/apple_spi.c) on top of the two SIO channels  *)
(* it does DMA through.  Words are of eight bits.                          *)
(*                                                                         *)
(* The peripheral answers the k-th byte it is sent with k.  The driver is  *)
(* outside the repository: it sets up one transfer after the other, with   *)
(* DMA or by hand, and reacts to the interrupt only.  Instead of the SPI   *)
(* controller, another peripheral may use the channels in any way.         *)
(***************************************************************************)
EXTENDS SIO, FiniteSets

CONSTANTS
  Depth,         \* REG_FIFO_DEPTH
  Words,         \* lengths of a transfer
  Modes,         \* "dma", "irq"
  MaxTransfers,  \* bound: transfers of the SPI controller, and resets
  OtherCmds      \* bound: commands for the other peripheral

TxChan == 4
RxChan == 5

ASSUME SPIAssumption ==
  /\ Depth \in 1 .. 16 /\ Words \subseteq 1 .. 15 /\ Modes \subseteq {"dma", "irq"}
  /\ {MaxTransfers, OtherCmds} \subseteq Nat /\ Eps = {TxChan, RxChan}

VARIABLES
  spi,      \* the registers, the FIFOs and the line
  wire,     \* the bytes sent to the peripheral; 255 is the dummy byte
  drv,      \* the driver and its transfer
  bad       \* a FIFO was pushed when it was full

vars == <<siovars, spi, wire, drv, bad>>

Causes == {"rxready", "txempty", "complete"}

\* The registers after apple_spi_reset.
ResetRegs == [run |-> FALSE, mode |-> "invalid", agd |-> FALSE, ie |-> {}, status |-> {},
              tx |-> <<>>, rx |-> <<>>, txcnt |-> 0, rxcnt |-> 0]

Level(s) == s.status \cap s.ie # {}

-----------------------------------------------------------------------------
(* apple_spi_run.  X is the state it works on: s, the queues of the two    *)
(* channels, the SIO's messages, the wire and whether a push went wrong.   *)

\* REG_FIFO_MAX_DEPTH bytes, cleared.
Buffer == [i \in 1 .. 8 * Depth |-> 0]

\* F of x, where x is evaluated once.
Then(F(_), x) == CHOOSE r \in {F(y) : y \in {x}} : TRUE

Raise(X, bit) == [X EXCEPT !.s.status = @ \cup {bit}]

\* Fault: the room in the FIFO does not limit the refill.
RefillLen_NoRoom(X) == Least(Remaining(X.txq), X.s.txcnt)

RefillLen(X) == Least(Least(Remaining(X.txq), X.s.txcnt), Depth - Len(X.s.tx))

\* apple_spi_update_xfer_tx.
UpdateTx(X) ==
  IF X.s.tx # <<>> THEN X
  ELSE IF X.s.mode # "dma" THEN Raise(X, "txempty")
  ELSE LET refill(t) ==
             LET Y == [X EXCEPT !.txq = t.reqs, !.sent = @ \o t.sent]
             IN  IF t.n = 0 THEN Raise(Y, "txempty")
                 ELSE [Y EXCEPT !.s.tx = SubSeq(t.buf, 1, Least(t.n, Depth)),
                                !.bad = @ \/ t.n > Depth]
       IN  Then(refill, Transfer(TxChan, X.txq, Buffer, RefillLen(X)))

\* Fault: the words stay in the FIFO.
FlushRx_NoPop(X) ==
  LET n == Least(Remaining(X.rxq), Len(X.s.rx))
      drain(t) == [X EXCEPT !.s.rx = SubSeq(@, n, Len(@)), !.rxq = t.reqs, !.sent = @ \o t.sent]
  IN  IF X.s.mode # "dma" \/ n = 0 THEN X
      ELSE Then(drain, Transfer(RxChan, X.rxq, Overlay(Buffer, SubSeq(X.s.rx, 1, n)), n))

\* apple_spi_flush_rx.
FlushRx(X) ==
  LET n == Least(Remaining(X.rxq), Len(X.s.rx))
      drain(t) == [X EXCEPT !.s.rx = SubSeq(@, n + 1, Len(@)), !.rxq = t.reqs, !.sent = @ \o t.sent]
  IN  IF X.s.mode # "dma" \/ n = 0 THEN X
      ELSE Then(drain, Transfer(RxChan, X.rxq, Overlay(Buffer, SubSeq(X.s.rx, 1, n)), n))

Full(X) == Len(X.s.rx) = Depth

FlushIfFull(X) == IF Full(X) THEN FlushRx(X) ELSE X

\* ssi_transfer of one byte: the answer is the length of the wire after it.
Shift(X, byte) == [X EXCEPT !.wire = Append(@, byte)]

PushRx(X) ==
  Raise([X EXCEPT !.s.rx = Append(@, Len(X.wire)), !.s.rxcnt = @ - 1], "rxready")

\* One word of the first loop: overflow ends it.
ReceiveWord(X) ==
  LET store(Y) == IF Full(Y) THEN [Raise(Y, "overflow") EXCEPT !.stop = TRUE] ELSE PushRx(Y)
  IN  IF X.s.rxcnt = 0 THEN X ELSE Then(store, FlushIfFull(X))

SendWord(X) ==
  Then(ReceiveWord, UpdateTx([Shift(X, Head(X.s.tx)) EXCEPT !.s.tx = Tail(@), !.s.txcnt = @ - 1]))

RECURSIVE SendLoop(_)
SendLoop(X) ==
  IF X.s.txcnt > 0 /\ X.s.tx # <<>> /\ ~X.stop THEN Then(SendLoop, SendWord(X)) ELSE X

\* The second loop: with AGD dummy bytes are sent for what is left to receive.
RECURSIVE ReceiveLoop(_)
ReceiveLoop(X) ==
  IF ~Full(X) /\ X.s.rxcnt > 0 /\ X.s.agd THEN Then(ReceiveLoop, PushRx(Shift(X, 255))) ELSE X

Finish(X) == IF X.s.rxcnt = 0 /\ X.s.txcnt = 0 THEN Raise(X, "complete") ELSE X

Run(X) ==
  IF X.s.mode = "invalid" \/ ~X.s.run \/ (X.s.rxcnt = 0 /\ X.s.txcnt = 0) THEN X
  ELSE Then(Finish, Then(FlushRx, Then(ReceiveLoop, Then(FlushIfFull, Then(SendLoop, UpdateTx(X))))))

\* The end of a register access: s are the registers with the access done.
Access(s, run) ==
  LET X == [s |-> s, txq |-> eps[TxChan].requests, rxq |-> eps[RxChan].requests,
            sent |-> <<>>, wire |-> wire, stop |-> FALSE, bad |-> bad]
  IN  \E Y \in {IF run THEN Run(X) ELSE X} :
        /\ spi' = [Y.s EXCEPT !.irq = Level(Y.s)]
        /\ eps' = [eps EXCEPT ![TxChan].requests = Y.txq, ![RxChan].requests = Y.rxq]
        /\ out' = out \o Y.sent
        /\ wire' = Y.wire
        /\ bad' = Y.bad
        /\ UNCHANGED <<params, inq, moved, cmds>>

-----------------------------------------------------------------------------
(* The registers.                                                          *)

WriteCtrl(run) == Access([spi EXCEPT !.tx = <<>>, !.rx = <<>>, !.run = run], run)

\* Write one to clear.
WriteStatus == Access([spi EXCEPT !.status = {}], FALSE)

WriteCfg(mode, agd, ie) == Access([spi EXCEPT !.mode = mode, !.agd = agd, !.ie = ie], TRUE)

WriteTxCnt(n) == Access([spi EXCEPT !.txcnt = n], TRUE)

WriteRxCnt(n) == Access([spi EXCEPT !.rxcnt = n], TRUE)

\* A word for a full FIFO is dropped.
WriteTxData(v) ==
  IF Len(spi.tx) = Depth THEN Access(spi, FALSE)
  ELSE Access([spi EXCEPT !.tx = Append(@, v)], TRUE)

\* Fault: the transfer does not go on when the FIFO has been read.
ReadRxData_NoRun ==
  spi.rx # <<>> /\ Access([spi EXCEPT !.rx = Tail(@)], FALSE)

ReadRxData ==
  /\ spi.rx # <<>>
  /\ Access([spi EXCEPT !.rx = Tail(@)], Len(spi.rx) = 1)

\* apple_spi_reset: the line stays as it is.  The SIO is reset with it.
ResetSpi ==
  /\ spi' = [irq |-> spi.irq] @@ ResetRegs
  /\ wire' = <<>>
  /\ Reset
  /\ UNCHANGED bad

-----------------------------------------------------------------------------
(* The driver.                                                             *)

NoTransfer == [mode |-> "irq", tx |-> 0, rx |-> 0, agd |-> FALSE]

\* Send and receive, send only, receive only; what is received by DMA without sending fits
\* the FIFO.
Transfers ==
  {t \in [mode : Modes, tx : {0} \cup Words, rx : {0} \cup Words, agd : BOOLEAN] :
     \/ t.rx \in {0, t.tx} /\ t.tx > 0 /\ ~t.agd
     \/ t.tx = 0 /\ t.rx > 0 /\ t.agd /\ (t.mode = "dma" => t.rx <= Depth)}

Idle(n) == [st |-> "idle", t |-> NoTransfer, maps |-> <<>>, tags |-> <<>>,
            left |-> 0, got |-> <<>>, base |-> 0, seen |-> FALSE, n |-> n]

\* The lists of a transfer: one per direction.
Lists(t) ==
  LET list(e, n) == IF n = 0 THEN <<>> ELSE <<<<e, n>>>>
  IN  IF t.mode = "dma" THEN list(TxChan, t.tx) \o list(RxChan, t.rx) ELSE <<>>

Begin(t) ==
  /\ drv.st = "idle" /\ drv.n < MaxTransfers
  /\ Len(cmds) + Len(Lists(t)) <= MaxCmds
  /\ drv' = [drv EXCEPT !.st = "map", !.t = t, !.maps = Lists(t), !.n = @ + 1,
                        !.left = IF t.mode = "dma" THEN 0 ELSE t.tx]
  /\ UNCHANGED <<siovars, spi, wire, bad>>

DriverMap ==
  /\ drv.st = "map" /\ drv.maps # <<>>
  /\ SendMap(Head(drv.maps)[1], Head(drv.maps)[2])
  /\ drv' = [drv EXCEPT !.maps = Tail(@), !.tags = Append(@, Len(cmds) + 1)]
  /\ UNCHANGED <<spi, wire, bad>>

Has(op, tag) == \E i \in DOMAIN out : out[i].op = op /\ out[i].tag = tag

Goto(st) == drv' = [drv EXCEPT !.st = st]

\* The lists are mapped before the registers are touched.
DriverSetup ==
  \/ /\ drv.st = "map" /\ drv.maps = <<>>
     /\ \A i \in DOMAIN drv.tags : Has("ack", drv.tags[i])
     /\ WriteCfg(drv.t.mode, drv.t.agd, IF drv.t.mode = "dma" THEN {"complete"} ELSE Causes)
     /\ Goto("txcnt")
  \/ drv.st = "txcnt" /\ WriteTxCnt(drv.t.tx) /\ Goto("rxcnt")
  \/ drv.st = "rxcnt" /\ WriteRxCnt(drv.t.rx) /\ Goto("run")
  \/ /\ drv.st = "run" /\ WriteCtrl(TRUE)
     /\ drv' = [drv EXCEPT !.st = "wait", !.base = Len(wire)]

\* The interrupt handler clears the status, then reads and writes what it can.
DriverIrq ==
  /\ drv.st = "wait" /\ spi.irq
  /\ drv' = [drv EXCEPT !.st = "handler", !.seen = @ \/ "complete" \in spi.status]
  /\ WriteStatus

\* No more words than the FIFO has room for the answers of.
MayPush == drv.left > 0 /\ Len(spi.tx) < Depth /\ spi.rx = <<>>

DriverPump ==
  /\ drv.st = "handler" /\ drv.t.mode = "irq"
  /\ \/ ReadRxData /\ drv' = [drv EXCEPT !.got = Append(@, Head(spi.rx))]
     \/ /\ MayPush
        /\ WriteTxData(100 + drv.left)
        /\ drv' = [drv EXCEPT !.left = @ - 1]

\* Nothing left to do: the handler returns, or the transfer is over.
DriverReturn ==
  /\ drv.st = "handler"
  /\ drv.t.mode = "irq" => spi.rx = <<>> /\ ~MayPush
  /\ Goto(IF drv.seen THEN "reap" ELSE "wait")
  /\ UNCHANGED <<siovars, spi, wire, bad>>

\* The SIO's COMPLETEs are in: the driver looks at what it received.
DriverDone ==
  /\ drv.st = "reap"
  /\ \A i \in DOMAIN drv.tags : Has("complete", drv.tags[i])
  /\ Goto("done")
  /\ UNCHANGED <<siovars, spi, wire, bad>>

\* The next transfer starts from a stopped controller.
DriverIdle ==
  /\ drv.st = "done"
  /\ WriteCtrl(FALSE)
  /\ drv' = Idle(drv.n)

Init ==
  /\ SIOInit
  /\ spi = [irq |-> FALSE] @@ ResetRegs
  /\ wire = <<>> /\ bad = FALSE
  /\ drv \in {Idle(0), [Idle(0) EXCEPT !.st = "other"]}

Driver == DriverMap \/ DriverSetup \/ DriverIrq \/ DriverPump \/ DriverReturn \/ DriverDone \/ DriverIdle

Serve == drv.st # "other" /\ Handle(TRUE) /\ UNCHANGED <<spi, wire, drv, bad>>

\* The machine is reset.
Restart == drv.st # "other" /\ ResetSpi /\ drv.n < MaxTransfers /\ drv' = Idle(drv.n + 1)

\* Another peripheral, with a driver of its own.
Other ==
  /\ drv.st = "other"
  /\ SIONext /\ Len(cmds') <= OtherCmds
  /\ UNCHANGED <<spi, wire, drv, bad>>

Next ==
  \/ \E t \in Transfers : Begin(t)
  \/ Driver
  \/ Serve
  \/ Restart
  \/ Other

Spec == Init /\ [][Next]_vars

FairSpec == Spec /\ WF_vars(Driver) /\ WF_vars(Serve)

-----------------------------------------------------------------------------
(* Properties.                                                             *)

\* A FIFO is never pushed when it is full (the rule of qemu/fifo32.h); the refill of
\* apple_spi_update_xfer_tx pushes what apple_sio_dma_read says it read.
PushHasRoom == ~bad /\ Len(spi.tx) <= Depth /\ Len(spi.rx) <= Depth

\* When a transfer is over, the peripheral has been sent exactly the words of the driver
\* or of its lists, in order, and the driver has exactly the answers, in order.
DriverBytesExact ==
  drv.st = "done" =>
    LET t == drv.t
        n == IF t.tx > 0 THEN t.tx ELSE t.rx
        listed(e) == SelectSeq(drv.tags, LAMBDA g : \E i \in Completes(e) : out[i].tag = g)
        memory(e) == FoldSeq(LAMBDA g, m : (CHOOSE x \in Range(out) : x.op = "complete" /\ x.tag = g).list \o m,
                             <<>>, listed(e))
    IN  /\ Len(wire) = drv.base + n
        /\ SubSeq(wire, drv.base + 1, drv.base + n) =
             (IF t.tx = 0 THEN [i \in 1 .. n |-> 255]
              ELSE IF t.mode = "dma" THEN memory(TxChan) ELSE [i \in 1 .. n |-> 100 + n + 1 - i])
        /\ (IF t.mode = "dma" THEN memory(RxChan) ELSE drv.got) = [i \in 1 .. t.rx |-> drv.base + i]

\* No byte of a transfer is lost, repeated or moved out of order, between the driver's
\* memory and the wire (DriverBytesExact) or, for another peripheral of the SIO, between
\* its lists and its bytes (BytesExact: apple_sio_dma_read, apple_sio_dma_write).
TransferExact == DriverBytesExact /\ (drv.st = "other" => BytesExact)

\* Every transfer ends: the driver, woken by the interrupt only, never waits for one that
\* does not come.
TransferEnds == (drv.st = "wait") ~> (drv.st \in {"done", "idle"})
=============================================================================
