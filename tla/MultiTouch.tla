----------------------------- MODULE MultiTouch -----------------------------
(***************************************************************************)
(* The multi-touch digitizer (hw/arm/apple-silicon/mt-spi.c): an SPI       *)
(* peripheral that speaks two protocols over one byte stream.  HBPP boots  *)
(* it (a command, then an interrupt acknowledgement that reads the answer) *)
(* and, once a packet starts with the 0xEF preamble, the link layer reads  *)
(* one queued report per full-duplex exchange.  Mouse events and two       *)
(* timers queue the reports of a touch; the interrupt line, active low in  *)
(* the hardware, is TRUE here while it is asserted.                        *)
(*                                                                         *)
(* The unit of the stream is the 16-bit word: every length and position of *)
(* the code is even, and it acts on the first byte of a word or on the     *)
(* last one of a packet.  Chip select frames nothing: a packet ends when   *)
(* the receive buffer is full.                                             *)
(***************************************************************************)
EXTENDS Naturals, Sequences, SequencesExt

CONSTANTS
  LLWords,      \* words of a link-layer packet (LL_PACKET_LEN, 0x204 bytes)
  Payload,      \* double words of payload in the HBPP DATA packet of the driver
  Spots,        \* where the mouse can be
  MaxEvents,    \* bound: mouse events
  MaxReports,   \* bound: reports queued before the touch timer goes quiet
  MaxControls,  \* bound: feature requests of the driver
  MaxRestarts   \* bound: machine resets and driver restarts

ASSUME MultiTouchAssumption ==
  /\ {LLWords, Payload, MaxEvents, MaxReports, MaxControls, MaxRestarts} \subseteq Nat
  /\ LLWords > 4 /\ Spots # {}

VARIABLES
  mt,      \* the digitizer: buffers, queues, interrupt line, mouse, timers, and a
           \* history, "log": every report queued since it was last reset
  mtdrv,   \* the guest's driver: its place in the boot, the exchange under way
  mtruns   \* how much of each bound is used up

mtvars == <<mt, mtdrv, mtruns>>

\* A word on the wire is the name of what it says; the first word of a
\* link-layer answer is the report it carries.
Stages  == {"make", "touching", "break", "out"}
Reports == Stages \cup {"answer"}

MtOff ==
  [rx |-> <<>>, cap |-> 0, tx |-> <<>>, hbpp |-> <<>>, fwq |-> <<>>, log |-> <<>>,
   line |-> FALSE, here |-> CHOOSE p \in Spots : TRUE,
   was |-> CHOOSE p \in Spots : TRUE, btn |-> FALSE, timer |-> FALSE, endTimer |-> FALSE]

-----------------------------------------------------------------------------
\* A report joins the queue the driver reads.
Queue(D, r) == [D EXCEPT !.fwq = Append(@, r), !.log = Append(@, r)]

(* HBPP, the boot protocol. *)

PushHbpp(D, ks) == [D EXCEPT !.hbpp = @ \o ks, !.line = TRUE]

HbppLen(k) ==
  CASE k = "reset" -> 2
    [] k \in {"nop", "int_ack", "cal"} -> 1
    [] k = "mem_read" -> 4
    [] k = "rmw" -> 8
    [] k = "data" -> 5

\* The DATA header names the payload; the packet ends two words after it.
HbppData(D) ==
  LET whole == 5 + 2 * Payload + 2
  IN IF Len(D.rx) # D.cap THEN D
     ELSE IF D.cap = whole THEN PushHbpp(D, <<"ack_data">>)
     ELSE [D EXCEPT !.cap = whole]

\* A fault: NOP is acknowledged even with an answer still to be read.
NopAck_Always(D) == [D EXCEPT !.tx = Append(@, "ack_nop")]

NopAck(D) == IF D.tx = <<>> THEN [D EXCEPT !.tx = <<"ack_nop">>] ELSE D

HandleHbpp(D0) ==
  LET k     == D0.rx[1]
      start == Len(D0.rx) = 1
      D     == IF start THEN [D0 EXCEPT !.cap = HbppLen(k)] ELSE D0
      full  == Len(D.rx) = D.cap
  IN CASE k = "reset"    /\ full  -> PushHbpp(MtOff, <<"req_boot">>)
       [] k = "nop"      /\ start -> NopAck(D)
       [] k = "int_ack"  /\ start -> [D EXCEPT !.tx = @ \o D.hbpp, !.hbpp = <<>>]
       [] k = "mem_read" /\ start -> PushHbpp(D, <<"ack_rd", "value", "value", "sum">>)
       [] k = "rmw"      /\ full  -> PushHbpp(D, <<"ack_wr">>)
       [] k = "cal"      /\ start -> PushHbpp(D, <<"cal_done">>)
       [] k = "data"              -> HbppData(D)
       [] OTHER                   -> D

-----------------------------------------------------------------------------
(* The link layer. *)

\* The answer to a link-layer packet: a queued report or NO_DATA, in a packet
\* that is as long as the one coming in.
LLBody(r) == <<r>> \o [i \in 1..(LLWords - 3) |-> "pad"]

\* A feature is read or set: the answer joins the queue.
HandleControl(D) == Queue(D, "answer")

\* The third word tells the packet's kind: the oldest report is taken off the
\* queue there; the request is acted on once all of it has arrived.
HandleFwPacket(D0) ==
  LET D == IF Len(D0.rx) # 3 THEN D0
           ELSE [D0 EXCEPT !.cap = LLWords,
                           !.tx  = @ \o LLBody(IF D0.fwq = <<>> THEN "no_data" ELSE Head(D0.fwq)),
                           !.fwq = IF @ = <<>> THEN @ ELSE Tail(@)]
  IN IF Len(D.rx) = D.cap /\ D.rx[3] = "control"
     THEN HandleControl(D)
     ELSE D

HandleFw(D0) ==
  LET D == IF Len(D0.rx) # 1 THEN D0
           ELSE [D0 EXCEPT !.cap = 4, !.tx = @ \o <<"pre", "pre">>]
  IN CASE Len(D.rx) < 3          -> D
       [] Len(D.rx) >= 3 /\ D.rx[3] # "ack" -> HandleFwPacket(D)
       [] Len(D.rx) = 3 /\ D.rx[3] = "ack"  -> [D EXCEPT !.tx = @ \o <<"ack", "ack">>]
       [] OTHER                  -> D

\* A fault: the line follows the boot answers and forgets the reports.
MtLine_HbppOnly(D) == [D EXCEPT !.line = D.hbpp # <<>>]

MtLine(D) == [D EXCEPT !.line = D.hbpp # <<>> \/ D.fwq # <<>>]

\* apple_mt_spi_transfer: the word joins the packet and the packet's handler
\* runs; the word that goes back is then the first of tx.
Received(D0, w) ==
  LET D == [D0 EXCEPT !.rx = Append(@, w), !.cap = IF @ = 0 THEN 1 ELSE @]
      E == IF D.rx[1] = "pre" THEN HandleFw(D) ELSE HandleHbpp(D)
  IN IF Len(E.rx) = E.cap THEN [E EXCEPT !.rx = <<>>, !.cap = 0] ELSE E

Popped(D) == MtLine([D EXCEPT !.tx = IF @ = <<>> THEN @ ELSE Tail(@)])

WordOut(D) == IF D.tx = <<>> THEN "zero" ELSE Head(D.tx)

-----------------------------------------------------------------------------
(* The mouse and the two timers. *)

\* apple_mt_send_path_update
PathUpdate(D, stage) == [Queue(D, stage) EXCEPT !.line = TRUE]

\* A fault: a press leaves the end timer of the touch before it running.
MouseEvent_KeepsEndTimer(D0, p, down) ==
  LET D == [D0 EXCEPT !.was = D0.here, !.here = p, !.btn = down]
  IN CASE down /\ ~D0.btn -> [PathUpdate(D, "make") EXCEPT !.timer = TRUE]
       [] ~down /\ D0.btn -> [PathUpdate(D, "break") EXCEPT !.timer = FALSE, !.endTimer = TRUE]
       [] OTHER           -> D

MouseEvent(D0, p, down) ==
  LET D == [D0 EXCEPT !.was = D0.here, !.here = p, !.btn = down]
  IN CASE down /\ ~D0.btn -> [PathUpdate(D, "make") EXCEPT !.endTimer = FALSE, !.timer = TRUE]
       [] ~down /\ D0.btn -> [PathUpdate(D, "break") EXCEPT !.timer = FALSE, !.endTimer = TRUE]
       [] OTHER           -> D

MtMouse ==
  /\ mtruns.events < MaxEvents
  /\ \E p \in Spots, down \in BOOLEAN : mt' = MouseEvent(mt, p, down)
  /\ mtruns' = [mtruns EXCEPT !.events = @ + 1]
  /\ UNCHANGED mtdrv

\* apple_mt_touch_timer_tick
MtTouchTick ==
  /\ mt.timer
  /\ Len(mt.log) < MaxReports
  /\ mt' = [IF mt.was # mt.here THEN PathUpdate(mt, "touching") ELSE mt
              EXCEPT !.timer = mt.btn]
  /\ UNCHANGED <<mtdrv, mtruns>>

\* apple_mt_touch_end_timer_tick: the point before the end is forgotten.
MtEndTick ==
  /\ mt.endTimer
  /\ mt' = [PathUpdate(mt, "out") EXCEPT !.endTimer = FALSE, !.was = MtOff.was]
  /\ UNCHANGED <<mtdrv, mtruns>>

-----------------------------------------------------------------------------
(* The guest's driver: the boot, one command and its answer at a time, then *)
(* an exchange for every interrupt.                                         *)

BootScript ==
  <<[send |-> <<"reset", "zero">>, want |-> <<"req_boot">>],
    [send |-> <<"cal">>, want |-> <<"cal_done">>],
    [send |-> <<"data", "size">>
              \o [i \in 1..(2 * Payload + 5) |-> "zero"],
     want |-> <<"ack_data">>],
    [send |-> <<"rmw">> \o [i \in 1..7 |-> "zero"], want |-> <<"ack_wr">>],
    [send |-> <<"mem_read">> \o [i \in 1..3 |-> "zero"],
     want |-> <<"ack_rd", "value", "value", "sum">>]>>

Running == Len(BootScript) + 1

MtDriver(step) == [step |-> step, at |-> "idle", out |-> <<>>, in |-> <<>>, seen |-> <<>>]

Exchange(ws, at) == [mtdrv EXCEPT !.out = ws, !.in = <<>>, !.at = at]

\* A link-layer packet of the driver, padded to full length.
LLRequest(k) == <<"pre", "pre", k>> \o [i \in 1..(LLWords - 3) |-> "zero"]

\* One word through the SPI controller and the digitizer.
MtClock ==
  /\ mtdrv.out # <<>>
  /\ LET D == Received(mt, Head(mtdrv.out))
     IN /\ mt' = Popped(D)
        /\ mtdrv' = [mtdrv EXCEPT !.out = Tail(@), !.in = Append(@, WordOut(D))]
  /\ UNCHANGED mtruns

Ready(at) == mtdrv.out = <<>> /\ mtdrv.at = at

\* The next command of the boot, then, once the line is asserted, the
\* acknowledgement that reads the answer.
MtCommand ==
  /\ Ready("idle") /\ mtdrv.step < Running
  /\ mtdrv' = Exchange(BootScript[mtdrv.step].send, "asked")
  /\ UNCHANGED <<mt, mtruns>>

MtReadAnswer ==
  /\ Ready("asked") /\ mt.line
  /\ LET nops == [i \in 1..(Len(BootScript[mtdrv.step].want) - 1) |-> "nop"]
     IN mtdrv' = Exchange(<<"int_ack">> \o nops, "answer")
  /\ UNCHANGED <<mt, mtruns>>

\* A wrong answer stops the driver.
MtAnswered ==
  /\ Ready("answer")
  /\ mtdrv' = IF mtdrv.in = BootScript[mtdrv.step].want
              THEN [mtdrv EXCEPT !.step = @ + 1, !.at = "idle", !.in = <<>>]
              ELSE [mtdrv EXCEPT !.at = "failed", !.in = <<>>]
  /\ UNCHANGED <<mt, mtruns>>

\* The interrupt: a NO_DATA packet reads a report.
MtRead ==
  /\ Ready("idle") /\ mtdrv.step = Running /\ mt.line
  /\ mtdrv' = Exchange(LLRequest("no_data"), "report")
  /\ UNCHANGED <<mt, mtruns>>

\* A feature request; the report its own exchange brings may be an older one.
MtControl ==
  /\ Ready("idle") /\ mtdrv.step = Running
  /\ mtruns.controls < MaxControls
  /\ mtdrv' = Exchange(LLRequest("control"), "report")
  /\ mtruns' = [mtruns EXCEPT !.controls = @ + 1]
  /\ UNCHANGED mt

\* The end of an exchange: a report is passed on and acknowledged in a short
\* packet; an exchange that does not start with the preamble is dropped.
MtReport ==
  /\ Ready("report")
  /\ mtdrv' = IF mtdrv.in[1] = "pre" /\ mtdrv.in[3] \in Reports
              THEN [Exchange(<<"pre", "pre", "ack", "zero">>, "acked")
                      EXCEPT !.seen = Append(@, mtdrv.in[3])]
              ELSE Exchange(<<>>, "idle")
  /\ UNCHANGED <<mt, mtruns>>

MtAcked ==
  /\ Ready("acked")
  /\ mtdrv' = Exchange(<<>>, "idle")
  /\ UNCHANGED <<mt, mtruns>>

\* The driver boots the digitizer anew, between two exchanges.
MtReboot ==
  /\ Ready("idle") /\ mtdrv.step = Running
  /\ mtruns.restarts < MaxRestarts
  /\ mtdrv' = MtDriver(1)
  /\ mtruns' = [mtruns EXCEPT !.restarts = @ + 1]
  /\ UNCHANGED mt

\* A machine reset, at any word.
MtMachineReset ==
  /\ mtruns.restarts < MaxRestarts
  /\ mt' = MtOff
  /\ mtdrv' = MtDriver(1)
  /\ mtruns' = [mtruns EXCEPT !.restarts = @ + 1]

-----------------------------------------------------------------------------

MtInit ==
  /\ mt = MtOff
  /\ mtdrv = MtDriver(1)
  /\ mtruns = [events |-> 0, controls |-> 0, restarts |-> 0]

\* The steps the guest's driver does not put off.
MtDriverStep ==
  \/ MtClock \/ MtCommand \/ MtReadAnswer \/ MtAnswered
  \/ MtRead \/ MtReport \/ MtAcked

MtNext ==
  \/ MtMouse \/ MtTouchTick \/ MtEndTick
  \/ MtDriverStep \/ MtControl \/ MtReboot \/ MtMachineReset

MtSpec == MtInit /\ [][MtNext]_mtvars

\* The guest's driver runs on, and a virtual timer that is armed fires.
MtFairness ==
  /\ WF_mtvars(MtDriverStep)
  /\ WF_mtvars(MtEndTick)

MtFairSpec == MtSpec /\ MtFairness

-----------------------------------------------------------------------------

\* A report taken off the queue that the driver has not passed on yet: in the
\* words it has clocked in, or still in tx.
OnTheWire ==
  IF mtdrv.at # "report" THEN <<>>
  ELSE SelectSeq(mtdrv.in \o mt.tx, LAMBDA r : r \in Reports)

\* From its acknowledged reset on, the driver is passed every touch report and
\* feature answer once and in the order they were queued: the HBPP answers
\* leave nothing in tx that would shift a link-layer exchange, and the report
\* taken off the queue at the third word is the one the exchange carries
\* (apple_mt_spi_transfer, apple_mt_spi_handle_fw_packet).
ReportsExact ==
  mtdrv.step > 1 => mtdrv.seen \o OnTheWire \o mt.fwq = mt.log

Follows == [none |-> {"make"}, make |-> {"touching", "break"},
            touching |-> {"touching", "break"}, break |-> {"make", "out"}, out |-> {"make"}]

\* The reports of a touch tell one finger's story, whatever the order of mouse
\* events, the two timers and resets: it comes down before it moves, moves
\* only while it is down, is lifted once, and leaves the range only after that
\* and only if it has not come down again (apple_mt_spi_mouse_event,
\* touch_timer_tick, touch_end_timer_tick).
TouchStory ==
  LET story == <<"none">> \o SelectSeq(mt.log, LAMBDA r : r \in Stages)
  IN \A i \in 1..(Len(story) - 1) : story[i + 1] \in Follows[story[i]]

\* The boot over, every report read, and the last the driver heard of a touch
\* is not that the finger was lifted.
Settled ==
  /\ mtdrv.step = Running /\ mtdrv.at = "idle" /\ mt.fwq = <<>>
  /\ LET story == SelectSeq(mtdrv.seen, LAMBDA r : r \in Stages)
     IN story = <<>> \/ Last(story) # "break"

\* A boot under way ends with the digitizer running, every queued report reaches the
\* driver, and a finger that was lifted is reported out of range or down again
\* (the interrupt line of apple_mt_spi_transfer and send_path_update, the end
\* timer of apple_mt_spi_mouse_event).
ReportsReachDriver == mtdrv.at # "idle" \/ mt.fwq # <<>> ~> Settled

=============================================================================
