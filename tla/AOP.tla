-------------------------------- MODULE AOP --------------------------------
(***************************************************************************)
(* An endpoint of the always-on processor (hw/misc/apple-silicon/aop.c):   *)
(* the handshake that gives it a receive and a transmit ring in the AP's   *)
(* memory, the service loop over the requests, and the audio endpoint's    *)
(* channel control (hw/audio/apple-silicon/aop-audio.c), the one property  *)
(* a request can set.                                                      *)
(*                                                                         *)
(* The RTKit link below it delivers in order (RTKit.tla), so it is a pair  *)
(* of queues here. A ring holds entries of one size. The AP writes its     *)
(* ring from a CPU's thread while the service loop runs, so the loop is    *)
(* one step per packet.                                                    *)
(*                                                                         *)
(* The driver is outside the repository: it answers the handshake with two *)
(* zeroed regions, may write several requests before it signals once, and  *)
(* never has more than MaxOutstanding of them unanswered, because the      *)
(* endpoint does not look at the transmit ring's read pointer.             *)
(***************************************************************************)
EXTENDS Integers, Sequences

CONSTANTS
  RxSlots,         \* entries of the receive ring
  TxSlots,         \* entries of the transmit ring
  MaxOutstanding,  \* unanswered requests the driver allows itself
  MaxCommands,     \* bound: requests after a boot, and other messages
  MaxBoots         \* bound: boots, the first one included

\* The loop never takes the read pointer of the receive ring back to 0 where the
\* driver would: the driver is held to what the ring takes once.
ASSUME AOPAssumption ==
  /\ RxSlots \in Nat /\ TxSlots \in Nat /\ MaxCommands \in 0 .. RxSlots
  /\ MaxOutstanding \in 0 .. TxSlots - 1
  /\ MaxBoots \in Nat

VARIABLES
  aep,    \* the endpoint: state, rx_off, tx_off, whether its loop is running
  chans,  \* the audio endpoint's channel control
  ring,   \* the two regions of the AP's memory
  link,   \* the messages to the AP and to the IOP
  drv,    \* the driver
  boots   \* counts against MaxBoots

aopvars == <<aep, chans, ring, link, drv, boots>>

Region == {"A", "B"}
NoRegion == "none"
Chans == {0, 1}

AopMsg(op, region) == [op |-> op, region |-> region]
ToAp(L, op, region) == [L EXCEPT !.ap = Append(@, AopMsg(op, region))]
ToAop(L, op, region) == [L EXCEPT !.aop = Append(@, AopMsg(op, region))]

NoEntry == [id |-> 0, op |-> "none", val |-> 0]
EmptyRing == [rptr |-> 0, wptr |-> 0, slot |-> [i \in 0 .. RxSlots + TxSlots |-> NoEntry]]

\* The header of a ring takes three alignment units of its region.
RingHeader == 3
-----------------------------------------------------------------------------
(* The rings.                                                              *)

\* Fault: the header is left out of the comparison with the length.
SendPacket_NoHeader(R, e) ==
  LET p == IF R.wptr + 1 > TxSlots + RingHeader THEN 0 ELSE R.wptr
  IN  [R EXCEPT !.slot[p] = e, !.wptr = p + 1]

\* apple_aop_ep_send_packet_full: it starts over when the entry does not fit.
SendPacket(R, e) ==
  LET p == IF RingHeader + R.wptr + 1 > TxSlots + RingHeader THEN 0 ELSE R.wptr
  IN  [R EXCEPT !.slot[p] = e, !.wptr = p + 1]

RxEmpty(R) == R.wptr = R.rptr

\* apple_aop_ep_recv_packet_locked.
RecvPacket(R) ==
  [R EXCEPT !.rptr = IF @ + 1 >= RxSlots + RingHeader THEN 0 ELSE @ + 1]

-----------------------------------------------------------------------------
(* The endpoint.                                                           *)

EpOff == [state |-> "powered_off", rx |-> NoRegion, tx |-> NoRegion, serving |-> FALSE]

\* apple_aop_ep_handle_message.
HandleMessage ==
  /\ link.aop # <<>> /\ ~aep.serving
  /\ LET m == Head(link.aop)
         L == [link EXCEPT !.aop = Tail(@)]
     IN  \/ /\ aep.state = "awaiting_hello" /\ m.op = "ack_hello"
            /\ aep' = [aep EXCEPT !.state = "awaiting_rx_ack"]
            /\ link' = ToAp(L, "request_region", NoRegion)
            /\ UNCHANGED ring
         \/ /\ aep.state = "awaiting_rx_ack" /\ m.op = "ack_request_region"
            /\ aep' = [aep EXCEPT !.state = "awaiting_tx_ack", !.rx = m.region]
            /\ link' = ToAp(ToAp(L, "set_rx_queue", m.region), "request_region", NoRegion)
            /\ UNCHANGED ring
         \/ /\ aep.state = "awaiting_tx_ack" /\ m.op = "ack_request_region"
            /\ aep' = [aep EXCEPT !.state = "idle", !.tx = m.region]
            /\ ring' = [ring EXCEPT ![m.region] = SendPacket(@, [NoEntry EXCEPT !.op = "ready"])]
            /\ link' = ToAp(ToAp(L, "set_tx_queue", m.region), "tx_signal", NoRegion)
         \/ /\ aep.state = "idle" /\ m.op = "rx_signal"
            /\ aep' = [aep EXCEPT !.serving = TRUE]
            /\ link' = L
            /\ UNCHANGED ring
         \/ /\ \/ aep.state = "powered_off"
               \/ aep.state = "awaiting_hello" /\ m.op # "ack_hello"
               \/ aep.state \in {"awaiting_rx_ack", "awaiting_tx_ack"} /\ m.op # "ack_request_region"
               \/ aep.state = "idle" /\ m.op # "rx_signal"
            /\ link' = L
            /\ UNCHANGED <<aep, ring>>
  /\ UNCHANGED <<chans, drv, boots>>

\* apple_aop_audio_get_prop and apple_aop_audio_handle_command.
AudioValue(e) == IF e.op = "set" THEN 0 ELSE chans
AudioEffect(e) == IF e.op = "set" THEN e.val ELSE chans

\* Fault: one packet is served per signal.
ServePacket_OneOnly ==
  /\ aep.serving /\ ~RxEmpty(ring[aep.rx])
  /\ LET R == ring[aep.rx]
         e == R.slot[R.rptr]
     IN  /\ ring' = [ring EXCEPT ![aep.rx] = RecvPacket(@),
                                 ![aep.tx] = SendPacket(@, [e EXCEPT !.val = AudioValue(e)])]
         /\ chans' = AudioEffect(e)
  /\ link' = ToAp(link, "tx_signal", NoRegion)
  /\ aep' = [aep EXCEPT !.serving = FALSE]
  /\ UNCHANGED <<drv, boots>>

\* One turn of the loop: a packet is taken, handled and answered.
ServePacket ==
  /\ aep.serving /\ ~RxEmpty(ring[aep.rx])
  /\ LET R == ring[aep.rx]
         e == R.slot[R.rptr]
     IN  /\ ring' = [ring EXCEPT ![aep.rx] = RecvPacket(@),
                                 ![aep.tx] = SendPacket(@, [e EXCEPT !.val = AudioValue(e)])]
         /\ chans' = AudioEffect(e)
  /\ link' = ToAp(link, "tx_signal", NoRegion)
  /\ UNCHANGED <<aep, drv, boots>>

ServeEnd ==
  /\ aep.serving /\ RxEmpty(ring[aep.rx])
  /\ aep' = [aep EXCEPT !.serving = FALSE]
  /\ UNCHANGED <<chans, ring, link, drv, boots>>

-----------------------------------------------------------------------------
DriverClosed ==
  [phase |-> "closed", regions |-> {}, rx |-> NoRegion, tx |-> NoRegion,
   reading |-> FALSE, bell |-> FALSE, sent |-> <<>>, got |-> <<>>]

AOPInit ==
  /\ aep = EpOff /\ chans = 0
  /\ ring = [r \in Region |-> EmptyRing]
  /\ link = [ap |-> <<>>, aop |-> <<>>]
  /\ drv = DriverClosed
  /\ boots = 0

\* apple_aop_boot_done, at the end of the RTKit handshake, which has pushed every
\* earlier message out of the link.
BootDone ==
  /\ boots < MaxBoots /\ boots' = boots + 1
  /\ drv.phase = "closed" /\ ~aep.serving
  /\ link.ap = <<>> /\ link.aop = <<>>
  /\ link' = ToAp(link, "hello", NoRegion)
  /\ aep' = [aep EXCEPT !.state = "awaiting_hello"]
  /\ UNCHANGED <<chans, ring, drv>>

\* apple_aop_reset_hold, with the link's mailbox; the machine starts again.
AopReset ==
  /\ boots \in 1 .. MaxBoots - 1 /\ ~aep.serving
  /\ aep' = EpOff
  /\ link' = [ap |-> <<>>, aop |-> <<>>]
  /\ drv' = DriverClosed
  /\ UNCHANGED <<chans, ring, boots>>

-----------------------------------------------------------------------------
(* The driver (external).                                                  *)

\* It takes a message; one that comes while it is closed is dropped.
ApMessage ==
  /\ link.ap # <<>> /\ ~drv.reading
  /\ LET m == Head(link.ap)
         L == [link EXCEPT !.ap = Tail(@)]
     IN  \/ /\ m.op = "hello"
            /\ drv' = [DriverClosed EXCEPT !.phase = "opening"]
            /\ link' = ToAop(L, "ack_hello", NoRegion)
            /\ UNCHANGED ring
         \/ /\ m.op = "request_region" /\ drv.phase = "opening"
            /\ \E r \in Region \ drv.regions :
                 /\ drv' = [drv EXCEPT !.regions = @ \cup {r}]
                 /\ ring' = [ring EXCEPT ![r] = EmptyRing]
                 /\ link' = ToAop(L, "ack_request_region", r)
         \/ /\ m.op \in {"set_rx_queue", "set_tx_queue", "tx_signal"} /\ drv.phase # "closed"
            /\ drv' = [drv EXCEPT !.rx = IF m.op = "set_rx_queue" THEN m.region ELSE @,
                                  !.tx = IF m.op = "set_tx_queue" THEN m.region ELSE @,
                                  !.reading = m.op = "tx_signal"]
            /\ link' = L
            /\ UNCHANGED ring
         \/ /\ m.op # "hello" /\ drv.phase = "closed"
            /\ link' = L
            /\ UNCHANGED <<drv, ring>>
  /\ UNCHANGED <<aep, chans, boots>>

\* It reads its ring until it is empty.
ApPacket ==
  /\ drv.reading
  /\ LET R == ring[drv.tx]
         p == IF R.rptr = TxSlots THEN 0 ELSE R.rptr
         e == R.slot[p]
     IN  \/ /\ R.wptr # R.rptr
            /\ ring' = [ring EXCEPT ![drv.tx].rptr = p + 1]
            /\ drv' = IF e.op = "ready" THEN [drv EXCEPT !.phase = "up"]
                      ELSE [drv EXCEPT !.got = Append(@, e)]
         \/ /\ R.wptr = R.rptr
            /\ drv' = [drv EXCEPT !.reading = FALSE]
            /\ UNCHANGED ring
  /\ UNCHANGED <<aep, chans, link, boots>>

ApRequest(op, v) ==
  /\ drv.phase = "up"
  /\ Len(drv.sent) < MaxCommands
  /\ Len(drv.sent) - Len(drv.got) < MaxOutstanding
  /\ LET e == [id |-> Len(drv.sent) + 1, op |-> op, val |-> v]
         w == ring[drv.rx].wptr
     IN  /\ ring' = [ring EXCEPT ![drv.rx].slot[w] = e, ![drv.rx].wptr = w + 1]
         /\ drv' = [drv EXCEPT !.sent = Append(@, e), !.bell = TRUE]
  /\ UNCHANGED <<aep, chans, link, boots>>

ApSignal ==
  /\ drv.bell
  /\ drv' = [drv EXCEPT !.bell = FALSE]
  /\ link' = ToAop(link, "rx_signal", NoRegion)
  /\ UNCHANGED <<aep, chans, ring, boots>>

\* It sends an operation the endpoint does not implement.
ApOther ==
  /\ drv.phase = "up" /\ Len(link.aop) < 1
  /\ link' = ToAop(link, "start_queue", NoRegion)
  /\ UNCHANGED <<aep, chans, ring, drv, boots>>

\* It is closed before the AP sleeps.
ApClose ==
  /\ drv.phase # "closed" /\ ~drv.reading
  /\ boots < MaxBoots
  /\ drv' = DriverClosed
  /\ UNCHANGED <<aep, chans, ring, link, boots>>

-----------------------------------------------------------------------------
Serve == HandleMessage \/ ServePacket \/ ServeEnd
Driver == ApMessage \/ ApPacket \/ ApSignal

AOPNext ==
  \/ BootDone \/ AopReset \/ Serve \/ Driver \/ ApOther \/ ApClose
  \/ ApRequest("get", 0) \/ \E v \in Chans : ApRequest("set", v)

AOPSpec == AOPInit /\ [][AOPNext]_aopvars

\* The bottom half runs when it is scheduled; the driver's handler and its doorbell too.
AOPFairness == WF_aopvars(Serve) /\ WF_aopvars(Driver)
AOPFairSpec == AOPSpec /\ AOPFairness

-----------------------------------------------------------------------------
(* Properties.                                                             *)

\* What a get at i of s reads: the last value set before it.
LastSet(s, i) ==
  LET sets == {k \in 1 .. i - 1 : s[k].op = "set"}
  IN  s[CHOOSE k \in sets : \A l \in sets : l <= k].val

\* The answers the driver reads are those to its requests, in order, each once: the
\* batch behind one signal, a signal that finds the ring empty and the transmit ring's
\* turn to its start neither lose, repeat nor reorder one, and a get sees the last set.
AopRepliesExact ==
  /\ Len(drv.got) <= Len(drv.sent)
  /\ \A i \in 1 .. Len(drv.got) :
       /\ drv.got[i].id = i /\ drv.got[i].op = drv.sent[i].op
       /\ drv.got[i].op = "get" /\ (\E k \in 1 .. i - 1 : drv.sent[k].op = "set") =>
            drv.got[i].val = LastSet(drv.sent, i)

\* A boot ends with the endpoint's ready report at the driver, and every request is
\* answered, unless the driver closes or the machine is reset.
AopServed ==
  /\ drv.phase = "opening" ~> drv.phase # "opening"
  /\ Len(drv.got) < Len(drv.sent) ~> Len(drv.got) = Len(drv.sent)
=============================================================================
