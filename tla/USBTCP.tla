------------------------------- MODULE USBTCP -------------------------------
(***************************************************************************)
(* USB over a socket.  A virtual machine holds the proxy device            *)
(* (hw/usb/dev-tcp-remote.c) behind an EHCI controller; the machine with   *)
(* the emulated phone holds the controller (hw/usb/hcd-tcp.c) of the real  *)
(* device and connects to the proxy.                                       *)
(*                                                                         *)
(* Threads of the proxy: the main loop (the controller's bottom half, the  *)
(* device's bottom halves), a virtual CPU, the accept thread and a reader  *)
(* thread per connection.  A step is what a thread does while it holds the *)
(* big lock; the lock is dropped in read(), in the busy wait of            *)
(* handle_packet and in that of cancel_packet.                             *)
(*                                                                         *)
(* An endpoint carries one packet at a time.  A packet is used once, up to *)
(* retries after NAK.                                                      *)
(***************************************************************************)
EXTENDS Integers, Sequences, Functions

CONSTANTS
  Pkts,       \* packet ids
  Kind,       \* what each is: SET_ADDRESS, the IN status of it, bulk IN
  Plans,      \* what may happen in a behaviour: the packets used, those that the controller
              \* may cancel, how often the port is reset, whether the host may leave
  MaxConns    \* bound: connections made by the host

ASSUME USBTCPAssumption ==
  /\ Kind \in [Pkts -> {"setaddr", "status", "bulk"}] /\ MaxConns \in Nat \ {0}
  /\ \A q \in Plans : /\ q.pkts \subseteq Pkts /\ q.cancels \subseteq q.pkts
                       /\ q.resets \in Nat /\ q.breaks \in BOOLEAN

VARIABLES
  r,        \* the proxy device, its packets and the bottom halves
  main,     \* the main loop: where it is, with which packet, what this round has tried
  acc,      \* the accept thread
  reader,   \* the reader threads, by the connection they were made for
  net,      \* the connections: both ends, both directions
  host,     \* the host controller and its device
  resets,   \* counts the port resets
  plan      \* one of Plans

vars == <<r, main, acc, reader, net, host, resets, plan>>

Conns == 1 .. MaxConns
NoFd == 0
NoPkt == "none"
NewAddr == 1

\* Message units on the way to the proxy: a header, then the data of an IN.
Response(p, st) == [unit |-> "header", p |-> p, st |-> st]
Data(p) == [unit |-> "data", p |-> p, st |-> "success"]
HasData(p, st) == Kind[p] = "bulk" /\ st = "success"

-----------------------------------------------------------------------------
(* Bottom halves.  The main loop takes the whole list as a slice and runs  *)
(* it from the head; scheduling puts at the head of the next slice what is *)
(* not pending.                                                            *)

\* aio_bh_enqueue.
Schedule(s, bh) ==
  IF bh \in Range(s.slice) \cup Range(s.pending) THEN s
  ELSE [s EXCEPT !.pending = <<bh>> \o @]

\* aio_bh_poll, up to the call: the slice and the pending list once the next is dequeued.
Dequeued(s) ==
  IF s.slice # <<>> THEN [s EXCEPT !.slice = Tail(@)]
  ELSE [s EXCEPT !.slice = Tail(s.pending), !.pending = <<>>]

NextBh(s) == IF s.slice # <<>> THEN Head(s.slice) ELSE Head(s.pending)

-----------------------------------------------------------------------------
(* The USB layer and its controller.                                       *)

\* The controller retires a finished packet: the driver sees its status.
Retired(s, p) == [s EXCEPT !.pkt[p].state = "freed", !.pkt[p].seen = s.pkt[p].status]

\* It retires all that are complete.
RetiredAll(s) ==
  [s EXCEPT !.pkt = [p \in Pkts |-> IF s.pkt[p].state = "complete" THEN Retired(s, p).pkt[p]
                                    ELSE s.pkt[p]]]

\* usb_handle_packet, after the device's handler.
Handled(s, p) ==
  CASE s.pkt[p].status = "async" -> [s EXCEPT !.pkt[p].state = "async"]
    [] s.pkt[p].status = "nak" -> [s EXCEPT !.pkt[p].state = "idle"]
    [] OTHER -> Retired(s, p)

\* usb_packet_complete, with its state check, and ehci_async_complete_packet.
PacketComplete(s, p) ==
  IF s.pkt[p].state # "async" THEN [s EXCEPT !.failed = IF p \in plan.cancels THEN "cancelled" ELSE "state"]
  ELSE Schedule([s EXCEPT !.pkt[p].state = "complete"], "ehci")

\* usb_device_detach: the controller cancels or writes back the packets of the device.
Detached(s) ==
  [s EXCEPT !.attached = FALSE,
     !.pkt = [p \in Pkts |->
                CASE s.pkt[p].state = "async" -> [s.pkt[p] EXCEPT !.state = "freed"]
                  [] s.pkt[p].state = "complete" ->
                       [s.pkt[p] EXCEPT !.state = "freed", !.seen = s.pkt[p].status]
                  [] OTHER -> s.pkt[p]]]

-----------------------------------------------------------------------------
(* The proxy device.                                                       *)

\* Fault: what waits is released without a status.
CleanInflight_NoStall(s) ==
  [s EXCEPT !.queue = [p \in Pkts |-> IF @[p] = "none" THEN "none" ELSE "handled"]]

\* usb_tcp_remote_clean_inflight_queue.
CleanInflight(s) ==
  [s EXCEPT !.queue = [p \in Pkts |-> IF @[p] = "none" THEN "none" ELSE "handled"],
            !.pkt = [p \in Pkts |-> IF s.queue[p] = "none" THEN @[p]
                                    ELSE [@[p] EXCEPT !.status = "stall"]]]

\* usb_tcp_remote_clean_completed_queue.
CleanCompleted(s) ==
  LET q == s.completed
      t[i \in 0 .. Len(q)] ==
        IF i = 0 THEN [s EXCEPT !.completed = <<>>]
        ELSE PacketComplete([t[i - 1] EXCEPT !.pkt[q[i]].status = "stall"], q[i])
  IN  t[Len(q)]

\* Fault: the packets in flight are left waiting.
Closed_NoClean(s) ==
  IF s.fd = NoFd THEN s ELSE Schedule([s EXCEPT !.closed = TRUE], "cleanup")

\* usb_tcp_remote_closed.
Closed(s) ==
  IF s.fd = NoFd THEN s
  ELSE Schedule(CleanInflight([s EXCEPT !.closed = TRUE]), "cleanup")

\* usb_tcp_remote_cleanup, on a device with a connection.
Cleanup(s) ==
  LET t == CleanCompleted([s EXCEPT !.fd = NoFd, !.closed = TRUE, !.addr = 0])
  IN IF t.attached THEN Detached(t) ELSE t

\* Fault: the address waits for no one.
CompletedOne_NoAddr(s, p, inflight) ==
  IF inflight THEN PacketComplete(s, p) ELSE s

\* One round of usb_tcp_remote_completed_bh.
CompletedOne(s, p, inflight) ==
  LET t == IF s.addr # s.devAddr /\ Kind[p] = "status" /\ s.pkt[p].status = "success"
           THEN Schedule(s, "addr") ELSE s
  IN IF inflight THEN PacketComplete(t, p) ELSE t

\* usb_tcp_remote_completed_bh; g: what is taken to be in flight.
CompletedBh(s, g) ==
  LET q == s.completed
      t[i \in 0 .. Len(q)] ==
        IF i = 0 THEN [s EXCEPT !.completed = <<>>]
        ELSE CompletedOne(t[i - 1], q[i], g[q[i]])
  IN  t[Len(q)]

\* usb_packet_is_inflight: what is left of a packet that was freed says anything.
MayBeInflight(s, p) ==
  IF s.pkt[p].state = "freed" THEN BOOLEAN ELSE {s.pkt[p].state = "async"}

\* Fault: only packets in flight are looked up.
FindPacket_InflightOnly(s, p) == s.queue[p] # "none"

\* usb_tcp_remote_find_inflight_packet, usb_ep_find_packet_by_id.
FindPacket(s, p) == s.queue[p] # "none" \/ s.pkt[p].state = "async"

\* usb_tcp_remote_read_one, from the packet's status on.  rec: an inflight record was found.
ReadResponse(s, p, rec, st, state) ==
  LET cancelled == state = "canceled"
      t == [s EXCEPT !.pkt[p].status = st,
                     !.addr = IF (st = "stall" \/ cancelled) /\ Kind[p] = "status"
                              THEN s.devAddr ELSE @]
  IN IF state = "async" /\ st \in {"nak", "async"} THEN Closed(t)
     ELSE IF rec THEN [t EXCEPT !.queue[p] = IF @ = "none" THEN @ ELSE "handled"]
     ELSE IF st # "async" /\ ~cancelled
          THEN Schedule([t EXCEPT !.completed = Append(@, p)], "completed")
     ELSE t

-----------------------------------------------------------------------------
(* Threads.                                                                *)

Init ==
  /\ r = [fd |-> NoFd, closed |-> TRUE, attached |-> FALSE, addr |-> 0, devAddr |-> 0,
          queue |-> [p \in Pkts |-> "none"],
          pkt |-> [p \in Pkts |-> [state |-> "idle", status |-> "success", seen |-> "none"]],
          completed |-> <<>>, slice |-> <<>>, pending |-> <<>>, failed |-> "no"]
  /\ main = [at |-> "idle", p |-> NoPkt, tried |-> {}]
  /\ acc = [at |-> "top", conn |-> NoFd]
  /\ reader = [c \in Conns |-> [at |-> "off", on |-> NoFd, p |-> NoPkt, st |-> "none",
                                rec |-> FALSE, found |-> FALSE]]
  /\ net = [c \in Conns |-> [remote |-> FALSE, host |-> FALSE, req |-> <<>>, rsp |-> <<>>]]
  /\ host = [conn |-> NoFd, made |-> 0, backlog |-> <<>>, async |-> {}, result |-> [p \in Pkts |-> "none"]]
  /\ resets = 0
  /\ plan \in Plans

\* The thread in the controller's bottom half has the big lock.
LockFree == main.at # "ehci"

\* The outcomes of a write to the connection: it is sent, it is lost, it fails.
WriteOutcomes(s) ==
  CASE s.fd = NoFd -> {"fails"}
    [] s.fd # NoFd /\ net[s.fd].host -> {"sent"}
    [] OTHER -> {"lost", "fails"}

Sent(s, outcome, msg) ==
  IF outcome = "sent" THEN [net EXCEPT ![s.fd].req = Append(@, msg)] ELSE net

\* usb_handle_packet and usb_tcp_remote_handle_packet up to the busy wait.
Submit(p) ==
  /\ main.at = "ehci" /\ p \in plan.pkts /\ r.attached /\ r.pkt[p].state = "idle" /\ p \notin main.tried
  /\ Kind[p] = "status" => \E q \in Pkts : Kind[q] = "setaddr" /\ r.pkt[q].seen = "success"
  /\ LET s == [r EXCEPT !.pkt[p].status = "success", !.pkt[p].state = "setup"]
         t == [s EXCEPT !.addr = IF Kind[p] = "setaddr" THEN NewAddr ELSE @,
                        !.queue[p] = "wait"]
     IN IF r.closed
        THEN /\ r' = Retired([s EXCEPT !.pkt[p].status = "stall"], p)
             /\ UNCHANGED <<main, net>>
        ELSE \E w \in WriteOutcomes(r) :
          /\ net' = Sent(r, w, [op |-> "request", p |-> p])
          /\ IF w = "fails"
             THEN /\ r' = Retired([Closed(t) EXCEPT !.queue[p] = "none",
                                                    !.pkt[p].status = "stall"], p)
                  /\ UNCHANGED main
             ELSE r' = t /\ main' = [at |-> "handle", p |-> p, tried |-> main.tried \cup {p}]
  /\ UNCHANGED <<acc, reader, host, resets>>

\* The rest of usb_tcp_remote_handle_packet and of usb_handle_packet.
HandleReturns ==
  /\ main.at = "handle" /\ r.queue[main.p] = "handled"
  /\ LET p == main.p
         update == r.addr # r.devAddr /\ Kind[p] = "status" /\ r.pkt[p].status = "success"
     IN r' = Handled([r EXCEPT !.devAddr = IF update THEN r.addr ELSE @,
                               !.queue[p] = "none"], p)
  /\ main' = [main EXCEPT !.at = "ehci", !.p = NoPkt]
  /\ UNCHANGED <<acc, reader, net, host, resets>>

\* ehci_free_packet, usb_cancel_packet, usb_tcp_remote_cancel_packet up to the busy wait.
Cancel(p) ==
  /\ main.at = "ehci" /\ p \in plan.cancels /\ r.pkt[p].state = "async"
  /\ LET s == [r EXCEPT !.pkt[p].state = "canceled", !.queue[p] = "wait"]
     IN IF r.closed
        THEN r' = [r EXCEPT !.pkt[p].state = "freed"] /\ UNCHANGED <<main, net>>
        ELSE \E w \in WriteOutcomes(r) :
          /\ net' = Sent(r, w, [op |-> "cancel", p |-> p])
          /\ r' = IF w = "fails" THEN Closed(s) ELSE s
          /\ main' = [main EXCEPT !.at = "cancel", !.p = p]
  /\ UNCHANGED <<acc, reader, host, resets>>

\* The wait ends by an answer or after a second; the controller frees the packet.
CancelReturns ==
  /\ main.at = "cancel"
  /\ r' = [r EXCEPT !.queue[main.p] = "none", !.pkt[main.p].state = "freed"]
  /\ main' = [main EXCEPT !.at = "ehci", !.p = NoPkt]
  /\ UNCHANGED <<acc, reader, net, host, resets>>

\* The controller's bottom half ends.
EhciLeave ==
  /\ main.at = "ehci"
  /\ main' = [at |-> "idle", p |-> NoPkt, tried |-> {}]
  /\ UNCHANGED <<r, acc, reader, net, host, resets>>

\* The frame timer or a doorbell wants the controller's bottom half.
EhciKick ==
  /\ main.at = "idle" /\ r' = Schedule(r, "ehci") /\ r' # r
  /\ UNCHANGED <<main, acc, reader, net, host, resets>>

\* The next bottom half runs.
RunBh ==
  /\ main.at = "idle" /\ r.slice \o r.pending # <<>>
  /\ LET s == Dequeued(r) bh == NextBh(r) IN
     CASE bh = "ehci" ->
            /\ r' = RetiredAll(s)
            /\ main' = [main EXCEPT !.at = "ehci"]
            /\ UNCHANGED <<acc, net>>
       [] bh = "addr" ->
            /\ r' = [s EXCEPT !.devAddr = s.addr]
            /\ UNCHANGED <<main, acc, net>>
       [] bh = "completed" ->
            /\ \E g \in [Pkts -> BOOLEAN] :
                 /\ \A p \in Pkts : g[p] \in MayBeInflight(s, p)
                 /\ r' = CompletedBh(s, g)
            /\ UNCHANGED <<main, acc, net>>
       [] bh = "cleanup" ->
            IF s.fd = NoFd THEN r' = s /\ UNCHANGED <<main, acc, net>>
            ELSE /\ r' = Cleanup(s)
                 /\ net' = [net EXCEPT ![s.fd].remote = FALSE]
                 /\ acc' = [acc EXCEPT !.at = IF @ = "wait" THEN "check" ELSE @]
                 /\ UNCHANGED main
  /\ UNCHANGED <<reader, host, resets>>

\* A port reset by a virtual CPU: usb_device_reset, usb_tcp_remote_handle_reset.
Reset ==
  /\ main.at = "idle" /\ r.attached /\ resets < plan.resets
  /\ LET s == CleanCompleted(CleanInflight(r)) IN
     IF r.closed THEN r' = [r EXCEPT !.devAddr = 0] /\ UNCHANGED net
     ELSE \E w \in WriteOutcomes(r) :
       /\ net' = Sent(r, w, [op |-> "reset", p |-> NoPkt])
       /\ LET t == [s EXCEPT !.addr = 0, !.devAddr = 0]
          IN r' = IF w = "fails" THEN Closed(t) ELSE t
  /\ resets' = resets + 1
  /\ UNCHANGED <<main, acc, reader, host>>

-----------------------------------------------------------------------------
(* The accept thread, usb_tcp_remote_thread.                               *)

\* accept() returns.
Accept ==
  /\ acc.at = "top" /\ r.closed /\ host.backlog # <<>>
  /\ r' = [r EXCEPT !.fd = Head(host.backlog)]
  /\ acc' = [at |-> "open", conn |-> Head(host.backlog)]
  /\ host' = [host EXCEPT !.backlog = Tail(@)]
  /\ UNCHANGED <<main, reader, net, resets>>

\* closed = 0, without a lock.
AcceptOpen ==
  /\ acc.at = "open" /\ r' = [r EXCEPT !.closed = FALSE]
  /\ acc' = [acc EXCEPT !.at = "attach"]
  /\ UNCHANGED <<main, reader, net, host, resets>>

\* usb_device_attach with its assertion.
AcceptAttach ==
  /\ acc.at = "attach" /\ LockFree
  /\ r' = IF r.attached THEN [r EXCEPT !.failed = "attach"] ELSE [r EXCEPT !.attached = TRUE]
  /\ acc' = [acc EXCEPT !.at = "spawn"]
  /\ UNCHANGED <<main, reader, net, host, resets>>

\* qemu_thread_create.
AcceptSpawn ==
  /\ acc.at = "spawn"
  /\ reader' = [reader EXCEPT ![acc.conn].at = "start"]
  /\ acc' = [acc EXCEPT !.at = "check"]
  /\ UNCHANGED <<r, main, net, host, resets>>

\* The loop around qemu_cond_wait: the flag is read, then the wait begins.
AcceptCheck ==
  /\ acc.at = "check"
  /\ acc' = [acc EXCEPT !.at = IF r.closed THEN "top" ELSE "wait"]
  /\ UNCHANGED <<r, main, reader, net, host, resets>>

-----------------------------------------------------------------------------
(* A reader thread, usb_tcp_remote_read_thread.                            *)

\* The loop goes on, or ends, once the device is in state s.
ReaderLoops(c, s) ==
  reader' = [reader EXCEPT ![c].at = IF s.closed THEN "done" ELSE "header", ![c].on = s.fd]

ReaderEnds(c) == reader' = [reader EXCEPT ![c].at = "done"]

\* bql_lock, and into the first read.
ReaderStart(c) ==
  /\ reader[c].at = "start" /\ LockFree
  /\ reader' = [reader EXCEPT ![c].at = "header", ![c].on = r.fd]
  /\ UNCHANGED <<r, main, acc, net, host, resets>>

\* read() fails or ends: no connection, or the host left and all is read.
ReadFails(c) ==
  /\ reader[c].at \in {"header", "payload"} /\ LockFree
  /\ reader[c].on # NoFd => ~net[reader[c].on].host /\ net[reader[c].on].rsp = <<>>
  /\ r' = Closed(r)
  /\ ReaderEnds(c)
  /\ UNCHANGED <<main, acc, net, host, resets>>

\* The response is applied; what a freed packet holds is anyone's guess.
Apply(c, p, rec, st) ==
  \E state \in IF r.pkt[p].state = "freed" THEN {"async", "canceled"} ELSE {r.pkt[p].state} :
    /\ r' = ReadResponse(r, p, rec, st, state)
    /\ IF state = "async" /\ st \in {"nak", "async"} THEN ReaderEnds(c) ELSE ReaderLoops(c, r')

\* usb_tcp_remote_read_one: the header, and the packet it is for.
ReadHeader(c) ==
  /\ reader[c].at = "header" /\ reader[c].on # NoFd /\ LockFree
  /\ net[reader[c].on].rsp # <<>>
  /\ net' = [net EXCEPT ![reader[c].on].rsp = Tail(@)]
  /\ LET m == Head(net[reader[c].on].rsp)
         found == FindPacket(r, m.p)
     IN CASE m.unit = "data" -> r' = Closed(r) /\ ReaderEnds(c)
          [] m.unit = "header" /\ HasData(m.p, m.st) ->
               /\ reader' = [reader EXCEPT ![c] = [at |-> "payload", on |-> r.fd, p |-> m.p,
                                                   st |-> m.st, found |-> found,
                                                   rec |-> r.queue[m.p] # "none"]]
               /\ UNCHANGED r
          [] m.unit = "header" /\ ~HasData(m.p, m.st) /\ ~found ->
               ReaderLoops(c, r) /\ UNCHANGED r
          [] OTHER -> Apply(c, m.p, r.queue[m.p] # "none", m.st)
  /\ UNCHANGED <<main, acc, host, resets>>

\* usb_tcp_remote_read_one: the data, then the packet found before the read is used.
ReadPayload(c) ==
  /\ reader[c].at = "payload" /\ reader[c].on # NoFd /\ LockFree
  /\ net[reader[c].on].rsp # <<>>
  /\ net' = [net EXCEPT ![reader[c].on].rsp = Tail(@)]
  /\ IF reader[c].found THEN Apply(c, reader[c].p, reader[c].rec, reader[c].st)
     ELSE ReaderLoops(c, r) /\ UNCHANGED r
  /\ UNCHANGED <<main, acc, host, resets>>

-----------------------------------------------------------------------------
(* The host controller, hw/usb/hcd-tcp.c, and the device behind it.        *)

\* usb_tcp_host_closed.
HostClosed(n) == [n EXCEPT ![host.conn].host = FALSE]

\* usb_tcp_host_respond_packet_co: the message and its data, if the other end is there.
Respond(n, p, st) ==
  IF ~n[host.conn].remote THEN n
  ELSE LET m == [n EXCEPT ![host.conn].rsp = Append(@, Response(p, st))]
       IN  IF HasData(p, st) THEN [m EXCEPT ![host.conn].rsp = Append(@, Data(p))] ELSE m

\* usb_tcp_host_attach: the device is plugged in and the host connects.
HostAttach ==
  /\ host.conn = NoFd /\ host.made < MaxConns
  /\ LET c == host.made + 1 IN
     /\ host' = [host EXCEPT !.conn = c, !.made = c, !.backlog = Append(@, c)]
     /\ net' = [net EXCEPT ![c].remote = TRUE, ![c].host = TRUE]
  /\ UNCHANGED <<r, main, acc, reader, resets>>

\* usb_tcp_host_detach, or the machine of the host stops.
HostDetach ==
  /\ plan.breaks /\ host.conn # NoFd
  /\ net' = HostClosed(net) /\ host' = [host EXCEPT !.conn = NoFd]
  /\ UNCHANGED <<r, main, acc, reader, resets>>

\* usb_tcp_host_msg_loop_co: one message.
HostMessage ==
  /\ host.conn # NoFd /\ net[host.conn].req # <<>>
  /\ LET m == Head(net[host.conn].req)
         n == [net EXCEPT ![host.conn].req = Tail(@)]
     IN CASE m.op = "request" ->
               \E st \in {"success", "stall", "nak", "async"} :
                 /\ net' = Respond(n, m.p, st)
                 /\ host' = [host EXCEPT !.async = IF st = "async" THEN @ \cup {m.p} ELSE @,
                                         !.result[m.p] = st]
          [] m.op = "cancel" /\ m.p \in host.async ->
               /\ net' = Respond(n, m.p, "async")
               /\ host' = [host EXCEPT !.async = @ \ {m.p}]
          [] OTHER -> net' = n /\ UNCHANGED host
  /\ UNCHANGED <<r, main, acc, reader, resets>>

\* The end of the stream in usb_tcp_host_msg_loop_co.
HostEof ==
  /\ host.conn # NoFd /\ net[host.conn].req = <<>> /\ ~net[host.conn].remote
  /\ net' = HostClosed(net) /\ host' = [host EXCEPT !.conn = NoFd]
  /\ UNCHANGED <<r, main, acc, reader, resets>>

\* The device is done with a packet: usb_tcp_host_async_packet_complete.
HostComplete(p) ==
  /\ p \in host.async
  /\ \E st \in {"success", "stall"} :
       /\ host' = [host EXCEPT !.async = @ \ {p}, !.result[p] = st]
       /\ net' = IF host.conn = NoFd THEN net ELSE Respond(net, p, st)
  /\ UNCHANGED <<r, main, acc, reader, resets>>

-----------------------------------------------------------------------------
Alive == r.failed = "no"

MainStep == HandleReturns \/ CancelReturns \/ EhciLeave \/ RunBh
AcceptStep == Accept \/ AcceptOpen \/ AcceptAttach \/ AcceptSpawn \/ AcceptCheck
ReaderStep(c) == ReaderStart(c) \/ ReadFails(c) \/ ReadHeader(c) \/ ReadPayload(c)

Next ==
  /\ Alive /\ UNCHANGED plan
  /\ \/ \E p \in Pkts : Submit(p) \/ Cancel(p) \/ HostComplete(p)
     \/ HandleReturns \/ CancelReturns \/ EhciLeave \/ EhciKick \/ RunBh \/ Reset
     \/ Accept \/ AcceptOpen \/ AcceptAttach \/ AcceptSpawn \/ AcceptCheck
     \/ \E c \in Conns : ReaderStart(c) \/ ReadFails(c) \/ ReadHeader(c) \/ ReadPayload(c)
     \/ HostAttach \/ HostDetach \/ HostMessage \/ HostEof

Spec == Init /\ [][Next]_vars

Keeps(A) == Alive /\ A /\ UNCHANGED plan

\* Every thread that can run does, and gets the big lock that the main loop keeps taking; the
\* host answers, its device finishes what it deferred.
Fairness ==
  /\ WF_vars(Keeps(MainStep)) /\ SF_vars(Keeps(AcceptStep))
  /\ \A c \in Conns : SF_vars(Keeps(ReaderStep(c)))
  /\ WF_vars(Keeps(HostMessage \/ HostEof))
  /\ \A p \in Pkts : WF_vars(Keeps(HostComplete(p)))

FairSpec == Spec /\ Fairness

-----------------------------------------------------------------------------
(* Properties.                                                             *)

\* The guest's driver sees a packet succeed only if the device behind the host made it
\* succeed: a connection that fails or a reset never turns into success
\* (usb_tcp_remote_clean_inflight_queue, usb_tcp_remote_clean_completed_queue).
SuccessIsReal ==
  \A p \in Pkts : r.pkt[p].seen = "success" => host.result[p] = "success"

\* The main loop never stays in the busy wait of usb_tcp_remote_handle_packet: the answer
\* comes, or usb_tcp_remote_closed releases it.
HandlePacketReturns == main.at = "handle" ~> (main.at # "handle" \/ r.failed # "no")

\* "The driver will call usb_packet_complete() when done": a deferred packet without data, whose
\* completion is read in one piece, ends.  The completion is found wherever it meets the packet,
\* in the busy wait or after it.
ControlEnds ==
  \A p \in {q \in Pkts : Kind[q] # "bulk"} : r.pkt[p].state = "async"
     ~> (r.pkt[p].state # "async" \/ r.failed # "no")

\* Once the driver has seen the status stage of SET_ADDRESS succeed, the device answers to
\* the new address, unless it is reset or its connection closes.
StatusSetsAddress ==
  \A p \in {q \in Pkts : Kind[q] = "status"} : (r.pkt[p].seen = "success" /\ resets = 0)
     ~> (r.devAddr = NewAddr \/ r.closed \/ resets > 0 \/ r.failed # "no")
====
