---------------------------- MODULE USBTCPProofs ----------------------------
(***************************************************************************)
(* Proofs about USB over a socket (hw/usb/dev-tcp-remote.c,                *)
(* hw/usb/hcd-tcp.c), for every set of packets, every number of            *)
(* connections and every plan: the guest's driver sees success only of     *)
(* what the device behind the host made succeed.                           *)
(*                                                                         *)
(* A packet's status is success from the moment it is set up, and a packet *)
(* that was refused with NAK is set up again.  So the invariant says where *)
(* a success may be before the device has given it (Real), and that a      *)
(* packet is asked for again only when nothing of it is under way any more *)
(* (Once), on whatever connection.                                         *)
(***************************************************************************)
EXTENDS USBTCP, Induction

Statuses == {"success", "stall", "nak", "async"}
Packet ==
  [state : {"idle", "setup", "async", "complete", "canceled", "freed"},
   status : Statuses, seen : Statuses \cup {"none"}]
Bhs == {"ehci", "addr", "completed", "cleanup"}
Fds == Conns \cup {NoFd}
Addrs == {0, NewAddr}

Proxy ==
  [fd : Fds, closed : BOOLEAN, attached : BOOLEAN, addr : Addrs, devAddr : Addrs,
   queue : [Pkts -> {"none", "wait", "handled"}], pkt : [Pkts -> Packet],
   completed : Seq(Pkts), slice : Seq(Bhs), pending : Seq(Bhs),
   failed : {"no", "cancelled", "state", "attach"}]

Request == [op : {"request", "cancel"}, p : Pkts] \cup [op : {"reset"}, p : {NoPkt}]
Unit == [unit : {"header", "data"}, p : Pkts, st : Statuses]
Connection == [remote : BOOLEAN, host : BOOLEAN, req : Seq(Request), rsp : Seq(Unit)]

Thread ==
  [at : {"off", "start", "header", "done", "payload"}, on : Fds, p : Pkts \cup {NoPkt},
   st : {"none", "success"}, rec : BOOLEAN, found : BOOLEAN]

Controller ==
  [conn : Fds, made : 0 .. MaxConns, backlog : Seq(Conns), async : SUBSET Pkts,
   result : [Pkts -> Statuses \cup {"none"}]]

USBTypeOK ==
  /\ r \in Proxy
  /\ reader \in [Conns -> Thread]
  /\ \A c \in Conns : reader[c].at = "payload" => reader[c].p \in Pkts /\ reader[c].st = "success"
  /\ net \in [Conns -> Connection]
  /\ host \in Controller

MainLoop ==
  [at : {"idle", "ehci", "handle", "cancel"}, p : Pkts \cup {NoPkt}, tried : SUBSET Pkts]

\* The packet that the main loop waits for stays what it is.
Waits ==
  /\ main \in MainLoop
  /\ main.at = "handle" => main.p \in Pkts /\ r.pkt[main.p].state = "setup"
  /\ main.at = "cancel" => main.p \in Pkts /\ r.pkt[main.p].state = "canceled"

\* x is at place i of the queue q.
Holds(q, x, i) == i \in 1 .. Len(q) /\ q[i] = x

\* Place i of the connection c has the request for p, a NAK for p, p's success.
Asks(n, p, c, i) == Holds(n[c].req, [op |-> "request", p |-> p], i)
Refuses(n, p, c, i) == Holds(n[c].rsp, Response(p, "nak"), i)
Grants(n, p, c, i) == Holds(n[c].rsp, Response(p, "success"), i)

\* The proxy shows no success of p: the driver has not seen one, and the status is not
\* success but where it was just set up.
NoSuccess(s, p) ==
  /\ s.pkt[p].seen # "success"
  /\ s.pkt[p].status = "success" =>
       \/ s.pkt[p].state = "idle"
       \/ s.pkt[p].state = "setup" /\ s.queue[p] = "wait"

\* What the device has not made succeed is a success nowhere, neither with the proxy nor
\* on a connection nor in the hands of a reader that waits for the data.
RealAt(s, th, n, h, p) ==
  h.result[p] # "success" =>
    /\ NoSuccess(s, p)
    /\ \A c \in Conns, i \in Nat : ~Grants(n, p, c, i)
    /\ \A c \in Conns : th[c].at = "payload" => th[c].p # p

\* The controller has p for a first or another try, or gets it back.
Back(s, p) == s.pkt[p].state = "idle" \/ (s.pkt[p].state = "setup" /\ s.pkt[p].status = "nak")

\* The device was not asked for p, or has refused it.
Open(h, p) == h.result[p] \in {"none", "nak"}

\* Before the device has taken it on, p is in one place: with the controller, in one
\* request or in one NAK.
OnceAt(s, n, h, p) ==
  /\ Back(s, p) => Open(h, p)
  /\ \A c \in Conns, i \in Nat : Asks(n, p, c, i) \/ Refuses(n, p, c, i) => Open(h, p) /\ ~Back(s, p)
  /\ \A c, d \in Conns, i, j \in Nat :
       /\ Asks(n, p, c, i) /\ Asks(n, p, d, j) => c = d /\ i = j
       /\ Refuses(n, p, c, i) /\ Refuses(n, p, d, j) => c = d /\ i = j
       /\ ~(Asks(n, p, c, i) /\ Refuses(n, p, d, j))

Real == \A p \in Pkts : RealAt(r, reader, net, host, p)
Once == \A p \in Pkts : OnceAt(r, net, host, p)

\* A packet that the device has deferred has no other result.
Deferred == \A p \in host.async : host.result[p] = "async"

USBInv == USBTypeOK /\ Waits /\ Real /\ Deferred /\ Once

-----------------------------------------------------------------------------
(* The queues of a connection.                                             *)

\* The oldest message is taken.
LEMMA TailHolds ==
  ASSUME NEW S, NEW q \in Seq(S), q # <<>>
  PROVE  /\ Tail(q) \in Seq(S) /\ Head(q) \in S
         /\ Holds(q, Head(q), 1)
         /\ \A x, i : Holds(Tail(q), x, i) => i \in Nat \ {0} /\ Holds(q, x, i + 1)
  <1>1. /\ Len(q) \in Nat /\ 1 \in 1 .. Len(q) /\ Head(q) = q[1] /\ Head(q) \in S
        /\ Tail(q) \in Seq(S) /\ Len(Tail(q)) = Len(q) - 1
        /\ \A i \in 1 .. Len(q) - 1 : Tail(q)[i] = q[i + 1]
    OBVIOUS
  <1> QED BY <1>1 DEF Holds

\* A message is added.
LEMMA AppendHolds ==
  ASSUME NEW S, NEW q \in Seq(S), NEW y \in S
  PROVE  /\ Append(q, y) \in Seq(S) /\ Len(q) \in Nat
         /\ \A x, i : Holds(Append(q, y), x, i) => Holds(q, x, i) \/ (x = y /\ i = Len(q) + 1)
  <1>1. /\ Len(q) \in Nat /\ Append(q, y) \in Seq(S) /\ Len(Append(q, y)) = Len(q) + 1
        /\ \A i \in 1 .. Len(q) : Append(q, y)[i] = q[i]
        /\ Append(q, y)[Len(q) + 1] = y
    OBVIOUS
  <1> QED BY <1>1 DEF Holds

-----------------------------------------------------------------------------
(* Steps of the proxy alone.                                               *)

\* They add no success and do not give p back to the controller.
QuietAt(s, t, p) == (NoSuccess(s, p) => NoSuccess(t, p)) /\ (Back(t, p) => Back(s, p))

\* And the packet that the main loop waits for stays as it is.
StaysAt(s, t, p) ==
  s.pkt[p].state \in {"setup", "canceled"} => t.pkt[p].state = s.pkt[p].state

Quiet(s, t) == t \in Proxy /\ \A p \in Pkts : QuietAt(s, t, p) /\ StaysAt(s, t, p)

\* One after the other is such a step.
LEMMA QuietTrans ==
  ASSUME NEW s, NEW t, NEW u, Quiet(s, t), Quiet(t, u)
  PROVE  Quiet(s, u)
  BY DEF Quiet, QuietAt, StaysAt

\* So is one that leaves the packets alone.
LEMMA SamePkts ==
  ASSUME NEW s, NEW t \in Proxy, t.pkt = s.pkt, t.queue = s.queue
  PROVE  Quiet(s, t)
  BY DEF Quiet, QuietAt, StaysAt, NoSuccess, Back

\* The packets of the proxy.
LEMMA PktTypes ==
  ASSUME NEW s \in Proxy, NEW p \in Pkts
  PROVE  /\ s.pkt[p] \in Packet /\ s.queue[p] \in {"none", "wait", "handled"}
         /\ s.pkt[p].state \in {"idle", "setup", "async", "complete", "canceled", "freed"}
         /\ s.pkt[p].status \in Statuses
         /\ s.pkt[p].seen \in Statuses \cup {"none"}
  BY DEF Proxy, Packet

\* With other packets a proxy is a proxy.
LEMMA WithPkt ==
  ASSUME NEW s \in Proxy, NEW k \in [Pkts -> Packet]
  PROVE  /\ [s EXCEPT !.pkt = k] \in Proxy
         /\ [s EXCEPT !.pkt = k].pkt = k /\ [s EXCEPT !.pkt = k].queue = s.queue
  BY Zenon DEF Proxy

\* The same for the in-flight queue.
LEMMA WithQueue ==
  ASSUME NEW s \in Proxy, NEW k \in [Pkts -> {"none", "wait", "handled"}]
  PROVE  /\ [s EXCEPT !.queue = k] \in Proxy
         /\ [s EXCEPT !.queue = k].queue = k /\ [s EXCEPT !.queue = k].pkt = s.pkt
  BY Zenon DEF Proxy

\* aio_bh_enqueue.
LEMMA ScheduleQuiet ==
  ASSUME NEW s \in Proxy, NEW bh \in Bhs
  PROVE  /\ Schedule(s, bh) \in Proxy
         /\ Schedule(s, bh).pkt = s.pkt /\ Schedule(s, bh).queue = s.queue
         /\ Schedule(s, bh).fd = s.fd
         /\ Quiet(s, Schedule(s, bh))
  <1>1. <<bh>> \o s.pending \in Seq(Bhs) BY DEF Proxy
  <1> DEFINE k == <<bh>> \o s.pending
  <1> HIDE DEF k
  <1>2. [s EXCEPT !.pending = k] \in Proxy BY <1>1, Zenon DEF Proxy, k
  <1>3. /\ [s EXCEPT !.pending = k].pkt = s.pkt /\ [s EXCEPT !.pending = k].queue = s.queue
        /\ [s EXCEPT !.pending = k].fd = s.fd
    BY DEF Proxy
  <1>4. Schedule(s, bh) = s \/ Schedule(s, bh) = [s EXCEPT !.pending = k] BY DEF Schedule, k
  <1>5. /\ Schedule(s, bh) \in Proxy
        /\ Schedule(s, bh).pkt = s.pkt /\ Schedule(s, bh).queue = s.queue
        /\ Schedule(s, bh).fd = s.fd
    BY <1>2, <1>3, <1>4, Zenon
  <1> QED BY <1>5, SamePkts

\* One packet changes, in a way that is quiet for it.
LEMMA OnePkt ==
  ASSUME NEW s \in Proxy, NEW p \in Pkts, NEW x \in Packet,
         QuietAt(s, [s EXCEPT !.pkt[p] = x], p), StaysAt(s, [s EXCEPT !.pkt[p] = x], p)
  PROVE  Quiet(s, [s EXCEPT !.pkt[p] = x])
  <1> DEFINE t == [s EXCEPT !.pkt[p] = x]
  <1>1. t \in Proxy BY DEF Proxy
  <1>2. t.queue = s.queue /\ \A q \in Pkts : q # p => t.pkt[q] = s.pkt[q] BY DEF Proxy
  <1> HIDE DEF t
  <1>3. \A q \in Pkts : q # p => QuietAt(s, t, q) /\ StaysAt(s, t, q)
    BY <1>2 DEF QuietAt, StaysAt, NoSuccess, Back
  <1> QED BY <1>1, <1>3 DEF Quiet, t

\* usb_packet_complete.
LEMMA PacketCompleteQuiet ==
  ASSUME NEW s \in Proxy, NEW p \in Pkts
  PROVE  Quiet(s, PacketComplete(s, p)) /\ PacketComplete(s, p).fd = s.fd
  <1>1. CASE s.pkt[p].state # "async"
    <2> DEFINE f == IF p \in plan.cancels THEN "cancelled" ELSE "state"
    <2>1. f \in {"cancelled", "state"} OBVIOUS
    <2>2. PacketComplete(s, p) = [s EXCEPT !.failed = f] BY <1>1 DEF PacketComplete
    <2> HIDE DEF f
    <2>3. /\ [s EXCEPT !.failed = f] \in Proxy
          /\ [s EXCEPT !.failed = f].pkt = s.pkt /\ [s EXCEPT !.failed = f].queue = s.queue
          /\ [s EXCEPT !.failed = f].fd = s.fd
      BY <2>1, Zenon DEF Proxy
    <2> QED BY <2>2, <2>3, SamePkts, Zenon
  <1>2. CASE s.pkt[p].state = "async"
    <2> DEFINE x == [s.pkt[p] EXCEPT !.state = "complete"]
               t == [s EXCEPT !.pkt[p] = x]
    <2>1. /\ x \in Packet /\ x.state = "complete" /\ x.seen = s.pkt[p].seen
          /\ x.status = s.pkt[p].status
      BY PktTypes DEF Packet
    <2>2. PacketComplete(s, p) = Schedule(t, "ehci") BY <1>2 DEF PacketComplete
    <2>3. t.pkt[p] = x /\ t.fd = s.fd BY DEF Proxy
    <2> HIDE DEF x
    <2>4. QuietAt(s, t, p) /\ StaysAt(s, t, p)
      <3> HIDE DEF t
      <3> QED BY <1>2, <2>1, <2>3 DEF QuietAt, StaysAt, NoSuccess, Back
    <2>5. Quiet(s, t) BY <2>1, <2>4, OnePkt
    <2> HIDE DEF t
    <2>6. t \in Proxy BY <2>5 DEF Quiet
    <2>7. Quiet(t, Schedule(t, "ehci")) /\ Schedule(t, "ehci").fd = t.fd
      BY <2>6, ScheduleQuiet DEF Bhs
    <2> QED BY <2>2, <2>3, <2>5, <2>7, QuietTrans
  <1> QED BY <1>1, <1>2

\* A status of stall is no success.
LEMMA StallQuiet ==
  ASSUME NEW s \in Proxy, NEW p \in Pkts
  PROVE  /\ Quiet(s, [s EXCEPT !.pkt[p].status = "stall"])
         /\ [s EXCEPT !.pkt[p].status = "stall"].fd = s.fd
  <1> DEFINE x == [s.pkt[p] EXCEPT !.status = "stall"]
             t == [s EXCEPT !.pkt[p] = x]
  <1>1. /\ x \in Packet /\ x.state = s.pkt[p].state /\ x.seen = s.pkt[p].seen /\ x.status = "stall"
    BY PktTypes DEF Packet, Statuses
  <1>2. t.pkt[p] = x /\ t.fd = s.fd BY DEF Proxy
  <1> HIDE DEF x
  <1>3. QuietAt(s, t, p) /\ StaysAt(s, t, p)
    <2> HIDE DEF t
    <2> QED BY <1>1, <1>2 DEF QuietAt, StaysAt, NoSuccess, Back
  <1> QED BY <1>1, <1>2, <1>3, OnePkt DEF x

\* usb_tcp_remote_clean_inflight_queue.
LEMMA CleanInflightQuiet ==
  ASSUME NEW s \in Proxy
  PROVE  Quiet(s, CleanInflight(s)) /\ CleanInflight(s).fd = s.fd
  <1> DEFINE q == [p \in Pkts |-> IF s.queue[p] = "none" THEN "none" ELSE "handled"]
             k == [p \in Pkts |-> IF s.queue[p] = "none" THEN s.pkt[p]
                                  ELSE [s.pkt[p] EXCEPT !.status = "stall"]]
             t == CleanInflight(s)
  <1>1. t = [s EXCEPT !.queue = q, !.pkt = k] BY DEF CleanInflight, Proxy
  <1>2. q \in [Pkts -> {"none", "wait", "handled"}] OBVIOUS
  <1>3. k \in [Pkts -> Packet]
    <2>1. ASSUME NEW p \in Pkts PROVE k[p] \in Packet BY PktTypes DEF Packet, Statuses
    <2> QED BY <2>1
  <1>4. ASSUME NEW p \in Pkts
        PROVE  /\ s.queue[p] = "none" => q[p] = s.queue[p] /\ k[p] = s.pkt[p]
               /\ s.queue[p] # "none" => /\ k[p].status = "stall" /\ k[p].state = s.pkt[p].state
                                         /\ k[p].seen = s.pkt[p].seen
    BY PktTypes DEF Packet
  <1> HIDE DEF q, k, t
  <1>5. t \in Proxy /\ t.queue = q /\ t.pkt = k /\ t.fd = s.fd
    BY <1>1, <1>2, <1>3, Zenon DEF Proxy
  <1>6. ASSUME NEW p \in Pkts PROVE QuietAt(s, t, p) /\ StaysAt(s, t, p)
    BY <1>4, <1>5 DEF QuietAt, StaysAt, NoSuccess, Back
  <1> QED BY <1>5, <1>6 DEF Quiet, t

\* usb_tcp_remote_closed.
LEMMA ClosedQuiet ==
  ASSUME NEW s \in Proxy
  PROVE  Quiet(s, Closed(s))
  <1>1. CASE s.fd = NoFd BY <1>1, SamePkts DEF Closed
  <1>2. CASE s.fd # NoFd
    <2> DEFINE t == [s EXCEPT !.closed = TRUE]
               u == CleanInflight(t)
    <2>1. t \in Proxy /\ t.pkt = s.pkt /\ t.queue = s.queue BY Zenon DEF Proxy
    <2>2. Closed(s) = Schedule(u, "cleanup") BY <1>2 DEF Closed
    <2> HIDE DEF t
    <2>3. Quiet(s, t) /\ Quiet(t, u) BY <2>1, SamePkts, CleanInflightQuiet
    <2> HIDE DEF u
    <2>4. u \in Proxy BY <2>3 DEF Quiet
    <2>5. Quiet(u, Schedule(u, "cleanup")) BY <2>4, ScheduleQuiet DEF Bhs
    <2>6. Quiet(s, u) BY <2>3, QuietTrans
    <2> QED BY <2>2, <2>5, <2>6, QuietTrans
  <1> QED BY <1>1, <1>2

\* A loop of quiet steps over the completed packets is quiet; the steps are f's.
LEMMA QuietLoop ==
  ASSUME NEW s \in Proxy, NEW n \in Nat, NEW f, f[0].pkt = s.pkt, f[0].queue = s.queue,
         f[0].fd = s.fd, f[0] \in Proxy,
         \A i \in 1 .. n : f[i - 1] \in Proxy => Quiet(f[i - 1], f[i]) /\ f[i].fd = f[i - 1].fd
  PROVE  Quiet(s, f[n]) /\ f[n].fd = s.fd
  <1> DEFINE S == {i \in 0 .. n : Quiet(s, f[i]) /\ f[i].fd = s.fd}
  <1>1. 0 \in S BY SamePkts
  <1>2. ASSUME NEW i \in 0 .. n - 1, i \in S PROVE i + 1 \in S
    <2>1. i + 1 \in 1 .. n /\ i + 1 \in 0 .. n /\ (i + 1) - 1 = i OBVIOUS
    <2>2. Quiet(s, f[i]) /\ f[i].fd = s.fd BY <1>2
    <2>3. f[i] \in Proxy BY <2>2 DEF Quiet
    <2>4. Quiet(f[i], f[i + 1]) /\ f[i + 1].fd = f[i].fd BY <2>1, <2>3
    <2>5. Quiet(s, f[i + 1]) BY <2>2, <2>4, QuietTrans
    <2> QED BY <2>1, <2>2, <2>4, <2>5
  <1> HIDE DEF S
  <1>3. \A i \in 0 .. n - 1 : i \in S => i + 1 \in S BY <1>2
  <1>4. 0 .. n \subseteq S BY <1>1, <1>3, RangeInSet
  <1> QED BY <1>4 DEF S

\* The proxy that has taken its completed packets.
LEMMA TakenCompleted ==
  ASSUME NEW s \in Proxy
  PROVE  /\ [s EXCEPT !.completed = <<>>] \in Proxy
         /\ [s EXCEPT !.completed = <<>>].pkt = s.pkt
         /\ [s EXCEPT !.completed = <<>>].queue = s.queue
         /\ [s EXCEPT !.completed = <<>>].fd = s.fd
         /\ s.completed \in Seq(Pkts) /\ Len(s.completed) \in Nat
         /\ \A i \in 1 .. Len(s.completed) : s.completed[i] \in Pkts
  <1>1. <<>> \in Seq(Pkts) OBVIOUS
  <1>2. s.completed \in Seq(Pkts) BY DEF Proxy
  <1>3. Len(s.completed) \in Nat /\ \A i \in 1 .. Len(s.completed) : s.completed[i] \in Pkts
    BY <1>2
  <1> QED BY <1>1, <1>2, <1>3, Zenon DEF Proxy

\* One turn of usb_tcp_remote_clean_completed_queue.
StallOne(s, p) == PacketComplete([s EXCEPT !.pkt[p].status = "stall"], p)

\* usb_tcp_remote_clean_completed_queue: one packet of the queue.
LEMMA StallOneQuiet ==
  ASSUME NEW s \in Proxy, NEW p \in Pkts
  PROVE  Quiet(s, StallOne(s, p)) /\ StallOne(s, p).fd = s.fd
  <1> DEFINE t == [s EXCEPT !.pkt[p].status = "stall"]
  <1>1. Quiet(s, t) /\ t.fd = s.fd BY StallQuiet
  <1>2. StallOne(s, p) = PacketComplete(t, p) BY DEF StallOne
  <1> HIDE DEF t
  <1>3. t \in Proxy BY <1>1 DEF Quiet
  <1>4. Quiet(t, PacketComplete(t, p)) /\ PacketComplete(t, p).fd = t.fd
    BY <1>3, PacketCompleteQuiet
  <1> QED BY <1>1, <1>2, <1>4, QuietTrans

\* The equation of the loop in usb_tcp_remote_clean_completed_queue.
StallLoop(f, s) ==
  f = [i \in 0 .. Len(s.completed) |->
         IF i = 0 THEN [s EXCEPT !.completed = <<>>] ELSE StallOne(f[i - 1], s.completed[i])]

\* usb_tcp_remote_clean_completed_queue.
LEMMA CleanCompletedQuiet ==
  ASSUME NEW s \in Proxy
  PROVE  Quiet(s, CleanCompleted(s)) /\ CleanCompleted(s).fd = s.fd
  <1> DEFINE n == Len(s.completed)
             x == [s EXCEPT !.completed = <<>>]
             g == [i \in 1 .. n |-> [t \in Proxy |-> StallOne(t, s.completed[i])]]
             f == CHOOSE h : StallLoop(h, s)
  <1>1. /\ x \in Proxy /\ x.pkt = s.pkt /\ x.queue = s.queue /\ x.fd = s.fd
        /\ n \in Nat /\ \A i \in 1 .. n : s.completed[i] \in Pkts
    BY TakenCompleted
  <1>2. g \in [1 .. n -> [Proxy -> Proxy]]
    <2>1. ASSUME NEW i \in 1 .. n, NEW t \in Proxy PROVE StallOne(t, s.completed[i]) \in Proxy
      BY <1>1, StallOneQuiet DEF Quiet
    <2> QED BY <2>1
  <1>3. \A i \in 1 .. n, t \in Proxy : g[i][t] = StallOne(t, s.completed[i]) OBVIOUS
  <1>4. CleanCompleted(s) = f[n] BY DEF CleanCompleted, StallLoop, StallOne
  <1> HIDE DEF g
  <1>5. \E h : StallLoop(h, s)
    <2> HIDE DEF x
    <2>1. PICK h : LoopStates(h, Proxy, n, x, g) BY <1>1, <1>2, LoopExists
    <2>2. /\ h \in [0 .. n -> Proxy] /\ h[0] = x
          /\ \A i \in 1 .. n : h[i] = g[i][h[i - 1]]
      BY <2>1 DEF LoopStates
    <2>3. ASSUME NEW i \in 1 .. n PROVE h[i] = StallOne(h[i - 1], s.completed[i])
      <3>0. i - 1 \in 0 .. n BY <1>1
      <3>1. h[i - 1] \in Proxy BY <2>2, <3>0
      <3> QED BY <1>3, <2>2, <3>1
    <2>4. h = [i \in 0 .. n |-> h[i]] BY <2>2
    <2>5. \A i \in 0 .. n : h[i] = IF i = 0 THEN x ELSE StallOne(h[i - 1], s.completed[i])
      BY <1>1, <2>2, <2>3
    <2>6. StallLoop(h, s) BY <2>4, <2>5, Zenon DEF StallLoop, x
    <2> QED BY <2>6
  <1>6. StallLoop(f, s) BY <1>5
  <1> HIDE DEF f
  <1>a. \A i \in 0 .. n : f[i] = IF i = 0 THEN x ELSE StallOne(f[i - 1], s.completed[i])
    BY <1>6, Zenon DEF StallLoop
  <1> HIDE DEF x
  <1>7. f[0] = x /\ \A i \in 1 .. n : f[i] = StallOne(f[i - 1], s.completed[i])
    BY <1>1, <1>a
  <1>8. \A i \in 1 .. n : f[i - 1] \in Proxy => Quiet(f[i - 1], f[i]) /\ f[i].fd = f[i - 1].fd
    BY <1>1, <1>7, StallOneQuiet
  <1> HIDE DEF n
  <1>9. Quiet(s, f[n]) /\ f[n].fd = s.fd BY <1>1, <1>7, <1>8, QuietLoop
  <1> QED BY <1>4, <1>9

\* One turn of usb_tcp_remote_completed_bh.
LEMMA CompletedOneQuiet ==
  ASSUME NEW s \in Proxy, NEW p \in Pkts, NEW b \in BOOLEAN
  PROVE  Quiet(s, CompletedOne(s, p, b)) /\ CompletedOne(s, p, b).fd = s.fd
  <1> DEFINE t == IF s.addr # s.devAddr /\ Kind[p] = "status" /\ s.pkt[p].status = "success"
                  THEN Schedule(s, "addr") ELSE s
  <1>1. CompletedOne(s, p, b) = IF b THEN PacketComplete(t, p) ELSE t BY DEF CompletedOne
  <1>2. Quiet(s, s) BY SamePkts
  <1>3. Quiet(s, Schedule(s, "addr")) /\ Schedule(s, "addr").fd = s.fd BY ScheduleQuiet DEF Bhs
  <1>4. Quiet(s, t) /\ t.fd = s.fd BY <1>2, <1>3
  <1> HIDE DEF t
  <1>5. t \in Proxy BY <1>4 DEF Quiet
  <1>6. Quiet(t, PacketComplete(t, p)) /\ PacketComplete(t, p).fd = t.fd
    BY <1>5, PacketCompleteQuiet
  <1>7. Quiet(s, PacketComplete(t, p)) BY <1>4, <1>6, QuietTrans
  <1> QED BY <1>1, <1>4, <1>6, <1>7

\* The equation of the loop in usb_tcp_remote_completed_bh.
CompletedLoop(f, s, b) ==
  f = [i \in 0 .. Len(s.completed) |->
         IF i = 0 THEN [s EXCEPT !.completed = <<>>]
         ELSE CompletedOne(f[i - 1], s.completed[i], b[s.completed[i]])]

\* usb_tcp_remote_completed_bh.
LEMMA CompletedBhQuiet ==
  ASSUME NEW s \in Proxy, NEW b \in [Pkts -> BOOLEAN]
  PROVE  Quiet(s, CompletedBh(s, b)) /\ CompletedBh(s, b).fd = s.fd
  <1> DEFINE n == Len(s.completed)
             x == [s EXCEPT !.completed = <<>>]
             g == [i \in 1 .. n |-> [t \in Proxy |-> CompletedOne(t, s.completed[i], b[s.completed[i]])]]
             f == CHOOSE h : CompletedLoop(h, s, b)
  <1>1. /\ x \in Proxy /\ x.pkt = s.pkt /\ x.queue = s.queue /\ x.fd = s.fd
        /\ n \in Nat /\ \A i \in 1 .. n : s.completed[i] \in Pkts
    BY TakenCompleted
  <1>2. g \in [1 .. n -> [Proxy -> Proxy]]
    <2>1. ASSUME NEW i \in 1 .. n, NEW t \in Proxy PROVE CompletedOne(t, s.completed[i], b[s.completed[i]]) \in Proxy
      BY <1>1, CompletedOneQuiet DEF Quiet
    <2> QED BY <2>1
  <1>3. \A i \in 1 .. n, t \in Proxy : g[i][t] = CompletedOne(t, s.completed[i], b[s.completed[i]]) OBVIOUS
  <1>4. CompletedBh(s, b) = f[n] BY DEF CompletedBh, CompletedLoop
  <1> HIDE DEF g
  <1>5. \E h : CompletedLoop(h, s, b)
    <2> HIDE DEF x
    <2>1. PICK h : LoopStates(h, Proxy, n, x, g) BY <1>1, <1>2, LoopExists
    <2>2. /\ h \in [0 .. n -> Proxy] /\ h[0] = x
          /\ \A i \in 1 .. n : h[i] = g[i][h[i - 1]]
      BY <2>1 DEF LoopStates
    <2>3. ASSUME NEW i \in 1 .. n PROVE h[i] = CompletedOne(h[i - 1], s.completed[i], b[s.completed[i]])
      <3>0. i - 1 \in 0 .. n BY <1>1
      <3>1. h[i - 1] \in Proxy BY <2>2, <3>0
      <3> QED BY <1>3, <2>2, <3>1
    <2>4. h = [i \in 0 .. n |-> h[i]] BY <2>2
    <2>5. \A i \in 0 .. n : h[i] = IF i = 0 THEN x ELSE CompletedOne(h[i - 1], s.completed[i], b[s.completed[i]])
      BY <1>1, <2>2, <2>3
    <2>6. CompletedLoop(h, s, b) BY <2>4, <2>5, Zenon DEF CompletedLoop, x
    <2> QED BY <2>6
  <1>6. CompletedLoop(f, s, b) BY <1>5
  <1> HIDE DEF f
  <1>a. \A i \in 0 .. n : f[i] = IF i = 0 THEN x ELSE CompletedOne(f[i - 1], s.completed[i], b[s.completed[i]])
    BY <1>6 DEF CompletedLoop
  <1> HIDE DEF x
  <1>7. f[0] = x /\ \A i \in 1 .. n : f[i] = CompletedOne(f[i - 1], s.completed[i], b[s.completed[i]])
    BY <1>1, <1>a
  <1>8. \A i \in 1 .. n : f[i - 1] \in Proxy => Quiet(f[i - 1], f[i]) /\ f[i].fd = f[i - 1].fd
    BY <1>1, <1>7, CompletedOneQuiet
  <1> HIDE DEF n
  <1>9. Quiet(s, f[n]) /\ f[n].fd = s.fd BY <1>1, <1>7, <1>8, QuietLoop
  <1> QED BY <1>4, <1>9

\* usb_device_detach.
LEMMA DetachedQuiet ==
  ASSUME NEW s \in Proxy
  PROVE  Quiet(s, Detached(s))
  <1> DEFINE k == [p \in Pkts |->
                CASE s.pkt[p].state = "async" -> [s.pkt[p] EXCEPT !.state = "freed"]
                  [] s.pkt[p].state = "complete" ->
                       [s.pkt[p] EXCEPT !.state = "freed", !.seen = s.pkt[p].status]
                  [] OTHER -> s.pkt[p]]
             t == Detached(s)
  <1>1. t = [s EXCEPT !.attached = FALSE, !.pkt = k] BY DEF Detached
  <1>2. ASSUME NEW p \in Pkts
        PROVE  /\ k[p] \in Packet
               /\ s.pkt[p].state = "async" =>
                    k[p].state = "freed" /\ k[p].status = s.pkt[p].status /\ k[p].seen = s.pkt[p].seen
               /\ s.pkt[p].state = "complete" =>
                    k[p].state = "freed" /\ k[p].status = s.pkt[p].status /\ k[p].seen = s.pkt[p].status
               /\ s.pkt[p].state \notin {"async", "complete"} => k[p] = s.pkt[p]
    <2>1. s.pkt[p] \in Packet BY PktTypes
    <2>2. CASE s.pkt[p].state = "async"
      <3>1. k[p] = [s.pkt[p] EXCEPT !.state = "freed"] BY <2>2
      <3> QED BY <2>1, <2>2, <3>1 DEF Packet, Statuses
    <2>3. CASE s.pkt[p].state = "complete"
      <3>1. k[p] = [s.pkt[p] EXCEPT !.state = "freed", !.seen = s.pkt[p].status] BY <2>3
      <3> QED BY <2>1, <2>3, <3>1, Zenon DEF Packet, Statuses
    <2>4. CASE s.pkt[p].state \notin {"async", "complete"} BY <2>1, <2>4
    <2> QED BY <2>2, <2>3, <2>4
  <1>3. k \in [Pkts -> Packet] BY <1>2, Zenon
  <1> HIDE DEF k, t
  <1>4. t \in Proxy /\ t.pkt = k /\ t.queue = s.queue BY <1>1, <1>3, Zenon DEF Proxy
  <1>5. ASSUME NEW p \in Pkts PROVE QuietAt(s, t, p) /\ StaysAt(s, t, p)
    BY <1>2, <1>4 DEF QuietAt, StaysAt, NoSuccess, Back
  <1> QED BY <1>4, <1>5 DEF Quiet, t

\* The controller's bottom half retires what is complete.
LEMMA RetiredAllQuiet ==
  ASSUME NEW s \in Proxy
  PROVE  Quiet(s, RetiredAll(s))
  <1> DEFINE k == [p \in Pkts |-> IF s.pkt[p].state = "complete" THEN Retired(s, p).pkt[p]
                                  ELSE s.pkt[p]]
             t == RetiredAll(s)
  <1>1. t = [s EXCEPT !.pkt = k] BY DEF RetiredAll
  <1>2. ASSUME NEW p \in Pkts
        PROVE  /\ k[p] \in Packet
               /\ s.pkt[p].state = "complete" =>
                    k[p].state = "freed" /\ k[p].status = s.pkt[p].status /\ k[p].seen = s.pkt[p].status
               /\ s.pkt[p].state # "complete" => k[p] = s.pkt[p]
    <2>1. s.pkt[p] \in Packet BY PktTypes
    <2>2. Retired(s, p).pkt[p] = [s.pkt[p] EXCEPT !.state = "freed", !.seen = s.pkt[p].status]
      BY Zenon DEF Retired, Proxy
    <2>3. CASE s.pkt[p].state = "complete"
      <3>1. k[p] = [s.pkt[p] EXCEPT !.state = "freed", !.seen = s.pkt[p].status] BY <2>2, <2>3
      <3> QED BY <2>1, <2>3, <3>1, Zenon DEF Packet, Statuses
    <2>4. CASE s.pkt[p].state # "complete" BY <2>1, <2>4
    <2> QED BY <2>3, <2>4
  <1>3. k \in [Pkts -> Packet] BY <1>2
  <1> HIDE DEF k, t
  <1>4. t \in Proxy /\ t.pkt = k /\ t.queue = s.queue BY <1>1, <1>3, WithPkt
  <1>5. ASSUME NEW p \in Pkts PROVE QuietAt(s, t, p) /\ StaysAt(s, t, p)
    BY <1>2, <1>4 DEF QuietAt, StaysAt, NoSuccess, Back
  <1> QED BY <1>4, <1>5 DEF Quiet, t

\* usb_tcp_remote_cleanup.
LEMMA CleanupQuiet ==
  ASSUME NEW s \in Proxy
  PROVE  Quiet(s, Cleanup(s))
  <1> DEFINE u == [s EXCEPT !.fd = NoFd, !.closed = TRUE, !.addr = 0]
             t == CleanCompleted(u)
  <1>1. u \in Proxy /\ u.pkt = s.pkt /\ u.queue = s.queue BY Zenon DEF Proxy, Fds, Addrs
  <1>2. Cleanup(s) = IF t.attached THEN Detached(t) ELSE t BY DEF Cleanup
  <1> HIDE DEF u
  <1>3. Quiet(s, u) /\ Quiet(u, t) BY <1>1, SamePkts, CleanCompletedQuiet
  <1> HIDE DEF t
  <1>4. Quiet(s, t) /\ t \in Proxy BY <1>3, QuietTrans DEF Quiet
  <1>5. Quiet(t, Detached(t)) BY <1>4, DetachedQuiet
  <1>6. Quiet(s, Detached(t)) BY <1>4, <1>5, QuietTrans
  <1> QED BY <1>2, <1>4, <1>6

\* aio_bh_poll takes the next bottom half.
LEMMA DequeuedQuiet ==
  ASSUME NEW s \in Proxy, s.slice \o s.pending # <<>>
  PROVE  Quiet(s, Dequeued(s)) /\ Dequeued(s).fd = s.fd /\ NextBh(s) \in Bhs
  <1>1. s.slice \in Seq(Bhs) /\ s.pending \in Seq(Bhs) BY DEF Proxy
  <1>2. CASE s.slice # <<>>
    <2>1. Tail(s.slice) \in Seq(Bhs) /\ Head(s.slice) \in Bhs BY <1>1, <1>2
    <2>2. Dequeued(s) = [s EXCEPT !.slice = Tail(s.slice)] /\ NextBh(s) = Head(s.slice)
      BY <1>2 DEF Dequeued, NextBh, Proxy
    <2>3. /\ Dequeued(s) \in Proxy /\ Dequeued(s).pkt = s.pkt /\ Dequeued(s).queue = s.queue
          /\ Dequeued(s).fd = s.fd
      BY <2>1, <2>2, Zenon DEF Proxy
    <2> QED BY <2>1, <2>2, <2>3, SamePkts, Zenon
  <1>3. CASE s.slice = <<>>
    <2>1. s.pending # <<>> BY <1>1, <1>3
    <2>2. Tail(s.pending) \in Seq(Bhs) /\ Head(s.pending) \in Bhs /\ <<>> \in Seq(Bhs) BY <1>1, <2>1
    <2>3. Dequeued(s) = [s EXCEPT !.slice = Tail(s.pending), !.pending = <<>>]
      BY <1>3 DEF Dequeued
    <2>4. NextBh(s) = Head(s.pending) BY <1>3 DEF NextBh
    <2>5. /\ Dequeued(s) \in Proxy /\ Dequeued(s).pkt = s.pkt /\ Dequeued(s).queue = s.queue
          /\ Dequeued(s).fd = s.fd
      BY <2>2, <2>3, Zenon DEF Proxy
    <2> QED BY <2>2, <2>4, <2>5, SamePkts
  <1> QED BY <1>2, <1>3

\* usb_tcp_remote_read_one: a response for p sets p's status to what it says or stall, and
\* is quiet for the other packets.
LEMMA ReadResponseKeeps ==
  ASSUME NEW s \in Proxy, NEW p \in Pkts, NEW rec \in BOOLEAN, NEW st \in Statuses, NEW state
  PROVE  LET t == ReadResponse(s, p, rec, st, state)
         IN  /\ t \in Proxy
             /\ \A q \in Pkts : StaysAt(s, t, q) /\ (q # p => QuietAt(s, t, q))
             /\ st # "success" /\ NoSuccess(s, p) => NoSuccess(t, p)
             /\ st # "nak" /\ Back(t, p) => Back(s, p)
  <1> DEFINE a == IF (st = "stall" \/ state = "canceled") /\ Kind[p] = "status" THEN s.devAddr ELSE s.addr
             u == [s EXCEPT !.pkt[p].status = st, !.addr = a]
             t == ReadResponse(s, p, rec, st, state)
             v == [u EXCEPT !.queue[p] = IF @ = "none" THEN @ ELSE "handled"]
             w == [u EXCEPT !.completed = Append(@, p)]
  <1>1. a \in Addrs BY DEF Proxy
  <1>2. t \in {Closed(u), v, Schedule(w, "completed"), u} BY DEF ReadResponse
  <1> HIDE DEF a
  <1>3. /\ u \in Proxy /\ u.queue = s.queue
        /\ u.pkt[p].status = st /\ u.pkt[p].state = s.pkt[p].state /\ u.pkt[p].seen = s.pkt[p].seen
        /\ \A q \in Pkts : q # p => u.pkt[q] = s.pkt[q]
    <2> DEFINE x == [s.pkt[p] EXCEPT !.status = st]
    <2>1. x \in Packet /\ x.status = st /\ x.state = s.pkt[p].state /\ x.seen = s.pkt[p].seen
      BY PktTypes DEF Packet
    <2>2. u = [s EXCEPT !.pkt[p] = x, !.addr = a] BY DEF Proxy
    <2> HIDE DEF x, u
    <2> QED BY <1>1, <2>1, <2>2, Zenon DEF Proxy
  <1> HIDE DEF u, t
  \* From u on the steps are quiet, but for a waiting packet that becomes handled.
  <1> DEFINE Rest(y) ==
        /\ y \in Proxy
        /\ \A q \in Pkts : /\ StaysAt(u, y, q) /\ (Back(y, q) => Back(u, q))
                           /\ (q # p => QuietAt(u, y, q))
        /\ u.pkt[p].status # "success" /\ NoSuccess(u, p) => NoSuccess(y, p)
  <1>4. \A y : Quiet(u, y) => Rest(y) BY DEF Quiet, QuietAt
  <1>5. Rest(Closed(u)) BY <1>3, <1>4, ClosedQuiet
  <1>6. Rest(u)
    <2>1. Quiet(u, u) BY <1>3, SamePkts
    <2> HIDE DEF Rest
    <2> QED BY <1>4, <2>1
  <1>7. Rest(v)
    <2>1. /\ v \in Proxy /\ v.pkt = u.pkt
          /\ \A q \in Pkts : q # p => v.queue[q] = u.queue[q]
      BY <1>3, Zenon DEF Proxy
    <2> HIDE DEF v
    <2> QED BY <2>1 DEF QuietAt, StaysAt, NoSuccess, Back
  <1>8. Rest(Schedule(w, "completed"))
    <2>z. u.completed \in Seq(Pkts) BY <1>3 DEF Proxy
    <2>0. Append(u.completed, p) \in Seq(Pkts) BY <2>z, AppendHolds
    <2>1. w \in Proxy /\ w.pkt = u.pkt /\ w.queue = u.queue BY <1>3, <2>0, Zenon DEF Proxy
    <2> HIDE DEF w, Rest
    <2>2. Quiet(u, w) /\ Quiet(w, Schedule(w, "completed"))
      BY <1>3, <2>1, SamePkts, ScheduleQuiet DEF Bhs
    <2>3. Quiet(u, Schedule(w, "completed")) BY <2>2, QuietTrans
    <2> QED BY <1>4, <2>3
  <1> HIDE DEF Rest
  <1>9. Rest(t) BY <1>2, <1>5, <1>6, <1>7, <1>8
  <1> HIDE DEF v, w
  <1>10. \A q \in Pkts : StaysAt(s, t, q)
    BY <1>3, <1>9 DEF Rest, StaysAt
  <1>11. ASSUME NEW q \in Pkts, q # p PROVE QuietAt(s, t, q)
    <2>1. QuietAt(u, t, q) BY <1>9, <1>11 DEF Rest
    <2>2. u.pkt[q] = s.pkt[q] /\ u.queue[q] = s.queue[q] BY <1>3, <1>11
    <2> QED BY <2>1, <2>2 DEF QuietAt, NoSuccess, Back
  <1>12. st # "success" /\ NoSuccess(s, p) => NoSuccess(t, p)
    <2>1. st # "success" /\ NoSuccess(s, p) => NoSuccess(u, p) BY <1>3 DEF NoSuccess
    <2> QED BY <1>3, <1>9, <2>1 DEF Rest
  <1>13. st # "nak" /\ Back(t, p) => Back(s, p)
    <2>1. st # "nak" /\ Back(u, p) => Back(s, p) BY <1>3 DEF Back
    <2> QED BY <1>9, <2>1 DEF Rest
  <1> QED BY <1>9, <1>10, <1>11, <1>12, <1>13 DEF Rest, t

-----------------------------------------------------------------------------
(* Steps of the connections.                                               *)

\* What m has of p, n had, on the same connection and further back by k or l.
NetKeeps(n, m, p, k, l) ==
  \A c \in Conns, i \in Nat :
    /\ Asks(m, p, c, i) => Asks(n, p, c, i + k[c])
    /\ Refuses(m, p, c, i) => Refuses(n, p, c, i + l[c])
    /\ Grants(m, p, c, i) => Grants(n, p, c, i + l[c])

Shifts == [Conns -> Nat]
NoShift == [c \in Conns |-> 0]
ShiftAt(d) == [c \in Conns |-> IF c = d THEN 1 ELSE 0]

\* Shifts are numbers.
LEMMA ShiftTypes ==
  /\ NoShift \in Shifts /\ \A c \in Conns : NoShift[c] = 0
  /\ \A d \in Conns : /\ ShiftAt(d) \in Shifts /\ ShiftAt(d)[d] = 1
                      /\ \A c \in Conns : c # d => ShiftAt(d)[c] = 0
  BY DEF Shifts, NoShift, ShiftAt

\* The place of a packet that is in one place at most stays one.
LEMMA OnceFrame ==
  ASSUME NEW p \in Pkts, NEW s, NEW n, NEW h, OnceAt(s, n, h, p),
         NEW t, NEW m, NEW g, Back(t, p) => Back(s, p), g.result[p] = h.result[p],
         NEW k \in Shifts, NEW l \in Shifts, NetKeeps(n, m, p, k, l)
  PROVE  OnceAt(t, m, g, p)
  <1>1. \A c \in Conns, i \in Nat : i + k[c] \in Nat /\ i + l[c] \in Nat BY DEF Shifts
  <1>2. \A c \in Conns, i, j \in Nat : (i + k[c] = j + k[c] => i = j) /\ (i + l[c] = j + l[c] => i = j)
    BY DEF Shifts
  <1>3. Back(t, p) => Open(g, p) BY DEF OnceAt, Open
  <1>4. ASSUME NEW c \in Conns, NEW i \in Nat, Asks(m, p, c, i) \/ Refuses(m, p, c, i)
        PROVE  Open(g, p) /\ ~Back(t, p)
    <2>1. Asks(n, p, c, i + k[c]) \/ Refuses(n, p, c, i + l[c]) BY <1>4 DEF NetKeeps
    <2> QED BY <1>1, <2>1 DEF OnceAt, Open
  <1>5. ASSUME NEW c \in Conns, NEW d \in Conns, NEW i \in Nat, NEW j \in Nat
        PROVE  /\ Asks(m, p, c, i) /\ Asks(m, p, d, j) => c = d /\ i = j
               /\ Refuses(m, p, c, i) /\ Refuses(m, p, d, j) => c = d /\ i = j
               /\ ~(Asks(m, p, c, i) /\ Refuses(m, p, d, j))
    <2>1. CASE Asks(m, p, c, i) /\ Asks(m, p, d, j)
      <3>1. Asks(n, p, c, i + k[c]) /\ Asks(n, p, d, j + k[d]) BY <2>1 DEF NetKeeps
      <3>2. c = d /\ i + k[c] = j + k[d] BY <1>1, <3>1 DEF OnceAt
      <3>3. c = d /\ i = j BY <1>2, <3>2
      <3>4. ~Refuses(m, p, d, j)
        <4>1. Refuses(m, p, d, j) => Refuses(n, p, d, j + l[d]) BY DEF NetKeeps
        <4> QED BY <1>1, <3>1, <4>1 DEF OnceAt
      <3> QED BY <3>3, <3>4
    <2>2. Refuses(m, p, c, i) /\ Refuses(m, p, d, j) => c = d /\ i = j
      <3> SUFFICES ASSUME Refuses(m, p, c, i), Refuses(m, p, d, j) PROVE c = d /\ i = j OBVIOUS
      <3>1. Refuses(n, p, c, i + l[c]) /\ Refuses(n, p, d, j + l[d]) BY DEF NetKeeps
      <3>2. c = d /\ i + l[c] = j + l[d] BY <1>1, <3>1 DEF OnceAt
      <3> QED BY <1>2, <3>2
    <2>3. ~(Asks(m, p, c, i) /\ Refuses(m, p, d, j))
      <3> SUFFICES ASSUME Asks(m, p, c, i), Refuses(m, p, d, j) PROVE FALSE OBVIOUS
      <3>1. Asks(n, p, c, i + k[c]) /\ Refuses(n, p, d, j + l[d]) BY DEF NetKeeps
      <3> QED BY <1>1, <3>1 DEF OnceAt
    <2> QED BY <2>1, <2>2, <2>3
  <1> QED BY <1>3, <1>4, <1>5 DEF OnceAt

\* No success comes from nowhere.
LEMMA RealFrame ==
  ASSUME NEW p \in Pkts, NEW s, NEW th, NEW n, NEW h, RealAt(s, th, n, h, p),
         NEW t, NEW u, NEW m, NEW g, NoSuccess(s, p) => NoSuccess(t, p), g.result[p] = h.result[p],
         \A c \in Conns : u[c].at = "payload" => th[c].at = "payload" /\ u[c].p = th[c].p,
         NEW k \in Shifts, NEW l \in Shifts, NetKeeps(n, m, p, k, l)
  PROVE  RealAt(t, u, m, g, p)
  <1>1. \A c \in Conns, i \in Nat : i + l[c] \in Nat BY DEF Shifts
  <1>2. ASSUME h.result[p] # "success", NEW c \in Conns, NEW i \in Nat, Grants(m, p, c, i) PROVE FALSE
    <2>1. Grants(n, p, c, i + l[c]) BY <1>2 DEF NetKeeps
    <2> QED BY <1>1, <1>2, <2>1 DEF RealAt
  <1> QED BY <1>2 DEF RealAt

\* The two ends of a connection come and go without the messages.
LEMMA SameMail ==
  ASSUME NEW n, NEW m, \A c \in Conns : m[c].req = n[c].req /\ m[c].rsp = n[c].rsp, NEW p \in Pkts
  PROVE  NetKeeps(n, m, p, NoShift, NoShift)
  <1>1. ASSUME NEW c \in Conns, NEW i \in Nat
        PROVE  /\ Asks(m, p, c, i) = Asks(n, p, c, i) /\ Refuses(m, p, c, i) = Refuses(n, p, c, i)
               /\ Grants(m, p, c, i) = Grants(n, p, c, i)
    BY DEF Asks, Refuses, Grants
  <1>2. \A c \in Conns, i \in Nat : i + NoShift[c] = i BY ShiftTypes
  <1> QED BY <1>1, <1>2 DEF NetKeeps

\* A message goes to the host.
LEMMA SentMail ==
  ASSUME NEW n \in [Conns -> Connection], NEW d \in Conns, NEW x \in Request
  PROVE  LET m == [n EXCEPT ![d].req = Append(@, x)]
         IN  /\ m \in [Conns -> Connection]
             /\ \A p \in Pkts : x # [op |-> "request", p |-> p] => NetKeeps(n, m, p, NoShift, NoShift)
             /\ \A p \in Pkts, c \in Conns, i \in Nat :
                  /\ Asks(m, p, c, i) => Asks(n, p, c, i) \/ (c = d /\ i = Len(n[d].req) + 1)
                  /\ Refuses(m, p, c, i) => Refuses(n, p, c, i)
                  /\ Grants(m, p, c, i) => Grants(n, p, c, i)
  <1> DEFINE m == [n EXCEPT ![d].req = Append(@, x)]
             q == Append(n[d].req, x)
  <1>1. n[d] \in Connection /\ n[d].req \in Seq(Request) BY DEF Connection
  <1>2. /\ q \in Seq(Request)
        /\ \A y, i : Holds(q, y, i) => Holds(n[d].req, y, i) \/ (y = x /\ i = Len(n[d].req) + 1)
    BY <1>1, AppendHolds
  <1>3. m = [n EXCEPT ![d] = [n[d] EXCEPT !.req = q]] OBVIOUS
  <1> HIDE DEF q, m
  <1>4. /\ [n[d] EXCEPT !.req = q] \in Connection /\ [n[d] EXCEPT !.req = q].req = q
        /\ [n[d] EXCEPT !.req = q].rsp = n[d].rsp
    BY <1>1, <1>2, Zenon DEF Connection
  <1>5. /\ m \in [Conns -> Connection] /\ m[d].req = q
        /\ \A c \in Conns : m[c].rsp = n[c].rsp /\ (c # d => m[c].req = n[c].req)
    BY <1>3, <1>4
  <1>6. ASSUME NEW p \in Pkts, NEW c \in Conns, NEW i \in Nat
        PROVE  /\ Asks(m, p, c, i) => \/ Asks(n, p, c, i)
                                      \/ c = d /\ i = Len(n[d].req) + 1 /\ x = [op |-> "request", p |-> p]
               /\ Refuses(m, p, c, i) => Refuses(n, p, c, i)
               /\ Grants(m, p, c, i) => Grants(n, p, c, i)
    BY <1>2, <1>5 DEF Asks, Refuses, Grants
  <1>7. \A c \in Conns, i \in Nat : i + NoShift[c] = i BY ShiftTypes
  <1>8. \A p \in Pkts : x # [op |-> "request", p |-> p] => NetKeeps(n, m, p, NoShift, NoShift)
    BY <1>6, <1>7 DEF NetKeeps
  <1> QED BY <1>5, <1>6, <1>8, Zenon DEF m

\* A reader takes the oldest message.
LEMMA TakenRsp ==
  ASSUME NEW n \in [Conns -> Connection], NEW d \in Conns, n[d].rsp # <<>>
  PROVE  LET m == [n EXCEPT ![d].rsp = Tail(@)]
         IN  /\ m \in [Conns -> Connection]
             /\ Head(n[d].rsp) \in Unit /\ Holds(n[d].rsp, Head(n[d].rsp), 1)
             /\ \A p \in Pkts : NetKeeps(n, m, p, NoShift, ShiftAt(d))
             /\ \A p \in Pkts, c \in Conns, i \in Nat :
                  Refuses(m, p, c, i) => c # d \/ i + ShiftAt(d)[c] # 1
  <1> DEFINE m == [n EXCEPT ![d].rsp = Tail(@)]
             q == Tail(n[d].rsp)
  <1>1. n[d] \in Connection /\ n[d].rsp \in Seq(Unit) BY DEF Connection
  <1>2. /\ q \in Seq(Unit) /\ Head(n[d].rsp) \in Unit /\ Holds(n[d].rsp, Head(n[d].rsp), 1)
        /\ \A y, i : Holds(q, y, i) => i \in Nat \ {0} /\ Holds(n[d].rsp, y, i + 1)
    BY <1>1, TailHolds
  <1>3. m = [n EXCEPT ![d] = [n[d] EXCEPT !.rsp = q]] OBVIOUS
  <1> HIDE DEF q, m
  <1>4. /\ [n[d] EXCEPT !.rsp = q] \in Connection /\ [n[d] EXCEPT !.rsp = q].rsp = q
        /\ [n[d] EXCEPT !.rsp = q].req = n[d].req
    BY <1>1, <1>2 DEF Connection
  <1>5. /\ m \in [Conns -> Connection] /\ m[d].rsp = q
        /\ \A c \in Conns : m[c].req = n[c].req /\ (c # d => m[c].rsp = n[c].rsp)
    BY <1>3, <1>4
  <1>6. /\ \A c \in Conns, i \in Nat : i + NoShift[c] = i
        /\ \A c \in Conns, i \in Nat : c # d => i + ShiftAt(d)[c] = i
        /\ \A i \in Nat : i + ShiftAt(d)[d] = i + 1
    BY ShiftTypes
  <1>7. ASSUME NEW p \in Pkts, NEW c \in Conns, NEW i \in Nat
        PROVE  /\ Asks(m, p, c, i) => Asks(n, p, c, i)
               /\ Refuses(m, p, c, i) => IF c = d THEN i # 0 /\ Refuses(n, p, c, i + 1) ELSE Refuses(n, p, c, i)
               /\ Grants(m, p, c, i) => IF c = d THEN Grants(n, p, c, i + 1) ELSE Grants(n, p, c, i)
    <2>1. CASE c = d
      <3>1. m[c].req = n[c].req /\ m[c].rsp = q BY <1>5, <2>1
      <3> QED BY <1>2, <2>1, <3>1 DEF Asks, Refuses, Grants
    <2>2. CASE c # d
      <3>1. m[c].req = n[c].req /\ m[c].rsp = n[c].rsp BY <1>5, <2>2
      <3> QED BY <2>2, <3>1 DEF Asks, Refuses, Grants
    <2> QED BY <2>1, <2>2
  <1>8. \A p \in Pkts : NetKeeps(n, m, p, NoShift, ShiftAt(d)) BY <1>6, <1>7 DEF NetKeeps
  <1>9. \A p \in Pkts, c \in Conns, i \in Nat : Refuses(m, p, c, i) => c # d \/ i + ShiftAt(d)[c] # 1
    BY <1>6, <1>7
  <1> QED BY <1>2, <1>5, <1>8, <1>9, Zenon DEF m

\* The host takes the oldest message.
LEMMA TakenReq ==
  ASSUME NEW n \in [Conns -> Connection], NEW d \in Conns, n[d].req # <<>>
  PROVE  LET m == [n EXCEPT ![d].req = Tail(@)]
         IN  /\ m \in [Conns -> Connection]
             /\ Head(n[d].req) \in Request /\ Holds(n[d].req, Head(n[d].req), 1)
             /\ \A p \in Pkts : NetKeeps(n, m, p, ShiftAt(d), NoShift)
             /\ \A p \in Pkts, c \in Conns, i \in Nat :
                  Asks(m, p, c, i) => c # d \/ i + ShiftAt(d)[c] # 1
  <1> DEFINE m == [n EXCEPT ![d].req = Tail(@)]
             q == Tail(n[d].req)
  <1>1. n[d] \in Connection /\ n[d].req \in Seq(Request) BY DEF Connection
  <1>2. /\ q \in Seq(Request) /\ Head(n[d].req) \in Request /\ Holds(n[d].req, Head(n[d].req), 1)
        /\ \A y, i : Holds(q, y, i) => i \in Nat \ {0} /\ Holds(n[d].req, y, i + 1)
    BY <1>1, TailHolds
  <1>3. m = [n EXCEPT ![d] = [n[d] EXCEPT !.req = q]] OBVIOUS
  <1> HIDE DEF q, m
  <1>4. /\ [n[d] EXCEPT !.req = q] \in Connection /\ [n[d] EXCEPT !.req = q].req = q
        /\ [n[d] EXCEPT !.req = q].rsp = n[d].rsp
    BY <1>1, <1>2 DEF Connection
  <1>5. /\ m \in [Conns -> Connection] /\ m[d].req = q
        /\ \A c \in Conns : m[c].rsp = n[c].rsp /\ (c # d => m[c].req = n[c].req)
    BY <1>3, <1>4
  <1>6. /\ \A c \in Conns, i \in Nat : i + NoShift[c] = i
        /\ \A c \in Conns, i \in Nat : c # d => i + ShiftAt(d)[c] = i
        /\ \A i \in Nat : i + ShiftAt(d)[d] = i + 1
    BY ShiftTypes
  <1>7. ASSUME NEW p \in Pkts, NEW c \in Conns, NEW i \in Nat
        PROVE  /\ Asks(m, p, c, i) => IF c = d THEN i # 0 /\ Asks(n, p, c, i + 1) ELSE Asks(n, p, c, i)
               /\ Refuses(m, p, c, i) => Refuses(n, p, c, i)
               /\ Grants(m, p, c, i) => Grants(n, p, c, i)
    BY <1>2, <1>5 DEF Asks, Refuses, Grants
  <1>8. \A p \in Pkts : NetKeeps(n, m, p, ShiftAt(d), NoShift) BY <1>6, <1>7 DEF NetKeeps
  <1>9. \A p \in Pkts, c \in Conns, i \in Nat : Asks(m, p, c, i) => c # d \/ i + ShiftAt(d)[c] # 1
    BY <1>6, <1>7
  <1> QED BY <1>2, <1>5, <1>8, <1>9, Zenon DEF m

\* usb_tcp_host_respond_packet_co.
LEMMA RespondMail ==
  ASSUME NEW n \in [Conns -> Connection], host.conn \in Conns, NEW p \in Pkts, NEW st \in Statuses
  PROVE  LET m == Respond(n, p, st)
         IN  /\ m \in [Conns -> Connection]
             /\ \A q \in Pkts, c \in Conns, i \in Nat :
                  /\ Asks(m, q, c, i) => Asks(n, q, c, i)
                  /\ Refuses(m, q, c, i) =>
                       \/ Refuses(n, q, c, i)
                       \/ q = p /\ st = "nak" /\ c = host.conn /\ i = Len(n[c].rsp) + 1
                  /\ Grants(m, q, c, i) => Grants(n, q, c, i) \/ (q = p /\ st = "success")
  <1> DEFINE d == host.conn
             x == Response(p, st)
             z == Data(p)
             m == Respond(n, p, st)
             q1 == Append(n[d].rsp, x)
             q2 == Append(q1, z)
             m1 == [n EXCEPT ![d] = [n[d] EXCEPT !.rsp = q1]]
             m2 == [n EXCEPT ![d] = [n[d] EXCEPT !.rsp = q2]]
  <1>1. n[d] \in Connection /\ n[d].rsp \in Seq(Unit) BY DEF Connection
  <1>2. x \in Unit /\ z \in Unit BY DEF Response, Data, Unit, Statuses
  <1>3. /\ \A q \in Pkts, s \in {"nak", "success"} : x = Response(q, s) => q = p /\ st = s
        /\ \A q \in Pkts, s \in {"nak", "success"} : z # Response(q, s)
    BY DEF Response, Data
  <1>4. m \in {n, m1, m2}
    <2> DEFINE u == [n EXCEPT ![d].rsp = Append(@, x)]
               v == [u EXCEPT ![d].rsp = Append(@, z)]
    <2>1. u = m1 BY <1>1
    <2>2. v = m2 BY <1>1 DEF Connection
    <2>3. m \in {n, u, v} BY DEF Respond
    <2> HIDE DEF u, v, m, m1, m2
    <2> QED BY <2>1, <2>2, <2>3
  <1> HIDE DEF x, z
  <1>5. /\ q1 \in Seq(Unit)
        /\ \A y, i : Holds(q1, y, i) => Holds(n[d].rsp, y, i) \/ (y = x /\ i = Len(n[d].rsp) + 1)
    BY <1>1, <1>2, AppendHolds
  <1> HIDE DEF q1
  <1>6. /\ q2 \in Seq(Unit)
        /\ \A y, i : Holds(q2, y, i) => Holds(q1, y, i) \/ y = z
    BY <1>2, <1>5, AppendHolds
  <1> HIDE DEF q2
  <1> DEFINE New(w) ==
        /\ w \in [Conns -> Connection]
        /\ \A c \in Conns : w[c].req = n[c].req /\ (c # d => w[c].rsp = n[c].rsp)
        /\ \A y, i : Holds(w[d].rsp, y, i) => \/ Holds(n[d].rsp, y, i)
                                              \/ y = x /\ i = Len(n[d].rsp) + 1
                                              \/ y = z
  <1>7. New(n) OBVIOUS
  <1>8. ASSUME NEW q \in {q1, q2} PROVE New([n EXCEPT ![d] = [n[d] EXCEPT !.rsp = q]])
    <2>0. /\ q \in Seq(Unit)
          /\ \A y, i : Holds(q, y, i) => \/ Holds(n[d].rsp, y, i)
                                         \/ y = x /\ i = Len(n[d].rsp) + 1
                                         \/ y = z
      BY <1>5, <1>6
    <2> DEFINE e == [n[d] EXCEPT !.rsp = q]
               w == [n EXCEPT ![d] = e]
    <2>1. e \in Connection /\ e.rsp = q /\ e.req = n[d].req BY <1>1, <2>0, Zenon DEF Connection
    <2> HIDE DEF e
    <2>2. w \in [Conns -> Connection] /\ w[d] = e /\ \A c \in Conns : c # d => w[c] = n[c]
      BY <2>1
    <2> HIDE DEF w
    <2>3. New(w) BY <2>0, <2>1, <2>2
    <2> QED BY <2>3 DEF w, e
  <1>9. New(m)
    <2> HIDE DEF New, m
    <2>1. New(m1) /\ New(m2) BY <1>8
    <2> QED BY <1>4, <1>7, <2>1, Zenon
  <1> HIDE DEF m
  <1>10. ASSUME NEW q \in Pkts, NEW c \in Conns, NEW i \in Nat
         PROVE  /\ Asks(m, q, c, i) => Asks(n, q, c, i)
                /\ Refuses(m, q, c, i) => \/ Refuses(n, q, c, i)
                                          \/ q = p /\ st = "nak" /\ c = d /\ i = Len(n[c].rsp) + 1
                /\ Grants(m, q, c, i) => Grants(n, q, c, i) \/ (q = p /\ st = "success")
    <2>1. Asks(m, q, c, i) => Asks(n, q, c, i) BY <1>9 DEF Asks
    <2>2. CASE c # d BY <1>9, <2>1, <2>2 DEF Refuses, Grants
    <2>3. CASE c = d BY <1>3, <1>9, <2>1, <2>3 DEF Refuses, Grants
    <2> QED BY <2>2, <2>3
  <1> QED BY <1>9, <1>10 DEF m

\* A write to the connection sends the message or does nothing.
LEMMA SentNet ==
  ASSUME USBTypeOK, NEW w \in WriteOutcomes(r), NEW x \in Request
  PROVE  LET m == Sent(r, w, x)
         IN  /\ m \in [Conns -> Connection]
             /\ \A p \in Pkts : x # [op |-> "request", p |-> p] => NetKeeps(net, m, p, NoShift, NoShift)
             /\ \A p \in Pkts, c \in Conns, i \in Nat :
                  /\ Refuses(m, p, c, i) => Refuses(net, p, c, i)
                  /\ Grants(m, p, c, i) => Grants(net, p, c, i)
                  /\ \A d \in Conns, j \in Nat :
                       Asks(m, p, c, i) /\ Asks(m, p, d, j) =>
                         Asks(net, p, c, i) \/ Asks(net, p, d, j) \/ (c = d /\ i = j)
  <1>1. net \in [Conns -> Connection] /\ r.fd \in Conns \cup {NoFd} BY DEF USBTypeOK, Proxy, Fds
  <1>2. CASE w = "sent"
    <2>1. r.fd # NoFd BY <1>2 DEF WriteOutcomes
    <2>2. r.fd \in Conns BY <1>1, <2>1
    <2>3. Sent(r, w, x) = [net EXCEPT ![r.fd].req = Append(@, x)] BY <1>2 DEF Sent
    <2> DEFINE m == [net EXCEPT ![r.fd].req = Append(@, x)]
    <2>4. /\ m \in [Conns -> Connection]
          /\ \A p \in Pkts : x # [op |-> "request", p |-> p] => NetKeeps(net, m, p, NoShift, NoShift)
          /\ \A p \in Pkts, c \in Conns, i \in Nat :
               /\ Asks(m, p, c, i) => Asks(net, p, c, i) \/ (c = r.fd /\ i = Len(net[r.fd].req) + 1)
               /\ Refuses(m, p, c, i) => Refuses(net, p, c, i)
               /\ Grants(m, p, c, i) => Grants(net, p, c, i)
      BY <1>1, <2>2, SentMail, Zenon
    <2>m. Sent(r, w, x) = m BY <2>3
    <2> HIDE DEF m
    <2>5. \A p \in Pkts, c \in Conns, i \in Nat, d \in Conns, j \in Nat :
            Asks(m, p, c, i) /\ Asks(m, p, d, j) =>
              Asks(net, p, c, i) \/ Asks(net, p, d, j) \/ (c = d /\ i = j)
      <3>1. \A p \in Pkts, c \in Conns, i \in Nat :
              Asks(m, p, c, i) => Asks(net, p, c, i) \/ (c = r.fd /\ i = Len(net[r.fd].req) + 1)
        BY <2>4
      <3>2. SUFFICES ASSUME NEW p \in Pkts, NEW c \in Conns, NEW i \in Nat, NEW d \in Conns, NEW j \in Nat,
                            Asks(m, p, c, i), Asks(m, p, d, j), ~Asks(net, p, c, i), ~Asks(net, p, d, j)
                     PROVE  c = d /\ i = j
        OBVIOUS
      <3>3. (c = r.fd /\ i = Len(net[r.fd].req) + 1) /\ (d = r.fd /\ j = Len(net[r.fd].req) + 1)
        BY <3>1, <3>2
      <3> QED BY <3>3
    <2> QED BY <2>4, <2>5, <2>m
  <1>3. CASE w # "sent"
    <2>1. Sent(r, w, x) = net BY <1>3 DEF Sent
    <2>2. \A p \in Pkts : NetKeeps(net, net, p, NoShift, NoShift) BY SameMail
    <2> QED BY <1>1, <2>1, <2>2
  <1> QED BY <1>2, <1>3

-----------------------------------------------------------------------------
(* The steps.                                                              *)

ReadersKeep(th, u) ==
  /\ u \in [Conns -> Thread]
  /\ \A c \in Conns : u[c].at = "payload" =>
       th[c].at = "payload" /\ u[c].p = th[c].p /\ u[c].st = th[c].st

\* A reader goes on or ends.
LEMMA ReaderMoves ==
  ASSUME NEW th \in [Conns -> Thread], NEW c, NEW a \in {"start", "header", "done"}, NEW f \in Fds
  PROVE  /\ ReadersKeep(th, th) /\ ReadersKeep(th, [th EXCEPT ![c].at = a])
         /\ ReadersKeep(th, [th EXCEPT ![c].at = a, ![c].on = f])
  <1>1. ReadersKeep(th, th) BY DEF ReadersKeep
  <1>2. \A d \in Conns : /\ [th[d] EXCEPT !.at = a] \in Thread /\ [th[d] EXCEPT !.at = a].at = a
                         /\ [th[d] EXCEPT !.at = a, !.on = f] \in Thread
                         /\ [th[d] EXCEPT !.at = a, !.on = f].at = a
    BY Zenon DEF Thread
  <1> DEFINE u == [th EXCEPT ![c].at = a]
             v == [th EXCEPT ![c].at = a, ![c].on = f]
  <1>3. /\ u = [d \in Conns |-> IF d = c THEN [th[d] EXCEPT !.at = a] ELSE th[d]]
        /\ v = [d \in Conns |-> IF d = c THEN [th[d] EXCEPT !.at = a, !.on = f] ELSE th[d]]
    BY Zenon
  <1> HIDE DEF u, v
  <1>4. ReadersKeep(th, u) BY <1>2, <1>3, Zenon DEF ReadersKeep
  <1>5. ReadersKeep(th, v) BY <1>2, <1>3, Zenon DEF ReadersKeep
  <1> QED BY <1>1, <1>4, <1>5 DEF u, v

\* A step that is quiet for every packet, keeps the results and takes or adds messages that
\* ask for nothing, refuse nothing and grant nothing.
LEMMA QuietStep ==
  ASSUME USBInv, r' \in Proxy, Waits', \A p \in Pkts : QuietAt(r, r', p),
         net' \in [Conns -> Connection], NEW k \in Shifts, NEW l \in Shifts,
         \A p \in Pkts : NetKeeps(net, net', p, k, l), ReadersKeep(reader, reader'),
         host' \in Controller, host'.result = host.result, host'.async \subseteq host.async
  PROVE  USBInv'
  <1>1. USBTypeOK' BY DEF USBInv, USBTypeOK, ReadersKeep
  <1>2. Deferred' BY DEF USBInv, Deferred
  <1>3. ASSUME NEW p \in Pkts PROVE OnceAt(r', net', host', p)
    <2>1. OnceAt(r, net, host, p) /\ (Back(r', p) => Back(r, p)) BY DEF USBInv, Once, QuietAt
    <2>2. NetKeeps(net, net', p, k, l) /\ host'.result[p] = host.result[p] OBVIOUS
    <2> QED BY <2>1, <2>2, OnceFrame
  <1>4. ASSUME NEW p \in Pkts PROVE RealAt(r', reader', net', host', p)
    <2>1. RealAt(r, reader, net, host, p) /\ (NoSuccess(r, p) => NoSuccess(r', p))
      BY DEF USBInv, Real, QuietAt
    <2>2. \A c \in Conns : reader'[c].at = "payload" =>
            reader[c].at = "payload" /\ reader'[c].p = reader[c].p
      BY DEF ReadersKeep
    <2>3. NetKeeps(net, net', p, k, l) /\ host'.result[p] = host.result[p] OBVIOUS
    <2> QED BY <2>1, <2>2, <2>3, RealFrame
  <1>5. Real' /\ Once' BY <1>3, <1>4 DEF Real, Once
  <1> QED BY <1>1, <1>2, <1>5 DEF USBInv

\* The same for the steps of the proxy that leave the connections and the host alone.
LEMMA ProxyStep ==
  ASSUME USBInv, Quiet(r, r'), Waits' \/ main' = main, UNCHANGED <<net, host>>,
         ReadersKeep(reader, reader')
  PROVE  USBInv'
  <1>1. r' \in Proxy /\ \A p \in Pkts : QuietAt(r, r', p) /\ StaysAt(r, r', p) BY DEF Quiet
  <1>2. Waits'
    <2>1. Waits BY DEF USBInv
    <2> QED BY <1>1, <2>1 DEF Waits, StaysAt
  <1>3. \A p \in Pkts : NetKeeps(net, net', p, NoShift, NoShift) BY SameMail
  <1>4. net' \in [Conns -> Connection] /\ host' \in Controller BY DEF USBInv, USBTypeOK
  <1> QED BY <1>1, <1>2, <1>3, <1>4, ShiftTypes, QuietStep

\* Types that the steps use.
LEMMA InvTypes ==
  ASSUME USBInv
  PROVE  /\ r \in Proxy /\ reader \in [Conns -> Thread] /\ net \in [Conns -> Connection]
         /\ host \in Controller /\ main \in MainLoop /\ r.fd \in Fds /\ r.closed \in BOOLEAN
         /\ host.conn \in Fds /\ (host.conn # NoFd => host.conn \in Conns)
         /\ ReadersKeep(reader, reader) /\ Quiet(r, r)
         /\ \A c \in Conns : reader[c].on \in Fds /\ (reader[c].on # NoFd => reader[c].on \in Conns)
  <1>1. /\ r \in Proxy /\ reader \in [Conns -> Thread] /\ net \in [Conns -> Connection]
        /\ host \in Controller /\ main \in MainLoop
    BY DEF USBInv, USBTypeOK, Waits
  <1>2. ReadersKeep(reader, reader) BY <1>1 DEF ReadersKeep
  <1>3. Quiet(r, r) BY <1>1, SamePkts
  <1>4. r.fd \in Fds /\ r.closed \in BOOLEAN /\ host.conn \in Fds BY <1>1 DEF Proxy, Controller
  <1>5. \A c \in Conns : reader[c].on \in Fds BY <1>1 DEF Thread
  <1> QED BY <1>1, <1>2, <1>3, <1>4, <1>5 DEF Fds

\* The invariant holds at first.
LEMMA USBInitInv == Init => USBInv
  <1> SUFFICES ASSUME Init PROVE USBInv OBVIOUS
  <1>1. <<>> \in Seq(Pkts) /\ <<>> \in Seq(Bhs) /\ <<>> \in Seq(Request) /\ <<>> \in Seq(Unit)
        /\ <<>> \in Seq(Conns) /\ Len(<<>>) = 0
    OBVIOUS
  <1>2. r \in Proxy BY <1>1 DEF Init, Proxy, Packet, Statuses, Fds, Addrs
  <1>3. reader \in [Conns -> Thread] /\ \A c \in Conns : reader[c].at # "payload"
    BY DEF Init, Thread, Fds
  <1>4. net \in [Conns -> Connection] /\ \A c \in Conns : net[c].req = <<>> /\ net[c].rsp = <<>>
    BY <1>1 DEF Init, Connection
  <1>5. 0 \in 0 .. MaxConns BY USBTCPAssumption
  <1>6. host \in Controller /\ host.async = {} /\ \A p \in Pkts : host.result[p] = "none"
    BY <1>1, <1>5 DEF Init, Controller, Fds
  <1>7. \A p \in Pkts : r.pkt[p].state = "idle" /\ r.pkt[p].seen = "none" BY DEF Init
  <1>8. Waits BY DEF Init, Waits, MainLoop
  <1>9. \A p \in Pkts, c \in Conns, i \in Nat :
          ~Asks(net, p, c, i) /\ ~Refuses(net, p, c, i) /\ ~Grants(net, p, c, i)
    <2>1. \A x, i : ~Holds(<<>>, x, i) BY <1>1 DEF Holds
    <2> QED BY <1>4, <2>1 DEF Asks, Refuses, Grants
  <1>10. Real
    <2>1. \A p \in Pkts : NoSuccess(r, p) BY <1>7 DEF NoSuccess
    <2> QED BY <1>3, <1>9, <2>1 DEF Real, RealAt
  <1>11. Once BY <1>6, <1>9 DEF Once, OnceAt, Open
  <1> QED BY <1>2, <1>3, <1>4, <1>6, <1>8, <1>10, <1>11 DEF USBInv, USBTypeOK, Deferred

\* EhciLeave and EhciKick.
LEMMA EhciStep == ASSUME USBInv, EhciLeave \/ EhciKick PROVE USBInv'
  <1>1. CASE EhciLeave
    <2>0. main' \in MainLoop /\ main'.at = "idle" BY <1>1 DEF EhciLeave, MainLoop
    <2>1. Waits' BY <2>0 DEF Waits
    <2> QED BY <1>1, <2>1, InvTypes, ProxyStep DEF EhciLeave
  <1>2. CASE EhciKick
    <2>1. Quiet(r, r') BY <1>2, InvTypes, ScheduleQuiet DEF EhciKick, Bhs
    <2> QED BY <1>2, <2>1, InvTypes, ProxyStep DEF EhciKick
  <1> QED BY <1>1, <1>2

\* The controller retires a packet.
LEMMA RetiredIs ==
  ASSUME NEW s \in Proxy, NEW p \in Pkts
  PROVE  Retired(s, p) =
           [s EXCEPT !.pkt[p] = [s.pkt[p] EXCEPT !.state = "freed", !.seen = s.pkt[p].status]]
  <1> DEFINE k == [s.pkt EXCEPT ![p].state = "freed", ![p].seen = s.pkt[p].status]
             l == [s.pkt EXCEPT ![p] = [s.pkt[p] EXCEPT !.state = "freed", !.seen = s.pkt[p].status]]
  <1>1. s.pkt \in [Pkts -> Packet] BY DEF Proxy
  <1>2. k = l BY <1>1, Zenon
  <1>3. Retired(s, p) = [s EXCEPT !.pkt = k] BY Zenon DEF Retired
  <1> QED BY <1>2, <1>3

\* The wait for a cancelled packet ends.
LEMMA CancelReturnsStep == ASSUME USBInv, CancelReturns PROVE USBInv'
  <1> DEFINE p == main.p
             x == [r.pkt[p] EXCEPT !.state = "freed"]
             t == [r EXCEPT !.queue[p] = "none", !.pkt[p].state = "freed"]
  <1>1. p \in Pkts /\ r.pkt[p].state = "canceled" BY DEF USBInv, Waits, CancelReturns
  <1>2. r' = t BY DEF CancelReturns
  <1>3. x \in Packet /\ x.state = "freed" /\ x.seen = r.pkt[p].seen /\ x.status = r.pkt[p].status
    BY <1>1, InvTypes, PktTypes DEF Packet
  <1>4. t = [r EXCEPT !.queue[p] = "none", !.pkt[p] = x] OBVIOUS
  <1> HIDE DEF x, t, p
  <1>5. /\ t \in Proxy /\ t.pkt[p] = x
        /\ \A q \in Pkts : q # p => t.pkt[q] = r.pkt[q] /\ t.queue[q] = r.queue[q]
    BY <1>1, <1>3, <1>4, InvTypes, Zenon DEF Proxy
  <1>6. \A q \in Pkts : QuietAt(r, r', q)
    BY <1>1, <1>2, <1>3, <1>5 DEF QuietAt, NoSuccess, Back
  <1>m. main' \in MainLoop /\ main'.at = "ehci" BY InvTypes, Zenon DEF CancelReturns, MainLoop
  <1>7. Waits' BY <1>m DEF Waits
  <1>8. net' = net /\ host' = host /\ reader' = reader BY DEF CancelReturns
  <1>9. \A q \in Pkts : NetKeeps(net, net', q, NoShift, NoShift) BY <1>8, SameMail
  <1> QED BY <1>2, <1>5, <1>6, <1>7, <1>8, <1>9, InvTypes, ShiftTypes, QuietStep

\* usb_tcp_remote_handle_packet returns and usb_handle_packet goes on: success is what
\* the device gave, NAK takes the packet back.
LEMMA HandleReturnsStep == ASSUME USBInv, HandleReturns PROVE USBInv'
  <1> DEFINE p == main.p
             a == IF r.addr # r.devAddr /\ Kind[p] = "status" /\ r.pkt[p].status = "success"
                  THEN r.addr ELSE r.devAddr
             s == [r EXCEPT !.devAddr = a, !.queue[p] = "none"]
             x == [r.pkt[p] EXCEPT !.state = "async"]
             y == [r.pkt[p] EXCEPT !.state = "idle"]
             z == [r.pkt[p] EXCEPT !.state = "freed", !.seen = r.pkt[p].status]
  <1>1. p \in Pkts /\ r.pkt[p].state = "setup" /\ r.queue[p] = "handled"
    BY DEF USBInv, Waits, HandleReturns
  <1>2. r' = Handled(s, p) BY DEF HandleReturns
  <1>3. a \in Addrs BY InvTypes DEF Proxy
  <1> HIDE DEF a
  <1>4. /\ s \in Proxy /\ s.pkt = r.pkt /\ \A q \in Pkts : q # p => s.queue[q] = r.queue[q]
    BY <1>1, <1>3, InvTypes, Zenon DEF Proxy
  <1>5. r' = IF r.pkt[p].status = "async" THEN [s EXCEPT !.pkt[p] = x]
             ELSE IF r.pkt[p].status = "nak" THEN [s EXCEPT !.pkt[p] = y]
             ELSE [s EXCEPT !.pkt[p] = z]
    <2>1. Handled(s, p) = IF s.pkt[p].status = "async" THEN [s EXCEPT !.pkt[p].state = "async"]
                          ELSE IF s.pkt[p].status = "nak" THEN [s EXCEPT !.pkt[p].state = "idle"]
                          ELSE Retired(s, p)
      BY DEF Handled
    <2>2. /\ [s EXCEPT !.pkt[p].state = "async"] = [s EXCEPT !.pkt[p] = x]
          /\ [s EXCEPT !.pkt[p].state = "idle"] = [s EXCEPT !.pkt[p] = y]
      BY <1>4
    <2> HIDE DEF s, x, y
    <2>3. Retired(s, p) =
            [s EXCEPT !.pkt[p] = [s.pkt[p] EXCEPT !.state = "freed", !.seen = s.pkt[p].status]]
      BY <1>1, <1>4, RetiredIs, Zenon
    <2>4. Retired(s, p) = [s EXCEPT !.pkt[p] = z] BY <1>4, <2>3
    <2> HIDE DEF z
    <2> QED BY <1>2, <1>4, <2>1, <2>2, <2>4
  <1>6. /\ x \in Packet /\ x.state = "async" /\ x.seen = r.pkt[p].seen /\ x.status = r.pkt[p].status
        /\ y \in Packet /\ y.state = "idle" /\ y.seen = r.pkt[p].seen /\ y.status = r.pkt[p].status
        /\ z \in Packet /\ z.state = "freed" /\ z.seen = r.pkt[p].status /\ z.status = r.pkt[p].status
    <2>1. r.pkt[p] \in Packet BY <1>1, InvTypes, PktTypes
    <2> HIDE DEF p
    <2>2. /\ x \in Packet /\ x.state = "async" /\ x.seen = r.pkt[p].seen
          /\ x.status = r.pkt[p].status
      BY <2>1 DEF Packet
    <2>3. /\ y \in Packet /\ y.state = "idle" /\ y.seen = r.pkt[p].seen
          /\ y.status = r.pkt[p].status
      BY <2>1 DEF Packet
    <2>4. /\ z \in Packet /\ z.state = "freed" /\ z.seen = r.pkt[p].status
          /\ z.status = r.pkt[p].status
      BY <2>1, Zenon DEF Packet, Statuses
    <2> QED BY <2>2, <2>3, <2>4
  <1> HIDE DEF s, x, y, z, p
  <1>7. PICK w \in {x, y, z} :
          /\ r' = [s EXCEPT !.pkt[p] = w]
          /\ w = x => r.pkt[p].status = "async"
          /\ w = y => r.pkt[p].status = "nak"
    BY <1>5, <1>6
  <1>8. /\ r' \in Proxy /\ r'.pkt[p] = w
        /\ \A q \in Pkts : q # p => r'.pkt[q] = r.pkt[q] /\ r'.queue[q] = r.queue[q]
    BY <1>1, <1>4, <1>6, <1>7, Zenon DEF Proxy
  <1>9. ASSUME NEW q \in Pkts PROVE QuietAt(r, r', q)
    <2>1. CASE q # p BY <1>8, <2>1 DEF QuietAt, NoSuccess, Back
    <2>2. CASE q = p BY <1>1, <1>6, <1>7, <1>8, <2>2 DEF QuietAt, NoSuccess, Back
    <2> QED BY <2>1, <2>2
  <1>m. main' \in MainLoop /\ main'.at = "ehci" BY InvTypes, Zenon DEF HandleReturns, MainLoop
  <1>10. Waits' BY <1>m DEF Waits
  <1>11. net' = net /\ host' = host /\ reader' = reader BY DEF HandleReturns
  <1>12. \A q \in Pkts : NetKeeps(net, net', q, NoShift, NoShift) BY <1>11, SameMail, Zenon
  <1> QED BY <1>8, <1>9, <1>10, <1>11, <1>12, InvTypes, ShiftTypes, QuietStep, Zenon

\* usb_cancel_packet and usb_tcp_remote_cancel_packet.
LEMMA CancelStep == ASSUME USBInv, NEW p \in Pkts, Cancel(p) PROVE USBInv'
  <1> DEFINE s == [r EXCEPT !.pkt[p].state = "canceled", !.queue[p] = "wait"]
             u == [r EXCEPT !.pkt[p].state = "freed"]
             x == [r.pkt[p] EXCEPT !.state = "canceled"]
             y == [r.pkt[p] EXCEPT !.state = "freed"]
  <1>1. r.pkt[p].state = "async" /\ main.at = "ehci" BY DEF Cancel
  <1>2. /\ x \in Packet /\ x.state = "canceled" /\ x.seen = r.pkt[p].seen /\ x.status = r.pkt[p].status
        /\ y \in Packet /\ y.state = "freed" /\ y.seen = r.pkt[p].seen /\ y.status = r.pkt[p].status
    BY InvTypes, PktTypes DEF Packet
  <1>3. s = [r EXCEPT !.pkt[p] = x, !.queue[p] = "wait"] /\ u = [r EXCEPT !.pkt[p] = y] OBVIOUS
  <1>4. CASE r.closed
    <2>1. r' = u /\ UNCHANGED <<main, net, host, reader>> BY <1>4 DEF Cancel
    <2> HIDE DEF x, y, s, u
    <2>2. /\ u \in Proxy /\ u.pkt[p] = y /\ u.queue = r.queue
          /\ \A q \in Pkts : q # p => u.pkt[q] = r.pkt[q]
      BY <1>2, <1>3, InvTypes, Zenon DEF Proxy
    <2>3. \A q \in Pkts : QuietAt(r, u, q) /\ StaysAt(r, u, q)
      BY <1>1, <1>2, <2>2 DEF QuietAt, StaysAt, NoSuccess, Back
    <2>4. Quiet(r, r') BY <2>1, <2>2, <2>3 DEF Quiet
    <2> QED BY <2>1, <2>4, InvTypes, ProxyStep
  <1>5. CASE ~r.closed
    <2> DEFINE m == [op |-> "cancel", p |-> p]
    <2>1. PICK w \in WriteOutcomes(r) :
            /\ net' = Sent(r, w, m)
            /\ r' = IF w = "fails" THEN Closed(s) ELSE s
            /\ main' = [main EXCEPT !.at = "cancel", !.p = p]
      BY <1>5 DEF Cancel
    <2>2. m \in Request /\ \A q \in Pkts : m # [op |-> "request", p |-> q] BY DEF Request
    <2> HIDE DEF m
    <2>3. net' \in [Conns -> Connection] /\ \A q \in Pkts : NetKeeps(net, net', q, NoShift, NoShift)
      BY <2>1, <2>2, SentNet DEF USBInv
    <2> HIDE DEF x, y, s, u
    <2>4. /\ s \in Proxy /\ s.pkt[p] = x
          /\ \A q \in Pkts : q # p => s.pkt[q] = r.pkt[q] /\ s.queue[q] = r.queue[q]
      BY <1>2, <1>3, InvTypes, Zenon DEF Proxy
    <2>5. \A q \in Pkts : QuietAt(r, s, q) BY <1>1, <1>2, <2>4 DEF QuietAt, NoSuccess, Back
    <2>6. Quiet(s, r') BY <2>1, <2>4, ClosedQuiet, SamePkts
    <2>7. r' \in Proxy /\ \A q \in Pkts : QuietAt(r, r', q) BY <2>5, <2>6 DEF Quiet, QuietAt
    <2>8. r'.pkt[p].state = "canceled" BY <1>2, <2>4, <2>6 DEF Quiet, StaysAt
    <2>9. main' \in MainLoop /\ main'.at = "cancel" /\ main'.p = p
      BY <2>1, InvTypes, Zenon DEF MainLoop
    <2>10. Waits' BY <2>8, <2>9 DEF Waits
    <2>11. host' = host /\ reader' = reader BY DEF Cancel
    <2> QED BY <2>3, <2>7, <2>10, <2>11, InvTypes, ShiftTypes, QuietStep
  <1> QED BY <1>4, <1>5, InvTypes

\* The bottom halves: the controller's, usb_tcp_remote_addr_bh, _completed_bh, _cleanup_bh.
LEMMA RunBhStep == ASSUME USBInv, RunBh PROVE USBInv'
  <1> DEFINE s == Dequeued(r)
             bh == NextBh(r)
  <1>1. Quiet(r, s) /\ s.fd = r.fd /\ bh \in Bhs BY InvTypes, DequeuedQuiet DEF RunBh
  <1>2. s \in Proxy BY <1>1 DEF Quiet
  <1>3. host' = host /\ reader' = reader BY DEF RunBh
  <1>4. CASE bh = "ehci"
    <2>1. r' = RetiredAll(s) /\ main' = [main EXCEPT !.at = "ehci"] /\ net' = net
      BY <1>4 DEF RunBh
    <2> HIDE DEF s, bh
    <2>2. Quiet(r, r') BY <1>1, <1>2, <2>1, RetiredAllQuiet, QuietTrans
    <2>3. main' \in MainLoop /\ main'.at = "ehci" BY <2>1, InvTypes DEF MainLoop
    <2>4. Waits' BY <2>3 DEF Waits
    <2> QED BY <1>3, <2>1, <2>2, <2>4, InvTypes, ProxyStep
  <1>5. CASE bh = "addr"
    <2>1. r' = [s EXCEPT !.devAddr = s.addr] /\ main' = main /\ net' = net BY <1>5 DEF RunBh
    <2> HIDE DEF s, bh
    <2>2. r' \in Proxy /\ r'.pkt = s.pkt /\ r'.queue = s.queue BY <1>2, <2>1, Zenon DEF Proxy
    <2>3. Quiet(r, r') BY <1>1, <2>2, SamePkts, QuietTrans
    <2> QED BY <1>3, <2>1, <2>3, InvTypes, ProxyStep
  <1>6. CASE bh = "completed"
    <2>1. PICK g \in [Pkts -> BOOLEAN] : r' = CompletedBh(s, g) BY <1>6 DEF RunBh
    <2>2. main' = main /\ net' = net BY <1>6 DEF RunBh
    <2> HIDE DEF s, bh
    <2>3. Quiet(s, r') BY <1>2, <2>1, CompletedBhQuiet
    <2>4. Quiet(r, r') BY <1>1, <2>3, QuietTrans
    <2> QED BY <1>3, <2>2, <2>4, InvTypes, ProxyStep
  <1>7. CASE bh = "cleanup"
    <2>1. CASE s.fd = NoFd
      <3>1. r' = s /\ main' = main /\ net' = net BY <1>7, <2>1 DEF RunBh
      <3> HIDE DEF s, bh
      <3> QED BY <1>1, <1>3, <3>1, InvTypes, ProxyStep
    <2>2. CASE s.fd # NoFd
      <3>1. r' = Cleanup(s) /\ net' = [net EXCEPT ![s.fd].remote = FALSE] /\ main' = main
        BY <1>7, <2>2 DEF RunBh
      <3> HIDE DEF s, bh
      <3>2. Quiet(r, r') BY <1>1, <1>2, <3>1, CleanupQuiet, QuietTrans
      <3>3. /\ net' \in [Conns -> Connection]
            /\ \A c \in Conns : net'[c].req = net[c].req /\ net'[c].rsp = net[c].rsp
        BY <3>1, InvTypes, Zenon DEF Connection
      <3>4. \A p \in Pkts : NetKeeps(net, net', p, NoShift, NoShift) BY <3>3, SameMail
      <3>5. r' \in Proxy /\ \A p \in Pkts : QuietAt(r, r', p) /\ StaysAt(r, r', p)
        BY <3>2 DEF Quiet
      <3>6. Waits' BY <3>1, <3>5 DEF USBInv, Waits, StaysAt
      <3> QED BY <1>3, <3>3, <3>4, <3>5, <3>6, InvTypes, ShiftTypes, QuietStep
    <2> QED BY <2>1, <2>2
  <1> QED BY <1>1, <1>4, <1>5, <1>6, <1>7 DEF Bhs

\* usb_tcp_remote_handle_reset.
LEMMA ResetStep == ASSUME USBInv, Reset PROVE USBInv'
  <1>1. host' = host /\ reader' = reader /\ main' = main BY DEF Reset
  <1>2. CASE r.closed
    <2>1. r' = [r EXCEPT !.devAddr = 0] /\ net' = net BY <1>2 DEF Reset
    <2>2. r' \in Proxy /\ r'.pkt = r.pkt /\ r'.queue = r.queue
      BY <2>1, InvTypes, Zenon DEF Proxy, Addrs
    <2>3. Quiet(r, r') BY <2>2, SamePkts
    <2> QED BY <1>1, <2>1, <2>3, InvTypes, ProxyStep
  <1>3. CASE ~r.closed
    <2> DEFINE c == CleanInflight(r)
               s == CleanCompleted(c)
               t == [s EXCEPT !.addr = 0, !.devAddr = 0]
               m == [op |-> "reset", p |-> NoPkt]
    <2>1. PICK w \in WriteOutcomes(r) :
            net' = Sent(r, w, m) /\ r' = IF w = "fails" THEN Closed(t) ELSE t
      BY <1>3 DEF Reset
    <2>2. m \in Request /\ \A q \in Pkts : m # [op |-> "request", p |-> q] BY DEF Request
    <2> HIDE DEF m, t, s, c
    <2>3. net' \in [Conns -> Connection] /\ \A q \in Pkts : NetKeeps(net, net', q, NoShift, NoShift)
      BY <2>1, <2>2, SentNet DEF USBInv
    <2>4. Quiet(r, c) /\ c \in Proxy BY InvTypes, CleanInflightQuiet DEF Quiet, c
    <2>5. Quiet(c, s) /\ s \in Proxy BY <2>4, CleanCompletedQuiet DEF Quiet, s
    <2>6. t \in Proxy /\ t.pkt = s.pkt /\ t.queue = s.queue BY <2>5, Zenon DEF Proxy, Addrs, t
    <2>7. Quiet(s, t) BY <2>6, SamePkts
    <2>8. Quiet(r, t) BY <2>4, <2>5, <2>7, QuietTrans
    <2>9. Quiet(t, Closed(t)) BY <2>6, ClosedQuiet
    <2>10. Quiet(r, r') BY <2>1, <2>8, <2>9, QuietTrans
    <2>11. r' \in Proxy /\ \A p \in Pkts : QuietAt(r, r', p) /\ StaysAt(r, r', p)
      BY <2>10 DEF Quiet
    <2>12. Waits' BY <1>1, <2>11 DEF USBInv, Waits, StaysAt
    <2> QED BY <1>1, <2>3, <2>11, <2>12, InvTypes, ShiftTypes, QuietStep
  <1> QED BY <1>2, <1>3, InvTypes

\* The accept thread but for accept().
LEMMA AcceptStepInv ==
  ASSUME USBInv, AcceptOpen \/ AcceptAttach \/ AcceptSpawn \/ AcceptCheck
  PROVE  USBInv'
  <1>1. CASE AcceptOpen
    <2>1. r' = [r EXCEPT !.closed = FALSE] /\ UNCHANGED <<main, reader, net, host>>
      BY <1>1 DEF AcceptOpen
    <2>2. r' \in Proxy /\ r'.pkt = r.pkt /\ r'.queue = r.queue BY <2>1, InvTypes, Zenon DEF Proxy
    <2> QED BY <2>1, <2>2, InvTypes, SamePkts, ProxyStep, Zenon
  <1>2. CASE AcceptAttach
    <2>1. /\ r' \in {[r EXCEPT !.failed = "attach"], [r EXCEPT !.attached = TRUE]}
          /\ UNCHANGED <<main, reader, net, host>>
      BY <1>2 DEF AcceptAttach
    <2>2. r' \in Proxy /\ r'.pkt = r.pkt /\ r'.queue = r.queue BY <2>1, InvTypes, Zenon DEF Proxy
    <2> QED BY <2>1, <2>2, InvTypes, SamePkts, ProxyStep
  <1>3. CASE AcceptSpawn
    <2>1. reader' = [reader EXCEPT ![acc.conn].at = "start"] /\ UNCHANGED <<r, main, net, host>>
      BY <1>3 DEF AcceptSpawn
    <2>2. ReadersKeep(reader, reader') BY <2>1, InvTypes, ReaderMoves, Zenon
    <2> QED BY <2>1, <2>2, InvTypes, ProxyStep
  <1>4. CASE AcceptCheck
    <2>1. UNCHANGED <<r, main, reader, net, host>> BY <1>4 DEF AcceptCheck
    <2> QED BY <2>1, InvTypes, ProxyStep
  <1> QED BY <1>1, <1>2, <1>3, <1>4

\* accept() returns.
LEMMA AcceptInv == ASSUME USBInv, Accept PROVE USBInv'
  <1>1. /\ r' = [r EXCEPT !.fd = Head(host.backlog)] /\ host' = [host EXCEPT !.backlog = Tail(@)]
        /\ host.backlog # <<>> /\ UNCHANGED <<main, reader, net>>
    BY DEF Accept
  <1>2. host.backlog \in Seq(Conns) BY InvTypes DEF Controller
  <1>3. Head(host.backlog) \in Conns /\ Tail(host.backlog) \in Seq(Conns) BY <1>1, <1>2
  <1>4. /\ host' \in Controller /\ host'.result = host.result /\ host'.async = host.async
    BY <1>1, <1>3, InvTypes, Zenon DEF Controller
  <1>5. r' \in Proxy /\ r'.pkt = r.pkt /\ r'.queue = r.queue
    BY <1>1, <1>3, InvTypes, Zenon DEF Proxy, Fds
  <1>6. Quiet(r, r') BY <1>5, SamePkts
  <1>7. r' \in Proxy /\ \A p \in Pkts : QuietAt(r, r', p) /\ StaysAt(r, r', p) BY <1>6 DEF Quiet
  <1>8. Waits' BY <1>1, <1>7 DEF USBInv, Waits, StaysAt
  <1>9. \A p \in Pkts : NetKeeps(net, net', p, NoShift, NoShift) BY <1>1, SameMail, Zenon
  <1> QED BY <1>1, <1>4, <1>7, <1>8, <1>9, InvTypes, ShiftTypes, QuietStep, Zenon

\* A packet is set up: the controller had it, so nothing of it is under way.
LEMMA SetUp ==
  ASSUME USBInv, NEW p \in Pkts, r.pkt[p].state = "idle",
         r' \in Proxy, \A q \in Pkts : q # p => QuietAt(r, r', q),
         NoSuccess(r, p) => NoSuccess(r', p), ~Back(r', p),
         UNCHANGED <<host, reader>>, Waits', net' \in [Conns -> Connection],
         \A q \in Pkts : q # p => NetKeeps(net, net', q, NoShift, NoShift),
         \A c \in Conns, i \in Nat :
           /\ Refuses(net', p, c, i) => Refuses(net, p, c, i)
           /\ Grants(net', p, c, i) => Grants(net, p, c, i)
           /\ \A d \in Conns, j \in Nat :
                Asks(net', p, c, i) /\ Asks(net', p, d, j) =>
                  Asks(net, p, c, i) \/ Asks(net, p, d, j) \/ (c = d /\ i = j)
  PROVE  USBInv'
  <1>1. USBTypeOK' /\ Deferred' BY DEF USBInv, USBTypeOK, Deferred
  <1>2. OnceAt(r, net, host, p) /\ RealAt(r, reader, net, host, p) BY DEF USBInv, Once, Real
  <1>3. Back(r, p) BY DEF Back
  <1>4. /\ Open(host, p)
        /\ \A c \in Conns, i \in Nat : ~Asks(net, p, c, i) /\ ~Refuses(net, p, c, i)
    BY <1>2, <1>3, Zenon DEF OnceAt
  <1>n. \A c, d \in Conns, i, j \in Nat :
          ~Refuses(net', p, c, i) /\ (Asks(net', p, c, i) /\ Asks(net', p, d, j) => c = d /\ i = j)
    BY <1>4, Zenon
  <1>5. OnceAt(r', net', host', p) BY <1>4, <1>n, Zenon DEF OnceAt, Open
  <1>6. RealAt(r', reader', net', host', p) BY <1>2, Zenon DEF RealAt
  <1>7. ASSUME NEW q \in Pkts, q # p PROVE OnceAt(r', net', host', q) /\ RealAt(r', reader', net', host', q)
    <2>1. /\ OnceAt(r, net, host, q) /\ RealAt(r, reader, net, host, q)
          /\ (Back(r', q) => Back(r, q)) /\ (NoSuccess(r, q) => NoSuccess(r', q))
          /\ NetKeeps(net, net', q, NoShift, NoShift)
      BY <1>7, Zenon DEF USBInv, Once, Real, QuietAt
    <2>2. OnceAt(r', net', host', q) BY <2>1, ShiftTypes, OnceFrame, Zenon
    <2>3. RealAt(r', reader', net', host', q) BY <2>1, ShiftTypes, RealFrame, Zenon
    <2> QED BY <2>2, <2>3, Zenon
  <1>8. Once' /\ Real' BY <1>5, <1>6, <1>7, Zenon DEF Once, Real
  <1> QED BY <1>1, <1>8 DEF USBInv

\* usb_handle_packet and usb_tcp_remote_handle_packet up to the busy wait.
LEMMA SubmitStep == ASSUME USBInv, NEW p \in Pkts, Submit(p) PROVE USBInv'
  <1> DEFINE s == [r EXCEPT !.pkt[p].status = "success", !.pkt[p].state = "setup"]
             a == IF Kind[p] = "setaddr" THEN NewAddr ELSE r.addr
             t == [s EXCEPT !.addr = a, !.queue[p] = "wait"]
             x == [r.pkt[p] EXCEPT !.status = "success", !.state = "setup"]
             m == [op |-> "request", p |-> p]
  <1>1. r.pkt[p].state = "idle" /\ main.at = "ehci" /\ UNCHANGED <<host, reader>> BY DEF Submit
  <1>2. x \in Packet /\ x.state = "setup" /\ x.status = "success" /\ x.seen = r.pkt[p].seen
    <2>1. r.pkt[p] \in Packet BY InvTypes, PktTypes
    <2> QED BY <2>1, Zenon DEF Packet, Statuses
  <1>3. s = [r EXCEPT !.pkt[p] = x]
    <2>1. r.pkt \in [Pkts -> Packet] BY InvTypes DEF Proxy
    <2>2. [r.pkt EXCEPT ![p].status = "success", ![p].state = "setup"] = [r.pkt EXCEPT ![p] = x]
      BY <2>1, Zenon
    <2> HIDE DEF x
    <2> QED BY <2>2, Zenon
  <1>4. a \in Addrs BY InvTypes DEF Proxy, Addrs
  <1>5. m \in Request /\ \A q \in Pkts : q # p => m # [op |-> "request", p |-> q] BY DEF Request
  <1>6. CASE r.closed
    <2> DEFINE u == [s EXCEPT !.pkt[p].status = "stall"]
    <2>1. r' = Retired(u, p) /\ UNCHANGED <<main, net>> BY <1>6 DEF Submit
    <2> HIDE DEF s, x
    <2>2. /\ s \in Proxy /\ s.queue = r.queue /\ \A q \in Pkts : q # p => s.pkt[q] = r.pkt[q]
          /\ s.pkt[p] = x
      BY <1>2, <1>3, InvTypes, Zenon DEF Proxy
    <2>3. /\ u \in Proxy /\ u.queue = r.queue /\ \A q \in Pkts : q # p => u.pkt[q] = r.pkt[q]
          /\ u.pkt[p].status = "stall" /\ u.pkt[p] \in Packet
      <3> DEFINE z == [s.pkt[p] EXCEPT !.status = "stall"]
      <3>1. s.pkt[p] \in Packet BY <2>2, PktTypes
      <3>2. z \in Packet /\ z.status = "stall" BY <3>1 DEF Packet, Statuses
      <3>3. u = [s EXCEPT !.pkt[p] = z] OBVIOUS
      <3> HIDE DEF z, u
      <3> QED BY <2>2, <3>2, <3>3, Zenon DEF Proxy
    <2> HIDE DEF u
    <2> DEFINE y == [u.pkt[p] EXCEPT !.state = "freed", !.seen = u.pkt[p].status]
    <2>4. y \in Packet /\ y.state = "freed" /\ y.seen = "stall" /\ y.status = "stall"
      BY <2>3, Zenon DEF Packet, Statuses
    <2>5. r' = [u EXCEPT !.pkt[p] = y] BY <2>1, <2>3, RetiredIs, Zenon
    <2> HIDE DEF y
    <2>6. /\ r' \in Proxy /\ r'.pkt[p] = y
          /\ \A q \in Pkts : q # p => r'.pkt[q] = r.pkt[q] /\ r'.queue[q] = r.queue[q]
      BY <2>3, <2>4, <2>5 DEF Proxy
    <2>7. \A q \in Pkts : q # p => QuietAt(r, r', q) BY <2>6 DEF QuietAt, NoSuccess, Back
    <2>8. NoSuccess(r', p) /\ ~Back(r', p) BY <2>4, <2>6 DEF NoSuccess, Back
    <2>9. Waits' BY <1>1, <2>1 DEF USBInv, Waits
    <2>10. \A q \in Pkts : NetKeeps(net, net', q, NoShift, NoShift) BY <2>1, SameMail, Zenon
    <2> QED BY <1>1, <2>1, <2>6, <2>7, <2>8, <2>9, <2>10, InvTypes, SetUp, Zenon
  <1>7. CASE ~r.closed
    <2>1. PICK w \in WriteOutcomes(r) :
            /\ net' = Sent(r, w, m)
            /\ IF w = "fails"
               THEN /\ r' = Retired([Closed(t) EXCEPT !.queue[p] = "none", !.pkt[p].status = "stall"], p)
                    /\ UNCHANGED main
               ELSE r' = t /\ main' = [at |-> "handle", p |-> p, tried |-> main.tried \cup {p}]
      <3> DEFINE o == [s EXCEPT !.addr = IF Kind[p] = "setaddr" THEN NewAddr ELSE @, !.queue[p] = "wait"]
      <3>1. s.addr = r.addr BY InvTypes DEF Proxy
      <3> HIDE DEF s
      <3>2. o = t BY <3>1
      <3>3. \E w \in WriteOutcomes(r) :
              /\ net' = Sent(r, w, m)
              /\ IF w = "fails"
                 THEN /\ r' = Retired([Closed(o) EXCEPT !.queue[p] = "none", !.pkt[p].status = "stall"], p)
                      /\ UNCHANGED main
                 ELSE r' = o /\ main' = [at |-> "handle", p |-> p, tried |-> main.tried \cup {p}]
        BY <1>7 DEF Submit, s
      <3> HIDE DEF o, t, m
      <3> QED BY <3>2, <3>3
    <2> HIDE DEF m
    <2>2. /\ net' \in [Conns -> Connection]
          /\ \A q \in Pkts : q # p => NetKeeps(net, net', q, NoShift, NoShift)
          /\ \A c \in Conns, i \in Nat :
               /\ Refuses(net', p, c, i) => Refuses(net, p, c, i)
               /\ Grants(net', p, c, i) => Grants(net, p, c, i)
               /\ \A d \in Conns, j \in Nat :
                    Asks(net', p, c, i) /\ Asks(net', p, d, j) =>
                      Asks(net, p, c, i) \/ Asks(net, p, d, j) \/ (c = d /\ i = j)
      <3>1. USBTypeOK BY DEF USBInv
      <3>2. \A q \in Pkts : q # p => m # [op |-> "request", p |-> q] BY <1>5
      <3> QED BY <1>5, <2>1, <3>1, <3>2, SentNet DEF m
    <2>t. t = [r EXCEPT !.pkt[p] = x, !.addr = a, !.queue[p] = "wait"] BY <1>3, Zenon
    <2> HIDE DEF s, x, a, t
    <2>3. /\ t \in Proxy /\ t.pkt[p] = x /\ t.queue[p] = "wait"
          /\ \A q \in Pkts : q # p => t.pkt[q] = r.pkt[q] /\ t.queue[q] = r.queue[q]
      BY <1>2, <1>4, <2>t, InvTypes, Zenon DEF Proxy
    <2>4. \A q \in Pkts : q # p => QuietAt(r, t, q) BY <2>3 DEF QuietAt, NoSuccess, Back
    <2>5. CASE w = "fails"
      <3> DEFINE k == Closed(t)
                 v == [k EXCEPT !.queue[p] = "none", !.pkt[p].status = "stall"]
      <3>1. r' = Retired(v, p) /\ main' = main BY <2>1, <2>5
      <3>2. Quiet(t, k) BY <2>3, ClosedQuiet
      <3>3. k \in Proxy BY <3>2 DEF Quiet
      <3> HIDE DEF k
      <3>4. /\ v \in Proxy /\ v.pkt[p].status = "stall" /\ v.pkt[p] \in Packet
            /\ \A q \in Pkts : q # p => v.pkt[q] = k.pkt[q] /\ v.queue[q] = k.queue[q]
        <4> DEFINE z == [k.pkt[p] EXCEPT !.status = "stall"]
        <4>1. k.pkt[p] \in Packet BY <3>3, PktTypes
        <4>2. z \in Packet /\ z.status = "stall" BY <4>1 DEF Packet, Statuses
        <4>3. v = [k EXCEPT !.queue[p] = "none", !.pkt[p] = z] OBVIOUS
        <4> HIDE DEF z, v
        <4> QED BY <3>3, <4>2, <4>3, Zenon DEF Proxy
      <3> HIDE DEF v
      <3> DEFINE y == [v.pkt[p] EXCEPT !.state = "freed", !.seen = v.pkt[p].status]
      <3>5. y \in Packet /\ y.state = "freed" /\ y.seen = "stall" /\ y.status = "stall"
        BY <3>4, Zenon DEF Packet, Statuses
      <3>6. r' = [v EXCEPT !.pkt[p] = y] BY <3>1, <3>4, RetiredIs, Zenon
      <3> HIDE DEF y
      <3>7. /\ r' \in Proxy /\ r'.pkt[p] = y
            /\ \A q \in Pkts : q # p => r'.pkt[q] = k.pkt[q] /\ r'.queue[q] = k.queue[q]
        BY <3>4, <3>5, <3>6 DEF Proxy
      <3>8. ASSUME NEW q \in Pkts, q # p PROVE QuietAt(r, k, q)
        <4>1. QuietAt(r, t, q) /\ QuietAt(t, k, q) BY <2>4, <3>2, <3>8 DEF Quiet
        <4> QED BY <4>1 DEF QuietAt
      <3>9. ASSUME NEW q \in Pkts, q # p PROVE QuietAt(r, r', q)
        <4>1. QuietAt(r, k, q) /\ r'.pkt[q] = k.pkt[q] /\ r'.queue[q] = k.queue[q] BY <3>7, <3>8, <3>9
        <4> QED BY <4>1 DEF QuietAt, NoSuccess, Back
      <3>10. NoSuccess(r', p) /\ ~Back(r', p) BY <3>5, <3>7 DEF NoSuccess, Back
      <3>11. Waits' BY <1>1, <3>1 DEF USBInv, Waits
      <3> QED BY <1>1, <2>2, <3>7, <3>9, <3>10, <3>11, SetUp, Zenon
    <2>6. CASE w # "fails"
      <3>1. r' = t /\ main' = [at |-> "handle", p |-> p, tried |-> main.tried \cup {p}] BY <2>1, <2>6
      <3>2. main' \in MainLoop /\ main'.at = "handle" /\ main'.p = p
        BY <3>1, InvTypes, Zenon DEF MainLoop
      <3>3. Waits' BY <1>2, <2>3, <3>1, <3>2 DEF Waits
      <3>4. (NoSuccess(r, p) => NoSuccess(r', p)) /\ ~Back(r', p)
        BY <1>2, <2>3, <3>1 DEF NoSuccess, Back
      <3> QED BY <1>1, <2>2, <2>3, <2>4, <3>1, <3>3, <3>4, SetUp, Zenon
    <2> QED BY <2>5, <2>6
  <1> QED BY <1>6, <1>7, InvTypes

\* A reader starts, or ends with the connection.
LEMMA ReaderEndsStep ==
  ASSUME USBInv, NEW c \in Conns, ReaderStart(c) \/ ReadFails(c)
  PROVE  USBInv'
  <1>1. CASE ReaderStart(c)
    <2>1. /\ reader' = [reader EXCEPT ![c].at = "header", ![c].on = r.fd]
          /\ UNCHANGED <<r, main, net, host>>
      BY <1>1 DEF ReaderStart
    <2>2. ReadersKeep(reader, reader') BY <2>1, InvTypes, ReaderMoves, Zenon
    <2> QED BY <2>1, <2>2, InvTypes, ProxyStep
  <1>2. CASE ReadFails(c)
    <2>1. /\ r' = Closed(r) /\ reader' = [reader EXCEPT ![c].at = "done"]
          /\ UNCHANGED <<main, net, host>>
      BY <1>2 DEF ReadFails, ReaderEnds
    <2>2. Quiet(r, r') BY <2>1, InvTypes, ClosedQuiet
    <2>3. ReadersKeep(reader, reader')
      <3>1. r.fd \in Fds BY InvTypes
      <3> QED BY <2>1, <3>1, InvTypes, ReaderMoves, Zenon
    <2> QED BY <2>1, <2>2, <2>3, ProxyStep
  <1> QED BY <1>1, <1>2

\* A message is taken from the connection d and is no matter for the packets.
LEMMA ReadQuietly ==
  ASSUME USBInv, NEW d \in Conns, net[d].rsp # <<>>, net' = [net EXCEPT ![d].rsp = Tail(@)],
         UNCHANGED <<main, host>>, Quiet(r, r'), ReadersKeep(reader, reader')
  PROVE  USBInv'
  <1>1. net' \in [Conns -> Connection] /\ \A p \in Pkts : NetKeeps(net, net', p, NoShift, ShiftAt(d))
    BY InvTypes, TakenRsp, Zenon
  <1>2. r' \in Proxy /\ \A p \in Pkts : QuietAt(r, r', p) /\ StaysAt(r, r', p) BY DEF Quiet
  <1>3. Waits' BY <1>2 DEF USBInv, Waits, StaysAt
  <1>4. NoShift \in Shifts /\ ShiftAt(d) \in Shifts BY ShiftTypes
  <1>5. host' \in Controller /\ host'.result = host.result /\ host'.async \subseteq host.async
    BY InvTypes
  <1> QED BY <1>1, <1>2, <1>3, <1>4, <1>5, QuietStep, Zenon

\* A response is read from the connection d and applied: a success is one of the device's,
\* a NAK was the one place where the packet was.
LEMMA ResponseRead ==
  ASSUME USBInv, NEW d \in Conns, net[d].rsp # <<>>, net' = [net EXCEPT ![d].rsp = Tail(@)],
         UNCHANGED <<main, host>>, NEW p \in Pkts, NEW st \in Statuses, NEW rec \in BOOLEAN, NEW state,
         r' = ReadResponse(r, p, rec, st, state), ReadersKeep(reader, reader'),
         st = "success" => host.result[p] = "success", st = "nak" => Refuses(net, p, d, 1)
  PROVE  USBInv'
  <1>1. /\ net' \in [Conns -> Connection]
        /\ \A q \in Pkts : NetKeeps(net, net', q, NoShift, ShiftAt(d))
        /\ \A q \in Pkts, c \in Conns, i \in Nat :
             Refuses(net', q, c, i) => c # d \/ i + ShiftAt(d)[c] # 1
    BY InvTypes, TakenRsp, Zenon
  <1>2. /\ r' \in Proxy /\ \A q \in Pkts : StaysAt(r, r', q) /\ (q # p => QuietAt(r, r', q))
        /\ st # "success" /\ NoSuccess(r, p) => NoSuccess(r', p)
        /\ st # "nak" /\ Back(r', p) => Back(r, p)
    BY InvTypes, ReadResponseKeeps
  <1>3. USBTypeOK' BY <1>1, <1>2 DEF USBInv, USBTypeOK, ReadersKeep
  <1>4. Waits' BY <1>2 DEF USBInv, Waits, StaysAt
  <1>5. Deferred' BY DEF USBInv, Deferred
  <1>6. NoShift \in Shifts /\ ShiftAt(d) \in Shifts BY ShiftTypes
  <1>7. \A c \in Conns : reader'[c].at = "payload" => reader[c].at = "payload" /\ reader'[c].p = reader[c].p
    BY DEF ReadersKeep
  <1>8. ASSUME NEW q \in Pkts PROVE RealAt(r', reader', net', host', q)
    <2>1. RealAt(r, reader, net, host, q) BY DEF USBInv, Real
    <2>2. CASE q = p /\ st = "success" BY <2>2 DEF RealAt
    <2>3. CASE q # p \/ st # "success"
      <3>1. NoSuccess(r, q) => NoSuccess(r', q) BY <1>2, <2>3 DEF QuietAt
      <3>2. NetKeeps(net, net', q, NoShift, ShiftAt(d)) /\ host'.result[q] = host.result[q]
        BY <1>1, Zenon
      <3> QED BY <1>6, <1>7, <2>1, <3>1, <3>2, RealFrame
    <2> QED BY <2>2, <2>3
  <1>9. ASSUME NEW q \in Pkts PROVE OnceAt(r', net', host', q)
    <2>1. OnceAt(r, net, host, q) BY DEF USBInv, Once
    <2>2. CASE q # p \/ st # "nak"
      <3>1. Back(r', q) => Back(r, q) BY <1>2, <2>2 DEF QuietAt
      <3>2. NetKeeps(net, net', q, NoShift, ShiftAt(d)) /\ host'.result[q] = host.result[q]
        BY <1>1, Zenon
      <3> QED BY <1>6, <2>1, <3>1, <3>2, OnceFrame
    <2>3. CASE q = p /\ st = "nak"
      <3>1. Refuses(net, q, d, 1) /\ 1 \in Nat BY <2>3
      <3>2. Open(host, q) /\ \A c \in Conns, i \in Nat : ~Asks(net, q, c, i) BY <2>1, <3>1 DEF OnceAt
      <3>3. ASSUME NEW c \in Conns, NEW i \in Nat PROVE ~Asks(net', q, c, i) /\ ~Refuses(net', q, c, i)
        <4>1. i + NoShift[c] \in Nat /\ i + ShiftAt(d)[c] \in Nat BY <1>6 DEF Shifts
        <4>2. ~Asks(net', q, c, i) BY <1>1, <3>2, <4>1, Zenon DEF NetKeeps
        <4>3. Refuses(net', q, c, i) => Refuses(net, q, c, i + ShiftAt(d)[c])
          BY <1>1, Zenon DEF NetKeeps
        <4>4. Refuses(net, q, c, i + ShiftAt(d)[c]) => c = d /\ i + ShiftAt(d)[c] = 1
          BY <2>1, <3>1, <4>1 DEF OnceAt
        <4> QED BY <1>1, <4>2, <4>3, <4>4, Zenon
      <3> QED BY <3>2, <3>3, Zenon DEF OnceAt, Open
    <2> QED BY <2>2, <2>3
  <1>10. Real' /\ Once' BY <1>8, <1>9, Zenon DEF Real, Once
  <1> QED BY <1>3, <1>4, <1>5, <1>10 DEF USBInv

\* Apply is one response read.
LEMMA ApplyIs ==
  ASSUME USBInv, NEW c \in Conns, NEW p, NEW rec, NEW st, Apply(c, p, rec, st)
  PROVE  \E state : r' = ReadResponse(r, p, rec, st, state) /\
           (reader' = [reader EXCEPT ![c].at = "done"] \/ \E a \in {"header", "done"} :
              reader' = [reader EXCEPT ![c].at = a, ![c].on = r'.fd])
  BY DEF Apply, ReaderEnds, ReaderLoops

\* usb_tcp_remote_read_one: the header.
LEMMA ReadHeaderStep == ASSUME USBInv, NEW c \in Conns, ReadHeader(c) PROVE USBInv'
  <1> DEFINE d == reader[c].on
             m == Head(net[d].rsp)
             found == FindPacket(r, m.p)
             rec == r.queue[m.p] # "none"
  <1>1. /\ d \in Conns /\ net[d].rsp # <<>> /\ net' = [net EXCEPT ![d].rsp = Tail(@)]
        /\ UNCHANGED <<main, host>>
    BY InvTypes, Zenon DEF ReadHeader
  <1>2. m \in Unit /\ Holds(net[d].rsp, m, 1) BY <1>1, InvTypes, TakenRsp, Zenon
  <1>3. m.p \in Pkts /\ m.st \in Statuses /\ m.unit \in {"header", "data"} BY <1>2 DEF Unit
  <1>4. found \in BOOLEAN /\ rec \in BOOLEAN BY DEF FindPacket
  <1>5. m.unit = "header" => m = Response(m.p, m.st) BY <1>2 DEF Unit, Response
  <1>6. \/ m.unit = "data" /\ r' = Closed(r) /\ ReaderEnds(c)
        \/ /\ m.unit = "header" /\ HasData(m.p, m.st) /\ r' = r
           /\ reader' = [reader EXCEPT ![c] = [at |-> "payload", on |-> r.fd, p |-> m.p, st |-> m.st,
                                               found |-> found, rec |-> rec]]
        \/ m.unit = "header" /\ ReaderLoops(c, r) /\ r' = r
        \/ m.unit = "header" /\ Apply(c, m.p, rec, m.st)
    BY <1>3, Zenon DEF ReadHeader
  <1> HIDE DEF found, rec, m, d
  <1>7. CASE m.unit = "data" /\ r' = Closed(r) /\ ReaderEnds(c)
    <2>1. Quiet(r, r') BY <1>7, InvTypes, ClosedQuiet
    <2>2. ReadersKeep(reader, reader') BY <1>7, InvTypes, ReaderMoves, Zenon DEF ReaderEnds
    <2> QED BY <1>1, <2>1, <2>2, ReadQuietly, Zenon
  <1>8. CASE m.unit = "header" /\ ReaderLoops(c, r) /\ r' = r
    <2>1. Quiet(r, r') BY <1>8, InvTypes
    <2>2. PICK a \in {"header", "done"} : reader' = [reader EXCEPT ![c].at = a, ![c].on = r.fd]
      BY <1>8, Zenon DEF ReaderLoops
    <2>3. ReadersKeep(reader, reader') BY <2>2, InvTypes, ReaderMoves, Zenon
    <2> QED BY <1>1, <2>1, <2>3, ReadQuietly, Zenon
  <1>9. CASE m.unit = "header" /\ Apply(c, m.p, rec, m.st)
    <2>1. PICK state : r' = ReadResponse(r, m.p, rec, m.st, state) /\
            (reader' = [reader EXCEPT ![c].at = "done"] \/ \E a \in {"header", "done"} :
               reader' = [reader EXCEPT ![c].at = a, ![c].on = r'.fd])
      BY <1>9, ApplyIs
    <2>2. r'.fd \in Fds BY <1>3, <1>4, <2>1, InvTypes, ReadResponseKeeps, Zenon DEF Proxy
    <2>3. ReadersKeep(reader, reader')
      <3>0. reader \in [Conns -> Thread] BY InvTypes
      <3>1. ReadersKeep(reader, [reader EXCEPT ![c].at = "done"])
        BY <2>2, <3>0, ReaderMoves, Zenon
      <3>2. \A a \in {"header", "done"} : ReadersKeep(reader, [reader EXCEPT ![c].at = a, ![c].on = r'.fd])
        BY <2>2, <3>0, ReaderMoves, Zenon
      <3> QED BY <2>1, <3>1, <3>2, Zenon
    <2>4. m.st = "success" => host.result[m.p] = "success"
      <3>1. m.st = "success" => Grants(net, m.p, d, 1) BY <1>2, <1>5, <1>9 DEF Grants
      <3>2. RealAt(r, reader, net, host, m.p) /\ 1 \in Nat BY <1>3 DEF USBInv, Real
      <3> QED BY <1>1, <3>1, <3>2 DEF RealAt
    <2>5. m.st = "nak" => Refuses(net, m.p, d, 1) BY <1>2, <1>5, <1>9 DEF Refuses
    <2> QED BY <1>1, <1>3, <1>4, <2>1, <2>3, <2>4, <2>5, ResponseRead, Zenon
  <1>10. CASE /\ m.unit = "header" /\ HasData(m.p, m.st) /\ r' = r
              /\ reader' = [reader EXCEPT ![c] = [at |-> "payload", on |-> r.fd, p |-> m.p, st |-> m.st,
                                                  found |-> found, rec |-> rec]]
    <2> DEFINE e == [at |-> "payload", on |-> r.fd, p |-> m.p, st |-> m.st, found |-> found, rec |-> rec]
    <2>1. m.st = "success" BY <1>10 DEF HasData
    <2>2. e \in Thread /\ e.at = "payload" /\ e.p = m.p /\ e.st = "success"
      BY <1>3, <1>4, <2>1, InvTypes DEF Thread
    <2> HIDE DEF e
    <2>3. reader' = [reader EXCEPT ![c] = e] BY <1>10 DEF e
    <2>4. reader' \in [Conns -> Thread] /\ reader'[c] = e /\ \A b \in Conns : b # c => reader'[b] = reader[b]
      BY <2>2, <2>3, InvTypes
    <2>5. host.result[m.p] = "success"
      <3>1. Grants(net, m.p, d, 1) BY <1>2, <1>5, <1>10, <2>1 DEF Grants
      <3>2. RealAt(r, reader, net, host, m.p) /\ 1 \in Nat BY <1>3 DEF USBInv, Real
      <3> QED BY <1>1, <3>1, <3>2 DEF RealAt
    <2>6. net' \in [Conns -> Connection] /\ \A p \in Pkts : NetKeeps(net, net', p, NoShift, ShiftAt(d))
      BY <1>1, InvTypes, TakenRsp, Zenon
    <2>7. NoShift \in Shifts /\ ShiftAt(d) \in Shifts BY <1>1, ShiftTypes
    <2>8. USBTypeOK' BY <1>1, <1>3, <1>10, <2>2, <2>4, <2>6 DEF USBInv, USBTypeOK
    <2>9. Waits' /\ Deferred' BY <1>1, <1>10 DEF USBInv, Waits, Deferred
    <2>10. Once'
      <3>1. ASSUME NEW q \in Pkts PROVE OnceAt(r', net', host', q)
        <4>1. OnceAt(r, net, host, q) BY DEF USBInv, Once
        <4>2. NetKeeps(net, net', q, NoShift, ShiftAt(d)) /\ host'.result[q] = host.result[q]
          BY <1>1, <2>6, Zenon
        <4>3. Back(r', q) => Back(r, q) BY <1>10
        <4> QED BY <2>7, <4>1, <4>2, <4>3, OnceFrame
      <3> QED BY <3>1 DEF Once
    <2>11. Real'
      <3>1. ASSUME NEW q \in Pkts, host.result[q] # "success" PROVE RealAt(r', reader', net', host', q)
        <4>1. RealAt(r, reader, net, host, q) BY DEF USBInv, Real
        <4>n. NetKeeps(net, net', q, NoShift, ShiftAt(d)) /\ host'.result[q] = host.result[q]
          BY <1>1, <2>6, Zenon
        <4>s. NoSuccess(r, q) => NoSuccess(r', q) BY <1>10
        <4>2. RealAt(r', reader, net', host', q) BY <2>7, <4>1, <4>n, <4>s, RealFrame, Zenon
        <4>3. q # m.p BY <2>5, <3>1
        <4> QED BY <2>2, <2>4, <4>2, <4>3 DEF RealAt
      <3>2. ASSUME NEW q \in Pkts, host.result[q] = "success" PROVE RealAt(r', reader', net', host', q)
        BY <1>1, <3>2 DEF RealAt
      <3> QED BY <3>1, <3>2, Zenon DEF Real
    <2> QED BY <2>8, <2>9, <2>10, <2>11 DEF USBInv
  <1> QED BY <1>6, <1>7, <1>8, <1>9, <1>10, Zenon

\* usb_tcp_remote_read_one: the data.
LEMMA ReadPayloadStep == ASSUME USBInv, NEW c \in Conns, ReadPayload(c) PROVE USBInv'
  <1> DEFINE d == reader[c].on
             p == reader[c].p
  <1>1. /\ d \in Conns /\ net[d].rsp # <<>> /\ net' = [net EXCEPT ![d].rsp = Tail(@)]
        /\ UNCHANGED <<main, host>> /\ reader[c].at = "payload"
    BY InvTypes DEF ReadPayload
  <1>2. p \in Pkts /\ reader[c].st = "success" /\ reader[c].rec \in BOOLEAN
    BY <1>1 DEF USBInv, USBTypeOK, Thread
  <1>3. host.result[p] = "success"
    <2>1. RealAt(r, reader, net, host, p) BY <1>2 DEF USBInv, Real
    <2> QED BY <1>1, <2>1 DEF RealAt
  <1>4. \/ Apply(c, p, reader[c].rec, "success")
        \/ ReaderLoops(c, r) /\ r' = r
    BY <1>2 DEF ReadPayload
  <1> HIDE DEF d, p
  <1>5. CASE ReaderLoops(c, r) /\ r' = r
    <2>1. Quiet(r, r') BY <1>5, InvTypes
    <2>2. PICK a \in {"header", "done"} : reader' = [reader EXCEPT ![c].at = a, ![c].on = r.fd]
      BY <1>5, Zenon DEF ReaderLoops
    <2>3. ReadersKeep(reader, reader') BY <2>2, InvTypes, ReaderMoves, Zenon
    <2> QED BY <1>1, <2>1, <2>3, ReadQuietly, Zenon
  <1>6. CASE Apply(c, p, reader[c].rec, "success")
    <2> DEFINE rec == reader[c].rec
    <2>1. PICK state : r' = ReadResponse(r, p, rec, "success", state) /\
            (reader' = [reader EXCEPT ![c].at = "done"] \/ \E a \in {"header", "done"} :
               reader' = [reader EXCEPT ![c].at = a, ![c].on = r'.fd])
      BY <1>6, ApplyIs
    <2>2. rec \in BOOLEAN /\ "success" \in Statuses BY <1>2 DEF Statuses
    <2> HIDE DEF rec
    <2>3. r'.fd \in Fds BY <1>2, <2>1, <2>2, InvTypes, ReadResponseKeeps, Zenon DEF Proxy
    <2>4. ReadersKeep(reader, reader')
      <3>0. reader \in [Conns -> Thread] BY InvTypes
      <3>1. ReadersKeep(reader, [reader EXCEPT ![c].at = "done"])
        BY <2>3, <3>0, ReaderMoves, Zenon
      <3>2. \A a \in {"header", "done"} : ReadersKeep(reader, [reader EXCEPT ![c].at = a, ![c].on = r'.fd])
        BY <2>3, <3>0, ReaderMoves, Zenon
      <3> QED BY <2>1, <3>1, <3>2, Zenon
    <2> QED BY <1>1, <1>2, <1>3, <2>1, <2>2, <2>4, ResponseRead, Zenon
  <1> QED BY <1>4, <1>5, <1>6

\* The host comes and goes: usb_tcp_host_attach, usb_tcp_host_detach, the end of the stream.
LEMMA HostEndsStep ==
  ASSUME USBInv, HostAttach \/ HostDetach \/ HostEof
  PROVE  USBInv'
  <1>1. r' = r /\ main' = main /\ reader' = reader BY DEF HostAttach, HostDetach, HostEof
  <1>2. /\ net' \in [Conns -> Connection]
        /\ \A c \in Conns : net'[c].req = net[c].req /\ net'[c].rsp = net[c].rsp
    <2>1. CASE HostAttach
      <3>1. net' = [net EXCEPT ![host.made + 1].remote = TRUE, ![host.made + 1].host = TRUE]
        BY <2>1 DEF HostAttach
      <3> DEFINE Up(c) == [net[c] EXCEPT !.remote = TRUE, !.host = TRUE]
      <3>2. net \in [Conns -> Connection] BY InvTypes
      <3>3. \A c \in Conns : net[c] \in Connection BY <3>2
      <3>4. \A c \in Conns : Up(c) \in Connection /\ Up(c).req = net[c].req /\ Up(c).rsp = net[c].rsp
        BY <3>3, Zenon DEF Connection
      <3>5. net' = [net EXCEPT ![host.made + 1] = Up(host.made + 1)]
        <4>1. CASE host.made + 1 \in Conns BY <3>1, <3>2, <4>1, Zenon
        <4>2. CASE host.made + 1 \notin Conns BY <3>1, <3>2, <4>2, Zenon
        <4> QED BY <4>1, <4>2
      <3> HIDE DEF Up
      <3> QED BY <3>2, <3>4, <3>5, Zenon
    <2>2. CASE HostDetach \/ HostEof
      <3>1. net' = [net EXCEPT ![host.conn].host = FALSE] BY <2>2 DEF HostDetach, HostEof, HostClosed
      <3> DEFINE Down(c) == [net[c] EXCEPT !.host = FALSE]
      <3>2. net \in [Conns -> Connection] BY InvTypes
      <3>3. \A c \in Conns : net[c] \in Connection BY <3>2
      <3>4. \A c \in Conns : Down(c) \in Connection /\ Down(c).req = net[c].req /\ Down(c).rsp = net[c].rsp
        BY <3>3, Zenon DEF Connection
      <3>5. net' = [net EXCEPT ![host.conn] = Down(host.conn)] BY <3>1
      <3> HIDE DEF Down
      <3> QED BY <3>2, <3>4, <3>5, Zenon
    <2> QED BY <2>1, <2>2
  <1>3. host' \in Controller /\ host'.result = host.result /\ host'.async = host.async
    <2>1. CASE HostAttach
      <3> DEFINE c == host.made + 1
      <3>1. host' = [host EXCEPT !.conn = c, !.made = c, !.backlog = Append(@, c)] /\ host.made < MaxConns
        BY <2>1 DEF HostAttach
      <3>2. c \in Conns /\ c \in 0 .. MaxConns
        <4>1. host.made \in 0 .. MaxConns BY InvTypes DEF Controller
        <4> QED BY <3>1, <4>1, USBTCPAssumption DEF Conns
      <3> HIDE DEF c
      <3>3. host.backlog \in Seq(Conns) BY InvTypes DEF Controller
      <3>4. Append(host.backlog, c) \in Seq(Conns) BY <3>2, <3>3, AppendHolds
      <3> QED BY <3>1, <3>2, <3>4, InvTypes, Zenon DEF Controller, Fds
    <2>2. CASE HostDetach \/ HostEof
      <3>1. host' = [host EXCEPT !.conn = NoFd] BY <2>2 DEF HostDetach, HostEof
      <3> QED BY <3>1, InvTypes DEF Controller, Fds
    <2> QED BY <2>1, <2>2
  <1>4. \A p \in Pkts : NetKeeps(net, net', p, NoShift, NoShift) BY <1>2, SameMail
  <1>5. r' \in Proxy /\ \A p \in Pkts : QuietAt(r, r', p) BY <1>1, InvTypes DEF Quiet
  <1>6. Waits' BY <1>1 DEF USBInv, Waits
  <1>7. ReadersKeep(reader, reader') BY <1>1, InvTypes
  <1>8. NoShift \in Shifts BY ShiftTypes
  <1> QED BY <1>2, <1>3, <1>4, <1>5, <1>6, <1>7, <1>8, QuietStep

\* The device gives p a result that it could not have had: nothing asks for p any more but a
\* NAK that says so, and a success that comes is one.
LEMMA ResultGiven ==
  ASSUME USBInv, NEW p \in Pkts, NEW st \in Statuses, host.result[p] # "success",
         UNCHANGED <<r, main, reader>>, net' \in [Conns -> Connection],
         host' \in Controller, host'.result = [host.result EXCEPT ![p] = st],
         host'.async \subseteq IF st = "async" THEN host.async \cup {p} ELSE host.async \ {p},
         NEW k \in Shifts, \A q \in Pkts : q # p => NetKeeps(net, net', q, k, NoShift),
         ~Back(r, p), \A c \in Conns, i \in Nat : ~Asks(net', p, c, i),
         \A c, d \in Conns, i, j \in Nat :
           /\ Refuses(net', p, c, i) => st = "nak"
           /\ Refuses(net', p, c, i) /\ Refuses(net', p, d, j) => c = d /\ i = j,
         \A c \in Conns, i \in Nat : Grants(net', p, c, i) => Grants(net, p, c, i) \/ st = "success"
  PROVE  USBInv'
  <1>1. USBTypeOK' BY Zenon DEF USBInv, USBTypeOK
  <1>2. Waits' BY Zenon DEF USBInv, Waits
  <1>3. host.result \in [Pkts -> Statuses \cup {"none"}] BY InvTypes, Zenon DEF Controller
  <1>4. host'.result[p] = st /\ \A q \in Pkts : q # p => host'.result[q] = host.result[q]
    BY <1>3, Zenon
  <1>5. Deferred'
    <2>1. host.async \subseteq Pkts BY InvTypes, Zenon DEF Controller
    <2>2. ASSUME NEW q \in host'.async PROVE host'.result[q] = "async"
      <3>1. CASE q = p BY <1>4, <2>2, <3>1
      <3>2. CASE q # p
        <4>1. q \in host.async BY <2>2, <3>2, Zenon
        <4>2. host.result[q] = "async" BY <4>1, Zenon DEF USBInv, Deferred
        <4> QED BY <1>4, <2>1, <3>2, <4>1, <4>2, Zenon
      <3> QED BY <3>1, <3>2, Zenon
    <2> QED BY <2>2, Zenon DEF Deferred
  <1>6. OnceAt(r', net', host', p)
    <2>1. ~Back(r', p) BY Zenon
    <2> QED BY <1>4, <2>1, Zenon DEF OnceAt, Open
  <1>7. RealAt(r', reader', net', host', p)
    <2>1. RealAt(r, reader, net, host, p) BY Zenon DEF USBInv, Real
    <2> QED BY <1>4, <2>1, Zenon DEF RealAt
  <1>8. NoShift \in Shifts BY ShiftTypes, Zenon
  <1>9. ASSUME NEW q \in Pkts, q # p PROVE OnceAt(r', net', host', q) /\ RealAt(r', reader', net', host', q)
    <2>1. OnceAt(r, net, host, q) /\ RealAt(r, reader, net, host, q)
      BY Zenon DEF USBInv, Once, Real
    <2>2. NetKeeps(net, net', q, k, NoShift) /\ host'.result[q] = host.result[q]
      BY <1>4, <1>9, Zenon
    <2>3. OnceAt(r', net', host', q) BY <1>8, <2>1, <2>2, OnceFrame, Zenon
    <2>4. RealAt(r', reader', net', host', q) BY <1>8, <2>1, <2>2, RealFrame, Zenon
    <2> QED BY <2>3, <2>4, Zenon
  <1>10. Once' /\ Real' BY <1>6, <1>7, <1>9, Zenon DEF Once, Real
  <1> QED BY <1>1, <1>2, <1>5, <1>10, Zenon DEF USBInv

\* usb_tcp_host_msg_loop_co: a request.
LEMMA HostRequestStep ==
  ASSUME USBInv, host.conn \in Conns, net[host.conn].req # <<>>, NEW p \in Pkts,
         Head(net[host.conn].req) = [op |-> "request", p |-> p], NEW st \in Statuses,
         net' = Respond([net EXCEPT ![host.conn].req = Tail(@)], p, st),
         host' = [host EXCEPT !.async = IF st = "async" THEN @ \cup {p} ELSE @, !.result[p] = st],
         UNCHANGED <<r, main, reader>>
  PROVE  USBInv'
  <1> DEFINE d == host.conn
             n == [net EXCEPT ![d].req = Tail(@)]
  <1>1. /\ n \in [Conns -> Connection] /\ Holds(net[d].req, Head(net[d].req), 1)
        /\ \A q \in Pkts : NetKeeps(net, n, q, ShiftAt(d), NoShift)
        /\ \A q \in Pkts, c \in Conns, i \in Nat : Asks(n, q, c, i) => c # d \/ i + ShiftAt(d)[c] # 1
    BY InvTypes, TakenReq, Zenon
  <1> HIDE DEF n
  <1>2. net' = Respond(n, p, st) BY DEF n
  <1>3. /\ net' \in [Conns -> Connection]
        /\ \A q \in Pkts, c \in Conns, i \in Nat :
             /\ Asks(net', q, c, i) => Asks(n, q, c, i)
             /\ Refuses(net', q, c, i) =>
                  \/ Refuses(n, q, c, i)
                  \/ q = p /\ st = "nak" /\ c = d /\ i = Len(n[c].rsp) + 1
             /\ Grants(net', q, c, i) => Grants(n, q, c, i) \/ (q = p /\ st = "success")
    <2> DEFINE m == Respond(n, p, st)
    <2>1. /\ m \in [Conns -> Connection]
          /\ \A q \in Pkts, c \in Conns, i \in Nat :
               /\ Asks(m, q, c, i) => Asks(n, q, c, i)
               /\ Refuses(m, q, c, i) =>
                    \/ Refuses(n, q, c, i)
                    \/ q = p /\ st = "nak" /\ c = d /\ i = Len(n[c].rsp) + 1
               /\ Grants(m, q, c, i) => Grants(n, q, c, i) \/ (q = p /\ st = "success")
      BY <1>1, RespondMail
    <2>2. net' = m BY <1>2
    <2> HIDE DEF m
    <2> QED BY <2>1, <2>2, Zenon
  <1>4. Asks(net, p, d, 1) /\ 1 \in Nat BY <1>1 DEF Asks
  <1>5. OnceAt(r, net, host, p) BY DEF USBInv, Once
  <1>6. /\ Open(host, p) /\ ~Back(r, p) /\ \A c \in Conns, i \in Nat : ~Refuses(net, p, c, i)
        /\ \A c \in Conns, i \in Nat : Asks(net, p, c, i) => c = d /\ i = 1
    BY <1>4, <1>5 DEF OnceAt
  <1>7. NoShift \in Shifts /\ ShiftAt(d) \in Shifts BY ShiftTypes
  <1>8. \A c \in Conns, i \in Nat : i + ShiftAt(d)[c] \in Nat /\ i + NoShift[c] = i
    BY <1>7, ShiftTypes DEF Shifts
  <1>9. \A c \in Conns, i \in Nat : ~Asks(n, p, c, i) /\ ~Refuses(n, p, c, i)
    BY <1>1, <1>6, <1>8 DEF NetKeeps
  <1>10. \A c \in Conns, i \in Nat : Grants(n, p, c, i) => Grants(net, p, c, i)
    BY <1>1, <1>8 DEF NetKeeps
  <1>11. \A q \in Pkts : q # p => NetKeeps(net, net', q, ShiftAt(d), NoShift)
    BY <1>1, <1>3, Zenon DEF NetKeeps
  <1>12. p \notin host.async
    <2>1. p \in host.async => host.result[p] = "async" BY DEF USBInv, Deferred
    <2> QED BY <1>6, <2>1 DEF Open
  <1>13. /\ host' \in Controller /\ host'.result = [host.result EXCEPT ![p] = st]
         /\ host'.async \subseteq IF st = "async" THEN host.async \cup {p} ELSE host.async \ {p}
    <2>1. host.async \subseteq Pkts /\ host.result \in [Pkts -> Statuses \cup {"none"}]
      BY InvTypes DEF Controller
    <2>2. /\ [host.result EXCEPT ![p] = st] \in [Pkts -> Statuses \cup {"none"}]
          /\ (IF st = "async" THEN host.async \cup {p} ELSE host.async) \subseteq Pkts
      BY <2>1
    <2>3. /\ host'.result = [host.result EXCEPT ![p] = st]
          /\ host'.async = IF st = "async" THEN host.async \cup {p} ELSE host.async
      BY InvTypes DEF Controller
    <2>4. host' \in Controller BY <2>2, InvTypes, Zenon DEF Controller
    <2> QED BY <1>12, <2>3, <2>4
  <1>14. \A c, e \in Conns, i, j \in Nat :
           /\ Refuses(net', p, c, i) => st = "nak"
           /\ Refuses(net', p, c, i) /\ Refuses(net', p, e, j) => c = e /\ i = j
    <2>1. \A c \in Conns, i \in Nat :
            Refuses(net', p, c, i) => st = "nak" /\ c = d /\ i = Len(n[d].rsp) + 1
      BY <1>3, <1>9, Zenon
    <2> QED BY <2>1, Zenon
  <1>15. \A c \in Conns, i \in Nat : ~Asks(net', p, c, i) BY <1>3, <1>9, Zenon
  <1>16. \A c \in Conns, i \in Nat : Grants(net', p, c, i) => Grants(net, p, c, i) \/ st = "success"
    BY <1>3, <1>10, Zenon
  <1>17. host.result[p] # "success" BY <1>6 DEF Open
  <1> QED BY <1>3, <1>6, <1>7, <1>11, <1>13, <1>14, <1>15, <1>16, <1>17, ResultGiven, Zenon

\* The host takes a message from its connection and gives no result.
LEMMA HostTakes ==
  ASSUME USBInv, NEW d \in Conns, UNCHANGED <<r, main, reader>>, net' \in [Conns -> Connection],
         \A q \in Pkts : NetKeeps(net, net', q, ShiftAt(d), NoShift),
         host' = host \/ (host' \in Controller /\ host'.result = host.result
                          /\ host'.async \subseteq host.async)
  PROVE  USBInv'
  <1>1. r' \in Proxy /\ \A p \in Pkts : QuietAt(r, r', p) BY InvTypes, Zenon DEF Quiet
  <1>2. Waits' BY Zenon DEF USBInv, Waits
  <1>3. ReadersKeep(reader, reader') BY InvTypes
  <1>4. host' \in Controller /\ host'.result = host.result /\ host'.async \subseteq host.async
    BY InvTypes
  <1>5. NoShift \in Shifts /\ ShiftAt(d) \in Shifts BY ShiftTypes
  <1> QED BY <1>1, <1>2, <1>3, <1>4, <1>5, QuietStep, Zenon

\* usb_tcp_host_msg_loop_co: one message.
LEMMA HostMessageStep == ASSUME USBInv, HostMessage PROVE USBInv'
  <1> DEFINE d == host.conn
             m == Head(net[d].req)
             n == [net EXCEPT ![d].req = Tail(@)]
  <1>1. d \in Conns /\ net[d].req # <<>> /\ UNCHANGED <<r, main, reader>> BY InvTypes DEF HostMessage
  <1>2. /\ n \in [Conns -> Connection] /\ m \in Request
        /\ \A q \in Pkts : NetKeeps(net, n, q, ShiftAt(d), NoShift)
    BY <1>1, InvTypes, TakenReq, Zenon
  <1>3. \/ m.op = "request" /\ \E st \in {"success", "stall", "nak", "async"} :
                 /\ net' = Respond(n, m.p, st)
                 /\ host' = [host EXCEPT !.async = IF st = "async" THEN @ \cup {m.p} ELSE @,
                                         !.result[m.p] = st]
        \/ /\ m.op = "cancel" /\ m.p \in host.async /\ net' = Respond(n, m.p, "async")
           /\ host' = [host EXCEPT !.async = @ \ {m.p}]
        \/ net' = n /\ host' = host
    BY Zenon DEF HostMessage
  <1>4. CASE m.op = "request"
    <2>1. m.p \in Pkts /\ m = [op |-> "request", p |-> m.p] BY <1>2, <1>4 DEF Request
    <2>2. CASE net' = n /\ host' = host
      <3> HIDE DEF n, m
      <3> QED BY <1>1, <1>2, <2>2, HostTakes, Zenon
    <2>3. CASE \E st \in {"success", "stall", "nak", "async"} :
                 /\ net' = Respond(n, m.p, st)
                 /\ host' = [host EXCEPT !.async = IF st = "async" THEN @ \cup {m.p} ELSE @,
                                         !.result[m.p] = st]
      <3>1. PICK st \in Statuses :
                 /\ net' = Respond(n, m.p, st)
                 /\ host' = [host EXCEPT !.async = IF st = "async" THEN @ \cup {m.p} ELSE @,
                                         !.result[m.p] = st]
        BY <2>3, Zenon DEF Statuses
      <3> QED BY <1>1, <2>1, <3>1, HostRequestStep, Zenon
    <2> QED BY <1>3, <1>4, <2>2, <2>3, Zenon
  <1>5. CASE net' = n /\ host' = host
    <2> HIDE DEF n, m
    <2> QED BY <1>1, <1>2, <1>5, HostTakes
  <1>6. CASE /\ m.op = "cancel" /\ m.p \in host.async /\ net' = Respond(n, m.p, "async")
             /\ host' = [host EXCEPT !.async = @ \ {m.p}]
    <2>1. host.async \subseteq Pkts /\ "async" \in Statuses BY InvTypes DEF Controller, Statuses
    <2> HIDE DEF n, m
    <2>2. m.p \in Pkts BY <1>6, <2>1
    <2> DEFINE p == m.p
               w == Respond(n, p, "async")
    <2>3. /\ w \in [Conns -> Connection]
          /\ \A q \in Pkts, c \in Conns, i \in Nat :
               /\ Asks(w, q, c, i) => Asks(n, q, c, i)
               /\ Refuses(w, q, c, i) =>
                    \/ Refuses(n, q, c, i)
                    \/ q = p /\ "async" = "nak" /\ c = host.conn /\ i = Len(n[c].rsp) + 1
               /\ Grants(w, q, c, i) => Grants(n, q, c, i) \/ (q = p /\ "async" = "success")
      BY <1>1, <1>2, <2>1, <2>2, RespondMail, Zenon
    <2>4. net' = w BY <1>6
    <2> HIDE DEF w, p
    <2>5. \A q \in Pkts : NetKeeps(net, net', q, ShiftAt(d), NoShift)
      BY <1>2, <2>3, <2>4, Zenon DEF NetKeeps
    <2>6. host' \in Controller /\ host'.result = host.result /\ host'.async \subseteq host.async
      BY <1>6, InvTypes DEF Controller
    <2> QED BY <1>1, <2>3, <2>4, <2>5, <2>6, HostTakes, Zenon
  <1> QED BY <1>3, <1>4, <1>5, <1>6, Zenon

\* usb_tcp_host_async_packet_complete: the result of a deferred packet.
LEMMA HostCompleteStep == ASSUME USBInv, NEW p \in Pkts, HostComplete(p) PROVE USBInv'
  <1>1. PICK st \in {"success", "stall"} :
          /\ host' = [host EXCEPT !.async = @ \ {p}, !.result[p] = st]
          /\ net' = IF host.conn = NoFd THEN net ELSE Respond(net, p, st)
    BY Zenon DEF HostComplete
  <1>2. p \in host.async /\ UNCHANGED <<r, main, reader>> BY DEF HostComplete
  <1>3. host.result[p] = "async" BY <1>2 DEF USBInv, Deferred
  <1>4. OnceAt(r, net, host, p) BY DEF USBInv, Once
  <1>5. ~Back(r, p) /\ \A c \in Conns, i \in Nat : ~Asks(net, p, c, i) /\ ~Refuses(net, p, c, i)
    BY <1>3, <1>4, Zenon DEF OnceAt, Open
  <1>6. st \in Statuses /\ st # "nak" /\ st # "async" BY DEF Statuses
  <1>7. /\ net' \in [Conns -> Connection]
        /\ \A q \in Pkts, c \in Conns, i \in Nat :
             /\ Asks(net', q, c, i) => Asks(net, q, c, i)
             /\ Refuses(net', q, c, i) => Refuses(net, q, c, i)
             /\ Grants(net', q, c, i) => Grants(net, q, c, i) \/ (q = p /\ st = "success")
    <2>1. CASE host.conn = NoFd
      <3>1. net' = net BY <1>1, <2>1
      <3> QED BY <3>1, InvTypes
    <2>2. CASE host.conn # NoFd
      <3> DEFINE w == Respond(net, p, st)
      <3>1. host.conn \in Conns /\ net' = w BY <1>1, <2>2, InvTypes
      <3>2. /\ w \in [Conns -> Connection]
            /\ \A q \in Pkts, c \in Conns, i \in Nat :
                 /\ Asks(w, q, c, i) => Asks(net, q, c, i)
                 /\ Refuses(w, q, c, i) =>
                      \/ Refuses(net, q, c, i)
                      \/ q = p /\ st = "nak" /\ c = host.conn /\ i = Len(net[c].rsp) + 1
                 /\ Grants(w, q, c, i) => Grants(net, q, c, i) \/ (q = p /\ st = "success")
        BY <1>6, <3>1, InvTypes, RespondMail, Zenon
      <3> HIDE DEF w
      <3> QED BY <1>6, <3>1, <3>2
    <2> QED BY <2>1, <2>2
  <1>8. NoShift \in Shifts /\ \A c \in Conns, i \in Nat : i + NoShift[c] = i BY ShiftTypes
  <1>9. \A q \in Pkts : q # p => NetKeeps(net, net', q, NoShift, NoShift) BY <1>7, <1>8 DEF NetKeeps
  <1>10. /\ host' \in Controller /\ host'.result = [host.result EXCEPT ![p] = st]
         /\ host'.async \subseteq IF st = "async" THEN host.async \cup {p} ELSE host.async \ {p}
    BY <1>1, <1>6, InvTypes, Zenon DEF Controller
  <1>11. \A c, e \in Conns, i, j \in Nat :
           /\ ~Asks(net', p, c, i) /\ ~Refuses(net', p, c, i)
           /\ Refuses(net', p, c, i) => st = "nak"
           /\ Refuses(net', p, c, i) /\ Refuses(net', p, e, j) => c = e /\ i = j
    BY <1>5, <1>7
  <1>12. \A c \in Conns, i \in Nat :
           ~Asks(net', p, c, i) /\ (Grants(net', p, c, i) => Grants(net, p, c, i) \/ st = "success")
    BY <1>5, <1>7
  <1>13. host.result[p] # "success" BY <1>3
  <1> QED BY <1>2, <1>5, <1>6, <1>7, <1>8, <1>9, <1>10, <1>11, <1>12, <1>13, ResultGiven, Zenon

-----------------------------------------------------------------------------
\* The invariant is inductive.
LEMMA USBStep == ASSUME USBInv, [Next]_vars PROVE USBInv'
  <1>1. CASE UNCHANGED vars
    <2>1. UNCHANGED <<r, main, reader, net, host>> BY <1>1 DEF vars
    <2> QED BY <2>1, InvTypes, ProxyStep
  <1>2. CASE Next
    <2>1. CASE \E p \in Pkts : Submit(p) \/ Cancel(p) \/ HostComplete(p)
      BY <2>1, SubmitStep, CancelStep, HostCompleteStep
    <2>2. CASE HandleReturns \/ CancelReturns \/ EhciLeave \/ EhciKick \/ RunBh \/ Reset
      BY <2>2, HandleReturnsStep, CancelReturnsStep, EhciStep, RunBhStep, ResetStep
    <2>3. CASE Accept \/ AcceptOpen \/ AcceptAttach \/ AcceptSpawn \/ AcceptCheck
      BY <2>3, AcceptInv, AcceptStepInv
    <2>4. CASE \E c \in Conns : ReaderStart(c) \/ ReadFails(c) \/ ReadHeader(c) \/ ReadPayload(c)
      BY <2>4, ReaderEndsStep, ReadHeaderStep, ReadPayloadStep
    <2>5. CASE HostAttach \/ HostDetach \/ HostMessage \/ HostEof
      BY <2>5, HostEndsStep, HostMessageStep
    <2> QED BY <1>2, <2>1, <2>2, <2>3, <2>4, <2>5 DEF Next
  <1> QED BY <1>1, <1>2

\* The guest's driver sees success only of what the device behind the host made succeed,
\* for every number of packets, connections, resets and cancellations, whenever a connection
\* breaks (usb_tcp_remote_clean_inflight_queue, usb_tcp_remote_read_one).
THEOREM USBSuccessIsReal == Spec => []SuccessIsReal
  <1>1. USBInv => SuccessIsReal
    <2> SUFFICES ASSUME USBInv, NEW p \in Pkts, r.pkt[p].seen = "success"
                 PROVE  host.result[p] = "success"
      BY DEF SuccessIsReal
    <2>1. RealAt(r, reader, net, host, p) BY DEF USBInv, Real
    <2> QED BY <2>1 DEF RealAt, NoSuccess
  <1> QED BY <1>1, USBInitInv, USBStep, PTL DEF Spec
=============================================================================
