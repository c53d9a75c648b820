-------------------------------- MODULE SIO --------------------------------
(***************************************************************************)
(* The Smart IO DMA controller (hw/dma/apple_sio.c).  The AP sends it      *)
(* commands through RTKit; MAP queues a scatter list on an endpoint, a     *)
(* peripheral moves bytes from or to the queued lists, and COMPLETE tells  *)
(* the AP that a list is used up.                                          *)
(*                                                                         *)
(* The bytes of list t are 16t + 1, 16t + 2, ...: what a peripheral gets   *)
(* shows where it comes from.  The RTKit channel is a pair of FIFOs, which *)
(* is what RTKit.tla is checked to provide.                                *)
(***************************************************************************)
EXTENDS Integers, Sequences, SequencesExt, TLC

CONSTANTS
  Eps,       \* the DMA endpoints in use
  Sizes,     \* sizes of a scatter list
  MaxCmds    \* bound: commands of the AP

ASSUME SIOAssumption == Eps \subseteq 4 .. 255 /\ Sizes \subseteq 1 .. 15 /\ MaxCmds \in 0 .. 15

VARIABLES
  eps,      \* per endpoint: its requests and whether it is configured
  params,   \* params: the protocol version and the base of the segment table
  inq,      \* commands on the way to the SIO
  out,      \* everything the SIO has sent, in order
  moved,    \* per endpoint: the bytes a peripheral has read or written
  cmds      \* the commands sent so far; a command's index is its tag

siovars == <<eps, params, inq, out, moved, cmds>>

Params == {"protocol", "base"}

ToDevice(e) == e % 2 = 0

Least(a, b) == IF a < b THEN a ELSE b

\* A list before the transfer: what the AP wants sent, or an empty buffer.
List(e, tag, size) == [i \in 1 .. size |-> IF ToDevice(e) THEN 16 * tag + i ELSE 0]

Request(e, tag, size) == [tag |-> tag, data |-> List(e, tag, size), acc |-> 0]

NoEndpoint == [requests |-> <<>>, configured |-> FALSE]

\* COMPLETE, with the memory the AP finds.
Complete(e, r) == [op |-> "complete", ep |-> e, tag |-> r.tag, data |-> r.acc, list |-> r.data]

-----------------------------------------------------------------------------
(* The peripheral's side.  A transfer is a record of the queue, the buffer *)
(* of the caller, the bytes moved and the messages sent.                   *)

Remaining(reqs) == FoldSeq(LAMBDA r, n : n + Len(r.data) - r.acc, 0, reqs)

\* The buffer's first bytes are replaced.
Overlay(buf, chunk) == chunk \o SubSeq(buf, Len(chunk) + 1, Len(buf))

\* The head of the queue after n more bytes: it stays, or it is destroyed and reported.
Advance(e, x, head, n) ==
  LET h == [head EXCEPT !.acc = @ + n]
      full == h.acc >= Len(h.data)
  IN  [x EXCEPT !.reqs = IF full THEN Tail(@) ELSE <<h>> \o Tail(@),
                !.n = @ + n,
                !.sent = IF full THEN Append(@, Complete(e, h)) ELSE @]

ReadStep(e, x, len) ==
  LET h == Head(x.reqs)
      n == Least(len, Len(h.data) - h.acc)
  IN  Advance(e, [x EXCEPT !.buf = Overlay(@, SubSeq(h.data, h.acc + 1, h.acc + n))], h, n)

WriteStep(e, x, len) ==
  LET h == Head(x.reqs)
      n == Least(len, Len(h.data) - h.acc)
      d == [i \in DOMAIN h.data |->
              IF i \in h.acc + 1 .. h.acc + n THEN x.buf[i - h.acc] ELSE h.data[i]]
  IN  Advance(e, x, [h EXCEPT !.data = d], n)

\* The loops of apple_sio_dma_read and apple_sio_dma_write: every turn asks for len bytes
\* again and starts at the front of the buffer again.
Transfer(e, reqs, buf, len) ==
  LET loop[i \in 0 .. Len(reqs)] ==
        IF i = 0 THEN [reqs |-> reqs, buf |-> buf, n |-> 0, sent |-> <<>>]
        ELSE LET x == loop[i - 1]
             IN  IF len > x.n /\ x.reqs # <<>>
                 THEN IF ToDevice(e) THEN ReadStep(e, x, len) ELSE WriteStep(e, x, len)
                 ELSE x
  IN  loop[Len(reqs)]

-----------------------------------------------------------------------------
(* The AP's side.                                                          *)

SIOInit ==
  /\ eps = [e \in Eps |-> NoEndpoint]
  /\ params = [p \in Params |-> IF p = "protocol" THEN 1 ELSE 0]
  /\ inq = <<>> /\ out = <<>> /\ cmds = <<>>
  /\ moved = [e \in Eps |-> <<>>]

\* The tag tells the commands apart.
Send(m) ==
  /\ Len(cmds) < MaxCmds
  /\ cmds' = Append(cmds, m.op)
  /\ inq' = Append(inq, [tag |-> Len(cmds) + 1] @@ m)
  /\ UNCHANGED <<eps, params, out, moved>>

SendMap(e, size) == Send([op |-> "map", ep |-> e, data |-> size])
SendOther(e, op) == Send([op |-> op, ep |-> e, data |-> 0])
SendParam(op, p, v) == Send([op |-> op, ep |-> 0, data |-> [param |-> p, value |-> v]])

Reply(m, op, data) == [op |-> op, ep |-> m.ep, tag |-> m.tag, data |-> data]

\* apple_sio_control.
Control(m) ==
  /\ m.ep = 0
  /\ \/ /\ m.op = "get"
        /\ out' = Append(out, Reply(m, "get_resp", params[m.data.param]))
        /\ UNCHANGED params
     \/ /\ m.op = "set"
        /\ params' = [params EXCEPT ![m.data.param] = m.data.value]
        /\ out' = Append(out, Reply(m, "ack", 0))
  /\ UNCHANGED eps

\* CONFIGURE; nothing is answered when the configuration cannot be read.
Configure(m, readable) ==
  /\ m.op = "configure"
  /\ \/ readable /\ eps' = [eps EXCEPT ![m.ep].configured = TRUE]
                 /\ out' = Append(out, Reply(m, "ack", 0))
     \/ ~readable /\ UNCHANGED <<eps, out>>
  /\ UNCHANGED params

\* MAP.
MapDma(m, readable) ==
  /\ m.op = "map"
  /\ \/ /\ readable
        /\ eps' = [eps EXCEPT ![m.ep].requests = Append(@, Request(m.ep, m.tag, m.data))]
        /\ out' = Append(out, Reply(m, "ack", 0))
     \/ /\ ~readable
        /\ out' = Append(out, Reply(m, "sync_error", 0))
        /\ UNCHANGED eps
  /\ UNCHANGED params

Query(m) ==
  /\ m.op = "query"
  /\ LET reqs == eps[m.ep].requests
     IN  out' = Append(out, IF reqs = <<>> THEN Reply(m, "sync_error", 0)
                            ELSE Reply(m, "query_ok", FoldSeq(LAMBDA r, n : n + r.acc, 0, reqs)))
  /\ UNCHANGED <<eps, params>>

\* Fault: only the list in progress is destroyed.
Stop_HeadOnly(m) ==
  /\ m.op = "stop"
  /\ eps' = [eps EXCEPT ![m.ep].requests = IF @ = <<>> THEN @ ELSE Tail(@)]
  /\ out' = Append(out, Reply(m, "ack", 0))
  /\ UNCHANGED params

\* The lists are destroyed; no COMPLETE is sent for them.
Stop(m) ==
  /\ m.op = "stop"
  /\ eps' = [eps EXCEPT ![m.ep].requests = <<>>]
  /\ out' = Append(out, Reply(m, "ack", 0))
  /\ UNCHANGED params

\* apple_sio_handle_endpoint.
Handle(readable) ==
  /\ inq # <<>>
  /\ LET m == Head(inq)
     IN  \/ Control(m)
         \/ Configure(m, readable)
         \/ MapDma(m, readable)
         \/ Query(m)
         \/ Stop(m)
  /\ inq' = Tail(inq)
  /\ UNCHANGED <<moved, cmds>>

\* apple_sio_reset_hold, after the reset of the RTKit channel.
Reset ==
  /\ params' = [p \in Params |-> IF p = "protocol" THEN params[p] ELSE 0]
  /\ eps' = [e \in Eps |-> NoEndpoint]
  /\ inq' = <<>> /\ out' = <<>>
  /\ moved' = [e \in Eps |-> <<>>]
  /\ UNCHANGED cmds

\* A peripheral moves len bytes; what it writes are the numbers from 1 on.
Move(e, len) ==
  LET fresh == [i \in 1 .. len |-> IF ToDevice(e) THEN 0 ELSE Len(moved[e]) + i]
      x == Transfer(e, eps[e].requests, fresh, len)
  IN  /\ x.n > 0
      /\ eps' = [eps EXCEPT ![e].requests = x.reqs]
      /\ moved' = [moved EXCEPT ![e] = @ \o SubSeq(x.buf, 1, x.n)]
      /\ out' = out \o x.sent
      /\ UNCHANGED <<params, inq, cmds>>

\* A peripheral whose transfers end with the list in progress.
MoveInList(e, len) ==
  /\ eps[e].requests # <<>>
  /\ LET h == Head(eps[e].requests)
     IN  len <= Len(h.data) - h.acc
  /\ Move(e, len)

SIONext ==
  \/ \E e \in Eps, size \in Sizes : SendMap(e, size)
  \/ \E e \in Eps, op \in {"configure", "query", "stop"} : SendOther(e, op)
  \/ \E op \in {"get", "set"}, p \in Params : SendParam(op, p, 2)
  \/ \E readable \in BOOLEAN : Handle(readable)
  \/ \E e \in Eps, len \in 1 .. 15 : MoveInList(e, len)
  \/ Reset

-----------------------------------------------------------------------------
(* Properties.                                                             *)

Completes(e) == {i \in DOMAIN out : out[i].ep = e /\ out[i].op = "complete"}

Acked(e, tag, n) == \E i \in 1 .. n : out[i].ep = e /\ out[i].op = "ack" /\ out[i].tag = tag

\* What tells the AP, within the first n messages, that the memory of a list is its own
\* again: a COMPLETE, or the answer to a STOP sent after the MAP.
Freed(e, tag, n) ==
  \E i \in 1 .. n :
    /\ out[i].ep = e
    /\ \/ out[i].op = "complete" /\ out[i].tag = tag
       \/ out[i].op = "ack" /\ cmds[out[i].tag] = "stop" /\ out[i].tag > tag

\* The AP gives a list's memory to the SIO with a MAP and gets it back with the COMPLETE or
\* with the answer to a later STOP: a list in a queue was acknowledged and not given
\* back, and a COMPLETE is for a list that was acknowledged and not given back before.
MemoryOwned ==
  \A e \in Eps :
    /\ \A i \in DOMAIN eps[e].requests :
         LET t == eps[e].requests[i].tag
         IN  Acked(e, t, Len(out)) /\ ~Freed(e, t, Len(out))
    /\ \A i \in Completes(e) : Acked(e, out[i].tag, i - 1) /\ ~Freed(e, out[i].tag, i - 1)

\* What a peripheral reads from the lists comes in order and once; a completed list was
\* read, or filled with consecutive bytes of the peripheral, to its end
\* (apple_sio_dma_read and _write, whatever the lengths asked for).
BytesExact ==
  \A e \in Eps :
    /\ \A i, j \in DOMAIN moved[e] : i < j => moved[e][i] < moved[e][j]
    /\ \A i \in Completes(e) :
         /\ out[i].data = Len(out[i].list)
         /\ IF ToDevice(e) THEN Range(out[i].list) \subseteq Range(moved[e])
            ELSE \A k \in DOMAIN out[i].list : out[i].list[k] = out[i].list[1] + k - 1 /\ out[i].list[k] > 0
=============================================================================
