------------------------------- MODULE SEPSim -------------------------------
(***************************************************************************)
(* The simulated secure processor (hw/arm/apple-silicon/sep-sim.c): device *)
(* code that answers the AP over a pair of mailboxes.  The mailboxes are   *)
(* the two queues that module Channel specifies and A7IOPMailbox           *)
(* implements.  Payloads that do not fit a message lie in buffers of guest *)
(* memory, whose addresses the AP registers per endpoint; the SEP keeps    *)
(* the addresses over a machine reset, the kernel that comes after it      *)
(* allocates others.                                                       *)
(***************************************************************************)
EXTENDS Naturals, Sequences, SequencesExt

CONSTANTS
  MaxSepRequests, \* bound: requests of the driver once the SEP is up
  MaxSepResets    \* bound: machine resets

ASSUME SEPSimAssumption == {MaxSepRequests, MaxSepResets} \subseteq Nat

VARIABLES
  sep,   \* the SEP: status, firmware type, registered buffers, and its guest memory
  sepq,  \* the inboxes of the two sides and the bottom half
  sdrv,  \* the kernel's SEP driver
  sruns  \* how much of each bound is used up

sepvars == <<sep, sepq, sdrv, sruns>>

\* apple_sep_sim_eps, the endpoints that differ in what they do
SepEps == {"cntl", "arts", "sks", "xarm"}

NoBuf == <<"none", "none", 0>>
Buffers == {"cntl", "arts", "sks"} \X {"in", "out"} \X (0..MaxSepResets)
NoContent == <<"none", 0>>

Msg(ep, op, tag, data) == [ep |-> ep, op |-> op, tag |-> tag, data |-> data]

-----------------------------------------------------------------------------
(* The handlers.  H is the SEP with `to', the messages for the AP. *)

Reply(H, m, op, data) == [H EXCEPT !.to = Append(@, Msg(m.ep, op, m.tag, data))]

\* dma_memory_write to a buffer; `wrote' remembers where.
DmaWrite(H, b, v) ==
  [H EXCEPT !.mem = IF b \in Buffers THEN [@ EXCEPT ![b] = v] ELSE @, !.wrote = @ \union {b}]

\* apple_sep_sim_set_ool_in_addr, _set_ool_out_addr
SetOol(H, dir, ep, b) ==
  IF dir = "in" THEN [H EXCEPT !.in[ep] = b] ELSE [H EXCEPT !.out[ep] = b]

\* apple_sep_sim_handle_control_msg; the sizes are stored and never used, an
\* unknown operation gets no answer.
HandleControl(H, m) ==
  CASE m.op = "set_ool_in_addr" -> Reply(SetOol(H, "in", m.data[1], m.data), m, "ack", 0)
    [] m.op = "set_ool_out_addr" -> Reply(SetOol(H, "out", m.data[1], m.data), m, "ack", 0)
    [] m.op \in {"nop", "set_ool_size", "self_test"} -> Reply(H, m, "ack", 0)
    [] m.op = "get_security_mode" -> Reply(H, m, "ack", 3)
    [] m.op = "erase_install" ->
         LET A == DmaWrite(Reply(H, m, "ack", 0), H.out["arts"], <<"art", 0>>)
         IN [A EXCEPT !.to = Append(@, Msg("arts", "incoming", 0, 0))]
    [] OTHER -> H

\* apple_sep_sim_handle_xart_msg: acknowledges everything.
HandleXart(H, m) == Reply(H, m, "ack", 0)

\* apple_sep_sim_handle_keystore_msg: reads the request, writes the answer and
\* says so; a request it does not know is written back, KC Wrap writes nothing.
HandleKeystore(H, m) ==
  LET req == IF H.in["sks"] \in Buffers THEN H.mem[H.in["sks"]] ELSE NoContent
  IN CASE m.op = "kc_wrap" -> Reply(H, m, "reply", 0)
       [] m.op = "known" -> Reply(DmaWrite(H, H.out["sks"], <<"resp", req[2]>>), m, "reply", 1)
       [] OTHER -> Reply(DmaWrite(H, H.out["sks"], req), m, "reply", 1)

\* apple_sep_sim_advertise_eps
AdvertiseEps(H) ==
  [H EXCEPT !.to = @ \o
     FlattenSeq([i \in 1..4 |->
       LET ep == <<"cntl", "arts", "sks", "xarm">>[i]
       IN <<Msg("discovery", "ep", 0, ep), Msg("discovery", "ool", 0, ep)>>])]

\* apple_sep_sim_handle_bootstrap_msg; "nonce" is any of the three operations that
\* answer with numbers. The assertion on the firmware type aborts.
HandleBootstrap(H, m) ==
  CASE m.op = "ping" -> Reply(H, m, "ping_ack", 0)
    [] m.op = "get_status" -> Reply(H, m, "status_reply", H.status)
    [] m.op = "nonce" -> Reply(H, m, "nonce_generated", 0)
    [] m.op = "check_tz0" -> Reply([H EXCEPT !.rsep = m.data, !.status = "active"], m, "tz0_accepted", 0)
    [] m.op = "boot_img4" ->
         IF H.rsep # m.data THEN [H EXCEPT !.aborted = TRUE]
         ELSE AdvertiseEps([Reply(H, m, "img4_accepted", 0) EXCEPT
                              !.to = Append(@, Msg("cntl", "notify_alive", 0, 0))])
    [] OTHER -> H

\* apple_sep_sim_handle_l4info
HandleL4Info(H, m) == [H EXCEPT !.in["cntl"] = m.data, !.out["cntl"] = m.data]

\* The switch of apple_sep_sim_bh; the endpoints it only logs get no answer.
HandleSepMsg(H, m) ==
  IF H.aborted THEN H
  ELSE CASE m.ep = "cntl" -> HandleControl(H, m)
         [] m.ep = "xarm" -> HandleXart(H, m)
         [] m.ep = "sks" -> HandleKeystore(H, m)
         [] m.ep = "bootstrap" -> HandleBootstrap(H, m)
         [] m.ep = "l4info" -> HandleL4Info(H, m)
         [] OTHER -> H

\* A fault: one message per run.
Drained_One(q) == IF q = <<>> THEN q ELSE <<Head(q)>>

\* apple_sep_sim_bh empties the inbox.
Drained(q) == q

RunSepBh ==
  LET now == Drained(sepq.iop)
      H == FoldLeft(HandleSepMsg, sep, now)
  IN /\ sepq.bh
     /\ sep' = [H EXCEPT !.to = <<>>]
     /\ sepq' = [iop |-> SubSeq(sepq.iop, Len(now) + 1, Len(sepq.iop)), ap |-> sepq.ap \o H.to, bh |-> FALSE]
     /\ UNCHANGED <<sdrv, sruns>>

-----------------------------------------------------------------------------
(* Machine reset. *)

\* A fault: the SEP's inbox outlives the reset.
EmptyInboxes_NotIop(q) == [q EXCEPT !.ap = <<>>]

\* apple_a7iop_mailbox_reset of both mailboxes; a scheduled bottom half stays.
EmptyInboxes(q) == [q EXCEPT !.iop = <<>>, !.ap = <<>>]

SepDriverOff ==
  [step |-> 0, rsep |-> FALSE, waiting |-> FALSE, found |-> {},
   open |-> [e \in {"sks", "cntl", "xarm"} |-> "no"]]

Announce == Msg("bootstrap", "announce", 0, "bootstrap")

\* The SEP is reset after its mailboxes and announces itself; it keeps the
\* firmware type and the registered buffers.
SepMachineReset ==
  /\ sruns.resets < MaxSepResets
  /\ sepq' = [EmptyInboxes(sepq) EXCEPT !.ap = Append(@, Announce)]
  /\ sep' = [sep EXCEPT !.status = "bootstrap", !.wrote = {}]
  /\ sdrv' = SepDriverOff
  /\ sruns' = [sruns EXCEPT !.resets = @ + 1]

-----------------------------------------------------------------------------
(* The driver: it boots the SEP one answer at a time, then registers the   *)
(* buffers of this boot, and once it is up lets each of its clients have   *)
(* one request under way.                                                  *)

OolBuf(ep, dir) == <<ep, dir, sruns.resets>>

\* What each step of the boot sends and what it waits for ("" for nothing).
BootSteps ==
  << <<Msg("bootstrap", "ping", 1, 0), "ping_ack">>,
     <<Msg("bootstrap", "get_status", 2, 0), "status_reply">>,
     <<Msg("bootstrap", "nonce", 3, 0), "nonce_generated">>,
     <<Msg("bootstrap", "check_tz0", 4, sdrv.rsep), "tz0_accepted">>,
     <<Msg("bootstrap", "boot_img4", 5, sdrv.rsep), "img4_accepted">>,
     <<Msg("l4info", "", 0, OolBuf("cntl", "in")), "">>,
     <<Msg("cntl", "set_ool_in_addr", 6, OolBuf("sks", "in")), "ack">>,
     <<Msg("cntl", "set_ool_out_addr", 7, OolBuf("sks", "out")), "ack">>,
     <<Msg("cntl", "set_ool_out_addr", 8, OolBuf("arts", "out")), "ack">> >>

Up == Len(BootSteps) + 1

\* The AP's write to the mailbox schedules the bottom half.
SendToSep(m) == sepq' = [sepq EXCEPT !.iop = Append(@, m), !.bh = TRUE]

StartSepDriver ==
  /\ sdrv.step = 0
  /\ \E t \in BOOLEAN : sdrv' = [sdrv EXCEPT !.step = 1, !.rsep = t]
  /\ UNCHANGED <<sep, sepq, sruns>>

\* The endpoints are used after all of them were advertised.
BootStep ==
  /\ sdrv.step \in 1..(Up - 1) /\ ~sdrv.waiting
  /\ sdrv.step > 5 => sdrv.found = SepEps
  /\ SendToSep(BootSteps[sdrv.step][1])
  /\ sdrv' = IF BootSteps[sdrv.step][2] = "" THEN [sdrv EXCEPT !.step = @ + 1]
             ELSE [sdrv EXCEPT !.waiting = TRUE]
  /\ UNCHANGED <<sep, sruns>>

\* A client sends its request, a keystore client after it has filled the buffer.
SepRequest(ep, op) ==
  /\ sdrv.step = Up /\ sdrv.open[ep] = "no" /\ sruns.requests < MaxSepRequests
  /\ SendToSep(Msg(ep, op, sruns.requests + 10, 0))
  /\ sdrv' = [sdrv EXCEPT !.open[ep] = op]
  /\ sep' = IF ep = "sks" THEN [sep EXCEPT !.mem[OolBuf("sks", "in")] = <<"req", sruns.requests>>] ELSE sep
  /\ sruns' = [sruns EXCEPT !.requests = @ + 1]

\* The driver takes the oldest message of its inbox; ART_STORAGE is answered.
TakeFromSep ==
  LET m == Head(sepq.ap)
  IN /\ sdrv.step > 0 /\ sepq.ap # <<>>
     /\ sepq' = IF m.ep = "arts"
                THEN [iop |-> Append(sepq.iop, Msg("arts", "received", 0, 0)), ap |-> Tail(sepq.ap), bh |-> TRUE]
                ELSE [sepq EXCEPT !.ap = Tail(@)]
     /\ sdrv' = IF sdrv.waiting /\ m.op = BootSteps[sdrv.step][2] THEN [sdrv EXCEPT !.step = @ + 1, !.waiting = FALSE]
                ELSE IF m.op = "ool" THEN [sdrv EXCEPT !.found = @ \union {m.data}]
                ELSE IF sdrv.step = Up /\ m.ep \in SepEps \ {"arts"} /\ m.op # "notify_alive" THEN [sdrv EXCEPT !.open[m.ep] = "no"]
                ELSE sdrv
     /\ UNCHANGED <<sep, sruns>>

-----------------------------------------------------------------------------

SepInit ==
  /\ sep = [status |-> "bootstrap", rsep |-> FALSE, in |-> [e \in SepEps |-> NoBuf],
            out |-> [e \in SepEps |-> NoBuf], mem |-> [b \in Buffers |-> NoContent],
            wrote |-> {}, to |-> <<>>, aborted |-> FALSE]
  /\ sepq = [iop |-> <<>>, ap |-> <<Announce>>, bh |-> FALSE]
  /\ sdrv = SepDriverOff
  /\ sruns = [requests |-> 0, resets |-> 0]

SepDriverStep == StartSepDriver \/ BootStep \/ TakeFromSep

SepNext ==
  /\ ~sep.aborted
  /\ \/ RunSepBh \/ SepDriverStep \/ SepMachineReset
     \/ \E op \in {"known", "unknown", "kc_wrap"} : SepRequest("sks", op)
     \/ \E op \in {"erase_install", "get_security_mode", "set_ool_size"} : SepRequest("cntl", op)
     \/ SepRequest("xarm", "commit_hash")

SepFairSpec ==
  /\ SepInit /\ [][SepNext]_sepvars
  /\ WF_sepvars(~sep.aborted /\ RunSepBh) /\ WF_sepvars(~sep.aborted /\ SepDriverStep)

-----------------------------------------------------------------------------

\* What the SEP writes to guest memory is for the kernel that runs: it lands in
\* buffers of this boot, and a keystore answer on its way to the AP lies in the
\* keystore's buffer and answers the one request that is under way, though the
\* SEP remembers the buffers of the kernel before a reset (apple_sep_sim_bh,
\* apple_sep_sim_reset_hold, apple_sep_sim_handle_keystore_msg).
SepDmaExact ==
  /\ \A b \in sep.wrote : b \in Buffers /\ b[3] = sruns.resets
  /\ \A m \in ToSet(sepq.ap) : m.ep = "sks" =>
       /\ sdrv.open["sks"] # "no"
       /\ m.data = 1 => sep.mem[OolBuf("sks", "out")] =
            <<IF sdrv.open["sks"] = "known" THEN "resp" ELSE "req", sep.mem[OolBuf("sks", "in")][2]>>

\* The SEP comes up and every request is answered, or the machine is reset: no
\* message is left in the inbox without a bottom half (apple_sep_sim_bh), and
\* the assertion on the firmware type never fires.
SepAnswers ==
  (sdrv.step # 0) ~>
    (~sep.aborted /\ (sdrv.step = 0 \/ (sdrv.step = Up /\ \A e \in DOMAIN sdrv.open : sdrv.open[e] = "no")))
=============================================================================
