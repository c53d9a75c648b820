------------------------------- MODULE RTKit -------------------------------
(***************************************************************************)
(* The RTKit management endpoint (hw/misc/apple-silicon/a7iop/rtkit.c) on  *)
(* top of the mailbox pair: start and wake-up of the coprocessor, hello,   *)
(* rollcall, power requests, the bottom half that empties the inbox, and   *)
(* one user endpoint, the key endpoint of the SMC (smc.c).                 *)
(*                                                                         *)
(* The AP's driver is outside the repository: it is modelled from what the *)
(* handlers expect of it, acknowledges what it is sent, and is driven by   *)
(* the "AP inbox not empty" interrupt line.                                *)
(***************************************************************************)
EXTENDS A7IOPMailboxOps, FiniteSets, TLC

CONSTANTS
  Devices,         \* the coprocessors that may be built: a role, "SMC" or "other" for one
                   \* that CPU_CTRL starts, a protocol version and the endpoints registered
  EpUserStart,     \* EP_USER_START (32): endpoints per rollcall block
  MaxSent,         \* bound: optional messages of the driver per power-up
  MaxSleeps,       \* bound: sleeps of the coprocessor between two resets
  MaxNotices,      \* bound: button events between two resets
  MaxResets        \* bound: resets of the system, by the coprocessor's role

ASSUME RTKitAssumption ==
  /\ \A d \in Devices : /\ d.role \in {"SMC", "other"} /\ d.version \in {10, 11, 12}
                         /\ {0, 1} \subseteq d.endpoints /\ d.endpoints \subseteq Nat
  /\ EpUserStart \in Nat \ {0, 1}
  /\ {MaxSent, MaxSleeps, MaxNotices, MaxResets.SMC, MaxResets.other} \subseteq Nat
  /\ ~SepRole

VARIABLES
  mb,         \* the mailbox pair
  bh,         \* the bottom half of the iop mailbox: idle, scheduled or running
  dev,        \* the coprocessor
  rtk,        \* ep0_status, rollcall queue, CPU_STATUS_IDLE, is_booted, aborted
  ap          \* the driver: phase, what the last rollcall announced, histories

vars == <<mb, bh, dev, rtk, ap>>

EP_MANAGEMENT == 0
EP_CRASHLOG == 1

\* A message on an endpoint.  A rollcall names endpoints by a mask within a block;
\* `val' is the power state, the ping's sequence number or the key request's tag.
Message(ep, type, val) ==
  [ep |-> ep, type |-> type, val |-> val, mask |-> {}, block |-> 0, end |-> FALSE]
Mgmt(type, val) == Message(EP_MANAGEMENT, type, val)

\* Power states of a request; the acknowledgement that ends a boot has its own.
PSTATE_SLPNOMEM == 0
PSTATE_PWRGATE == 514
PSTATE_ON == 544
BootState == 32

-----------------------------------------------------------------------------
(* Rollcall.                                                               *)

\* What a rollcall message tells the driver.
Named(m) == {m.block * EpUserStart + b : b \in m.mask}

rollcall_v10(eps) ==
  << [Mgmt("rollcall", 0) EXCEPT !.mask = eps] >>

\* The tree is walked in the order of the endpoints' numbers.  A message is queued
\* when the walk enters another block, and a last one when it is over.
RollcallBlock(mask, block, end) ==
  [Mgmt("rollcall", 0) EXCEPT !.mask = mask, !.block = block, !.end = end]

\* Fault: the mask is not cleared when a block is queued.
rollcall_v11_foreach_KeepsMask(d, ep) ==
  LET flush == ep \div EpUserStart # d.last_block /\ d.mask # {}
  IN  [queue |-> IF flush THEN Append(d.queue, RollcallBlock(d.mask, d.last_block, FALSE))
                 ELSE d.queue,
       mask |-> d.mask \cup {ep % EpUserStart},
       last_block |-> ep \div EpUserStart]

rollcall_v11_foreach(d, ep) ==
  LET flush == ep \div EpUserStart # d.last_block /\ d.mask # {}
  IN  [queue |-> IF flush THEN Append(d.queue, RollcallBlock(d.mask, d.last_block, FALSE))
                 ELSE d.queue,
       mask |-> (IF flush THEN {} ELSE d.mask) \cup {ep % EpUserStart},
       last_block |-> ep \div EpUserStart]

Ascending(S) ==
  [i \in 1 .. Cardinality(S) |-> CHOOSE x \in S : Cardinality({y \in S : y < x}) = i - 1]

rollcall_v11(eps) ==
  LET order == Ascending(eps)
      walk[i \in 0 .. Len(order)] ==
        IF i = 0 THEN [queue |-> <<>>, mask |-> {}, last_block |-> 0]
        ELSE LET d == walk[i - 1] IN rollcall_v11_foreach(d, order[i])
      d == walk[Len(order)]
  IN  Append(d.queue, RollcallBlock(d.mask, d.last_block, TRUE))

RollcallOf ==
  [d \in Devices |-> IF d.version <= 10 THEN rollcall_v10(d.endpoints)
                     ELSE rollcall_v11(d.endpoints)]

-----------------------------------------------------------------------------
(* The handlers, on a state S = [mb |-> ..., rtk |-> ...].                  *)

\* apple_a7iop_send_ap goes through the "iop" bank.
SendMsg(S, m) == [S EXCEPT !.mb = Send(@, "iop", "ap", m)]

Abort(S) == [S EXCEPT !.rtk.aborted = TRUE]

mgmt_send_hello(S) ==
  SendMsg([S EXCEPT !.rtk.ep0 = "wait_hello"], Mgmt("hello", dev.version))

iop_start(S) ==
  LET T == [S EXCEPT !.rtk.idle = FALSE]
  IN  IF dev.version >= 11 THEN mgmt_send_hello(T) ELSE T

\* Fault: no role says hello when it is woken up.
iop_wakeup_Silent(S) == [S EXCEPT !.rtk.idle = FALSE]

iop_wakeup(S) ==
  LET T == [S EXCEPT !.rtk.idle = FALSE]
  IN  IF dev.role = "SMC" THEN mgmt_send_hello(T) ELSE T

HandleHelloAck(S) ==
  LET queue == RollcallOf[dev]
  IN  IF S.rtk.ep0 # "wait_hello" THEN Abort(S)
      ELSE SendMsg([S EXCEPT !.rtk.ep0 = "wait_rollcall",
                             !.rtk.rollcall = IF dev.version <= 10 THEN @ ELSE Tail(queue)],
                   Head(queue))

HandleReqPower(S, m) ==
  IF S.rtk.ep0 # "idle" THEN Abort(S)
  ELSE IF m.val = PSTATE_ON THEN iop_wakeup(S)
  ELSE IF m.val = PSTATE_SLPNOMEM
  THEN SendMsg([S EXCEPT !.rtk.idle = TRUE], Mgmt("power_ack", m.val))
  ELSE S

\* Fault: the status is not set back when the rollcall is over.
HandleRollcall_NotIdle(S) ==
  IF S.rtk.ep0 # "wait_rollcall" THEN Abort(S)
  ELSE IF S.rtk.rollcall = <<>>
  THEN [SendMsg(S, Mgmt("power_ack", BootState)) EXCEPT !.rtk.is_booted = TRUE]
  ELSE SendMsg([S EXCEPT !.rtk.rollcall = Tail(@)], Head(S.rtk.rollcall))

HandleRollcall(S) ==
  IF S.rtk.ep0 # "wait_rollcall" THEN Abort(S)
  ELSE IF S.rtk.rollcall = <<>>
  THEN LET T == SendMsg([S EXCEPT !.rtk.ep0 = "idle"], Mgmt("power_ack", BootState))
       IN  [T EXCEPT !.rtk.is_booted = TRUE]
  ELSE SendMsg([S EXCEPT !.rtk.rollcall = Tail(@)], Head(S.rtk.rollcall))

handle_mgmt_msg(S, m) ==
  CASE m.type = "hello_ack"     -> HandleHelloAck(S)
    [] m.type = "ping"          -> SendMsg(S, Mgmt("ping_ack", m.val))
    [] m.type = "ap_power"      -> SendMsg(S, Mgmt("ap_power", m.val))
    [] m.type = "req_power"     -> HandleReqPower(S, m)
    [] m.type = "rollcall"      -> HandleRollcall(S)
    [] OTHER                    -> S

\* Fault: a command is answered with the tag of the one after it.
handle_key_endpoint_WrongTag(S, m) == SendMsg(S, Message(m.ep, "response", m.val + 1))

\* apple_smc_handle_key_endpoint answers every command once, with its tag.
handle_key_endpoint(S, m) == SendMsg(S, Message(m.ep, "response", m.val))

-----------------------------------------------------------------------------
Down == [ep0 |-> "idle", rollcall |-> <<>>, idle |-> FALSE,
         is_booted |-> FALSE, aborted |-> FALSE]

DriverOff ==
  [phase |-> "off", announced |-> <<>>, booted |-> FALSE, sent |-> 0, sleeps |-> 0,
   notices |-> 0, requests |-> <<>>, responses |-> <<>>]

Init ==
  /\ mb = InitPair
  /\ bh = "idle"
  /\ dev \in Devices
  /\ rtk = Down
  /\ ap = [resets |-> 0] @@ DriverOff

\* The machine is gone once an assertion has failed.  The big lock is held while
\* the bottom half runs: nothing else takes a step.
Running == ~rtk.aborted /\ bh # "running"

StartBh ==
  /\ Running /\ bh = "scheduled"
  /\ bh' = "running"
  /\ UNCHANGED <<mb, dev, rtk, ap>>

\* One turn of the loop of apple_rtkit_bh.  Nothing is looked up for an endpoint
\* that is not registered, and the crash log has no handler.
HandleOne(S, m) ==
  IF ~CanRecv(mb, "ap", "iop") THEN Abort(S)
  ELSE IF m.ep = EP_MANAGEMENT THEN handle_mgmt_msg(S, m)
  ELSE IF m.ep \in dev.endpoints \ {EP_CRASHLOG} THEN handle_key_endpoint(S, m)
  ELSE S

RunBh ==
  /\ ~rtk.aborted /\ bh = "running"
  /\ IF is_empty(mb, "iop") THEN bh' = "idle" /\ UNCHANGED <<mb, rtk>>
     ELSE /\ \E T \in {HandleOne([mb |-> Recv(mb, "ap", "iop"), rtk |-> rtk],
                               Head(mb["iop"].inbox))} : mb' = T.mb /\ rtk' = T.rtk
          /\ UNCHANGED bh
  /\ UNCHANGED <<dev, ap>>

\* A button event (apple_smc_send_hid_button) is a notification if the SMC is booted.
HidButton ==
  /\ Running /\ dev.role = "SMC" /\ ap.notices < MaxNotices
  /\ mb' = IF rtk.is_booted THEN Send(mb, "iop", "ap", Message(EpUserStart, "notice", 0))
           ELSE mb
  /\ ap' = [ap EXCEPT !.notices = @ + 1]
  /\ UNCHANGED <<bh, dev, rtk>>

\* apple_rtkit_reset_hold, and apple_smc_reset_hold, which calls the hold phase of
\* RTKit's parent, not RTKit's own.
ResetRtk(r) ==
  [r EXCEPT !.ep0 = IF dev.role = "SMC" THEN @ ELSE "idle",
            !.rollcall = IF dev.role = "SMC" THEN @ ELSE <<>>,
            !.idle = FALSE, !.is_booted = FALSE]

\* Reset of the machine, the driver's CPU included.  A scheduled bottom half stays so.
Reset ==
  /\ Running /\ ap.resets < MaxResets[dev.role]
  /\ mb' = system_reset(mb)
  /\ rtk' = ResetRtk(rtk)
  /\ ap' = [resets |-> ap.resets + 1] @@ DriverOff
  /\ UNCHANGED <<bh, dev>>

-----------------------------------------------------------------------------
(* The AP's driver (external).                                             *)

ToIop(m) == mb' = Send(mb, "ap", "iop", m) /\ bh' = "scheduled"

\* An SMC is running when the machine starts and is woken up; others are started
\* by the RUN bit of CPU_CTRL (apple_a7iop_set_cpu_ctrl).
ApStart ==
  /\ Running /\ ap.phase = "off"
  /\ ap' = [ap EXCEPT !.phase = "starting"]
  /\ IF dev.role = "SMC"
     THEN ToIop(Mgmt("req_power", PSTATE_ON)) /\ UNCHANGED <<dev, rtk>>
     ELSE LET S == iop_start([mb |-> mb, rtk |-> rtk])
          IN  mb' = S.mb /\ rtk' = S.rtk /\ UNCHANGED <<bh, dev>>

\* What the driver does with the next message: its new state and its answer.
ApState(m) ==
  CASE m.type = "hello"     -> [ap EXCEPT !.phase = "rollcall", !.announced = <<>>]
    [] m.type = "rollcall"  -> [ap EXCEPT !.announced = Append(@, m)]
    [] m.type = "power_ack" -> [ap EXCEPT !.phase = IF m.val = BootState THEN "up" ELSE "asleep",
                                          !.booted = TRUE, !.sent = 0]
    [] m.type = "response"  -> [ap EXCEPT !.responses = Append(@, m.val)]
    [] OTHER                -> ap

ApAnswer(m) ==
  CASE m.type = "hello"    -> <<Mgmt("hello_ack", 0)>>
    [] m.type = "rollcall" -> <<Mgmt("rollcall", 0)>>
    [] OTHER               -> <<>>

\* The interrupt handler reads one message and answers it.
ApRead ==
  /\ Running /\ "ap_nonempty" \in mb["ap"].irqs /\ CanRecv(mb, "ap", "ap")
  /\ LET m == Head(mb["ap"].inbox)
         M == Recv(mb, "ap", "ap")
     IN  /\ ap' = ApState(m)
         /\ IF ApAnswer(m) = <<>> THEN mb' = M /\ UNCHANGED bh
            ELSE mb' = Send(M, "ap", "iop", Head(ApAnswer(m))) /\ bh' = "scheduled"
  /\ UNCHANGED <<dev, rtk>>

ApOptional(m) ==
  /\ Running /\ ap.phase = "up" /\ ap.sent < MaxSent
  /\ ToIop(m)
  /\ ap' = [ap EXCEPT !.sent = @ + 1,
                      !.requests = IF m.type = "command" THEN Append(@, m.val) ELSE @]
  /\ UNCHANGED <<dev, rtk>>

OptionalMsgs ==
  {Mgmt("ping", ap.sent), Mgmt("ap_power", PSTATE_ON), Mgmt("set_ep_status", 2),
   Mgmt("req_power", PSTATE_PWRGATE)} \cup
  {Message(ep, "command", Len(ap.requests)) : ep \in dev.endpoints \ {EP_MANAGEMENT, EP_CRASHLOG}}

ApSleep ==
  /\ Running /\ ap.phase = "up" /\ ap.sleeps < MaxSleeps
  /\ ToIop(Mgmt("req_power", PSTATE_SLPNOMEM))
  /\ ap' = [ap EXCEPT !.phase = "sleeping", !.sleeps = @ + 1]
  /\ UNCHANGED <<dev, rtk>>

\* Only the SMC answers a wake-up, with a hello.
ApWake ==
  /\ Running /\ ap.phase = "asleep"
  /\ ToIop(Mgmt("req_power", PSTATE_ON))
  /\ ap' = [ap EXCEPT !.phase = IF dev.role = "SMC" THEN "starting" ELSE "up"]
  /\ UNCHANGED <<dev, rtk>>

-----------------------------------------------------------------------------
Next ==
  \/ StartBh
  \/ RunBh
  \/ HidButton
  \/ Reset
  \/ ApStart
  \/ ApRead
  \/ \E m \in OptionalMsgs : ApOptional(m)
  \/ ApSleep
  \/ ApWake

Spec == Init /\ [][Next]_vars

\* The main loop runs a scheduled bottom half; the AP takes an interrupt that is
\* raised.  Nothing makes the driver ping, sleep or reset.
Fairness == WF_vars(StartBh) /\ WF_vars(RunBh) /\ WF_vars(ApRead)
FairSpec == Spec /\ Fairness

-----------------------------------------------------------------------------
(* Properties.                                                             *)

\* None of the assertions of apple_rtkit_handle_mgmt_msg on ep0_status fails, and
\* apple_rtkit_bh never receives a null message, with a driver that follows the
\* protocol: however its messages, the bottom half and resets interleave.
NoAbort == ~rtk.aborted

\* When the driver is up it was told of every registered endpoint once, in
\* ascending blocks, and only the last message (version 11 on) ended the rollcall.
RollcallComplete ==
  ap.phase = "up" =>
    /\ dev.endpoints = UNION {Named(ap.announced[i]) : i \in DOMAIN ap.announced}
    /\ \A i, j \in DOMAIN ap.announced : i < j =>
         /\ ap.announced[i].block < ap.announced[j].block
         /\ ~ap.announced[i].end
    /\ dev.version >= 11 => ap.announced[Len(ap.announced)].end

Vals(q, type) ==
  LET sel == SelectSeq(q, LAMBDA m : m.type = type) IN [i \in DOMAIN sel |-> sel[i].val]

\* Key requests are answered once each and in order: the responses the driver read,
\* those in its inbox and the requests not yet handled make up what it asked.
ResponsesInOrder ==
  ~rtk.aborted =>
    ap.responses \o Vals(mb["ap"].inbox, "response") \o Vals(mb["iop"].inbox, "command")
      = ap.requests

\* Once started, or woken up, the coprocessor comes up, or the machine is reset.
BootCompletes == ap.phase \in {"starting", "rollcall"} ~> ap.phase \in {"up", "off"}
=============================================================================
