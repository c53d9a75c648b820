----------------------------- MODULE SPMIProofs -----------------------------
(***************************************************************************)
(* Proofs about the SPMI controller and its bus (hw/spmi/apple_spmi.c,     *)
(* hw/spmi/core.c), for every number of registers, length of a request and *)
(* number of requests: the controller and the driver never disagree about  *)
(* which word of the request queue is a command and which is data, and the *)
(* answer queue holds exactly what the driver expects.                     *)
(*                                                                         *)
(* The invariant adds what the answers are computed from: the registers of *)
(* the slave hold what the driver wrote, and while the driver supplies the *)
(* words of a write the slave stands at the address of that write.         *)
(***************************************************************************)
EXTENDS SPMI, TLAPS

\* A request in the hands of the driver or the controller.
Owed == [len : 1 .. MaxLen, words : Seq(Vals), cmd : Commands]

\* A word of the answer queue.
Answer == [word : {"header"}, op : {"read", "write", "other"}, ack : BOOLEAN]
            \cup [word : {"data"}, val : Vals]

\* The fields of the controller and of the driver.
CtlShape(c) ==
  c = [data |-> c.data, resp |-> c.resp, status |-> c.status, enab |-> c.enab, irq |-> c.irq]
DrvShape(d) ==
  d = [owes |-> d.owes, expects |-> d.expects, mem |-> d.mem, waiting |-> d.waiting,
       handler |-> d.handler]

SPMITypeOK ==
  /\ CtlShape(ctl) /\ DrvShape(drv)
  /\ drv.owes \in Owed \cup {NoData} /\ drv.expects \in Seq(Answer)
  /\ drv.mem \in [Sids -> [0 .. Regs - 1 -> Vals]]
  /\ Slaves \subseteq Sids
  /\ dev \in [Slaves -> [addr : Nat, reg : [0 .. Regs - 1 -> Vals]]]
  /\ current_dev \in Slaves \cup {NoDev}

\* The slave's registers hold what the driver wrote; while it supplies the words of a
\* write, the slave it names is selected and stands at the address of the write.
SlaveHolds ==
  /\ \A s \in Slaves : dev[s].reg = drv.mem[s]
  /\ drv.owes # NoData =>
       LET c == drv.owes.cmd
       IN  /\ c.op = "write" /\ Fits(c) /\ drv.owes.len = c.len /\ Len(drv.owes.words) < c.len
           /\ c.sid \in Slaves => current_dev = c.sid /\ dev[c.sid].addr = c.addr
           /\ c.sid \notin Slaves => current_dev = NoDev

SPMIInv == SPMITypeOK /\ SlaveHolds /\ Framed

-----------------------------------------------------------------------------
\* Between c and d only the interrupt state differs: the queues are the same.
Keeps(c, d) == CtlShape(c) /\ c.data = d.data /\ c.resp = d.resp

\* apple_spmi_update_irq changes the line alone.
LEMMA IrqKeeps == ASSUME NEW c, CtlShape(c) PROVE Keeps(UpdateIrq(c), c)
  BY DEF CtlShape, Keeps, UpdateIrq

\* Raising or lowering an interrupt bit leaves the queues alone.
LEMMA SetIrqKeeps ==
  ASSUME NEW c, CtlShape(c), NEW i, NEW level
  PROVE  Keeps(SetIrq(c, i, level), c)
  <1> DEFINE d == [c EXCEPT !.status = IF level THEN @ \cup {i} ELSE @ \ {i}]
  <1>1. Keeps(d, c) BY DEF CtlShape, Keeps
  <1>2. SetIrq(c, i, level) = UpdateIrq(d) BY DEF SetIrq
  <1> HIDE DEF d
  <1>3. Keeps(UpdateIrq(d), d) BY <1>1, IrqKeeps DEF Keeps
  <1> QED BY <1>1, <1>2, <1>3 DEF Keeps

\* apple_spmi_update_queues_status leaves the queues alone.
LEMMA QueuesKeep == ASSUME NEW c, CtlShape(c) PROVE Keeps(UpdateQueues(c), c)
  BY SetIrqKeeps DEF UpdateQueues

\* The end of a request leaves the queues alone.
LEMMA FinishedKeeps == ASSUME NEW c, CtlShape(c), NEW final PROVE Keeps(Finished(c, final), c)
  <1>1. CASE final
    <2>1. Keeps(UpdateQueues(c), c) BY QueuesKeep
    <2>2. Keeps(UpdateIrq(UpdateQueues(c)), UpdateQueues(c)) BY <2>1, IrqKeeps DEF Keeps
    <2> QED BY <1>1, <2>1, <2>2 DEF Finished, Keeps
  <1>2. CASE ~final BY <1>2 DEF Finished, Keeps
  <1> QED BY <1>1, <1>2

\* Sequences of answers.
LEMMA SeqLemma ==
  ASSUME NEW S
  PROVE  /\ \A e \in S : <<e>> \in Seq(S)
         /\ \A n \in Nat : \A f \in [1 .. n -> S] : f \in Seq(S)
  <1>1. \A e \in S : <<e>> \in Seq(S) OBVIOUS
  <1>2. \A n \in Nat : \A f \in [1 .. n -> S] : f \in Seq(S) OBVIOUS
  <1> QED BY <1>1, <1>2

\* Three pieces of the queue may be put together in either order.
Associates(x, y, z) == x \o (y \o z) = (x \o y) \o z

\* Answers are appended to the queue one by one, or header and data at once: the same.
LEMMA ConcatAssoc ==
  ASSUME NEW S, NEW x \in Seq(S), NEW y \in Seq(S), NEW z \in Seq(S)
  PROVE  Associates(x, y, z)
  BY DEF Associates

\* Steps that leave the slaves and the words owed alone.
LEMMA QuietStep ==
  ASSUME SPMIInv, UNCHANGED <<current_dev, dev>>, CtlShape(ctl'), DrvShape(drv'),
         drv'.mem = drv.mem, ctl'.data = drv'.owes, drv'.owes \in {drv.owes, NoData},
         ctl'.resp = drv'.expects, drv'.expects \in Seq(Answer)
  PROVE  SPMIInv'
  <1>1. Slaves' = Slaves BY DEF Slaves
  <1>2. SPMITypeOK' BY <1>1 DEF SPMIInv, SPMITypeOK
  <1>3. SlaveHolds' BY <1>1 DEF SPMIInv, SlaveHolds, Fits
  <1> QED BY <1>2, <1>3 DEF SPMIInv, Framed

\* Init: empty queues, and registers that hold zero, as the driver knows.
LEMMA SPMIInitInv == Init => SPMIInv
  <1> SUFFICES ASSUME Init PROVE SPMIInv OBVIOUS
  <1>1. PICK S \in Buses : dev = [s \in S |-> [addr |-> 0, reg |-> [a \in 0 .. Regs - 1 |-> 0]]]
    BY DEF Init
  <1>2. Slaves = S /\ S \subseteq Sids BY <1>1, SPMIAssumption DEF Slaves
  <1>3. drv = NoDriver /\ ctl = NoCtl /\ current_dev = NoDev BY DEF Init
  <1>4. CtlShape(ctl) /\ DrvShape(drv) BY <1>3 DEF CtlShape, DrvShape, NoCtl, NoDriver
  <1>5. /\ drv.owes = NoData /\ ctl.data = NoData /\ drv.expects = <<>> /\ ctl.resp = <<>>
        /\ drv.mem = [s \in Sids |-> [a \in 0 .. Regs - 1 |-> 0]]
    BY <1>3 DEF NoCtl, NoDriver
  <1>6. SPMITypeOK
    <2>1. drv.mem \in [Sids -> [0 .. Regs - 1 -> Vals]] BY <1>5 DEF Vals
    <2>2. dev \in [Slaves -> [addr : Nat, reg : [0 .. Regs - 1 -> Vals]]] BY <1>1, <1>2 DEF Vals
    <2> QED BY <1>2, <1>3, <1>4, <1>5, <2>1, <2>2 DEF SPMITypeOK
  <1>7. SlaveHolds BY <1>1, <1>2, <1>5 DEF SlaveHolds
  <1> QED BY <1>5, <1>6, <1>7 DEF SPMIInv, Framed

\* The interrupt handler, the slave's interrupt and the discarding of answers: each pop takes
\* the word that the driver expects next.
LEMMA HandlerStep ==
  ASSUME SPMIInv, Boot \/ HandleIrq \/ HandlePop \/ HandleReturn \/ SlaveStep \/ DropAnswers
  PROVE  SPMIInv'
  <1>t. CtlShape(ctl) /\ DrvShape(drv) BY DEF SPMIInv, SPMITypeOK
  <1>f. ctl.resp = drv.expects /\ ctl.data = drv.owes /\ drv.expects \in Seq(Answer)
    BY DEF SPMIInv, SPMITypeOK, Framed
  <1>1. CASE Boot
    <2> DEFINE c == [ctl EXCEPT !.enab = Irqs]
    <2>1. Keeps(c, ctl) BY <1>t DEF Keeps, CtlShape
    <2>2. ctl' = UpdateIrq(c) /\ UNCHANGED <<current_dev, dev, drv>> BY <1>1 DEF Boot, Enable
    <2> HIDE DEF c
    <2>3. Keeps(ctl', c) BY <2>1, <2>2, IrqKeeps DEF Keeps
    <2>4. CtlShape(ctl') /\ ctl'.data = ctl.data /\ ctl'.resp = ctl.resp BY <2>1, <2>3 DEF Keeps
    <2> QED BY <1>t, <1>f, <2>2, <2>4, QuietStep
  <1>2. CASE HandleIrq
    <2> DEFINE c == [ctl EXCEPT !.status = @ \ ctl.status]
    <2>1. Keeps(c, ctl) BY <1>t DEF Keeps, CtlShape
    <2>2. ctl' = UpdateIrq(c) /\ UNCHANGED <<current_dev, dev>>
      BY <1>2 DEF HandleIrq, ClearStatus
    <2> HIDE DEF c
    <2>3. Keeps(ctl', c) BY <2>1, <2>2, IrqKeeps DEF Keeps
    <2>4. CtlShape(ctl') /\ ctl'.data = ctl.data /\ ctl'.resp = ctl.resp BY <2>1, <2>3 DEF Keeps
    <2>5. /\ DrvShape(drv') /\ drv'.mem = drv.mem /\ drv'.owes = drv.owes
          /\ drv'.expects = drv.expects
      BY <1>t, <1>2 DEF HandleIrq, DrvShape
    <2> QED BY <1>f, <2>2, <2>4, <2>5, QuietStep
  <1>3. CASE HandlePop
    <2> DEFINE c == [ctl EXCEPT !.resp = Tail(@)]
    <2>0. ctl.resp # <<>> BY <1>3 DEF HandlePop, PopResponse
    <2>1. CtlShape(c) /\ c.data = ctl.data /\ c.resp = Tail(ctl.resp)
      <3> DEFINE r == Tail(ctl.resp)
      <3> HIDE DEF r
      <3>1. c = [ctl EXCEPT !.resp = r] BY DEF r
      <3> HIDE DEF c
      <3>2. CtlShape(c) /\ c.data = ctl.data /\ c.resp = r BY <1>t, <3>1 DEF CtlShape
      <3> QED BY <3>2 DEF r
    <2>2. ctl' = UpdateQueues(c) /\ UNCHANGED <<current_dev, dev>>
      BY <1>3 DEF HandlePop, PopResponse
    <2> HIDE DEF c
    <2>3. Keeps(ctl', c) BY <2>1, <2>2, QueuesKeep
    <2>4. CtlShape(ctl') /\ ctl'.data = ctl.data /\ ctl'.resp = Tail(ctl.resp)
      BY <2>1, <2>3 DEF Keeps
    <2>5. /\ DrvShape(drv') /\ drv'.mem = drv.mem /\ drv'.owes = drv.owes
          /\ drv'.expects = Tail(drv.expects)
      <3> DEFINE r == Tail(drv.expects)
      <3> HIDE DEF r
      <3>1. drv' = [drv EXCEPT !.expects = r] BY <1>3 DEF HandlePop, r
      <3>2. /\ DrvShape(drv') /\ drv'.mem = drv.mem /\ drv'.owes = drv.owes
            /\ drv'.expects = r
        BY <1>t, <3>1 DEF DrvShape
      <3> QED BY <3>2 DEF r
    <2>6. Tail(drv.expects) \in Seq(Answer) BY <1>f, <2>0
    <2> QED BY <1>f, <2>2, <2>4, <2>5, <2>6, QuietStep
  <1>4. CASE HandleReturn
    <2>1. /\ DrvShape(drv') /\ drv'.mem = drv.mem /\ drv'.owes = drv.owes
          /\ drv'.expects = drv.expects
      BY <1>t, <1>4 DEF HandleReturn, DrvShape
    <2>2. UNCHANGED <<ctl, current_dev, dev>> BY <1>4 DEF HandleReturn
    <2> QED BY <1>t, <1>f, <2>1, <2>2, QuietStep
  <1>5. CASE SlaveStep
    <2>1. PICK level \in BOOLEAN : ctl' = SetIrq(ctl, "slave", level)
      BY <1>5 DEF SlaveStep, SlaveIrq
    <2>2. UNCHANGED <<current_dev, dev, drv>> BY <1>5 DEF SlaveStep, SlaveIrq
    <2>3. Keeps(ctl', ctl) BY <1>t, <2>1, SetIrqKeeps
    <2> QED BY <1>t, <1>f, <2>2, <2>3, QuietStep DEF Keeps
  <1>6. CASE DropAnswers
    <2> DEFINE c == [ctl EXCEPT !.resp = <<>>]
    <2>1. CtlShape(c) /\ c.data = ctl.data /\ c.resp = <<>> BY <1>t DEF CtlShape
    <2>2. ctl' = UpdateQueues(c) /\ UNCHANGED <<current_dev, dev>>
      BY <1>6 DEF DropAnswers, ResetQueues
    <2> HIDE DEF c
    <2>3. Keeps(ctl', c) BY <2>1, <2>2, QueuesKeep
    <2>4. CtlShape(ctl') /\ ctl'.data = ctl.data /\ ctl'.resp = <<>> BY <2>1, <2>3 DEF Keeps
    <2>5. /\ DrvShape(drv') /\ drv'.mem = drv.mem /\ drv'.owes = drv.owes
          /\ drv'.expects = <<>>
      BY <1>t, <1>6 DEF DropAnswers, DrvShape
    <2> QED BY <1>f, <2>2, <2>4, <2>5, QuietStep
  <1> QED BY <1>1, <1>2, <1>3, <1>4, <1>5, <1>6

\* A reset forgets the request in progress on both sides; the slave keeps its registers.
LEMMA RestartStep == ASSUME SPMIInv, Restart PROVE SPMIInv'
  <1>1. CtlShape(NoCtl) /\ NoCtl.data = NoData /\ NoCtl.resp = <<>> BY DEF CtlShape, NoCtl
  <1>2. Keeps(UpdateQueues(NoCtl), NoCtl) BY <1>1, QueuesKeep
  <1>3. Keeps(UpdateIrq(UpdateQueues(NoCtl)), UpdateQueues(NoCtl)) BY <1>2, IrqKeeps DEF Keeps
  <1>4. ctl' = UpdateIrq(UpdateQueues(NoCtl)) /\ UNCHANGED <<current_dev, dev>>
    BY DEF Restart, ResetCtl
  <1>5. CtlShape(ctl') /\ ctl'.data = NoData /\ ctl'.resp = <<>>
    BY <1>1, <1>2, <1>3, <1>4 DEF Keeps
  <1>6. DrvShape(drv') /\ drv'.mem = drv.mem /\ drv'.owes = NoData /\ drv'.expects = <<>>
    BY DEF Restart, DrvShape, NoDriver
  <1> QED BY <1>4, <1>5, <1>6, QuietStep

\* The driver names one id only: the machines put one device, the PMU, on a bus.  With
\* several, spmi_start_transfer would keep the device of the first request.
OneId == \A s, t \in Sids : s = t

\* The device that a request selects is the one it names, or none.
LEMMA SelectedIs ==
  ASSUME OneId, SPMITypeOK, NEW sid \in Sids
  PROVE  /\ sid \in Slaves => Selected(sid) = sid
         /\ sid \notin Slaves => Selected(sid) = NoDev /\ current_dev = NoDev
         /\ NoDev \notin Slaves
  <1>1. NoDev \notin Sids BY SPMIAssumption DEF NoDev
  <1>2. Slaves \subseteq Sids /\ current_dev \in Slaves \cup {NoDev} BY DEF SPMITypeOK
  <1>3. NoDev \notin Slaves BY <1>1, <1>2
  <1>4. current_dev # NoDev => current_dev = sid /\ sid \in Slaves BY <1>2 DEF OneId
  <1> QED BY <1>3, <1>4 DEF Selected

\* SPMI_REQ_QUEUE_PUSH of a request.
LEMMA RequestStep == ASSUME OneId, SPMIInv, NEW c \in Commands, Request(c) PROVE SPMIInv'
  <1>t. SPMITypeOK /\ SlaveHolds BY DEF SPMIInv
  <1>s. CtlShape(ctl) /\ DrvShape(drv) BY <1>t DEF SPMITypeOK
  <1>f. ctl.resp = drv.expects /\ ctl.data = drv.owes BY DEF SPMIInv, Framed
  <1>c. /\ c.sid \in Sids /\ c.addr \in Nat /\ c.len \in Nat /\ c.len \in 1 .. MaxLen
        /\ Fits(c) /\ drv.owes = NoData
    BY SPMIAssumption DEF Commands, Request, Ready
  <1> DEFINE x == Selected(c.sid)
             w == [len |-> c.len, words |-> <<>>, cmd |-> c]
  <1>1. /\ c.sid \in Slaves => x = c.sid
        /\ c.sid \notin Slaves => x = NoDev
        /\ NoDev \notin Slaves
    BY <1>t, <1>c, SelectedIs
  <1>p. PushCommand(c) BY DEF Request
  <1>2. /\ DrvShape(drv') /\ drv'.mem = drv.mem /\ drv'.expects = drv.expects \o Expected(c)
        /\ drv'.owes = IF c.op = "write" THEN w ELSE NoData
    BY <1>s, <1>c DEF Request, DrvShape
  <1>w. w \in Owed /\ w # NoData
    <2>1. <<>> \in Seq(Vals) OBVIOUS
    <2>2. w \in Owed BY <1>c, <2>1 DEF Owed
    <2>3. w.len # NoData.len BY <1>c DEF NoData
    <2> QED BY <2>2, <2>3
  <1>d. dev \in [Slaves -> [addr : Nat, reg : [0 .. Regs - 1 -> Vals]]] BY <1>t DEF SPMITypeOK
  <1>3. current_dev' = x BY <1>p DEF PushCommand
  <1> HIDE DEF x
  <1>4. /\ dev' \in [Slaves -> [addr : Nat, reg : [0 .. Regs - 1 -> Vals]]]
        /\ \A s \in Slaves : dev'[s].reg = dev[s].reg
        /\ c.op = "write" /\ c.sid \in Slaves => dev'[c.sid].addr = c.addr
    <2>1. CASE x = NoDev
      <3>1. dev' = dev BY <1>p, <2>1 DEF PushCommand, x
      <3> QED BY <1>1, <1>d, <2>1, <3>1
    <2>2. CASE x # NoDev
      <3> DEFINE n == IF c.op = "read" THEN c.addr + c.len ELSE c.addr
      <3>1. dev' = [dev EXCEPT ![x].addr = n] BY <1>p, <2>2 DEF PushCommand, x
      <3>2. n \in Nat BY <1>c
      <3>3. x = c.sid /\ x \in Slaves BY <1>1, <2>2
      <3>4. c.op = "write" => n = c.addr OBVIOUS
      <3> HIDE DEF n
      <3> QED BY <1>d, <3>1, <3>2, <3>3, <3>4
    <2> QED BY <2>1, <2>2
  <1>5. Slaves' = Slaves BY <1>4 DEF Slaves
  <1>e. drv.expects \in Seq(Answer) BY <1>t DEF SPMITypeOK
  <1>6. /\ CtlShape(ctl') /\ ctl'.data = drv'.owes /\ ctl'.resp = drv'.expects
        /\ Expected(c) \in Seq(Answer)
    <2>n. ctl.data = NoData BY <1>c, <1>f
    <2>0. drv.expects \o <<>> = drv.expects /\ <<>> \in Seq(Answer) BY <1>e
    <2>1. CASE c.op = "write"
      <3>1. ctl' = [ctl EXCEPT !.data = w] BY <1>p, <2>1 DEF PushCommand, StartFailed
      <3>2. Expected(c) = <<>> BY <2>1 DEF Expected
      <3>3. CtlShape(ctl') /\ ctl'.data = w /\ ctl'.resp = ctl.resp BY <1>s, <3>1 DEF CtlShape
      <3> QED BY <1>2, <1>f, <2>0, <2>1, <3>2, <3>3
    <2>2. CASE c.op # "write" /\ (x = NoDev \/ c.op = "other")
      <3>1. ctl' = [ctl EXCEPT !.data = @] BY <1>p, <2>2 DEF PushCommand, StartFailed, x
      <3>2. Expected(c) = <<>> BY <1>1, <2>2 DEF Expected
      <3>3. CtlShape(ctl') /\ ctl'.data = NoData /\ ctl'.resp = ctl.resp
        BY <1>s, <2>n, <3>1 DEF CtlShape
      <3> QED BY <1>2, <1>f, <2>0, <2>2, <3>2, <3>3
    <2>3. CASE c.op = "read" /\ x # NoDev
      <3>0. x = c.sid /\ x \in Slaves BY <1>1, <2>3
      <3> DEFINE h == <<Header(c, TRUE)>>
                 a == [i \in 1 .. c.len |-> Data(drv.mem[c.sid][c.addr + i - 1])]
                 k == [ctl EXCEPT !.resp = (ctl.resp \o h) \o a]
      <3>1. Recv(dev[x], c) = a BY <1>t, <3>0 DEF Recv, SlaveHolds
      <3>2. ctl' = Finished(k, c.final) BY <1>p, <2>3, <3>1 DEF PushCommand, x
      <3>3. Expected(c) = h \o a BY <2>3, <3>0 DEF Expected
      <3>4. h \in Seq(Answer)
        <4>1. Header(c, TRUE) \in Answer BY <2>3 DEF Header, Answer
        <4> QED BY <4>1, SeqLemma
      <3>5. a \in Seq(Answer)
        <4>1. ASSUME NEW i \in 1 .. c.len PROVE Data(drv.mem[c.sid][c.addr + i - 1]) \in Answer
          <5>1. c.addr + i - 1 \in 0 .. Regs - 1 BY <1>c, SPMIAssumption DEF Fits
          <5>2. drv.mem[c.sid] \in [0 .. Regs - 1 -> Vals] BY <1>t, <1>c DEF SPMITypeOK
          <5>3. drv.mem[c.sid][c.addr + i - 1] \in Vals BY <5>1, <5>2
          <5> QED BY <5>3 DEF Data, Answer
        <4>2. a \in [1 .. c.len -> Answer] BY <4>1
        <4> QED BY <1>c, <4>2, SeqLemma
      <3> HIDE DEF h, a
      <3>6. drv.expects \o (h \o a) = (ctl.resp \o h) \o a /\ h \o a \in Seq(Answer)
        <4>a. Associates(drv.expects, h, a) BY <1>e, <3>4, <3>5, ConcatAssoc
        <4>1. drv.expects \o (h \o a) = (drv.expects \o h) \o a BY ONLY <4>a DEF Associates
        <4>2. h \o a \in Seq(Answer) BY <3>4, <3>5
        <4> QED BY <1>f, <4>1, <4>2
      <3> DEFINE r == (ctl.resp \o h) \o a
      <3> HIDE DEF r
      <3>k. k = [ctl EXCEPT !.resp = r] BY DEF r
      <3> HIDE DEF k
      <3>7. CtlShape(k) /\ k.data = ctl.data /\ k.resp = r BY <1>s, <3>k DEF CtlShape
      <3>8. Keeps(ctl', k) BY <3>2, <3>7, FinishedKeeps
      <3>9. drv'.owes = NoData BY <1>2, <2>3
      <3> QED BY <1>2, <2>n, <3>3, <3>6, <3>7, <3>8, <3>9 DEF Keeps, r
    <2> QED BY <2>1, <2>2, <2>3 DEF Commands
  <1>7. SPMITypeOK'
    <2>1. drv'.expects \in Seq(Answer) BY <1>2, <1>e, <1>6
    <2>2. x \in Slaves \cup {NoDev} BY <1>1
    <2> QED BY <1>t, <1>2, <1>3, <1>4, <1>5, <1>6, <1>w, <2>1, <2>2 DEF SPMITypeOK
  <1>8. SlaveHolds'
    <2>1. \A s \in Slaves : dev'[s].reg = drv'.mem[s] BY <1>t, <1>2, <1>4 DEF SlaveHolds
    <2>2. CASE c.op # "write"
      <3>1. drv'.owes = NoData BY <1>2, <2>2
      <3> QED BY <1>5, <2>1, <3>1 DEF SlaveHolds
    <2>3. CASE c.op = "write"
      <3>1. drv'.owes = w BY <1>2, <2>3
      <3>2. w.cmd = c /\ w.len = c.len /\ Len(w.words) = 0 OBVIOUS
      <3> HIDE DEF w
      <3> QED BY <1>1, <1>3, <1>4, <1>5, <1>c, <2>1, <2>3, <3>1, <3>2 DEF SlaveHolds
    <2> QED BY <2>2, <2>3
  <1> QED BY <1>6, <1>7, <1>8 DEF SPMIInv, Framed

\* SPMI_REQ_QUEUE_PUSH of a word of a write; spmi_send takes them when they are complete.
LEMMA SupplyStep == ASSUME OneId, SPMIInv, NEW v \in Vals, Supply(v) PROVE SPMIInv'
  <1>t. SPMITypeOK /\ SlaveHolds BY DEF SPMIInv
  <1>s. CtlShape(ctl) /\ DrvShape(drv) BY <1>t DEF SPMITypeOK
  <1>f. ctl.resp = drv.expects /\ ctl.data = drv.owes BY DEF SPMIInv, Framed
  <1>e. drv.expects \in Seq(Answer) BY <1>t DEF SPMITypeOK
  <1> DEFINE o == [drv.owes EXCEPT !.words = Append(@, v)]
             c == drv.owes.cmd
  <1>n. drv.owes # NoData BY DEF Supply
  <1>o. drv.owes \in Owed BY <1>t, <1>n DEF SPMITypeOK
  <1>w. drv.owes.words \in Seq(Vals) BY <1>o DEF Owed
  <1>1. /\ o \in Owed /\ o.len = drv.owes.len /\ o.cmd = c
        /\ o.words = Append(drv.owes.words, v)
    <2> DEFINE ws == Append(drv.owes.words, v)
    <2>1. ws \in Seq(Vals) BY <1>w
    <2>2. o = [drv.owes EXCEPT !.words = ws] OBVIOUS
    <2> HIDE DEF ws, o
    <2>3. o \in Owed /\ o.len = drv.owes.len /\ o.cmd = c /\ o.words = ws
      BY <1>o, <2>1, <2>2 DEF Owed
    <2> QED BY <2>3 DEF ws
  <1>2. Len(o.words) = Len(drv.owes.words) + 1 /\ Len(drv.owes.words) \in Nat BY <1>w, <1>1
  <1>c. /\ c \in Commands /\ c.op = "write" /\ Fits(c) /\ drv.owes.len = c.len
        /\ Len(drv.owes.words) < c.len
    BY <1>n, <1>o, <1>t DEF SlaveHolds, Owed
  <1>k. c.sid \in Sids /\ c.addr \in Nat /\ c.len \in Nat BY <1>c, SPMIAssumption DEF Commands
  <1>q. /\ c.sid \in Slaves => current_dev = c.sid /\ dev[c.sid].addr = c.addr
        /\ c.sid \notin Slaves => current_dev = NoDev
    BY <1>n, <1>t DEF SlaveHolds
  <1>d. [ctl.data EXCEPT !.words = Append(@, v)] = o BY <1>f
  <1>p. /\ UNCHANGED current_dev
        /\ IF Len(o.words) < o.len
           THEN ctl' = [ctl EXCEPT !.data = o] /\ UNCHANGED dev
           ELSE /\ ctl' = Finished([ctl EXCEPT !.data = NoData,
                                               !.resp = Append(@, Header(o.cmd, Acked(current_dev)))],
                                   o.cmd.final)
                /\ dev' = IF current_dev = NoDev THEN dev
                          ELSE [dev EXCEPT ![current_dev] = Sent(@, o.words)]
    BY <1>d DEF Supply, PushWord
  <1>r. drv' = IF Len(o.words) # o.len THEN [drv EXCEPT !.owes = o]
               ELSE [drv EXCEPT
                       !.owes = NoData,
                       !.expects = Append(@, Header(o.cmd, o.cmd.sid \in Slaves)),
                       !.waiting = o.cmd.final,
                       !.mem[o.cmd.sid] = IF o.cmd.sid \notin Slaves THEN @ ELSE
                         [a \in DOMAIN @ |-> IF a \in o.cmd.addr .. o.cmd.addr + o.cmd.len - 1
                                             THEN o.words[a - o.cmd.addr + 1] ELSE @[a]]]
    BY DEF Supply
  <1> HIDE DEF o
  <1>3. CASE Len(o.words) < o.len
    <2>1. ctl' = [ctl EXCEPT !.data = o] /\ UNCHANGED <<dev, current_dev>> BY <1>p, <1>3
    <2>2. drv' = [drv EXCEPT !.owes = o]
      <3>1. Len(o.words) # o.len BY <1>1, <1>2, <1>3, <1>c, <1>k
      <3> QED BY <1>r, <3>1
    <2>3. CtlShape(ctl') /\ ctl'.data = o /\ ctl'.resp = ctl.resp BY <1>s, <2>1 DEF CtlShape
    <2>4. /\ DrvShape(drv') /\ drv'.owes = o /\ drv'.expects = drv.expects
          /\ drv'.mem = drv.mem
      BY <1>s, <2>2 DEF DrvShape
    <2>5. Slaves' = Slaves BY <2>1 DEF Slaves
    <2>6. SPMITypeOK' BY <1>t, <1>1, <2>1, <2>3, <2>4, <2>5 DEF SPMITypeOK
    <2>7. SlaveHolds'
      <3>1. \A s \in Slaves : dev'[s].reg = drv'.mem[s] BY <1>t, <2>1, <2>4 DEF SlaveHolds
      <3>2. Len(o.words) < c.len BY <1>1, <1>3, <1>c
      <3> QED BY <1>1, <1>c, <1>q, <2>1, <2>4, <2>5, <3>1, <3>2 DEF SlaveHolds
    <2> QED BY <1>f, <2>3, <2>4, <2>6, <2>7 DEF SPMIInv, Framed

  <1>4. CASE ~ (Len(o.words) < o.len)
    <2>l. Len(o.words) = o.len /\ o.len = c.len BY <1>1, <1>2, <1>4, <1>c, <1>k
    <2> DEFINE ack == c.sid \in Slaves
               h == Header(c, ack)
               m == drv.mem[c.sid]
               new == [a \in 0 .. Regs - 1 |->
                         IF a \in c.addr .. c.addr + c.len - 1 THEN o.words[a - c.addr + 1] ELSE m[a]]
               k == [ctl EXCEPT !.data = NoData, !.resp = Append(@, h)]
    <2>m. m \in [0 .. Regs - 1 -> Vals] BY <1>t, <1>k DEF SPMITypeOK
    <2>i. Slaves \subseteq Sids /\ NoDev \notin Slaves
      BY <1>t, <1>k, SelectedIs DEF SPMITypeOK
    <2>h. h \in Answer
      <3>1. CASE ack BY <1>c, <3>1 DEF Header, Answer
      <3>2. CASE ~ack BY <1>c, <3>2 DEF Header, Answer
      <3> QED BY <3>1, <3>2
    <2>a. Header(o.cmd, Acked(current_dev)) = h
      <3>1. Acked(current_dev) = ack
        <4>1. CASE ack BY <1>q, <2>i, <4>1 DEF Acked
        <4>2. CASE ~ack BY <1>q, <4>2 DEF Acked
        <4> QED BY <4>1, <4>2
      <3> QED BY <1>1, <3>1
    <2>1. ctl' = Finished(k, c.final) BY <1>1, <1>4, <1>p, <2>a
    <2>2. drv' = [drv EXCEPT !.owes = NoData, !.expects = Append(@, h), !.waiting = c.final,
                             !.mem[c.sid] = IF c.sid \notin Slaves THEN m ELSE new]
      <3>1. DOMAIN m = 0 .. Regs - 1 BY <2>m
      <3> QED BY <1>1, <1>r, <2>l, <3>1
    <2>n. new \in [0 .. Regs - 1 -> Vals]
      <3>1. ASSUME NEW a \in 0 .. Regs - 1, a \in c.addr .. c.addr + c.len - 1
            PROVE  o.words[a - c.addr + 1] \in Vals
        <4>1. a - c.addr + 1 \in 1 .. c.len BY <1>k, <3>1
        <4>2. o.words \in Seq(Vals) BY <1>1 DEF Owed
        <4> QED BY <2>l, <4>1, <4>2
      <3> QED BY <2>m, <3>1
    <2> HIDE DEF h, new, m
    <2>3. CtlShape(ctl') /\ ctl'.data = NoData /\ ctl'.resp = Append(drv.expects, h)
      <3>1. CtlShape(k) /\ k.data = NoData /\ k.resp = Append(ctl.resp, h)
        <4> DEFINE r == Append(ctl.resp, h)
        <4>1. k = [ctl EXCEPT !.data = NoData, !.resp = r] OBVIOUS
        <4> HIDE DEF r, k
        <4>2. CtlShape(k) /\ k.data = NoData /\ k.resp = r BY <1>s, <4>1 DEF CtlShape
        <4> QED BY <4>2 DEF r
      <3> HIDE DEF k
      <3>2. Keeps(ctl', k) BY <2>1, <3>1, FinishedKeeps
      <3> QED BY <1>f, <3>1, <3>2 DEF Keeps
    <2>4. /\ DrvShape(drv') /\ drv'.owes = NoData /\ drv'.expects = Append(drv.expects, h)
          /\ drv'.mem = [drv.mem EXCEPT ![c.sid] = IF c.sid \notin Slaves THEN m ELSE new]
      <3> DEFINE r == Append(drv.expects, h)
                 mm == [drv.mem EXCEPT ![c.sid] = IF c.sid \notin Slaves THEN m ELSE new]
      <3>1. drv' = [drv EXCEPT !.owes = NoData, !.expects = r, !.waiting = c.final, !.mem = mm]
        BY <1>s, <2>2 DEF DrvShape
      <3> HIDE DEF r, mm
      <3>2. DrvShape(drv') /\ drv'.owes = NoData /\ drv'.expects = r /\ drv'.mem = mm
        BY <1>s, <3>1 DEF DrvShape
      <3> QED BY <3>2 DEF r, mm
    <2>5. drv'.mem \in [Sids -> [0 .. Regs - 1 -> Vals]]
      <3>1. drv.mem \in [Sids -> [0 .. Regs - 1 -> Vals]] BY <1>t DEF SPMITypeOK
      <3> QED BY <1>k, <2>4, <2>m, <2>n, <3>1
    <2>6. Append(drv.expects, h) \in Seq(Answer) BY <1>e, <2>h
    <2>7. /\ dev' \in [Slaves -> [addr : Nat, reg : [0 .. Regs - 1 -> Vals]]]
          /\ \A s \in Slaves : dev'[s].reg = drv'.mem[s]
      <3>d. dev \in [Slaves -> [addr : Nat, reg : [0 .. Regs - 1 -> Vals]]]
        BY <1>t DEF SPMITypeOK
      <3>e. \A s \in Slaves : dev[s].reg = drv.mem[s] BY <1>t DEF SlaveHolds
      <3>1. CASE c.sid \notin Slaves
        <4>1. dev' = dev BY <1>p, <1>q, <1>4, <3>1
        <4>2. \A s \in Slaves : s # c.sid BY <3>1
        <4>3. \A s \in Slaves : drv'.mem[s] = drv.mem[s]
          BY <1>t, <2>4, <2>i, <4>2 DEF SPMITypeOK
        <4> QED BY <3>d, <3>e, <4>1, <4>3
      <3>2. CASE c.sid \in Slaves
        <4>1. current_dev = c.sid /\ current_dev # NoDev BY <1>q, <2>i, <3>2
        <4>2. dev' = [dev EXCEPT ![c.sid] = Sent(dev[c.sid], o.words)] BY <1>p, <1>4, <4>1
        <4>3. Sent(dev[c.sid], o.words) = [addr |-> c.addr + c.len, reg |-> new]
          <5>1. dev[c.sid].reg = m /\ dev[c.sid].addr = c.addr /\ DOMAIN m = 0 .. Regs - 1
            BY <1>q, <2>m, <3>2, <3>e DEF m
          <5>2. [a \in 0 .. Regs - 1 |-> IF a \in c.addr .. c.addr + Len(o.words) - 1
                                         THEN o.words[a - c.addr + 1] ELSE m[a]] = new
            BY <2>l DEF new
          <5> QED BY <2>l, <5>1, <5>2, Zenon DEF Sent
        <4>4. [addr |-> c.addr + c.len, reg |-> new]
                \in [addr : Nat, reg : [0 .. Regs - 1 -> Vals]]
          BY <1>k, <2>n
        <4>5. dev' \in [Slaves -> [addr : Nat, reg : [0 .. Regs - 1 -> Vals]]]
          BY <3>d, <3>2, <4>2, <4>3, <4>4
        <4>6. drv'.mem[c.sid] = new BY <1>t, <1>k, <2>4, <3>2 DEF SPMITypeOK
        <4>7. \A s \in Slaves : s = c.sid BY <1>k, <2>i DEF OneId
        <4>8. dev'[c.sid].reg = new BY <3>d, <3>2, <4>2, <4>3
        <4> QED BY <4>5, <4>6, <4>7, <4>8
      <3> QED BY <3>1, <3>2
    <2>8. Slaves' = Slaves BY <2>7 DEF Slaves
    <2>9. SPMITypeOK' BY <1>t, <1>p, <2>3, <2>4, <2>5, <2>6, <2>7, <2>8 DEF SPMITypeOK
    <2>10. SlaveHolds' BY <2>4, <2>7, <2>8 DEF SlaveHolds
    <2> QED BY <2>3, <2>4, <2>9, <2>10 DEF SPMIInv, Framed
  <1> QED BY <1>3, <1>4

\* Every access of the driver, the slave's interrupt and a reset preserve the invariant.
LEMMA SPMIStep == ASSUME OneId, SPMIInv, [Next]_vars PROVE SPMIInv'
  <1>1. CASE UNCHANGED vars
    <2>1. UNCHANGED <<ctl, drv, current_dev, dev>> BY <1>1 DEF vars
    <2> QED BY <2>1, QuietStep DEF SPMIInv, SPMITypeOK, Framed
  <1>2. CASE Next
    BY <1>2, HandlerStep, RestartStep, RequestStep, SupplyStep DEF Next
  <1> QED BY <1>1, <1>2

\* In every state the answer queue holds exactly the answers the driver expects, and the
\* controller takes a word for data exactly when the driver means it as data
\* (apple_spmi_queue_reg_write, apple_spmi_queue_reg_read).
THEOREM SPMIFramed == ASSUME OneId PROVE Spec => []Framed
  <1>1. SPMIInv => Framed BY DEF SPMIInv
  <1> QED BY <1>1, SPMIInitInv, SPMIStep, PTL DEF Spec
=============================================================================
