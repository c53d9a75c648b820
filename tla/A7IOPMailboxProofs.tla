------------------------ MODULE A7IOPMailboxProofs ------------------------
(***************************************************************************)
(* Proofs about the mailbox pair.  The inductive invariant IInv says that   *)
(* the pair is well-typed, that each counter is the length of its inbox,    *)
(* that the SEP's interrupt line is exact, and that what was delivered      *)
(* followed by what is still queued is what was accepted.  Each operation   *)
(* of core.c gets a lemma on the pair it returns; the steps of Next follow  *)
(* from these.                                                             *)
(***************************************************************************)
EXTENDS A7IOPMailbox, SequenceTheorems, WellFoundedInduction, TLAPS

\* The levels apple_a7iop_mailbox_update_irq_status computes are a set of lines.
LEMMA IrqLevelsType ==
  ASSUME NEW M, NEW s PROVE IrqLevels(M, s) \in SUBSET Irq
BY DEF IrqLevels

\* A mailbox stays well-typed when one of its fields is assigned a value of that
\* field's type: each assignment core.c makes to the struct is one of these.
LEMMA SetFields ==
  ASSUME NEW m \in Mailbox
  PROVE  /\ \A x \in SUBSET Irq : [m EXCEPT !.irqs = x] \in Mailbox
         /\ \A x \in SUBSET Irq : [m EXCEPT !.int_mask = x] \in Mailbox
         /\ \A x \in BOOLEAN : [m EXCEPT !.iop_irq = x] \in Mailbox
         /\ \A x \in BOOLEAN : [m EXCEPT !.underflow = x] \in Mailbox
         /\ \A x \in Seq(Msg) : [m EXCEPT !.inbox = x] \in Mailbox
         /\ \A x \in Int : [m EXCEPT !.count = x] \in Mailbox
         /\ \A x \in [Side -> BOOLEAN] : [m EXCEPT !.dir_en = x] \in Mailbox
         /\ \A x \in [Side -> Word] : [m EXCEPT !.send_reg = x] \in Mailbox
         /\ \A x \in [Side -> RecvMsg] : [m EXCEPT !.recv_reg = x] \in Mailbox
         /\ \A x \in Seq(Status) : [m EXCEPT !.interrupt_status = x] \in Mailbox
         /\ \A x \in SUBSET Maskable : [m EXCEPT !.interrupts_enabled = x] \in Mailbox
BY DEF Mailbox

\* The two assignments send and recv make together, to the inbox and its counter,
\* keep a mailbox well-typed.
LEMMA SetInbox ==
  ASSUME NEW m \in Mailbox, NEW q \in Seq(Msg), NEW c \in Int
  PROVE  [m EXCEPT !.inbox = q, !.count = c] \in Mailbox
BY DEF Mailbox

\* update_irq_status keeps the pair well-typed.
LEMMA UpdateStatusType ==
  ASSUME NEW M \in Pair, NEW s \in Side
  PROVE  update_irq_status(M, s) \in Pair
BY IrqLevelsType, SetFields DEF update_irq_status, Pair

\* Refreshing the SEP's line (update_irq of "SEP-iop") keeps the pair well-typed.
LEMMA UpdateSepType ==
  ASSUME NEW M \in Pair
  PROVE  UpdateSepIop(M) \in Pair
<1>1. IopIrqLevel(M) \in BOOLEAN
  BY DEF IopIrqLevel
<1> QED BY <1>1, IrqLevelsType, SetFields DEF UpdateSepIop, Pair, Side

\* update_irq keeps the pair well-typed whatever the role.
LEMMA UpdateType ==
  ASSUME NEW M \in Pair, NEW s \in Side
  PROVE  update_irq(M, s) \in Pair
BY UpdateStatusType, UpdateSepType DEF update_irq, Side

\* The fields the interrupt levels, the messages and the registers depend on.
SameButLines(m, n) ==
  /\ m.inbox = n.inbox /\ m.count = n.count /\ m.underflow = n.underflow
  /\ m.dir_en = n.dir_en /\ m.int_mask = n.int_mask
  /\ m.send_reg = n.send_reg /\ m.recv_reg = n.recv_reg
  /\ m.interrupt_status = n.interrupt_status
  /\ m.interrupts_enabled = n.interrupts_enabled

\* update_irq_status writes the levels of the lines and nothing else.
LEMMA UpdateStatusFrame ==
  ASSUME NEW M \in Pair, NEW s \in Side, NEW d \in Side
  PROVE  SameButLines(update_irq_status(M, s)[d], M[d])
BY DEF update_irq_status, Pair, Mailbox, SameButLines

\* update_irq of "SEP-iop" writes the levels of the lines and nothing else.
LEMMA UpdateSepFrame ==
  ASSUME NEW M \in Pair, NEW d \in Side
  PROVE  SameButLines(UpdateSepIop(M)[d], M[d])
<1>1. M[d] \in Mailbox /\ DOMAIN M = Side
  BY DEF Pair
<1>2. CASE d = "iop"
  BY <1>1, <1>2 DEF UpdateSepIop, Mailbox, SameButLines, Side
<1>3. CASE d # "iop"
  BY <1>1, <1>3 DEF UpdateSepIop, Mailbox, SameButLines, Side
<1> QED
  BY <1>2, <1>3

\* update_irq writes the levels of the lines of the two banks and nothing else.
LEMMA UpdateFrame ==
  ASSUME NEW M \in Pair, NEW s \in Side, NEW d \in Side
  PROVE  SameButLines(update_irq(M, s)[d], M[d])
<1>1. SameButLines(update_irq_status(M, s)[d], M[d])
  BY UpdateStatusFrame
<1>2. SameButLines(UpdateSepIop(M)[d], M[d])
  BY UpdateSepFrame
<1>3. SameButLines(UpdateSepIop(update_irq_status(M, "ap"))[d], M[d])
  <2>1. update_irq_status(M, "ap") \in Pair
    BY UpdateStatusType DEF Side
  <2>2. SameButLines(update_irq_status(M, "ap")[d], M[d])
    BY UpdateStatusFrame DEF Side
  <2>3. SameButLines(UpdateSepIop(update_irq_status(M, "ap"))[d], update_irq_status(M, "ap")[d])
    BY <2>1, UpdateSepFrame
  <2> QED BY <2>2, <2>3 DEF SameButLines
<1> QED BY <1>1, <1>2, <1>3 DEF update_irq

\* The fields the levels of the lines are a function of.
SameCauses(m, n) ==
  /\ m.inbox = n.inbox /\ m.underflow = n.underflow /\ m.int_mask = n.int_mask
  /\ m.interrupt_status = n.interrupt_status
  /\ m.interrupts_enabled = n.interrupts_enabled

\* The levels of the lines are a function of the inboxes, underflow flags, masks and
\* status queues: pairs that agree on these call for the same levels.
LEMMA LevelsFrame ==
  ASSUME NEW M, NEW N, \A d \in Side : SameCauses(N[d], M[d])
  PROVE  /\ \A s \in Side : IrqLevels(N, s) = IrqLevels(M, s)
         /\ IopIrqLevel(N) = IopIrqLevel(M)
<1>1. \A s \in Side : IrqLevels(N, s) = IrqLevels(M, s)
  BY DEF IrqLevels, SameCauses, Side
<1>2. EnabledStatus(N["iop"]) = EnabledStatus(M["iop"])
  BY DEF EnabledStatus, is_interrupt_enabled, SameCauses, Side
<1> QED BY <1>1, <1>2 DEF IopIrqLevel, Side

SepExact(M) ==
  /\ M["iop"].iop_irq = IopIrqLevel(M)
  /\ M["iop"].irqs = IrqLevels(M, "iop")

\* After update_irq of "SEP-iop" the SEP's line and its bank's lines are right.
LEMMA UpdateSepExact ==
  ASSUME NEW M \in Pair PROVE SepExact(UpdateSepIop(M))
<1> DEFINE N == UpdateSepIop(M)
<1>1. N["iop"].irqs = IrqLevels(M, "iop") /\ N["iop"].iop_irq = IopIrqLevel(M)
  BY DEF UpdateSepIop, Pair, Mailbox, Side
<1>2. \A d \in Side : SameCauses(N[d], M[d])
  BY UpdateSepFrame DEF SameButLines, SameCauses
<1>3. IrqLevels(N, "iop") = IrqLevels(M, "iop") /\ IopIrqLevel(N) = IopIrqLevel(M)
  BY <1>2, LevelsFrame DEF Side
<1> QED BY <1>1, <1>3 DEF SepExact

\* After update_irq of either bank the SEP's line and its bank's lines are right.
LEMMA UpdateExact ==
  ASSUME NEW M \in Pair, NEW s \in Side, SepRole
  PROVE  SepExact(update_irq(M, s))
BY UpdateStatusType, UpdateSepExact DEF update_irq, Side
-----------------------------------------------------------------------------
\* What the pair looks like after each operation on it: its type, the counters
\* and the lines.
Good(M) ==
  /\ M \in Pair
  /\ \A d \in Side : M[d].count = Len(M[d].inbox)
  /\ SepRole => SepExact(M)

\* update_irq turns a well-typed pair with right counters into a good one.
LEMMA UpdateGood ==
  ASSUME NEW M \in Pair, NEW s \in Side,
         \A d \in Side : M[d].count = Len(M[d].inbox)
  PROVE  Good(update_irq(M, s))
<1>1. update_irq(M, s) \in Pair
  BY UpdateType
<1>2. \A d \in Side : SameButLines(update_irq(M, s)[d], M[d])
  BY UpdateFrame
<1>3. SepRole => SepExact(update_irq(M, s))
  BY UpdateExact
<1> QED BY <1>1, <1>2, <1>3 DEF Good, SameButLines

\* A change of one inbox together with its counter.
WithInbox(M, d, q) == [M EXCEPT ![d].inbox = q, ![d].count = Len(q)]

\* Assigning an inbox and its counter together, then update_irq, gives a good pair
\* and changes no other inbox.
LEMMA InboxChange ==
  ASSUME NEW M, Good(M), NEW d \in Side, NEW q \in Seq(Msg)
  PROVE  /\ Good(update_irq(WithInbox(M, d, q), d))
         /\ update_irq(WithInbox(M, d, q), d)[d].inbox = q
         /\ \A e \in Side \ {d} :
              update_irq(WithInbox(M, d, q), d)[e].inbox = M[e].inbox
<1> DEFINE N == WithInbox(M, d, q)
<1>0. M \in Pair /\ M[d] \in Mailbox /\ Len(q) \in Int
  BY DEF Good, Pair
<1>1. N \in Pair
  <2>1. N = [M EXCEPT ![d] = [M[d] EXCEPT !.inbox = q, !.count = Len(q)]]
    BY <1>0 DEF Pair, Mailbox, WithInbox
  <2>2. [M[d] EXCEPT !.inbox = q, !.count = Len(q)] \in Mailbox
    BY <1>0, SetInbox
  <2>3. [M EXCEPT ![d] = [M[d] EXCEPT !.inbox = q, !.count = Len(q)]] \in Pair
    BY <1>0, <2>2 DEF Pair
  <2> QED BY <2>1, <2>3
<1>2. N[d].inbox = q /\ N[d].count = Len(q)
  BY <1>0 DEF Pair, Mailbox, WithInbox
<1>3. \A e \in Side \ {d} : N[e] = M[e]
  BY <1>0 DEF Pair, WithInbox
<1> HIDE DEF N
<1>4. \A e \in Side : N[e].count = Len(N[e].inbox)
  BY <1>2, <1>3 DEF Good
<1>5. Good(update_irq(N, d)) /\ \A e \in Side : SameButLines(update_irq(N, d)[e], N[e])
  BY <1>1, <1>4, UpdateGood, UpdateFrame
<1>6. /\ Good(update_irq(N, d))
      /\ update_irq(N, d)[d].inbox = q
      /\ \A e \in Side \ {d} : update_irq(N, d)[e].inbox = M[e].inbox
  BY <1>2, <1>3, <1>5 DEF SameButLines
<1> QED BY <1>6 DEF N

\* apple_a7iop_mailbox_send appends the message to the inbox and changes no other.
LEMMA MailboxSend ==
  ASSUME NEW M, Good(M), NEW d \in Side, NEW msg \in Msg
  PROVE  /\ Good(mailbox_send(M, d, msg))
         /\ mailbox_send(M, d, msg)[d].inbox = Append(M[d].inbox, msg)
         /\ \A e \in Side \ {d} : mailbox_send(M, d, msg)[e].inbox = M[e].inbox
<1>1. M[d].inbox \in Seq(Msg) /\ M[d].count = Len(M[d].inbox)
  BY DEF Good, Pair, Mailbox
<1> DEFINE q == Append(M[d].inbox, msg)
<1>2. q \in Seq(Msg) /\ M[d].count + 1 = Len(q)
  BY <1>1
<1>3. mailbox_send(M, d, msg) = update_irq(WithInbox(M, d, q), d)
  BY <1>2, Zenon DEF mailbox_send, WithInbox
<1>4. q = Append(M[d].inbox, msg)
  OBVIOUS
<1> HIDE DEF q
<1> DEFINE R == update_irq(WithInbox(M, d, q), d)
<1>5. Good(R) /\ R[d].inbox = q /\ \A e \in Side \ {d} : R[e].inbox = M[e].inbox
  BY <1>2, InboxChange
<1> QED BY <1>3, <1>4, <1>5

\* apple_a7iop_mailbox_recv takes the head of a non-empty inbox that has not
\* underflowed, and changes no other inbox.
LEMMA MailboxRecv ==
  ASSUME NEW M, Good(M), NEW d \in Side
  PROVE  /\ Good(mailbox_recv(M, d))
         /\ mailbox_recv(M, d)[d].inbox =
               IF is_empty(M, d) THEN M[d].inbox ELSE Tail(M[d].inbox)
         /\ \A e \in Side \ {d} : mailbox_recv(M, d)[e].inbox = M[e].inbox
<1>0. M \in Pair /\ M[d] \in Mailbox /\ M[d].inbox \in Seq(Msg) /\ M[d].count = Len(M[d].inbox)
  BY DEF Good, Pair, Mailbox
<1>1. CASE M[d].underflow
  BY <1>1 DEF mailbox_recv, is_empty
<1>2. CASE ~M[d].underflow /\ M[d].inbox = <<>>
  <2> DEFINE N == [M EXCEPT ![d].underflow = TRUE]
  <2>1. N \in Pair
    BY <1>0, SetFields DEF Pair
  <2>2. \A e \in Side : N[e].inbox = M[e].inbox /\ N[e].count = M[e].count
    BY <1>0 DEF Pair, Mailbox
  <2> HIDE DEF N
  <2>3. Good(update_irq(N, d)) /\ \A e \in Side : SameButLines(update_irq(N, d)[e], N[e])
    BY <2>1, <2>2, UpdateGood, UpdateFrame DEF Good
  <2>4. mailbox_recv(M, d) = update_irq(N, d)
    BY <1>2 DEF mailbox_recv, N
  <2> QED BY <1>2, <2>2, <2>3, <2>4 DEF is_empty, SameButLines
<1>3. CASE ~M[d].underflow /\ M[d].inbox # <<>>
  <2> DEFINE q == Tail(M[d].inbox)
  <2>1. q \in Seq(Msg) /\ M[d].count - 1 = Len(q)
    BY <1>0, <1>3
  <2>2. mailbox_recv(M, d) = update_irq(WithInbox(M, d, q), d)
    BY <1>3, <2>1, Zenon DEF mailbox_recv, WithInbox
  <2>3. q = Tail(M[d].inbox) /\ ~is_empty(M, d)
    BY <1>3 DEF is_empty
  <2> HIDE DEF q
  <2> DEFINE R == update_irq(WithInbox(M, d, q), d)
  <2>4. Good(R) /\ R[d].inbox = q /\ \A e \in Side \ {d} : R[e].inbox = M[e].inbox
    BY <2>1, InboxChange
  <2> QED BY <2>2, <2>3, <2>4
<1> QED BY <1>0, <1>1, <1>2, <1>3 DEF Mailbox

\* apple_a7iop_mailbox_recv_iop and _recv_ap, the direction enable included.
LEMMA RecvEffect ==
  ASSUME NEW M, Good(M), NEW s \in Side, NEW d \in Side
  PROVE  /\ Good(Recv(M, s, d))
         /\ Recv(M, s, d)[d].inbox =
               IF CanRecv(M, s, d) THEN Tail(M[d].inbox) ELSE M[d].inbox
         /\ \A e \in Side \ {d} : Recv(M, s, d)[e].inbox = M[e].inbox
<1> DEFINE N == mailbox_recv(M, d)
<1>1. /\ Good(N) /\ N \in Pair
      /\ N[d].inbox = IF is_empty(M, d) THEN M[d].inbox ELSE Tail(M[d].inbox)
      /\ \A e \in Side \ {d} : N[e].inbox = M[e].inbox
  BY MailboxRecv DEF Good
<1>2. Good(update_irq(N, s)) /\ \A e \in Side : SameButLines(update_irq(N, s)[e], N[e])
  <2> HIDE DEF N
  <2> QED BY <1>1, UpdateGood, UpdateFrame DEF Good
<1> QED BY <1>1, <1>2 DEF Recv, CanRecv, SameButLines

\* apple_a7iop_mailbox_send_iop and _send_ap, the direction enable included.
LEMMA SendEffect ==
  ASSUME NEW M, Good(M), NEW s \in Side, NEW d \in Side, NEW msg \in Msg
  PROVE  /\ Good(Send(M, s, d, msg))
         /\ Send(M, s, d, msg)[d].inbox =
               IF M[s].dir_en[d] THEN Append(M[d].inbox, msg) ELSE M[d].inbox
         /\ \A e \in Side \ {d} : Send(M, s, d, msg)[e].inbox = M[e].inbox
<1> DEFINE N == mailbox_send(M, d, msg)
<1>1. /\ Good(N) /\ N \in Pair
      /\ N[d].inbox = Append(M[d].inbox, msg)
      /\ \A e \in Side \ {d} : N[e].inbox = M[e].inbox
  <2>1. Good(N) /\ N[d].inbox = Append(M[d].inbox, msg)
        /\ \A e \in Side \ {d} : N[e].inbox = M[e].inbox
    BY MailboxSend
  <2> HIDE DEF N
  <2> QED BY <2>1 DEF Good
<1>2. Good(update_irq(N, s)) /\ \A e \in Side : SameButLines(update_irq(N, s)[e], N[e])
  <2> HIDE DEF N
  <2> QED BY <1>1, UpdateGood, UpdateFrame DEF Good
<1> QED BY <1>1, <1>2 DEF Send, SameButLines

\* Changes of a field that is not an inbox, followed by update_irq.
LEMMA CauseChange ==
  ASSUME NEW M, Good(M), NEW N \in Pair, NEW s \in Side,
         \A d \in Side : N[d].inbox = M[d].inbox /\ N[d].count = M[d].count
  PROVE  /\ Good(update_irq(N, s))
         /\ \A d \in Side : update_irq(N, s)[d].inbox = M[d].inbox
<1>1. Good(update_irq(N, s))
  BY UpdateGood DEF Good
<1>2. \A d \in Side : SameButLines(update_irq(N, s)[d], N[d])
  BY UpdateFrame
<1> QED BY <1>1, <1>2 DEF SameButLines

\* Changes of a register that no line depends on, with no update_irq.
LEMMA RegisterChange ==
  ASSUME NEW M, Good(M), NEW N \in Pair,
         \A d \in Side : /\ SameCauses(N[d], M[d]) /\ N[d].count = M[d].count
                         /\ N[d].irqs = M[d].irqs /\ N[d].iop_irq = M[d].iop_irq
  PROVE  Good(N) /\ \A d \in Side : N[d].inbox = M[d].inbox
<1>1. /\ \A s \in Side : IrqLevels(N, s) = IrqLevels(M, s)
      /\ IopIrqLevel(N) = IopIrqLevel(M)
  BY LevelsFrame
<1> QED BY <1>1 DEF Good, SepExact, SameCauses, Side

\* apple_a7iop_mailbox_set_int_mask and _clear_int_mask leave a good pair and the
\* inboxes alone.
LEMMA MaskEffect ==
  ASSUME NEW M, Good(M), NEW s \in Side, NEW v \in SUBSET Irq
  PROVE  /\ Good(set_int_mask(M, s, v)) /\ Good(clear_int_mask(M, s, v))
         /\ \A d \in Side : /\ set_int_mask(M, s, v)[d].inbox = M[d].inbox
                             /\ clear_int_mask(M, s, v)[d].inbox = M[d].inbox
<1>0. M \in Pair /\ M[s] \in Mailbox /\ M[s].int_mask \in SUBSET Irq
  BY DEF Good, Pair, Mailbox
<1> DEFINE N(x) == [M EXCEPT ![s].int_mask = x]
<1>1. ASSUME NEW x \in SUBSET Irq
      PROVE  /\ N(x) \in Pair
             /\ \A d \in Side : N(x)[d].inbox = M[d].inbox /\ N(x)[d].count = M[d].count
  <2>1. N(x) \in Pair
    BY <1>0, SetFields DEF Pair
  <2>2. \A d \in Side : N(x)[d].inbox = M[d].inbox /\ N(x)[d].count = M[d].count
    BY <1>0 DEF Pair, Mailbox
  <2> QED BY <2>1, <2>2
<1> HIDE DEF N
<1>2. ASSUME NEW x \in SUBSET Irq
      PROVE  /\ Good(update_irq(N(x), s))
             /\ \A d \in Side : update_irq(N(x), s)[d].inbox = M[d].inbox
  BY <1>1, CauseChange
<1>3. set_int_mask(M, s, v) = update_irq(N(M[s].int_mask \cup v), s)
  BY DEF set_int_mask, N
<1>4. clear_int_mask(M, s, v) = update_irq(N(M[s].int_mask \ v), s)
  BY DEF clear_int_mask, N
<1>5. M[s].int_mask \cup v \in SUBSET Irq /\ M[s].int_mask \ v \in SUBSET Irq
  BY <1>0
<1> QED BY <1>2, <1>3, <1>4, <1>5

-----------------------------------------------------------------------------
(* The status queue.                                                       *)

\* A non-empty set of naturals has a least element.
LEMMA LeastNat ==
  ASSUME NEW T \in SUBSET Nat, T # {}
  PROVE  \E x \in T : \A y \in T : x <= y
<1> DEFINE R == OpToRel(<, Nat)
<1>1. IsWellFoundedOn(R, Nat)
  BY NatLessThanWellFounded
<1>2. \A x, y \in Nat : <<y, x>> \in R <=> y < x
  BY DEF OpToRel
<1> HIDE DEF R
<1>3. PICK x \in T : \A y \in T : ~ (<<y, x>> \in R)
  BY <1>1, WFMin
<1>4. ASSUME NEW y \in T PROVE x <= y
  <2>1. x \in Nat /\ y \in Nat
    OBVIOUS
  <2>2. ~ (y < x)
    BY <1>2, <1>3, <2>1
  <2> QED BY <2>1, <2>2
<1> QED BY <1>4

\* There is a lowest enabled status when there is an enabled one.
LEMMA LowestExists ==
  ASSUME NEW m \in Mailbox, EnabledStatus(m) # {}
  PROVE  LowestIdx(m) \in 1 .. Len(m.interrupt_status) /\ IsLowest(m, LowestIdx(m))
<1> DEFINE q == m.interrupt_status
           E == EnabledStatus(m)
<1>1. q \in Seq(Status) /\ Len(q) \in Nat /\ E \subseteq 1 .. Len(q)
  BY DEF Mailbox, EnabledStatus
<1>2. \A i \in E : q[i] \in Nat
  BY <1>1, ElementOfSeq, StatusAssumption
<1>3. PICK v \in {q[i] : i \in E} : \A w \in {q[i] : i \in E} : v <= w
  <2>1. {q[i] : i \in E} \in SUBSET Nat /\ {q[i] : i \in E} # {}
    BY <1>2
  <2> QED BY <2>1, LeastNat
<1> DEFINE F == {i \in E : q[i] = v}
<1>4. PICK k \in F : \A j \in F : k <= j
  <2>1. F \in SUBSET Nat /\ F # {}
    BY <1>1, <1>3
  <2> QED BY <2>1, LeastNat
<1>5. k \in 1 .. Len(q) /\ IsLowest(m, k)
  <2>1. \A j \in E : q[k] < q[j] \/ (q[k] = q[j] /\ k <= j)
    <3> SUFFICES ASSUME NEW j \in E PROVE q[k] < q[j] \/ (q[k] = q[j] /\ k <= j)
      OBVIOUS
    <3>1. q[k] = v /\ q[j] \in Nat /\ v \in Nat
      BY <1>2, <1>4
    <3>2. v <= q[j]
      BY <1>3
    <3>3. q[j] = v => k <= j
      BY <1>4
    <3> HIDE DEF E, q, F
    <3> QED BY <3>1, <3>2, <3>3
  <2> QED BY <1>1, <1>4, <2>1 DEF IsLowest
<1> QED BY <1>5 DEF LowestIdx

\* Removing one entry of the status queue leaves a status queue.
LEMMA DropIdxType ==
  ASSUME NEW S, NEW q \in Seq(S), NEW i \in 1 .. Len(q)
  PROVE  DropIdx(q, i) \in Seq(S)
<1>1. Len(q) \in Nat /\ \A j \in 1 .. Len(q) : q[j] \in S
  BY ElementOfSeq, LenProperties
<1>2. SubSeq(q, 1, i - 1) \in Seq(S)
  <2>1. \A j \in 1 .. i - 1 : q[j] \in S
    BY <1>1
  <2> QED BY <1>1, <2>1, SubSeqProperties
<1>3. SubSeq(q, i + 1, Len(q)) \in Seq(S)
  <2>1. \A j \in i + 1 .. Len(q) : q[j] \in S
    BY <1>1
  <2> QED BY <1>1, <2>1, SubSeqProperties
<1> QED BY <1>2, <1>3, ConcatProperties DEF DropIdx

\* The state machine changes the queue or the enable bits and calls update_irq.
LEMMA QueueChange ==
  ASSUME NEW M, Good(M), NEW s \in Side, NEW q \in Seq(Status)
  PROVE  LET N == update_irq([M EXCEPT ![s].interrupt_status = q], s)
         IN  Good(N) /\ \A d \in Side : N[d].inbox = M[d].inbox
<1> DEFINE N == [M EXCEPT ![s].interrupt_status = q]
<1>0. M \in Pair /\ M[s] \in Mailbox
  BY DEF Good, Pair
<1>1. N \in Pair
  BY <1>0, SetFields DEF Pair
<1>2. \A d \in Side : N[d].inbox = M[d].inbox /\ N[d].count = M[d].count
  BY <1>0 DEF Pair, Mailbox
<1> HIDE DEF N
<1>3. Good(update_irq(N, s)) /\ \A d \in Side : update_irq(N, s)[d].inbox = M[d].inbox
  BY <1>1, <1>2, CauseChange
<1> QED BY <1>3 DEF N

\* Assigning the interrupt enables, then update_irq, leaves a good pair and the inboxes.
LEMMA EnableChange ==
  ASSUME NEW M, Good(M), NEW s \in Side, NEW v \in SUBSET Maskable
  PROVE  LET N == update_irq([M EXCEPT ![s].interrupts_enabled = v], s)
         IN  Good(N) /\ \A d \in Side : N[d].inbox = M[d].inbox
<1> DEFINE N == [M EXCEPT ![s].interrupts_enabled = v]
<1>0. M \in Pair /\ M[s] \in Mailbox
  BY DEF Good, Pair
<1>1. N \in Pair
  BY <1>0, SetFields DEF Pair
<1>2. \A d \in Side : N[d].inbox = M[d].inbox /\ N[d].count = M[d].count
  BY <1>0 DEF Pair, Mailbox
<1> HIDE DEF N
<1>3. Good(update_irq(N, s)) /\ \A d \in Side : update_irq(N, s)[d].inbox = M[d].inbox
  BY <1>1, <1>2, CauseChange
<1> QED BY <1>3 DEF N

\* apple_a7iop_interrupt_status_push leaves a good pair and the inboxes alone.
LEMMA PushEffect ==
  ASSUME NEW M, Good(M), NEW s \in Side, NEW st \in Status
  PROVE  /\ Good(interrupt_status_push(M, s, st))
         /\ \A d \in Side : interrupt_status_push(M, s, st)[d].inbox = M[d].inbox
<1>1. Append(M[s].interrupt_status, st) \in Seq(Status)
  <2>1. M[s].interrupt_status \in Seq(Status)
    BY DEF Good, Pair, Mailbox
  <2> QED BY <2>1
<1> DEFINE q == Append(M[s].interrupt_status, st)
           R == update_irq([M EXCEPT ![s].interrupt_status = q], s)
<1>2. interrupt_status_push(M, s, st) = R
  BY DEF interrupt_status_push
<1> HIDE DEF q
<1>3. Good(R) /\ \A d \in Side : R[d].inbox = M[d].inbox
  BY <1>1, QueueChange DEF q
<1> QED BY <1>2, <1>3

\* apple_a7iop_interrupt_status_pop leaves a good pair and the inboxes alone.
LEMMA PopEffect ==
  ASSUME NEW M, Good(M), NEW s \in Side
  PROVE  /\ Good(interrupt_status_pop(M, s))
         /\ \A d \in Side : interrupt_status_pop(M, s)[d].inbox = M[d].inbox
<1>0. M \in Pair /\ M[s] \in Mailbox /\ M[s].interrupt_status \in Seq(Status)
  BY DEF Good, Pair, Mailbox
<1>1. CASE EnabledStatus(M[s]) = {}
  <2>1. interrupt_status_pop(M, s) = update_irq(M, s)
    BY <1>1 DEF interrupt_status_pop
  <2> QED BY <1>0, <2>1, CauseChange
<1>2. CASE EnabledStatus(M[s]) # {}
  <2> DEFINE q == DropIdx(M[s].interrupt_status, LowestIdx(M[s]))
             R == update_irq([M EXCEPT ![s].interrupt_status = q], s)
  <2>1. interrupt_status_pop(M, s) = R
    BY <1>2 DEF interrupt_status_pop
  <2>2. q \in Seq(Status)
    BY <1>0, <1>2, LowestExists, DropIdxType
  <2> HIDE DEF q
  <2>3. Good(R) /\ \A d \in Side : R[d].inbox = M[d].inbox
    BY <2>2, QueueChange
  <2> QED BY <2>1, <2>3
<1> QED BY <1>1, <1>2

\* The update_irq_status that a read of REG_INTERRUPT_STATUS makes after the pop
\* leaves a good pair and the inboxes alone.
LEMMA StatusEffect ==
  ASSUME NEW M, Good(M)
  PROVE  /\ Good(update_irq_status(M, "iop"))
         /\ \A d \in Side : update_irq_status(M, "iop")[d].inbox = M[d].inbox
<1> DEFINE N == update_irq_status(M, "iop")
<1>0. M \in Pair
  BY DEF Good
<1>1. N \in Pair
  BY <1>0, UpdateStatusType DEF Side
<1>2. \A d \in Side : SameButLines(N[d], M[d])
  BY <1>0, UpdateStatusFrame DEF Side
<1>3. N["iop"].irqs = IrqLevels(M, "iop") /\ N["iop"].iop_irq = M["iop"].iop_irq
  BY <1>0 DEF update_irq_status, Pair, Mailbox, Side
<1>4. IrqLevels(N, "iop") = IrqLevels(M, "iop") /\ IopIrqLevel(N) = IopIrqLevel(M)
  BY <1>2, LevelsFrame DEF SameButLines, SameCauses, Side
<1> HIDE DEF N
<1>5. Good(N) /\ \A d \in Side : N[d].inbox = M[d].inbox
  BY <1>1, <1>2, <1>3, <1>4 DEF Good, SepExact, SameButLines
<1> QED BY <1>5 DEF N

-----------------------------------------------------------------------------
(* Registers and reset.                                                    *)

\* A write of a control register leaves a good pair and the inboxes alone.
LEMMA CtrlEffect ==
  ASSUME NEW M, Good(M), NEW s \in Side, NEW d \in Side, NEW en \in BOOLEAN
  PROVE  Good(set_ctrl(M, s, d, en)) /\ \A e \in Side : set_ctrl(M, s, d, en)[e].inbox = M[e].inbox
<1> DEFINE N == set_ctrl(M, s, d, en)
           x == [M[s].dir_en EXCEPT ![d] = en]
<1>0. M \in Pair /\ M[s] \in Mailbox /\ M[s].dir_en \in [Side -> BOOLEAN]
  BY DEF Good, Pair, Mailbox
<1>1. N = [M EXCEPT ![s].dir_en = x]
  BY <1>0 DEF set_ctrl
<1>2. x \in [Side -> BOOLEAN]
  BY <1>0
<1> HIDE DEF x, N
<1>3. [M EXCEPT ![s].dir_en = x] \in Pair
  BY <1>0, <1>2, SetFields DEF Pair
<1>4. \A e \in Side : /\ SameCauses(N[e], M[e]) /\ N[e].count = M[e].count
                      /\ N[e].irqs = M[e].irqs /\ N[e].iop_irq = M[e].iop_irq
  <2> TAKE e \in Side
  <2>1. CASE e = s
    <3>1. N[s] = [M[s] EXCEPT !.dir_en = x]
      BY <1>0, <1>1 DEF Pair
    <3> QED
      BY <1>0, <2>1, <3>1 DEF Mailbox, SameCauses
  <2>2. CASE e # s
    <3>1. N[e] = M[e]
      BY <1>0, <1>1, <2>2 DEF Pair
    <3> QED
      BY <3>1 DEF SameCauses
  <2> QED
    BY <2>1, <2>2
<1>5. N \in Pair
  BY <1>1, <1>3
<1>6. Good(N) /\ \A e \in Side : N[e].inbox = M[e].inbox
  BY <1>4, <1>5, RegisterChange
<1> QED BY <1>6 DEF N

WithSendReg(M, s, d, w) == [M EXCEPT ![s].send_reg[d] = w]

\* A write of a low send register leaves a good pair and the inboxes alone.
LEMMA SendRegEffect ==
  ASSUME NEW M, Good(M), NEW s \in Side, NEW d \in Side, NEW w \in Word
  PROVE  /\ Good(WithSendReg(M, s, d, w))
         /\ \A e \in Side : WithSendReg(M, s, d, w)[e].inbox = M[e].inbox
<1> DEFINE N == WithSendReg(M, s, d, w)
           x == [M[s].send_reg EXCEPT ![d] = w]
<1>0. M \in Pair /\ M[s] \in Mailbox /\ M[s].send_reg \in [Side -> Word]
  BY DEF Good, Pair, Mailbox
<1>1. N = [M EXCEPT ![s].send_reg = x]
  BY <1>0 DEF WithSendReg
<1>2. x \in [Side -> Word]
  BY <1>0
<1> HIDE DEF x, N
<1>3. [M EXCEPT ![s].send_reg = x] \in Pair
  BY <1>0, <1>2, SetFields DEF Pair
<1>4. \A e \in Side : /\ SameCauses(N[e], M[e]) /\ N[e].count = M[e].count
                      /\ N[e].irqs = M[e].irqs /\ N[e].iop_irq = M[e].iop_irq
  BY <1>0, <1>1 DEF Pair, Mailbox, SameCauses
<1>5. Good(N) /\ \A e \in Side : N[e].inbox = M[e].inbox
  BY <1>1, <1>3, <1>4, RegisterChange
<1> QED BY <1>5 DEF N

WithRecvReg(M, s, d, r) == [M EXCEPT ![s].recv_reg[d] = r]

\* Storing a received message in the receive registers leaves a good pair and the
\* inboxes alone.
LEMMA RecvRegEffect ==
  ASSUME NEW M, Good(M), NEW s \in Side, NEW d \in Side, NEW r \in RecvMsg
  PROVE  /\ Good(WithRecvReg(M, s, d, r))
         /\ \A e \in Side : WithRecvReg(M, s, d, r)[e].inbox = M[e].inbox
<1> DEFINE N == WithRecvReg(M, s, d, r)
           x == [M[s].recv_reg EXCEPT ![d] = r]
<1>0. M \in Pair /\ M[s] \in Mailbox /\ M[s].recv_reg \in [Side -> RecvMsg]
  BY DEF Good, Pair, Mailbox
<1>1. N = [M EXCEPT ![s].recv_reg = x]
  BY <1>0 DEF WithRecvReg
<1>2. x \in [Side -> RecvMsg]
  BY <1>0
<1> HIDE DEF x, N
<1>3. [M EXCEPT ![s].recv_reg = x] \in Pair
  BY <1>0, <1>2, SetFields DEF Pair
<1>4. \A e \in Side : /\ SameCauses(N[e], M[e]) /\ N[e].count = M[e].count
                      /\ N[e].irqs = M[e].irqs /\ N[e].iop_irq = M[e].iop_irq
  BY <1>0, <1>1 DEF Pair, Mailbox, SameCauses
<1>5. Good(N) /\ \A e \in Side : N[e].inbox = M[e].inbox
  BY <1>1, <1>3, <1>4, RegisterChange
<1> QED BY <1>5 DEF N

\* What a receive hands out fits the receive registers: the count is cut to its field.
LEMMA ReceivedType ==
  ASSUME NEW M, Good(M), NEW s \in Side, NEW d \in Side
  PROVE  Received(M, s, d) \in RecvMsg
<1>1. NoMsg \in RecvMsg
  BY WordAssumption, CountAssumption DEF NoMsg, RecvMsg, Msg
<1>2. ASSUME CanRecv(M, s, d)
      PROVE  [msg |-> Head(M[d].inbox), count |-> M[d].count % (MaxMessageCount + 1)] \in RecvMsg
  <2>1. M[d].inbox \in Seq(Msg) /\ M[d].inbox # <<>> /\ M[d].count \in Int
    BY <1>2 DEF Good, Pair, Mailbox, CanRecv, is_empty
  <2>2. Head(M[d].inbox) \in Msg
    BY <2>1, HeadTailProperties
  <2>3. M[d].count % (MaxMessageCount + 1) \in 0 .. MaxMessageCount
    <3>1. \A c \in Int, n \in Nat : c % (n + 1) \in 0 .. n
      OBVIOUS
    <3> QED BY <2>1, <3>1, CountAssumption
  <2> QED BY <2>2, <2>3 DEF RecvMsg
<1> QED BY <1>1, <1>2 DEF Received

\* apple_a7iop_mailbox_new makes a well-typed mailbox.
LEMMA NewMailboxType == NewMailbox \in Mailbox
<1>1. NoMsg \in RecvMsg
  BY WordAssumption, CountAssumption DEF NoMsg, RecvMsg, Msg
<1> QED BY <1>1, WordAssumption DEF NewMailbox, Mailbox

\* apple_a7iop_mailbox_reset of one mailbox empties it, makes its counter zero and
\* leaves the other one's inbox alone.
LEMMA ResetOne ==
  ASSUME NEW M \in Pair, NEW s \in Side,
         \A d \in Side : M[d].count = Len(M[d].inbox)
  PROVE  /\ Good(mailbox_reset(M, s))
         /\ mailbox_reset(M, s)[s].inbox = <<>>
         /\ \A d \in Side \ {s} : mailbox_reset(M, s)[d].inbox = M[d].inbox
<1> DEFINE m == [NewMailbox EXCEPT !.dir_en = [d \in Side |-> TRUE],
                                   !.int_mask = M[s].int_mask,
                                   !.iop_irq = M[s].iop_irq]
           N == [M EXCEPT ![s] = m]
<1>1. M[s].int_mask \in SUBSET Irq /\ M[s].iop_irq \in BOOLEAN
  BY DEF Pair, Mailbox
<1>2. m \in Mailbox
  <2>1. [d \in Side |-> TRUE] \in [Side -> BOOLEAN]
    OBVIOUS
  <2>2. \A de \in [Side -> BOOLEAN], im \in SUBSET Irq, ii \in BOOLEAN :
          [NewMailbox EXCEPT !.dir_en = de, !.int_mask = im, !.iop_irq = ii] \in Mailbox
    BY NewMailboxType DEF Mailbox
  <2> QED BY <1>1, <2>1, <2>2
<1>3. m.inbox = <<>> /\ m.count = 0
  BY DEF NewMailbox
<1> HIDE DEF m
<1>4. N \in Pair /\ N[s] = m /\ \A d \in Side \ {s} : N[d] = M[d]
  BY <1>2 DEF Pair
<1> HIDE DEF N
<1>5. \A d \in Side : N[d].count = Len(N[d].inbox)
  BY <1>3, <1>4
<1>6. Good(update_irq(N, s)) /\ \A d \in Side : SameButLines(update_irq(N, s)[d], N[d])
  BY <1>4, <1>5, UpdateGood, UpdateFrame
<1>7. mailbox_reset(M, s) = update_irq(N, s)
  BY DEF mailbox_reset, N, m
<1>8. \A d \in Side : update_irq(N, s)[d].inbox = N[d].inbox
  BY <1>6 DEF SameButLines
<1> QED BY <1>3, <1>4, <1>6, <1>7, <1>8

\* The reset of the pair turns any pair with right counters into a good one with two
\* empty inboxes, although it resets one mailbox before the other.
LEMMA ResetEffect ==
  ASSUME NEW M \in Pair, \A d \in Side : M[d].count = Len(M[d].inbox)
  PROVE  Good(system_reset(M)) /\ \A d \in Side : system_reset(M)[d].inbox = <<>>
<1> DEFINE N == mailbox_reset(M, "ap")
<1>1. Good(N) /\ N["ap"].inbox = <<>>
  BY ResetOne DEF Side
<1> HIDE DEF N
<1>2. /\ Good(mailbox_reset(N, "iop")) /\ mailbox_reset(N, "iop")["iop"].inbox = <<>>
      /\ mailbox_reset(N, "iop")["ap"].inbox = N["ap"].inbox
  BY <1>1, ResetOne DEF Good, Side
<1> QED BY <1>1, <1>2 DEF system_reset, N, Side

-----------------------------------------------------------------------------
(* The invariant.  CountIsLength and SepIrqExact are the two parts of Good, *)
(* InOrderOnce relates the histories to the inboxes.                        *)
IInv == Good(mb) /\ TypeOK /\ InOrderOnce

\* Appending to the inbox appends to what has been accepted.
LEMMA SendHistory ==
  ASSUME NEW a \in Seq(Msg), NEW q \in Seq(Msg), NEW msg \in Msg
  PROVE  a \o Append(q, msg) = Append(a \o q, msg)
<1>1. <<msg>> \in Seq(Msg) /\ a \o q \in Seq(Msg)
  BY ConcatProperties
<1>2. Append(q, msg) = q \o <<msg>> /\ Append(a \o q, msg) = (a \o q) \o <<msg>>
  BY <1>1, AppendIsConcat
<1> QED BY <1>1, <1>2, ConcatAssociative

\* Moving the head of the inbox to what has been delivered keeps the concatenation.
LEMMA RecvHistory ==
  ASSUME NEW a \in Seq(Msg), NEW q \in Seq(Msg), q # <<>>
  PROVE  Append(a, Head(q)) \o Tail(q) = a \o q
<1>1. Head(q) \in Msg /\ Tail(q) \in Seq(Msg) /\ <<Head(q)>> \in Seq(Msg)
  BY HeadTailProperties
<1>2. Append(a, Head(q)) = a \o <<Head(q)>>
  BY <1>1, AppendIsConcat
<1>3. q = <<Head(q)>> \o Tail(q)
  <2>1. Len(q) \in Nat \ {0} /\ 1 \in 1 .. Len(q) /\ Len(q) \in 1 .. Len(q)
    BY EmptySeq
  <2>2. SubSeq(q, 1, Len(q)) = <<q[1]>> \o SubSeq(q, 1 + 1, Len(q))
    BY <2>1, SubSeqRecursiveFirst
  <2>3. SubSeq(q, 1, Len(q)) = q /\ SubSeq(q, 2, Len(q)) = Tail(q) /\ q[1] = Head(q)
    BY SubSeqFull, TailIsSubSeq
  <2> QED BY <2>2, <2>3
<1>4. (a \o <<Head(q)>>) \o Tail(q) = a \o (<<Head(q)>> \o Tail(q))
  BY <1>1, ConcatAssociative
<1> QED BY <1>2, <1>3, <1>4

\* A step that moves no message.
LEMMA QuietStep ==
  ASSUME IInv, Good(mb'), vector' \in Nat, UNCHANGED <<accepted, delivered>>,
         \A d \in Side : mb'[d].inbox = mb[d].inbox
  PROVE  IInv'
BY DEF IInv, TypeOK, InOrderOnce, Good

\* A step that sends msg through bank s.
LEMMA SendStep ==
  ASSUME IInv, NEW s \in Side, NEW d \in Side, NEW msg \in Msg,
         mb' = Send(mb, s, d, msg), LogSend(s, d, msg), UNCHANGED vector
  PROVE  IInv'
<1>1. /\ Good(mb')
      /\ mb'[d].inbox = IF mb[s].dir_en[d] THEN Append(mb[d].inbox, msg) ELSE mb[d].inbox
      /\ \A e \in Side \ {d} : mb'[e].inbox = mb[e].inbox
  BY SendEffect DEF IInv
<1>2. CASE ~mb[s].dir_en[d]
  BY <1>1, <1>2, QuietStep DEF LogSend, IInv, TypeOK
<1>3. CASE mb[s].dir_en[d]
  <2>1. mb[d].inbox \in Seq(Msg) /\ delivered[d] \in Seq(Msg) /\ accepted \in [Side -> Seq(Msg)]
    BY DEF IInv, TypeOK, Good, Pair, Mailbox
  <2>2. accepted' = [accepted EXCEPT ![d] = Append(@, msg)] /\ delivered' = delivered
    BY <1>3 DEF LogSend
  <2>3. accepted' \in [Side -> Seq(Msg)]
    BY <2>1, <2>2
  <2>4. delivered'[d] \o mb'[d].inbox = accepted'[d]
    <3>1. delivered[d] \o Append(mb[d].inbox, msg) = Append(delivered[d] \o mb[d].inbox, msg)
      BY <2>1, SendHistory
    <3> QED BY <1>1, <1>3, <2>1, <2>2, <3>1 DEF IInv, InOrderOnce
  <2>5. \A e \in Side \ {d} : delivered'[e] \o mb'[e].inbox = accepted'[e]
    BY <1>1, <2>1, <2>2 DEF IInv, InOrderOnce
  <2> QED BY <1>1, <2>2, <2>3, <2>4, <2>5 DEF IInv, TypeOK, InOrderOnce, Good
<1> QED BY <1>2, <1>3

\* A step that receives through bank s.
LEMMA RecvStep ==
  ASSUME IInv, NEW s \in Side, NEW d \in Side, Good(mb'),
         \A e \in Side : mb'[e].inbox = Recv(mb, s, d)[e].inbox,
         LogRecv(s, d), UNCHANGED vector
  PROVE  IInv'
<1>1. /\ mb'[d].inbox = IF CanRecv(mb, s, d) THEN Tail(mb[d].inbox) ELSE mb[d].inbox
      /\ \A e \in Side \ {d} : mb'[e].inbox = mb[e].inbox
  BY RecvEffect DEF IInv
<1>2. CASE ~CanRecv(mb, s, d)
  BY <1>1, <1>2, QuietStep DEF LogRecv, IInv, TypeOK
<1>3. CASE CanRecv(mb, s, d)
  <2>1. /\ mb[d].inbox \in Seq(Msg) /\ mb[d].inbox # <<>>
        /\ delivered \in [Side -> Seq(Msg)]
    BY <1>3 DEF IInv, TypeOK, Good, Pair, Mailbox, CanRecv, is_empty
  <2>2. delivered' = [delivered EXCEPT ![d] = Append(@, Head(mb[d].inbox))] /\ accepted' = accepted
    BY <1>3 DEF LogRecv
  <2>3. delivered' \in [Side -> Seq(Msg)]
    <3>1. Head(mb[d].inbox) \in Msg
      BY <2>1, HeadTailProperties
    <3> QED BY <2>1, <2>2, <3>1
  <2>4. delivered'[d] \o mb'[d].inbox = accepted'[d]
    <3>1. Append(delivered[d], Head(mb[d].inbox)) \o Tail(mb[d].inbox) = delivered[d] \o mb[d].inbox
      BY <2>1, RecvHistory
    <3> QED BY <1>1, <1>3, <2>1, <2>2, <3>1 DEF IInv, InOrderOnce
  <2>5. \A e \in Side \ {d} : delivered'[e] \o mb'[e].inbox = accepted'[e]
    BY <1>1, <2>1, <2>2 DEF IInv, InOrderOnce
  <2> QED BY <2>2, <2>3, <2>4, <2>5 DEF IInv, TypeOK, InOrderOnce, Good
<1> QED BY <1>2, <1>3

\* The pair as created and reset at start-up satisfies the inductive invariant.
LEMMA InitInv == Init => IInv
<1> SUFFICES ASSUME Init PROVE IInv
  OBVIOUS
<1> DEFINE M == [s \in Side |-> NewMailbox]
<1>1. M \in Pair /\ \A d \in Side : M[d].count = Len(M[d].inbox)
  BY NewMailboxType DEF Pair, NewMailbox
<1> HIDE DEF M
<1>2. Good(mb) /\ \A d \in Side : mb[d].inbox = <<>>
  BY <1>1, ResetEffect DEF Init, InitPair, M
<1>3. TypeOK
  BY <1>2 DEF Init, TypeOK, Good
<1>4. InOrderOnce
  BY <1>2 DEF Init, InOrderOnce
<1> QED BY <1>2, <1>3, <1>4 DEF IInv

\* Every register access, call and reset preserves the inductive invariant.
LEMMA NextInv == IInv /\ [Next]_vars => IInv'
<1> SUFFICES ASSUME IInv, [Next]_vars PROVE IInv'
  OBVIOUS
<1>0. Good(mb) /\ mb \in Pair /\ vector \in Nat
  BY DEF IInv, TypeOK
<1>1. ASSUME NEW s \in Side, NEW w \in Word, WriteSendLow(s, w) PROVE IInv'
  <2>1. Towards(s) \in Side
    BY DEF Towards, Side
  <2>2. mb' = WithSendReg(mb, s, Towards(s), w) /\ UNCHANGED <<vector, accepted, delivered>>
    BY <1>1 DEF WriteSendLow, WithSendReg
  <2>3. Good(mb') /\ \A e \in Side : mb'[e].inbox = mb[e].inbox
    BY <1>0, <2>1, <2>2, SendRegEffect
  <2> QED BY <1>0, <2>2, <2>3, QuietStep
<1>2. ASSUME NEW s \in Side, NEW w \in Word, WriteSendLast(s, w) PROVE IInv'
  <2>1. Towards(s) \in Side
    BY DEF Towards, Side
  <2>2. <<mb[s].send_reg[Towards(s)], w>> \in Msg
    BY <1>0, <2>1 DEF Pair, Mailbox, Msg
  <2> QED BY <1>2, <2>1, <2>2, SendStep DEF WriteSendLast
<1>3. ASSUME NEW s \in Side, ReadRecv0(s) PROVE IInv'
  <2> DEFINE R == Recv(mb, s, s)
             r == Received(mb, s, s)
  <2>1. Good(R) /\ r \in RecvMsg
    BY <1>0, RecvEffect, ReceivedType
  <2>2. mb' = WithRecvReg(R, s, s, r)
    BY <1>3 DEF ReadRecv0, WithRecvReg
  <2> HIDE DEF R, r
  <2>3. Good(mb') /\ \A e \in Side : mb'[e].inbox = R[e].inbox
    BY <2>1, <2>2, RecvRegEffect
  <2> QED BY <1>3, <2>3, RecvStep DEF ReadRecv0, R
<1>4. ASSUME NEW b \in MaskBits, WriteMaskSet(b[1], b[2]) \/ WriteMaskClr(b[1], b[2]) PROVE IInv'
  <2>1. b[1] \in Side /\ {b[2]} \in SUBSET Irq
    BY MaskBitsAssumption
  <2> QED BY <1>0, <1>4, <2>1, MaskEffect, QuietStep DEF WriteMaskSet, WriteMaskClr
<1>5. ASSUME NEW s \in Side, NEW d \in CtrlDirs, NEW en \in BOOLEAN, WriteCtrl(s, d, en) PROVE IInv'
  <2>1. d \in Side
    BY MaskBitsAssumption
  <2> QED BY <1>0, <1>5, <2>1, CtrlEffect, QuietStep DEF WriteCtrl
<1>6. ASSUME NEW msg \in Msg, ApiSendAp(msg) PROVE IInv'
  BY <1>6, SendStep DEF ApiSendAp, Side
<1>7. ASSUME ApiRecvIop PROVE IInv'
  <2>1. Good(mb')
    BY <1>0, <1>7, RecvEffect DEF ApiRecvIop, Side
  <2> QED BY <1>7, <2>1, RecvStep DEF ApiRecvIop, Side
<1>8. ASSUME NEW st \in Status, StatusPush(st) PROVE IInv'
  BY <1>0, <1>8, PushEffect, QuietStep DEF StatusPush, Side
<1>9. ASSUME ReadInterruptStatus PROVE IInv'
  <2> DEFINE P == interrupt_status_pop(mb, "iop")
  <2>1. Good(P) /\ \A d \in Side : P[d].inbox = mb[d].inbox
    BY <1>0, PopEffect DEF Side
  <2>2. mb' = update_irq_status(P, "iop") /\ UNCHANGED <<accepted, delivered>>
    BY <1>9 DEF ReadInterruptStatus
  <2> HIDE DEF P
  <2>3. Good(mb') /\ \A d \in Side : mb'[d].inbox = mb[d].inbox
    BY <2>1, <2>2, StatusEffect
  <2>4. PoppedStatus(mb["iop"]) \in Nat
    <3>1. mb["iop"] \in Mailbox /\ mb["iop"].interrupt_status \in Seq(Status)
      BY <1>0 DEF Pair, Mailbox, Side
    <3>2. EnabledStatus(mb["iop"]) # {} => mb["iop"].interrupt_status[LowestIdx(mb["iop"])] \in Status
      BY <3>1, LowestExists, ElementOfSeq
    <3> QED BY <3>2, StatusAssumption DEF PoppedStatus
  <2>5. vector' \in Nat
    <3> HIDE DEF PoppedStatus
    <3> QED BY <1>9, <2>4 DEF ReadInterruptStatus, Vectors, NoVector
  <2> QED BY <2>2, <2>3, <2>5, QuietStep
<1>10. ASSUME NEW st \in Maskable, NEW en \in BOOLEAN, SetInterruptEnable(st, en) PROVE IInv'
  <2> DEFINE v == IF en THEN mb["iop"].interrupts_enabled \cup {st}
                  ELSE mb["iop"].interrupts_enabled \ {st}
  <2>1. v \in SUBSET Maskable
    BY <1>0 DEF Pair, Mailbox, Side
  <2>2. mb' = update_irq([mb EXCEPT !["iop"].interrupts_enabled = v], "iop")
    BY <1>10 DEF SetInterruptEnable
  <2>3. UNCHANGED <<vector, accepted, delivered>>
    BY <1>10 DEF SetInterruptEnable
  <2> HIDE DEF v
  <2>4. Good(mb') /\ \A d \in Side : mb'[d].inbox = mb[d].inbox
    BY <1>0, <2>1, <2>2, EnableChange DEF Side
  <2> QED BY <1>0, <2>3, <2>4, QuietStep
<1>11. ASSUME Reset PROVE IInv'
  <2>1. Good(mb') /\ \A d \in Side : mb'[d].inbox = <<>>
    BY <1>0, <1>11, ResetEffect DEF Reset, Good
  <2>2. /\ accepted' = [d \in Side |-> <<>>] /\ delivered' = [d \in Side |-> <<>>]
        /\ vector' = vector /\ vector \in Nat
    BY <1>11 DEF Reset, IInv, TypeOK
  <2>3. InOrderOnce'
    BY <2>1, <2>2 DEF InOrderOnce
  <2>4. TypeOK'
    BY <2>1, <2>2 DEF TypeOK, Good
  <2> QED BY <2>1, <2>3, <2>4 DEF IInv
<1>12. CASE UNCHANGED vars
  BY <1>12 DEF vars, IInv, TypeOK, InOrderOnce, Good
<1> QED BY <1>1, <1>2, <1>3, <1>4, <1>5, <1>6, <1>7, <1>8, <1>9, <1>10, <1>11, <1>12 DEF Next

\* The inductive invariant holds in every reachable state.
THEOREM Invariance == Spec => []IInv
BY InitInv, NextInv, PTL DEF Spec

-----------------------------------------------------------------------------
\* The pair, the registers and the histories keep their types for any number of
\* messages, any register width and any set of interrupt status values.
THEOREM TypeCorrect == Spec => []TypeOK
<1>1. IInv => TypeOK
  BY DEF IInv
<1> QED BY <1>1, Invariance, PTL

\* The counter behind FULL and the count field is the length of the inbox in every
\* reachable state: send, recv and reset never let the two drift apart.
THEOREM CounterCorrect == Spec => []CountIsLength
<1>1. IInv => CountIsLength
  BY DEF IInv, Good, CountIsLength
<1> QED BY <1>1, Invariance, PTL

\* Every message accepted since the last reset is delivered once and in order, or
\* still waits in the inbox, whatever the enables, the underflows and the masks do.
THEOREM FifoCorrect == Spec => []InOrderOnce
<1>1. IInv => InOrderOnce
  BY DEF IInv
<1> QED BY <1>1, Invariance, PTL

\* The interrupt line of the SEP CPU has the level its causes call for in every
\* reachable state, the one after a reset included.
THEOREM SepIrqCorrect == Spec => []SepIrqExact
<1>1. IInv => SepIrqExact
  BY DEF IInv, Good, SepExact, SepIrqExact
<1> QED BY <1>1, Invariance, PTL

-----------------------------------------------------------------------------
(* The lines of the "ap" bank.                                             *)

\* The level of each line is the one its cause and the mask call for.
ApExact(M) == M["ap"].irqs = IrqLevels(M, "ap")

\* update_irq of the "ap" bank computes its lines from the state it leaves.
LEMMA UpdateApExact ==
  ASSUME NEW M \in Pair, ~SepRole
  PROVE  ApExact(update_irq(M, "ap"))
<1> DEFINE N == update_irq(M, "ap")
<1>1. N = [M EXCEPT !["ap"].irqs = IrqLevels(M, "ap")]
  BY DEF update_irq, update_irq_status
<1>2. N["ap"].irqs = IrqLevels(M, "ap")
  BY <1>1 DEF Pair, Mailbox, Side
<1>3. \A d \in Side : SameCauses(N[d], M[d])
  <2>1. \A d \in Side : SameButLines(N[d], M[d])
    BY UpdateFrame DEF Side
  <2> HIDE DEF N
  <2> QED BY <2>1 DEF SameButLines, SameCauses
<1> HIDE DEF N
<1>4. IrqLevels(N, "ap") = IrqLevels(M, "ap")
  BY <1>3, LevelsFrame DEF Side
<1> QED BY <1>2, <1>4 DEF ApExact, N

\* What leaves the inboxes, the mask and the lines of the "ap" bank alone leaves them
\* exact.
LEMMA ApFrame ==
  ASSUME NEW M, NEW N, ApExact(M), \A d \in Side : SameCauses(N[d], M[d]),
         N["ap"].irqs = M["ap"].irqs
  PROVE  ApExact(N)
BY LevelsFrame DEF ApExact, Side

\* update_irq of the "iop" bank leaves the lines of the other alone.
LEMMA UpdateIopKeeps ==
  ASSUME NEW M \in Pair, ~SepRole, ApExact(M)
  PROVE  ApExact(update_irq(M, "iop"))
<1> DEFINE N == update_irq(M, "iop")
<1>1. N = [M EXCEPT !["iop"].irqs = IrqLevels(M, "iop")]
  BY DEF update_irq, update_irq_status
<1>2. N["ap"].irqs = M["ap"].irqs
  BY <1>1 DEF Pair, Side
<1>3. \A d \in Side : SameCauses(N[d], M[d])
  BY UpdateFrame DEF SameButLines, SameCauses, Side
<1> HIDE DEF N
<1> QED BY <1>2, <1>3, ApFrame DEF N

\* Between two resets no access of the AP's driver and no send or receive of device code
\* leaves a line of the "ap" bank at a level that the inboxes do not call for.
LEMMA ApLinesStep ==
  ASSUME IInv, ~SepRole, ApExact(mb), [Next]_vars, ~Reset
  PROVE  ApExact(mb')
<1>g. Good(mb) /\ mb \in Pair BY DEF IInv, TypeOK, Good, CountIsLength, SepIrqExact
<1>s. "ap" \in Side /\ "iop" \in Side BY DEF Side
<1>1. ASSUME NEW s \in Side, NEW w \in Word, WriteSendLow(s, w) PROVE ApExact(mb')
  <2>1. s = "ap" /\ mb' = [mb EXCEPT !["ap"].send_reg["iop"] = w]
    BY <1>1 DEF WriteSendLow, BankInUse, Towards
  <2>2. \A d \in Side : SameCauses(mb'[d], mb[d]) /\ mb'[d].irqs = mb[d].irqs
    BY <1>g, <2>1 DEF Pair, Mailbox, SameCauses
  <2> QED BY <1>s, <2>2, ApFrame
<1>2. ASSUME NEW s \in Side, NEW w \in Word, WriteSendLast(s, w) PROVE ApExact(mb')
  <2> DEFINE msg == <<mb["ap"].send_reg["iop"], w>>
             N == mailbox_send(mb, "iop", msg)
  <2>1. mb' = Send(mb, "ap", "iop", msg) BY <1>2 DEF WriteSendLast, BankInUse, Towards
  <2>2. msg \in Msg BY <1>g, <1>s DEF Pair, Mailbox, Msg
  <2> HIDE DEF msg
  <2>3. N \in Pair
    <3>1. Good(N) BY <1>g, <1>s, <2>2, MailboxSend
    <3> HIDE DEF N
    <3> QED BY <3>1 DEF Good
  <2>4. mb' = mb \/ mb' = update_irq(N, "ap") BY <2>1 DEF Send
  <2> HIDE DEF N
  <2> QED BY <2>3, <2>4, UpdateApExact
<1>3. ASSUME NEW s \in Side, ReadRecv0(s) PROVE ApExact(mb')
  <2> DEFINE R == Recv(mb, "ap", "ap")
             N == mailbox_recv(mb, "ap")
  <2>1. mb' = [R EXCEPT !["ap"].recv_reg["ap"] = Received(mb, "ap", "ap")]
    BY <1>3 DEF ReadRecv0, BankInUse
  <2>2. R \in Pair /\ N \in Pair
    <3>1. Good(R) /\ Good(N) BY <1>g, <1>s, RecvEffect, MailboxRecv
    <3> HIDE DEF R, N
    <3> QED BY <3>1 DEF Good
  <2>3. R = mb \/ R = update_irq(N, "ap") BY DEF Recv
  <2>4. ApExact(R)
    <3> HIDE DEF R, N
    <3> QED BY <2>2, <2>3, UpdateApExact
  <2> HIDE DEF R
  <2>5. \A d \in Side : SameCauses(mb'[d], R[d]) /\ mb'[d].irqs = R[d].irqs
    BY <2>1, <2>2 DEF Pair, Mailbox, SameCauses
  <2> QED BY <1>s, <2>4, <2>5, ApFrame
<1>4. ASSUME NEW b \in MaskBits, WriteMaskSet(b[1], b[2]) \/ WriteMaskClr(b[1], b[2])
      PROVE  ApExact(mb')
  <2>1. b[1] = "ap" /\ b[2] \in Irq
    BY <1>4, MaskBitsAssumption DEF WriteMaskSet, WriteMaskClr, BankInUse
  <2>2. PICK v \in SUBSET Irq : mb' = update_irq([mb EXCEPT !["ap"].int_mask = v], "ap")
    <3>1. mb["ap"].int_mask \in SUBSET Irq BY <1>g, <1>s DEF Pair, Mailbox
    <3>2. CASE WriteMaskSet(b[1], b[2])
      <4>1. mb' = update_irq([mb EXCEPT !["ap"].int_mask = mb["ap"].int_mask \cup {b[2]}], "ap")
        BY <1>g, <1>s, <2>1, <3>2 DEF WriteMaskSet, set_int_mask, Pair
      <4> QED BY <2>1, <3>1, <4>1
    <3>3. CASE WriteMaskClr(b[1], b[2])
      <4>1. mb' = update_irq([mb EXCEPT !["ap"].int_mask = mb["ap"].int_mask \ {b[2]}], "ap")
        BY <1>g, <1>s, <2>1, <3>3 DEF WriteMaskClr, clear_int_mask, Pair
      <4> QED BY <2>1, <3>1, <4>1
    <3> QED BY <1>4, <3>2, <3>3
  <2> DEFINE N == [mb EXCEPT !["ap"].int_mask = v]
  <2>3. N \in Pair BY <1>g, <1>s, SetFields DEF Pair
  <2> HIDE DEF N
  <2> QED BY <2>2, <2>3, UpdateApExact DEF N
<1>5. ASSUME NEW s \in Side, NEW d \in CtrlDirs, NEW en \in BOOLEAN, WriteCtrl(s, d, en)
      PROVE  ApExact(mb')
  <2>1. s = "ap" /\ mb' = [mb EXCEPT !["ap"].dir_en[d] = en]
    BY <1>5 DEF WriteCtrl, set_ctrl, BankInUse
  <2>2. \A e \in Side : SameCauses(mb'[e], mb[e]) /\ mb'[e].irqs = mb[e].irqs
    BY <1>g, <2>1 DEF Pair, Mailbox, SameCauses
  <2> QED BY <1>s, <2>2, ApFrame
<1>6. ASSUME NEW msg \in Msg, ApiSendAp(msg) PROVE ApExact(mb')
  <2> DEFINE W == [mb EXCEPT !["ap"].inbox = Append(@, msg), !["ap"].count = @ + 1]
             N == update_irq(W, "ap")
  <2>1. N = mailbox_send(mb, "ap", msg) BY DEF mailbox_send
  <2>2. mb' = mb \/ mb' = update_irq(N, "iop") BY <1>6, <2>1 DEF ApiSendAp, Send
  <2>3. W \in Pair
    <3>1. mb["ap"] \in Mailbox /\ mb["ap"].inbox \in Seq(Msg) /\ mb["ap"].count \in Int
      BY <1>g, <1>s DEF Pair, Mailbox
    <3> DEFINE q == Append(mb["ap"].inbox, msg)
               c == mb["ap"].count + 1
    <3>2. q \in Seq(Msg) /\ c \in Int BY <3>1
    <3>3. W = [mb EXCEPT !["ap"] = [mb["ap"] EXCEPT !.inbox = q, !.count = c]]
      BY <1>g, <1>s, <3>1 DEF Pair, Mailbox
    <3> HIDE DEF q, c, W
    <3> QED BY <1>g, <1>s, <3>1, <3>2, <3>3, SetInbox DEF Pair
  <2> HIDE DEF W
  <2>4. N \in Pair /\ ApExact(N) BY <1>s, <2>3, UpdateType, UpdateApExact
  <2> HIDE DEF N
  <2> QED BY <2>2, <2>4, UpdateIopKeeps
<1>7. CASE ApiRecvIop
  <2> DEFINE N == mailbox_recv(mb, "iop")
  <2>1. mb' = mb \/ mb' = update_irq(N, "ap") BY <1>7 DEF ApiRecvIop, Recv
  <2>2. N \in Pair
    <3>1. Good(N) BY <1>g, <1>s, MailboxRecv
    <3> HIDE DEF N
    <3> QED BY <3>1 DEF Good
  <2> HIDE DEF N
  <2> QED BY <2>1, <2>2, UpdateApExact
<1>8. CASE UNCHANGED vars BY <1>8 DEF vars
<1>9. ~ ((\E st \in Status : StatusPush(st)) \/ ReadInterruptStatus
         \/ \E st \in Maskable, en \in BOOLEAN : SetInterruptEnable(st, en))
  BY DEF StatusPush, ReadInterruptStatus, SetInterruptEnable
<1> QED BY <1>1, <1>2, <1>3, <1>4, <1>5, <1>6, <1>7, <1>8, <1>9 DEF Next

\* The lines of the "ap" bank, which raise the AIC's interrupts, are not stale between two
\* resets when the coprocessor is device code (apple_a7iop_mailbox_update_irq).
THEOREM ApLinesCorrect == Spec => ApLinesExact
<1>1. IInv /\ [Next]_vars
        => [~SepRole /\ mb["ap"].irqs = IrqLevels(mb, "ap") =>
              Reset \/ mb'["ap"].irqs = IrqLevels(mb', "ap")]_vars
  BY ApLinesStep DEF ApExact
<1> QED BY <1>1, Invariance, PTL DEF Spec, ApLinesExact

-----------------------------------------------------------------------------
(***************************************************************************)
(* The mailbox pair implements Channel: with the inboxes as the queues and *)
(* the history of deliveries as what was taken, every step of the pair is  *)
(* a step of the channel or leaves it alone.  The inductive invariant is   *)
(* needed because a receive trusts the counter, and the channel the queue. *)
(***************************************************************************)

\* The registers, masks, enables, lines and the status queue are no part of the channel:
\* an access that moves no message is a stutter of it.
LEMMA QuietRefines ==
  ASSUME \A d \in Side : mb'[d].inbox = mb[d].inbox, UNCHANGED delivered
  PROVE  [Pipe!ChNext]_(Pipe!chvars)
BY DEF Pipe!chvars, Inboxes

\* apple_a7iop_mailbox_send through a bank puts one message, or none if the direction
\* is disabled.
LEMMA SendRefines ==
  ASSUME IInv, NEW s \in Side, NEW d \in Side, NEW msg \in Msg,
         mb' = Send(mb, s, d, msg), LogSend(s, d, msg)
  PROVE  [Pipe!ChNext]_(Pipe!chvars)
<1>1. /\ mb'[d].inbox = IF mb[s].dir_en[d] THEN Append(mb[d].inbox, msg) ELSE mb[d].inbox
      /\ \A e \in Side \ {d} : mb'[e].inbox = mb[e].inbox
      /\ UNCHANGED delivered
  <2>1. Good(mb) BY DEF IInv
  <2>2. UNCHANGED delivered BY DEF LogSend
  <2> DEFINE N == Send(mb, s, d, msg)
  <2>3. /\ N[d].inbox = IF mb[s].dir_en[d] THEN Append(mb[d].inbox, msg) ELSE mb[d].inbox
        /\ \A e \in Side \ {d} : N[e].inbox = mb[e].inbox
    BY <2>1, SendEffect
  <2>4. mb' = N OBVIOUS
  <2> HIDE DEF N
  <2> QED BY <2>2, <2>3, <2>4
<1>2. CASE ~mb[s].dir_en[d]
  BY <1>1, <1>2, QuietRefines
<1>3. CASE mb[s].dir_en[d]
  <2>1. Inboxes' = [Inboxes EXCEPT ![d] = Append(@, msg)]
    BY <1>1, <1>3, Zenon DEF Inboxes
  <2>2. Pipe!Put(d, msg)
    BY <1>1, <2>1 DEF Pipe!Put
  <2> QED BY <2>2 DEF Pipe!ChNext
<1> QED BY <1>2, <1>3

\* apple_a7iop_mailbox_recv through a bank takes the oldest message, or nothing if the
\* direction is disabled, the inbox empty or underflown.
LEMMA RecvRefines ==
  ASSUME IInv, NEW s \in Side, NEW d \in Side,
         \A e \in Side : mb'[e].inbox = Recv(mb, s, d)[e].inbox, LogRecv(s, d)
  PROVE  [Pipe!ChNext]_(Pipe!chvars)
<1>1. /\ mb'[d].inbox = IF CanRecv(mb, s, d) THEN Tail(mb[d].inbox) ELSE mb[d].inbox
      /\ \A e \in Side \ {d} : mb'[e].inbox = mb[e].inbox
  <2>1. Good(mb) BY DEF IInv
  <2> DEFINE N == Recv(mb, s, d)
  <2>2. /\ N[d].inbox = IF CanRecv(mb, s, d) THEN Tail(mb[d].inbox) ELSE mb[d].inbox
        /\ \A e \in Side \ {d} : N[e].inbox = mb[e].inbox
    BY <2>1, RecvEffect
  <2>3. \A e \in Side : mb'[e].inbox = N[e].inbox OBVIOUS
  <2> HIDE DEF N
  <2> QED BY <2>2, <2>3
<1>2. CASE ~CanRecv(mb, s, d)
  BY <1>1, <1>2, QuietRefines DEF LogRecv
<1>3. CASE CanRecv(mb, s, d)
  <2>1. mb[d].inbox # <<>>
    BY <1>3 DEF IInv, Good, Pair, Mailbox, CanRecv, is_empty
  <2>2. Inboxes' = [Inboxes EXCEPT ![d] = Tail(@)]
    BY <1>1, <1>3, Zenon DEF Inboxes
  <2>3. delivered' = [delivered EXCEPT ![d] = Append(@, Head(mb[d].inbox))]
    BY <1>3 DEF LogRecv
  <2>4. Pipe!Take(d)
    BY <2>1, <2>2, <2>3 DEF Pipe!Take, Inboxes
  <2> QED BY <2>4 DEF Pipe!ChNext
<1> QED BY <1>2, <1>3

\* The pair starts with two empty inboxes, as the channel does.
LEMMA InitRefines == Init => Pipe!ChInit
<1> SUFFICES ASSUME Init PROVE Pipe!ChInit
  OBVIOUS
<1> DEFINE M == [s \in Side |-> NewMailbox]
<1>1. M \in Pair /\ \A d \in Side : M[d].count = Len(M[d].inbox)
  BY NewMailboxType DEF Pair, NewMailbox
<1> HIDE DEF M
<1>2. \A d \in Side : mb[d].inbox = <<>>
  BY <1>1, ResetEffect DEF Init, InitPair, M
<1> QED BY <1>2 DEF Init, Inboxes, Pipe!ChInit, Pipe!Empty

\* Every register access, call and reset is one step of the channel or none.
LEMMA NextRefines == IInv /\ [Next]_vars => [Pipe!ChNext]_(Pipe!chvars)
<1> SUFFICES ASSUME IInv, [Next]_vars PROVE [Pipe!ChNext]_(Pipe!chvars)
  OBVIOUS
<1> USE DEF IInv
<1> DEFINE Goal == [Pipe!ChNext]_(Pipe!chvars)
<1>1. ASSUME NEW s \in Side, NEW w \in Word, WriteSendLow(s, w) PROVE Goal
  <2>1. Towards(s) \in Side /\ mb' = WithSendReg(mb, s, Towards(s), w) /\ UNCHANGED delivered
    BY <1>1 DEF WriteSendLow, WithSendReg, Towards, Side
  <2> QED BY <2>1, SendRegEffect, QuietRefines
<1>2. ASSUME NEW s \in Side, NEW w \in Word, WriteSendLast(s, w) PROVE Goal
  <2>1. Towards(s) \in Side
    BY DEF Towards, Side
  <2>2. <<mb[s].send_reg[Towards(s)], w>> \in Msg
    BY <2>1 DEF Good, Pair, Mailbox, Msg
  <2> QED BY <1>2, <2>1, <2>2, SendRefines DEF WriteSendLast
<1>3. ASSUME NEW s \in Side, ReadRecv0(s) PROVE Goal
  <2> DEFINE R == Recv(mb, s, s)
             r == Received(mb, s, s)
  <2>1. Good(R) /\ r \in RecvMsg
    BY RecvEffect, ReceivedType
  <2>2. mb' = WithRecvReg(R, s, s, r) /\ LogRecv(s, s)
    BY <1>3 DEF ReadRecv0, WithRecvReg
  <2> HIDE DEF R, r
  <2>3. \A e \in Side : mb'[e].inbox = R[e].inbox
    BY <2>1, <2>2, RecvRegEffect
  <2> QED BY <2>2, <2>3, RecvRefines DEF R
<1>4. ASSUME NEW b \in MaskBits, WriteMaskSet(b[1], b[2]) \/ WriteMaskClr(b[1], b[2]) PROVE Goal
  <2>1. b[1] \in Side /\ {b[2]} \in SUBSET Irq
    BY MaskBitsAssumption
  <2> QED BY <1>4, <2>1, MaskEffect, QuietRefines DEF WriteMaskSet, WriteMaskClr
<1>5. ASSUME NEW s \in Side, NEW d \in CtrlDirs, NEW en \in BOOLEAN, WriteCtrl(s, d, en) PROVE Goal
  BY <1>5, MaskBitsAssumption, CtrlEffect, QuietRefines DEF WriteCtrl
<1>6. ASSUME NEW msg \in Msg, ApiSendAp(msg) PROVE Goal
  BY <1>6, SendRefines DEF ApiSendAp, Side
<1>7. ASSUME ApiRecvIop PROVE Goal
  BY <1>7, RecvRefines DEF ApiRecvIop, Side
<1>8. ASSUME NEW st \in Status, StatusPush(st) PROVE Goal
  BY <1>8, PushEffect, QuietRefines DEF StatusPush, Side
<1>9. ASSUME ReadInterruptStatus PROVE Goal
  <2> DEFINE P == interrupt_status_pop(mb, "iop")
  <2>1. Good(P) /\ \A d \in Side : P[d].inbox = mb[d].inbox
    BY PopEffect DEF Side
  <2>2. mb' = update_irq_status(P, "iop") /\ UNCHANGED delivered
    BY <1>9 DEF ReadInterruptStatus
  <2> HIDE DEF P
  <2> QED BY <2>1, <2>2, StatusEffect, QuietRefines
<1>10. ASSUME NEW st \in Maskable, NEW en \in BOOLEAN, SetInterruptEnable(st, en) PROVE Goal
  <2> DEFINE v == IF en THEN mb["iop"].interrupts_enabled \cup {st}
                  ELSE mb["iop"].interrupts_enabled \ {st}
  <2>1. v \in SUBSET Maskable
    BY DEF Good, Pair, Mailbox, Side
  <2>2. mb' = update_irq([mb EXCEPT !["iop"].interrupts_enabled = v], "iop") /\ UNCHANGED delivered
    BY <1>10 DEF SetInterruptEnable
  <2> HIDE DEF v
  <2> QED BY <2>1, <2>2, EnableChange, QuietRefines DEF Side
<1>11. ASSUME Reset PROVE Goal
  <2>1. \A d \in Side : mb'[d].inbox = <<>>
    BY <1>11, ResetEffect DEF Reset, Good
  <2>2. Pipe!Purge
    BY <1>11, <2>1 DEF Reset, Inboxes, Pipe!Purge, Pipe!Empty
  <2> QED BY <2>2 DEF Pipe!ChNext
<1>12. CASE UNCHANGED vars
  BY <1>12, QuietRefines DEF vars
<1> QED BY <1>1, <1>2, <1>3, <1>4, <1>5, <1>6, <1>7, <1>8, <1>9, <1>10, <1>11, <1>12 DEF Next

\* For every register width, queue length, status set and both roles, the mailbox pair
\* of core.c and its register files is a reliable channel in each direction: no access
\* loses, repeats or reorders a message, and only the system reset drops any.
THEOREM ChannelRefinement == Spec => ImplementsChannel
BY InitRefines, NextRefines, Invariance, PTL DEF Spec, ImplementsChannel, Pipe!ChSpec
=============================================================================
