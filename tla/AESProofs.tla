----------------------------- MODULE AESProofs -----------------------------
(***************************************************************************)
(* Proofs about the AES engine (hw/misc/apple-silicon/aes.c), for every    *)
(* number of threads, every length of the commands and every watermark: the*)
(* FIFO level that the driver paces itself by is exact at every step of the*)
(* worker and of the registers, and the commands are executed once each, in*)
(* the order they were submitted, whatever stops and starts the engine.    *)
(*                                                                         *)
(* Both need to know that one worker is alive at most (OneWorker), which   *)
(* rests on the order in which aes_stop, aes_start and the worker change   *)
(* stopped.  The sums of words are a recursive function: what it computes  *)
(* follows by induction over the length, with sets for the induction.      *)
(***************************************************************************)
EXTENDS AES, Induction

PCs == {"none", "loop", "fetch", "exec", "lock", "check", "presleep", "asleep", "done"}

Regs == [level : 0 .. 255, watermark : Nat, int_status : SUBSET Bits,
         int_enable : SUBSET Bits, irq : BOOLEAN]
Threads == [Workers -> [pc : PCs, cmd : Op \cup {NoCmd}]]

AESTypeOK ==
  /\ reg \in Regs
  /\ fifo \in [op : Op \cup {NoCmd}, read : Nat, bad : Nat]
  /\ queue \in Seq(Op) /\ submitted \in Seq(Op) /\ executed \in Seq(Op)
  /\ stopped \in BOOLEAN
  /\ worker \in Threads

\* A worker holds a command exactly while it executes it; threads are created in order
\* and the last one alone is alive; a worker that lives on though it was told to stop is
\* being joined, or has executed the command that stops the engine and will end.
OneWorker ==
  /\ fifo.op = NoCmd => fifo.read = 0
  /\ main # 0 => stopped
  /\ \A w \in Workers :
       /\ worker[w].cmd # NoCmd <=> worker[w].pc \in {"exec", "lock"}
       /\ worker[w].pc = "none" \/ Alive(w) => \A v \in Workers : w < v => worker[v].pc = "none"
       /\ stopped /\ Alive(w) =>
            \/ main = w
            \/ /\ main = 0 /\ executed # <<>> /\ executed[Len(executed)] = "flagstop"
               /\ worker[w].pc \in {"check", "loop"}

AESInv == AESTypeOK /\ OneWorker /\ LevelExact /\ InOrder

-----------------------------------------------------------------------------
(* The words of a sequence of commands.                                    *)

\* Every command has its words.
LEMMA WordsType == \A o \in Op : Words[o] \in Nat
  <1>1. Words \in [Op -> 1 .. 255] BY AESAssumption
  <1>2. 1 .. 255 \subseteq Nat OBVIOUS
  <1> QED BY <1>1, <1>2

\* g[i] is the number of words of the first i commands, for i up to n.
Sums(g, n, s) == g = [i \in 0 .. n |-> IF i = 0 THEN 0 ELSE g[i - 1] + Words[s[i]]]

\* The recursion of WordsOf has a solution.
LEMMA SumsExist ==
  ASSUME NEW s \in Seq(Op)
  PROVE  \E g : Sums(g, Len(s), s)
  <1> DEFINE S == {n \in Nat : \E g : Sums(g, n, s)}
  <1>1. 0 \in S
    <2>1. Sums([i \in 0 .. 0 |-> 0], 0, s) BY DEF Sums
    <2> QED BY <2>1
  <1>2. ASSUME NEW n \in Nat, n \in S PROVE n + 1 \in S
    <2>1. PICK g : Sums(g, n, s) BY <1>2
    <2> DEFINE h == [i \in 0 .. n + 1 |-> IF i <= n THEN g[i] ELSE g[n] + Words[s[n + 1]]]
    <2>2. \A i \in 0 .. n : g[i] = IF i = 0 THEN 0 ELSE g[i - 1] + Words[s[i]]
      BY <2>1 DEF Sums
    <2>3. ASSUME NEW i \in 0 .. n + 1
          PROVE  h[i] = IF i = 0 THEN 0 ELSE h[i - 1] + Words[s[i]]
      <3>1. CASE i = 0 BY <2>2, <3>1
      <3>2. CASE i \in 1 .. n
        <4>1. h[i] = g[i] /\ h[i - 1] = g[i - 1] BY <3>2
        <4>2. g[i] = g[i - 1] + Words[s[i]] BY <2>2, <3>2
        <4> HIDE DEF h
        <4> QED BY <3>2, <4>1, <4>2
      <3>3. CASE i = n + 1
        <4>1. h[i] = g[n] + Words[s[n + 1]] /\ h[i - 1] = g[n] BY <3>3
        <4> HIDE DEF h
        <4> QED BY <3>3, <4>1
      <3> QED BY <3>1, <3>2, <3>3
    <2>4. h = [i \in 0 .. n + 1 |-> h[i]] OBVIOUS
    <2> HIDE DEF h
    <2>5. Sums(h, n + 1, s) BY <2>3, <2>4 DEF Sums
    <2> QED BY <2>5
  <1> HIDE DEF S
  <1>n. Len(s) \in Nat /\ \A n \in Nat : n \in S => n + 1 \in S BY <1>2
  <1>3. Len(s) \in S BY <1>1, <1>n, NatInSet
  <1> QED BY <1>3 DEF S

\* What every such sum satisfies.
LEMMA SumsStep ==
  ASSUME NEW s \in Seq(Op), NEW g, Sums(g, Len(s), s)
  PROVE  /\ g[0] = 0
         /\ \A i \in 1 .. Len(s) : g[i] = g[i - 1] + Words[s[i]]
         /\ \A i \in 0 .. Len(s) : g[i] \in Nat
  <1>1. \A i \in 0 .. Len(s) : g[i] = IF i = 0 THEN 0 ELSE g[i - 1] + Words[s[i]] BY DEF Sums
  <1>2. g[0] = 0 /\ \A i \in 1 .. Len(s) : g[i] = g[i - 1] + Words[s[i]] BY <1>1
  <1> DEFINE S == {i \in 0 .. Len(s) : g[i] \in Nat}
  <1>3. 0 \in S BY <1>2
  <1>4. ASSUME NEW i \in 0 .. Len(s) - 1, i \in S PROVE i + 1 \in S
    <2>1. g[i + 1] = g[i] + Words[s[i + 1]] BY <1>2
    <2>2. s[i + 1] \in Op OBVIOUS
    <2>3. Words[s[i + 1]] \in Nat BY <2>2, WordsType
    <2> QED BY <1>4, <2>1, <2>3
  <1>5. Len(s) \in Nat /\ \A i \in 0 .. Len(s) - 1 : i \in S => i + 1 \in S BY <1>4
  <1> HIDE DEF S
  <1>6. 0 .. Len(s) \subseteq S BY <1>3, <1>5, RangeInSet
  <1> QED BY <1>2, <1>6 DEF S

\* WordsOf is the last of these sums.
LEMMA WordsOfSums ==
  ASSUME NEW s \in Seq(Op)
  PROVE  \E g : Sums(g, Len(s), s) /\ WordsOf(s) = g[Len(s)]
  <1> DEFINE g == CHOOSE f : Sums(f, Len(s), s)
  <1>1. Sums(g, Len(s), s) BY SumsExist
  <1>2. WordsOf(s) = g[Len(s)] BY DEF WordsOf, Sums
  <1> QED BY <1>1, <1>2

\* Two sums over the same commands, k of them further on in s, differ by the words of
\* those k.
LEMMA SumsShift ==
  ASSUME NEW s \in Seq(Op), NEW g, Sums(g, Len(s), s),
         NEW t \in Seq(Op), NEW h, Sums(h, Len(t), t),
         NEW k \in Nat, k + Len(t) <= Len(s), \A i \in 1 .. Len(t) : t[i] = s[k + i]
  PROVE  g[k + Len(t)] = g[k] + h[Len(t)]
  <1>g. /\ \A i \in 1 .. Len(s) : g[i] = g[i - 1] + Words[s[i]]
        /\ \A i \in 0 .. Len(s) : g[i] \in Nat
    BY SumsStep
  <1>h. /\ h[0] = 0
        /\ \A i \in 1 .. Len(t) : h[i] = h[i - 1] + Words[t[i]]
        /\ \A i \in 0 .. Len(t) : h[i] \in Nat
    BY SumsStep
  <1> DEFINE S == {i \in 0 .. Len(t) : g[k + i] = g[k] + h[i]}
  <1>n. Len(s) \in Nat /\ Len(t) \in Nat OBVIOUS
  <1>1. 0 \in S
    <2>1. k + 0 = k /\ k \in 0 .. Len(s) /\ 0 \in 0 .. Len(t) BY <1>n
    <2>2. g[k] \in Nat BY <1>g, <2>1
    <2> QED BY <1>h, <2>1, <2>2
  <1>2. ASSUME NEW i \in 0 .. Len(t) - 1, i \in S PROVE i + 1 \in S
    <2>0. k + i + 1 \in 1 .. Len(s) /\ k + i + 1 - 1 = k + i BY <1>n
    <2>1. g[k + i + 1] = g[k + i] + Words[s[k + i + 1]] BY <1>g, <2>0
    <2>2. h[i + 1] = h[i] + Words[t[i + 1]] BY <1>h, <1>n
    <2>3. t[i + 1] = s[k + i + 1] BY <1>n
    <2>4. Words[t[i + 1]] \in Nat
      <3>1. t[i + 1] \in Op BY <1>n
      <3> QED BY <3>1, WordsType
    <2>5. g[k] \in Nat /\ h[i] \in Nat
      <3>1. k \in 0 .. Len(s) /\ i \in 0 .. Len(t) BY <1>n
      <3> QED BY <1>g, <1>h, <3>1
    <2>6. g[k + i] = g[k] + h[i] BY <1>2
    <2>7. g[k + i + 1] = g[k] + h[i + 1]
      <3>1. g[k + i + 1] = (g[k] + h[i]) + Words[t[i + 1]] BY <2>1, <2>3, <2>6, Zenon
      <3>2. \A a, b, c \in Nat : (a + b) + c = a + (b + c) OBVIOUS
      <3>3. (g[k] + h[i]) + Words[t[i + 1]] = g[k] + (h[i] + Words[t[i + 1]])
        BY <2>4, <2>5, <3>2
      <3> QED BY <2>2, <3>1, <3>3, Zenon
    <2>8. k + i + 1 = k + (i + 1) /\ i + 1 \in 0 .. Len(t) BY <1>n
    <2> QED BY <2>7, <2>8
  <1> HIDE DEF S
  <1>3. Len(t) \in S
    <2>0. \A i \in 0 .. Len(t) - 1 : i \in S => i + 1 \in S BY <1>2
    <2>1. 0 .. Len(t) \subseteq S BY <1>1, <1>n, <2>0, RangeInSet
    <2>2. Len(t) \in 0 .. Len(t) BY <1>n
    <2> QED BY <2>1, <2>2
  <1> QED BY <1>3, Zenon DEF S

\* WordsOf: a number; none for the empty queue; what Append adds and Tail takes away.
LEMMA WordsOfNat == ASSUME NEW s \in Seq(Op) PROVE WordsOf(s) \in Nat
  <1>1. PICK g : Sums(g, Len(s), s) /\ WordsOf(s) = g[Len(s)] BY WordsOfSums
  <1>2. \A i \in 0 .. Len(s) : g[i] \in Nat BY <1>1, SumsStep
  <1> QED BY <1>1, <1>2

\* The empty queue has no words.
LEMMA WordsOfEmpty == WordsOf(<<>>) = 0
  <1>1. <<>> \in Seq(Op) /\ Len(<<>>) = 0 OBVIOUS
  <1>2. PICK g : Sums(g, 0, <<>>) /\ WordsOf(<<>>) = g[0] BY <1>1, WordsOfSums
  <1> QED BY <1>1, <1>2, SumsStep

\* A command appended to the queue (aes_process_fifo) adds its words.
LEMMA WordsOfAppend ==
  ASSUME NEW s \in Seq(Op), NEW o \in Op
  PROVE  WordsOf(Append(s, o)) = WordsOf(s) + Words[o]
  <1> DEFINE t == Append(s, o)
  <1>1. t \in Seq(Op) /\ Len(t) = Len(s) + 1 /\ t[Len(s) + 1] = o
        /\ \A i \in 1 .. Len(s) : s[i] = t[i]
    OBVIOUS
  <1> HIDE DEF t
  <1>2. PICK g : Sums(g, Len(t), t) /\ WordsOf(t) = g[Len(t)] BY <1>1, WordsOfSums
  <1>3. PICK h : Sums(h, Len(s), s) /\ WordsOf(s) = h[Len(s)] BY WordsOfSums
  <1>n. Len(s) \in Nat OBVIOUS
  <1>4. g[0 + Len(s)] = g[0] + h[Len(s)]
    <2>1. 0 + Len(s) <= Len(t) /\ \A i \in 1 .. Len(s) : s[i] = t[0 + i] BY <1>1, <1>n
    <2> QED BY <1>1, <1>2, <1>3, <2>1, SumsShift
  <1>5. g[0] = 0 /\ \A i \in 1 .. Len(t) : g[i] = g[i - 1] + Words[t[i]]
    BY <1>1, <1>2, SumsStep
  <1>6. g[Len(s) + 1] = g[Len(s)] + Words[o] BY <1>1, <1>5, <1>n
  <1>7. h[Len(s)] \in Nat BY <1>3, WordsOfNat
  <1>8. g[Len(s)] = h[Len(s)] BY <1>4, <1>5, <1>7, <1>n
  <1> QED BY <1>1, <1>2, <1>3, <1>6, <1>8 DEF t

\* The words of one command.
LEMMA WordsOfOne == ASSUME NEW o \in Op PROVE WordsOf(<<o>>) = Words[o]
  <1>1. <<>> \in Seq(Op) /\ Append(<<>>, o) = <<o>> OBVIOUS
  <1>2. WordsOf(Append(<<>>, o)) = WordsOf(<<>>) + Words[o] BY <1>1, WordsOfAppend, Zenon
  <1>3. Words[o] \in Nat BY WordsType
  <1> QED BY <1>1, <1>2, <1>3, WordsOfEmpty

\* The words of a queue are those of its oldest command and those of the rest, which the
\* worker leaves when it takes that command.
LEMMA WordsOfTail ==
  ASSUME NEW s \in Seq(Op), s # <<>>
  PROVE  WordsOf(s) = Words[Head(s)] + WordsOf(Tail(s))
  <1> DEFINE t == Tail(s)
  <1>1. t \in Seq(Op) /\ Len(s) = Len(t) + 1 /\ Head(s) = s[1] /\ Head(s) \in Op
        /\ \A i \in 1 .. Len(t) : t[i] = s[1 + i]
    OBVIOUS
  <1> HIDE DEF t
  <1>2. PICK g : Sums(g, Len(s), s) /\ WordsOf(s) = g[Len(s)] BY WordsOfSums
  <1>3. PICK h : Sums(h, Len(t), t) /\ WordsOf(t) = h[Len(t)] BY <1>1, WordsOfSums
  <1>n. Len(t) \in Nat BY <1>1
  <1>4. g[1 + Len(t)] = g[1] + h[Len(t)]
    <2>1. 1 + Len(t) <= Len(s) BY <1>1, <1>n
    <2> QED BY <1>1, <1>2, <1>3, <2>1, SumsShift
  <1>5. g[0] = 0 /\ \A i \in 1 .. Len(s) : g[i] = g[i - 1] + Words[s[i]] BY <1>2, SumsStep
  <1>6. g[1] = 0 + Words[s[1]] BY <1>1, <1>5, <1>n
  <1>7. Words[s[1]] \in Nat BY <1>1, WordsType
  <1> QED BY <1>1, <1>2, <1>3, <1>4, <1>6, <1>7, <1>n DEF t

-----------------------------------------------------------------------------
(* The command a worker holds.                                             *)

\* What the workers hold when their states are wk.
HeldBy(wk) ==
  LET busy == {w \in Workers : wk[w].cmd # NoCmd}
  IN  IF busy = {} THEN <<>> ELSE <<wk[CHOOSE w \in busy : TRUE].cmd>>

\* No worker holds a command.
LEMMA HeldNone ==
  ASSUME NEW wk, \A v \in Workers : wk[v].cmd = NoCmd
  PROVE  HeldBy(wk) = <<>>
  <1>1. {v \in Workers : wk[v].cmd # NoCmd} = {} OBVIOUS
  <1> QED BY <1>1 DEF HeldBy

\* One worker does.
LEMMA HeldOne ==
  ASSUME NEW wk, NEW w \in Workers, wk[w].cmd # NoCmd,
         \A v \in Workers : v # w => wk[v].cmd = NoCmd
  PROVE  HeldBy(wk) = <<wk[w].cmd>>
  <1>1. {v \in Workers : wk[v].cmd # NoCmd} = {w} OBVIOUS
  <1>2. (CHOOSE v \in {w} : TRUE) = w OBVIOUS
  <1> QED BY <1>1, <1>2 DEF HeldBy

\* It depends on the commands alone.
LEMMA HeldSame ==
  ASSUME NEW wk, NEW wl, \A v \in Workers : wk[v].cmd = wl[v].cmd
  PROVE  HeldBy(wk) = HeldBy(wl)
  <1> DEFINE busy == {v \in Workers : wl[v].cmd # NoCmd}
  <1>1. {v \in Workers : wk[v].cmd # NoCmd} = busy OBVIOUS
  <1>2. CASE busy = {} BY <1>1, <1>2 DEF HeldBy
  <1>3. CASE busy # {}
    <2>1. HeldBy(wl) = <<wl[CHOOSE v \in busy : TRUE].cmd>> BY <1>3, Zenon DEF HeldBy
    <2>2. HeldBy(wk) = <<wk[CHOOSE v \in busy : TRUE].cmd>> BY <1>1, <1>3, Zenon DEF HeldBy
    <2> DEFINE w == CHOOSE v \in busy : TRUE
    <2>3. w \in Workers BY <1>3
    <2> HIDE DEF w
    <2>4. wk[w].cmd = wl[w].cmd BY <2>3
    <2> QED BY <2>1, <2>2, <2>4, Zenon DEF w
  <1> QED BY <1>2, <1>3

\* Held is what the workers hold in this state, and in the next.
LEMMA HeldIs == Held = HeldBy(worker) /\ Held' = HeldBy(worker')
  BY DEF Held, HeldBy

-----------------------------------------------------------------------------
(* The registers.                                                          *)

\* The line and the low bit follow from the other registers, which stay.
LEMMA IrqType ==
  ASSUME NEW r \in Regs
  PROVE  aes_update_irq(r) \in Regs /\ aes_update_irq(r).level = r.level
  <1> DEFINE b == r.int_enable \cap r.int_status # {}
  <1>1. b \in BOOLEAN OBVIOUS
  <1>2. aes_update_irq(r) = [r EXCEPT !.irq = b] BY DEF aes_update_irq
  <1> HIDE DEF b
  <1> QED BY <1>1, <1>2 DEF Regs

\* update_command_fifo_status changes a status bit and the line, never the level.
LEMMA StatusType ==
  ASSUME NEW r \in Regs
  PROVE  /\ update_command_fifo_status(r) \in Regs
         /\ update_command_fifo_status(r).level = r.level
  <1> DEFINE q == [r EXCEPT !.int_status = (@ \ {"low"}) \cup
                              (IF r.level < r.watermark THEN {"low"} ELSE {})]
  <1>1. q \in Regs /\ q.level = r.level
    <2>1. (r.int_status \ {"low"}) \cup (IF r.level < r.watermark THEN {"low"} ELSE {})
            \in SUBSET Bits
      BY DEF Regs, Bits
    <2> QED BY <2>1 DEF Regs
  <1>2. update_command_fifo_status(r) = aes_update_irq(q) BY DEF update_command_fifo_status
  <1> HIDE DEF q
  <1> QED BY <1>1, <1>2, IrqType

\* A new level is an 8-bit number, and the other registers stay.
LEMMA LevelType ==
  ASSUME NEW r \in Regs, NEW n \in Int
  PROVE  AddLevel(r, n) \in Regs /\ AddLevel(r, n).level = (r.level + n) % 256
  <1> DEFINE q == [r EXCEPT !.level = (@ + n) % 256]
  <1>1. q \in Regs /\ q.level = (r.level + n) % 256
    <2>1. r.level + n \in Int BY DEF Regs
    <2>2. \A x \in Int : x % 256 \in 0 .. 255 OBVIOUS
    <2>3. (r.level + n) % 256 \in 0 .. 255 BY <2>1, <2>2, Zenon
    <2> DEFINE l == (r.level + n) % 256
    <2>4. l \in 0 .. 255 BY <2>3
    <2>5. q = [r EXCEPT !.level = l] OBVIOUS
    <2> HIDE DEF l, q
    <2>6. q \in Regs /\ q.level = l BY <2>4, <2>5 DEF Regs
    <2> QED BY <2>6 DEF l
  <1>2. AddLevel(r, n) = update_command_fifo_status(q) BY DEF AddLevel
  <1> HIDE DEF q
  <1> QED BY <1>1, <1>2, StatusType

\* Adding to a number and to its lowest byte.
LEMMA ModAdd == \A x \in Nat, n \in Int : ((x % 256) + n) % 256 = (x + n) % 256
  OBVIOUS

-----------------------------------------------------------------------------
(* The workers.                                                            *)

\* Of two workers one is alive at most.
LEMMA OneAlive ==
  ASSUME AESTypeOK, OneWorker, NEW w \in Workers, Alive(w)
  PROVE  \A v \in Workers : v # w => ~Alive(v) /\ worker[v].cmd = NoCmd
  <1> SUFFICES ASSUME NEW v \in Workers, v # w PROVE ~Alive(v) /\ worker[v].cmd = NoCmd
    OBVIOUS
  <1>n. v \in Nat /\ w \in Nat BY AESAssumption DEF Workers
  <1>1. worker[w].pc # "none" BY DEF Alive
  <1>2. CASE w < v
    <2>1. worker[v].pc = "none" BY <1>2, Zenon DEF OneWorker
    <2> QED BY <2>1 DEF Alive, OneWorker
  <1>3. CASE v < w
    <2>1. ~Alive(v) BY <1>1, <1>3, Zenon DEF OneWorker
    <2> QED BY <2>1 DEF Alive, OneWorker
  <1> QED BY <1>n, <1>2, <1>3

\* The thread created last is the worker that is alive.
LEMMA LastAlive ==
  ASSUME AESTypeOK, OneWorker, NEW w \in Workers, Alive(w)
  PROVE  LastThread = w
  <1> DEFINE P(x) == x \in Workers /\ worker[x].pc # "none"
                     /\ \A v \in Workers : x < v => worker[v].pc = "none"
  <1>1. P(w) BY Zenon DEF OneWorker, Alive
  <1>2. ASSUME NEW x, P(x) PROVE x = w
    <2>1. x \in Nat /\ w \in Nat BY <1>2, AESAssumption DEF Workers
    <2>2. ~ (x < w) BY <1>1, <1>2
    <2>3. ~ (w < x) BY <1>1, <1>2
    <2> QED BY <2>1, <2>2, <2>3
  <1>3. LastThread = CHOOSE x : P(x) BY DEF LastThread
  <1> HIDE DEF P
  <1> QED BY <1>1, <1>2, <1>3

\* A worker at a place p of its loop, the others where they were.
Moved(w, p, c) ==
  /\ worker' \in Threads
  /\ worker'[w].pc = p /\ worker'[w].cmd = c
  /\ \A v \in Workers : v # w => worker'[v] = worker[v]

\* A worker that moves on keeps its command.
LEMMA GotoMoves ==
  ASSUME worker \in Threads, NEW w \in Workers, NEW p \in PCs, Goto(w, p)
  PROVE  Moved(w, p, worker[w].cmd)
  BY DEF Goto, Moved, Threads

\* A worker that takes a command, or gives it up, moves on with it.
LEMMA TakeMoves ==
  ASSUME worker \in Threads, NEW w \in Workers, NEW p \in PCs, NEW c \in Op \cup {NoCmd},
         worker' = [worker EXCEPT ![w] = [pc |-> p, cmd |-> c]]
  PROVE  Moved(w, p, c)
  BY DEF Moved, Threads

\* A step of a living worker keeps OneWorker when it holds a command where it executes
\* one, and ends, or goes on in the loop, when it was told to stop and nobody joins it.
LEMMA MoveKeeps ==
  ASSUME AESTypeOK, OneWorker, NEW w \in Workers, Alive(w),
         NEW p \in PCs \ {"none"}, NEW c, Moved(w, p, c),
         c # NoCmd <=> p \in {"exec", "lock"},
         stopped /\ main # w => p \in {"check", "loop", "done"},
         fifo'.op = NoCmd => fifo'.read = 0, UNCHANGED <<main, stopped, executed>>
  PROVE  OneWorker'
  <1>1. (fifo'.op = NoCmd => fifo'.read = 0) /\ (main' # 0 => stopped') BY DEF OneWorker
  <1>2. ASSUME NEW v \in Workers
        PROVE  /\ worker'[v].cmd # NoCmd <=> worker'[v].pc \in {"exec", "lock"}
               /\ worker'[v].pc = "none" \/ Alive(v)'
                    => \A u \in Workers : v < u => worker'[u].pc = "none"
               /\ stopped' /\ Alive(v)' =>
                    \/ main' = v
                    \/ /\ main' = 0 /\ executed' # <<>> /\ executed'[Len(executed')] = "flagstop"
                       /\ worker'[v].pc \in {"check", "loop"}
    <2>1. worker[v].pc = "none" \/ Alive(v)
            => \A u \in Workers : v < u => worker[u].pc = "none"
      BY DEF OneWorker
    <2>2. CASE v = w
      <3>1. worker'[v].pc = p /\ worker'[v].cmd = c BY <2>2 DEF Moved
      <3>2. ASSUME NEW u \in Workers, v < u PROVE worker'[u].pc = "none"
        <4>1. u # w BY <2>2, <3>2, AESAssumption DEF Workers
        <4>2. worker[u].pc = "none" BY <2>1, <2>2, <3>2
        <4> QED BY <4>1, <4>2 DEF Moved
      <3>3. stopped => \/ main = w
                       \/ main = 0 /\ executed # <<>> /\ executed[Len(executed)] = "flagstop"
        BY Zenon DEF OneWorker
      <3> QED BY <2>2, <3>1, <3>2, <3>3 DEF Alive
    <2>3. CASE v # w
      <3>1. worker'[v] = worker[v] BY <2>3 DEF Moved
      <3>2. ~Alive(v) /\ worker[v].cmd = NoCmd BY <2>3, OneAlive
      <3>3. ASSUME worker[v].pc = "none", NEW u \in Workers, v < u
            PROVE  worker'[u].pc = "none"
        <4>1. worker[u].pc = "none" BY <2>1, <3>3
        <4>2. u # w BY <4>1 DEF Alive
        <4> QED BY <4>1, <4>2 DEF Moved
      <3> QED BY <3>1, <3>2, <3>3 DEF Alive
    <2> QED BY <2>2, <2>3
  <1> QED BY <1>1, <1>2 DEF OneWorker

\* The worker that qemu_cond_signal wakes up is a living one.
LEMMA SignalMoves ==
  ASSUME worker \in Threads, Signal
  PROVE  \/ worker' = worker
         \/ \E w \in Workers : worker[w].pc = "asleep" /\ Moved(w, "check", worker[w].cmd)
  <1>1. CASE {w \in Workers : worker[w].pc = "asleep"} = {} BY <1>1 DEF Signal
  <1>2. CASE {w \in Workers : worker[w].pc = "asleep"} # {}
    <2>1. PICK w \in Workers : worker[w].pc = "asleep" /\ Goto(w, "check")
      BY <1>2 DEF Signal, Goto
    <2>2. Moved(w, "check", worker[w].cmd) BY <2>1, GotoMoves DEF PCs
    <2> QED BY <2>1, <2>2
  <1> QED BY <1>1, <1>2

\* It keeps what the workers hold, and which of them are alive.
LEMMA SignalKeeps ==
  ASSUME AESTypeOK, OneWorker, Signal
  PROVE  /\ worker' \in Threads
         /\ \A v \in Workers : /\ worker'[v].cmd = worker[v].cmd
                               /\ worker'[v].pc = "none" <=> worker[v].pc = "none"
                               /\ Alive(v)' <=> Alive(v)
  <1>t. worker \in Threads BY DEF AESTypeOK
  <1>1. CASE worker' = worker BY <1>1, <1>t DEF Alive
  <1>2. ASSUME NEW w \in Workers, worker[w].pc = "asleep", Moved(w, "check", worker[w].cmd)
        PROVE  /\ worker' \in Threads
               /\ \A v \in Workers : /\ worker'[v].cmd = worker[v].cmd
                                     /\ worker'[v].pc = "none" <=> worker[v].pc = "none"
                                     /\ Alive(v)' <=> Alive(v)
    <2>1. ASSUME NEW v \in Workers
          PROVE  /\ worker'[v].cmd = worker[v].cmd
                 /\ worker'[v].pc = "none" <=> worker[v].pc = "none"
                 /\ Alive(v)' <=> Alive(v)
      <3>1. CASE v = w BY <1>2, <3>1 DEF Alive, Moved
      <3>2. CASE v # w BY <1>2, <3>2 DEF Alive, Moved
      <3> QED BY <3>1, <3>2
    <2> QED BY <1>2, <2>1 DEF Moved
  <1> QED BY <1>t, <1>1, <1>2, SignalMoves

\* qemu_cond_signal creates no worker and ends none.
LEMMA SignalOneWorker ==
  ASSUME AESTypeOK, OneWorker, Signal, fifo'.op = NoCmd => fifo'.read = 0,
         UNCHANGED <<main, stopped, executed>>
  PROVE  OneWorker'
  <1>1. CASE worker' = worker BY <1>1 DEF OneWorker, Alive
  <1>2. ASSUME NEW w \in Workers, worker[w].pc = "asleep", Moved(w, "check", worker[w].cmd)
        PROVE  OneWorker'
    <2>1. Alive(w) BY <1>2 DEF Alive
    <2>2. worker[w].cmd = NoCmd BY <1>2 DEF OneWorker
    <2> QED BY <1>2, <2>1, <2>2, MoveKeeps DEF PCs
  <1>3. worker \in Threads BY DEF AESTypeOK
  <1> QED BY <1>1, <1>2, <1>3, SignalMoves

-----------------------------------------------------------------------------
(* The inductive invariant.                                                *)

\* The engine as it is realized: no thread, an empty FIFO, told to stop.
LEMMA AESInitInv == Init => AESInv
  <1> SUFFICES ASSUME Init PROVE AESInv OBVIOUS
  <1>1. AESTypeOK BY DEF Init, AESTypeOK, Regs, Threads, PCs, NoCmd
  <1>2. OneWorker BY DEF Init, OneWorker, Alive, NoCmd
  <1>3. Held = <<>>
    <2>1. \A v \in Workers : worker[v].cmd = NoCmd BY DEF Init
    <2> QED BY <2>1, HeldNone, HeldIs
  <1>4. LevelExact BY <1>3, WordsOfEmpty DEF Init, LevelExact
  <1>5. InOrder BY <1>3 DEF Init, InOrder
  <1> QED BY <1>1, <1>2, <1>4, <1>5 DEF AESInv

\* A living worker's command is all that is held.
LEMMA HeldAlive ==
  ASSUME AESTypeOK, OneWorker, NEW w \in Workers, Alive(w)
  PROVE  Held = IF worker[w].cmd = NoCmd THEN <<>> ELSE <<worker[w].cmd>>
  <1>1. \A v \in Workers : v # w => worker[v].cmd = NoCmd BY OneAlive
  <1>2. CASE worker[w].cmd = NoCmd
    <2>1. \A v \in Workers : worker[v].cmd = NoCmd BY <1>1, <1>2
    <2> QED BY <1>2, <2>1, HeldNone, HeldIs
  <1>3. CASE worker[w].cmd # NoCmd
    <2>1. HeldBy(worker) = <<worker[w].cmd>> BY <1>1, <1>3, HeldOne
    <2> QED BY <1>3, <2>1, HeldIs
  <1> QED BY <1>2, <1>3

\* What is held is a sequence of commands.
LEMMA HeldType ==
  ASSUME AESTypeOK, OneWorker
  PROVE  Held \in Seq(Op)
  <1>t. \A w \in Workers : worker[w].cmd \in Op \cup {NoCmd} BY DEF AESTypeOK, Threads
  <1>1. CASE \E w \in Workers : Alive(w)
    <2>1. PICK w \in Workers : Alive(w) BY <1>1
    <2>2. Held = IF worker[w].cmd = NoCmd THEN <<>> ELSE <<worker[w].cmd>> BY <2>1, HeldAlive
    <2> QED BY <1>t, <2>2
  <1>2. CASE \A w \in Workers : ~Alive(w)
    <2>1. \A w \in Workers : worker[w].cmd = NoCmd BY <1>2 DEF OneWorker, Alive
    <2>2. Held = <<>> BY <2>1, HeldNone, HeldIs
    <2> QED BY <2>2
  <1> QED BY <1>1, <1>2

\* Steps that change neither the level nor the commands.
LEMMA QuietKeeps ==
  ASSUME LevelExact, InOrder, UNCHANGED <<fifo, queue, submitted, executed>>,
         reg'.level = reg.level, \A v \in Workers : worker'[v].cmd = worker[v].cmd
  PROVE  LevelExact' /\ InOrder'
  <1>1. Held' = Held BY HeldSame, HeldIs
  <1>2. InOrder' BY <1>1 DEF InOrder
  <1>3. WordsOf(queue)' = WordsOf(queue) /\ WordsOf(Held)' = WordsOf(Held)
    BY <1>1 DEF WordsOf
  <1>4. LevelExact' BY <1>1, <1>3 DEF LevelExact
  <1> QED BY <1>2, <1>4

\* Register accesses that leave the FIFO alone.
LEMMA RegisterStep ==
  ASSUME AESInv, reg' \in Regs, reg'.level = reg.level,
         UNCHANGED <<fifo, queue, stopped, worker, main, submitted, executed>>
  PROVE  AESInv'
  <1>1. AESTypeOK' BY DEF AESInv, AESTypeOK
  <1>2. OneWorker' BY DEF AESInv, OneWorker, Alive
  <1>3. LevelExact' /\ InOrder' BY QuietKeeps DEF AESInv
  <1> QED BY <1>1, <1>2, <1>3 DEF AESInv

\* INT_STATUS: acknowledging interrupts leaves the FIFO alone.
LEMMA AckStep ==
  ASSUME AESInv, NEW bits, AckInterrupts(bits)
  PROVE  AESInv'
  <1> DEFINE q == [reg EXCEPT !.int_status = @ \ bits]
  <1>t. reg \in Regs BY DEF AESInv, AESTypeOK
  <1>1. q \in Regs /\ q.level = reg.level BY <1>t DEF Regs
  <1>2. reg' = aes_update_irq(q) BY DEF AckInterrupts
  <1> HIDE DEF q
  <1>3. reg' \in Regs /\ reg'.level = reg.level BY <1>1, <1>2, IrqType
  <1> QED BY <1>3, RegisterStep DEF AckInterrupts

\* INT_ENABLE leaves the FIFO alone.
LEMMA EnableStep ==
  ASSUME AESInv, NEW bits \in SUBSET Bits, WriteIntEnable(bits)
  PROVE  AESInv'
  <1> DEFINE q == [reg EXCEPT !.int_enable = bits]
  <1>t. reg \in Regs BY DEF AESInv, AESTypeOK
  <1>1. q \in Regs /\ q.level = reg.level BY <1>t DEF Regs
  <1>2. reg' = aes_update_irq(q) BY DEF WriteIntEnable
  <1> HIDE DEF q
  <1>3. reg' \in Regs /\ reg'.level = reg.level BY <1>1, <1>2, IrqType
  <1> QED BY <1>3, RegisterStep DEF WriteIntEnable

\* WATERMARKS leaves the level alone.
LEMMA WatermarkStep ==
  ASSUME AESInv, NEW n \in Nat, WriteWatermarks(n)
  PROVE  AESInv'
  <1> DEFINE q == update_command_fifo_status(reg)
  <1>t. reg \in Regs BY DEF AESInv, AESTypeOK
  <1>1. q \in Regs /\ q.level = reg.level BY <1>t, StatusType
  <1>2. reg' = [q EXCEPT !.watermark = n] BY DEF WriteWatermarks
  <1> HIDE DEF q
  <1>3. reg' \in Regs /\ reg'.level = reg.level BY <1>1, <1>2 DEF Regs
  <1> QED BY <1>3, RegisterStep DEF WriteWatermarks

\* aes_start creates a worker only when none is alive: one that was told to stop by
\* aes_stop was joined, and the driver waits for one that a command stopped.
LEMMA StartStep == ASSUME AESInv, Start PROVE AESInv'
  <1>t. AESTypeOK /\ OneWorker BY DEF AESInv
  <1>1. CASE ~stopped
    <2>1. UNCHANGED <<fifo, queue, stopped, worker, main, submitted, executed, reg>>
      BY <1>1 DEF Start
    <2>2. reg' \in Regs /\ reg'.level = reg.level BY <1>t, <2>1 DEF AESTypeOK
    <2> QED BY <2>1, <2>2, RegisterStep
  <1>2. CASE stopped
    <2>1. PICK w \in Workers : /\ worker[w].pc = "none"
                               /\ \A v \in Workers : v < w => worker[v].pc # "none"
                               /\ Goto(w, "loop") /\ stopped' = FALSE
      BY <1>2 DEF Start, Goto
    <2>u. UNCHANGED <<reg, fifo, queue, main, submitted, executed>> BY DEF Start
    <2>m. main = 0 BY DEF Start, Control, BqlFree
    <2>2. ASSUME NEW v \in Workers PROVE ~Alive(v)
      <3>1. SUFFICES ASSUME Alive(v) PROVE FALSE OBVIOUS
      <3>2. v # 0 BY AESAssumption DEF Workers
      <3>3. executed # <<>> /\ executed[Len(executed)] = "flagstop"
        BY <1>t, <1>2, <2>m, <3>1, <3>2, Zenon DEF OneWorker
      <3>4. \A x \in Workers : ~Alive(x) BY <3>3, Zenon DEF Start
      <3> QED BY <3>1, <3>4
    <2>3. Moved(w, "loop", worker[w].cmd) BY <1>t, <2>1, GotoMoves DEF AESTypeOK, PCs
    <2>4. worker[w].cmd = NoCmd BY <1>t, <2>1 DEF OneWorker
    <2>5. ASSUME NEW v \in Workers
          PROVE  /\ worker'[v].cmd # NoCmd <=> worker'[v].pc \in {"exec", "lock"}
                 /\ worker'[v].pc = "none" \/ Alive(v)'
                      => \A u \in Workers : v < u => worker'[u].pc = "none"
                 /\ worker'[v].cmd = worker[v].cmd
      <3>1. ASSUME worker[v].pc = "none" \/ v = w, NEW u \in Workers, v < u
            PROVE  worker'[u].pc = "none"
        <4>1. worker[v].pc = "none" BY <2>1, <3>1
        <4>2. worker[u].pc = "none" BY <1>t, <3>1, <4>1, Zenon DEF OneWorker
        <4>3. u # w
          <5>1. v \in Nat /\ u \in Nat /\ w \in Nat BY AESAssumption DEF Workers
          <5>2. v < w => worker[v].pc # "none" BY <2>1
          <5> QED BY <3>1, <4>1, <5>1, <5>2
        <4> QED BY <2>3, <4>2, <4>3 DEF Moved
      <3>2. CASE v = w
        <4>1. worker'[v].pc = "loop" /\ worker'[v].cmd = NoCmd BY <2>3, <2>4, <3>2 DEF Moved
        <4> QED BY <2>4, <3>1, <3>2, <4>1
      <3>3. CASE v # w
        <4>1. worker'[v] = worker[v] BY <2>3, <3>3 DEF Moved
        <4>2. worker[v].cmd # NoCmd <=> worker[v].pc \in {"exec", "lock"}
          BY <1>t, Zenon DEF OneWorker
        <4> QED BY <2>2, <3>1, <4>1, <4>2 DEF Alive
      <3> QED BY <3>2, <3>3
    <2>6. AESTypeOK' BY <1>t, <2>1, <2>3, <2>u DEF AESTypeOK, Moved
    <2>7. OneWorker'
      <3>1. (fifo'.op = NoCmd => fifo'.read = 0) /\ main' = 0 /\ ~stopped'
        BY <1>t, <2>1, <2>u, <2>m DEF OneWorker
      <3> QED BY <2>5, <3>1, Zenon DEF OneWorker
    <2>8. LevelExact' /\ InOrder' BY <2>5, <2>u, QuietKeeps DEF AESInv
    <2> QED BY <2>6, <2>7, <2>8 DEF AESInv
  <1> QED BY <1>1, <1>2

\* aes_stop joins the worker that is alive.
LEMMA StopStep == ASSUME AESInv, Stop PROVE AESInv'
  <1>t. AESTypeOK /\ OneWorker BY DEF AESInv
  <1>u. UNCHANGED <<reg, fifo, queue, submitted, executed>> BY DEF Stop
  <1>1. CASE stopped
    <2>1. UNCHANGED <<stopped, worker, main>> BY <1>1 DEF Stop
    <2>2. reg' \in Regs /\ reg'.level = reg.level BY <1>t, <1>u DEF AESTypeOK
    <2> QED BY <1>u, <2>1, <2>2, RegisterStep
  <1>2. CASE ~stopped
    <2>1. stopped' = TRUE /\ main' = LastThread /\ Signal BY <1>2 DEF Stop
    <2>2. /\ worker' \in Threads
          /\ \A v \in Workers : /\ worker'[v].cmd = worker[v].cmd
                                /\ worker'[v].pc = "none" <=> worker[v].pc = "none"
                                /\ Alive(v)' <=> Alive(v)
      BY <1>t, <2>1, SignalKeeps
    <2>3. \A v \in Workers : worker'[v].cmd # NoCmd <=> worker'[v].pc \in {"exec", "lock"}
      <3>1. CASE worker' = worker BY <1>t, <3>1 DEF OneWorker
      <3>2. ASSUME NEW w \in Workers, worker[w].pc = "asleep",
                   Moved(w, "check", worker[w].cmd), NEW v \in Workers
            PROVE  worker'[v].cmd # NoCmd <=> worker'[v].pc \in {"exec", "lock"}
        <4>1. CASE v = w BY <1>t, <3>2, <4>1 DEF Moved, OneWorker
        <4>2. CASE v # w BY <1>t, <3>2, <4>2 DEF Moved, OneWorker
        <4> QED BY <4>1, <4>2
      <3>3. worker \in Threads BY <1>t DEF AESTypeOK
      <3> QED BY <2>1, <3>1, <3>2, <3>3, SignalMoves
    <2>4. AESTypeOK' BY <1>t, <1>u, <2>1, <2>2 DEF AESTypeOK
    <2>5. OneWorker'
      <3>1. (fifo'.op = NoCmd => fifo'.read = 0) /\ stopped' BY <1>t, <1>u, <2>1 DEF OneWorker
      <3>2. ASSUME NEW v \in Workers, worker'[v].pc = "none" \/ Alive(v)',
                   NEW u \in Workers, v < u
            PROVE  worker'[u].pc = "none"
        <4>1. worker[v].pc = "none" \/ Alive(v) BY <2>2, <3>2
        <4>2. worker[u].pc = "none" BY <1>t, <3>2, <4>1, Zenon DEF OneWorker
        <4> QED BY <2>2, <4>2
      <3>3. ASSUME NEW v \in Workers, Alive(v)' PROVE main' = v
        <4>1. Alive(v) BY <2>2, <3>3
        <4> QED BY <1>t, <2>1, <4>1, LastAlive
      <3> QED BY <2>3, <3>1, <3>2, <3>3, Zenon DEF OneWorker
    <2>6. LevelExact' /\ InOrder'
      BY <1>u, <2>2, QuietKeeps DEF AESInv
    <2> QED BY <2>4, <2>5, <2>6 DEF AESInv
  <1> QED BY <1>1, <1>2

\* When the join returns no worker is alive.
LEMMA StopEndStep == ASSUME AESInv, NEW save \in BOOLEAN, StopEnd(save) PROVE AESInv'
  <1>t. AESTypeOK /\ OneWorker BY DEF AESInv
  <1>u. UNCHANGED <<reg, fifo, queue, worker, submitted, executed>> /\ main' = 0
    BY DEF StopEnd
  <1>1. main # 0 /\ worker[main].pc = "done" BY DEF StopEnd, Joined
  <1>2. stopped BY <1>t, <1>1 DEF OneWorker
  <1>3. ASSUME NEW v \in Workers PROVE ~Alive(v)
    <2>1. Alive(v) => main = v BY <1>t, <1>1, <1>2, Zenon DEF OneWorker
    <2> QED BY <1>1, <2>1 DEF Alive
  <1>4. AESTypeOK'
    <2>1. stopped' \in BOOLEAN BY DEF StopEnd
    <2> QED BY <1>t, <1>u, <2>1 DEF AESTypeOK
  <1>5. OneWorker'
    <2>1. (fifo'.op = NoCmd => fifo'.read = 0) /\ main' = 0 BY <1>t, <1>u DEF OneWorker
    <2>2. ASSUME NEW v \in Workers
          PROVE  /\ worker'[v].cmd # NoCmd <=> worker'[v].pc \in {"exec", "lock"}
                 /\ worker'[v].pc = "none" => \A u \in Workers : v < u => worker'[u].pc = "none"
                 /\ ~Alive(v)'
      <3>1. /\ worker[v].cmd # NoCmd <=> worker[v].pc \in {"exec", "lock"}
            /\ worker[v].pc = "none" => \A u \in Workers : v < u => worker[u].pc = "none"
        BY <1>t, Zenon DEF OneWorker
      <3> QED BY <1>u, <1>3, <3>1 DEF Alive
    <2> QED BY <2>1, <2>2, Zenon DEF OneWorker
  <1>6. LevelExact' /\ InOrder'
    <2>1. reg'.level = reg.level /\ \A v \in Workers : worker'[v].cmd = worker[v].cmd BY <1>u
    <2> QED BY <1>u, <2>1, QuietKeeps DEF AESInv
  <1> QED BY <1>4, <1>5, <1>6 DEF AESInv

\* What is left of the commands when those that wait are taken away.
LEMMA CutTail ==
  ASSUME NEW a \in Seq(Op), NEW b \in Seq(Op)
  PROVE  SubSeq(a \o <<>> \o b, 1, Len(a \o <<>> \o b) - Len(b)) = a
  <1>1. a \o <<>> = a OBVIOUS
  <1> DEFINE s == a \o b
  <1>2. s \in Seq(Op) /\ Len(s) = Len(a) + Len(b) /\ \A i \in 1 .. Len(a) : s[i] = a[i]
    OBVIOUS
  <1>n. Len(a) \in Nat /\ Len(b) \in Nat OBVIOUS
  <1> HIDE DEF s
  <1>3. Len(s) - Len(b) = Len(a) BY <1>2, <1>n
  <1>4. SubSeq(s, 1, Len(a)) = a BY <1>2, <1>n
  <1> QED BY <1>1, <1>3, <1>4, Zenon DEF s

\* aes_empty_fifo, when no command is executed and none is incomplete.
LEMMA EmptyFifoStep ==
  ASSUME AESInv, NEW r \in Regs, EmptyFifo(r), \A w \in Workers : worker[w].cmd = NoCmd,
         UNCHANGED <<worker, executed>>, fifo'.read = 0, fifo'.bad = 0
  PROVE  /\ reg' \in Regs /\ queue' \in Seq(Op) /\ submitted' \in Seq(Op)
         /\ LevelExact' /\ InOrder'
  <1>1. Held = <<>> /\ Held' = <<>> BY HeldNone, HeldIs
  <1>t. executed \in Seq(Op) /\ queue \in Seq(Op) /\ submitted \in Seq(Op)
    BY DEF AESInv, AESTypeOK
  <1>2. queue' = <<>> BY DEF EmptyFifo
  <1>3. submitted' = executed
    <2>1. submitted = executed \o <<>> \o queue BY <1>1 DEF AESInv, InOrder
    <2>2. submitted' = SubSeq(submitted, 1, Len(submitted) - Len(queue)) BY DEF EmptyFifo
    <2> QED BY <1>t, <2>1, <2>2, CutTail, Zenon
  <1>4. reg' \in Regs /\ reg'.level = 0
    <2> DEFINE q == [r EXCEPT !.level = 0]
    <2>1. q \in Regs /\ q.level = 0 BY DEF Regs
    <2>2. reg' = update_command_fifo_status(q) BY DEF EmptyFifo
    <2> HIDE DEF q
    <2> QED BY <2>1, <2>2, StatusType
  <1>5. InOrder'
    <2>1. executed' \o Held' \o queue' = executed \o <<>> \o <<>> BY <1>1, <1>2
    <2>2. executed \o <<>> \o <<>> = executed BY <1>t
    <2> QED BY <1>3, <2>1, <2>2 DEF InOrder
  <1>6. LevelExact'
    <2>1. WordsOf(queue') = 0 /\ WordsOf(Held') = 0 BY <1>1, <1>2, WordsOfEmpty
    <2>2. WordsOf(queue)' = WordsOf(queue') /\ WordsOf(Held)' = WordsOf(Held')
      BY DEF WordsOf
    <2> QED BY <1>4, <2>1, <2>2 DEF LevelExact
  <1> QED BY <1>t, <1>2, <1>3, <1>4, <1>5, <1>6

\* CLEAR_FIFO, which the driver writes when no command is executed or incomplete.
LEMMA ClearStep == ASSUME AESInv, ClearFifo PROVE AESInv'
  <1>t. AESTypeOK /\ OneWorker BY DEF AESInv
  <1>u. UNCHANGED <<stopped, worker, main, executed>> BY DEF ClearFifo
  <1>1. fifo \in [op : Op \cup {NoCmd}, read : Nat, bad : Nat] /\ reg \in Regs
    BY <1>t DEF AESTypeOK
  <1>2. fifo.read = 0 BY <1>t DEF ClearFifo, OneWorker
  <1>3. /\ fifo' \in [op : Op \cup {NoCmd}, read : Nat, bad : Nat]
        /\ fifo'.read = 0 /\ fifo'.bad = 0
    BY <1>1, <1>2 DEF ClearFifo
  <1>4. EmptyFifo(reg) /\ \A w \in Workers : worker[w].cmd = NoCmd BY DEF ClearFifo
  <1>5. /\ reg' \in Regs /\ queue' \in Seq(Op) /\ submitted' \in Seq(Op)
        /\ LevelExact' /\ InOrder'
    BY <1>u, <1>1, <1>3, <1>4, EmptyFifoStep
  <1>6. AESTypeOK' BY <1>t, <1>u, <1>3, <1>5 DEF AESTypeOK
  <1>7. OneWorker' BY <1>t, <1>u, <1>3 DEF OneWorker, Alive
  <1> QED BY <1>5, <1>6, <1>7 DEF AESInv

\* apple_aes_reset, written when no worker is alive.
LEMMA ResetStep == ASSUME ~ResetsBusy, AESInv, Reset PROVE AESInv'
  <1>t. AESTypeOK /\ OneWorker BY DEF AESInv
  <1>u. UNCHANGED <<worker, main, executed>> /\ main = 0 /\ stopped' = TRUE
    BY DEF Reset, Control, BqlFree
  <1>a. \A w \in Workers : ~Alive(w) BY DEF Reset
  <1>1. /\ fifo' \in [op : Op \cup {NoCmd}, read : Nat, bad : Nat]
        /\ fifo'.read = 0 /\ fifo'.bad = 0
    BY DEF Reset
  <1> DEFINE q == [reg EXCEPT !.watermark = 0, !.int_status = {}, !.int_enable = {}]
  <1>2. q \in Regs
    <2>1. reg \in Regs BY <1>t DEF AESTypeOK
    <2> QED BY <2>1 DEF Regs
  <1>3. EmptyFifo(q) BY DEF Reset
  <1> HIDE DEF q
  <1>4. \A w \in Workers : worker[w].cmd = NoCmd BY <1>t, <1>a DEF OneWorker, Alive
  <1>5. /\ reg' \in Regs /\ queue' \in Seq(Op) /\ submitted' \in Seq(Op)
        /\ LevelExact' /\ InOrder'
    BY <1>u, <1>1, <1>2, <1>3, <1>4, EmptyFifoStep
  <1>6. AESTypeOK' BY <1>t, <1>u, <1>1, <1>5 DEF AESTypeOK
  <1>7. OneWorker' BY <1>t, <1>u, <1>a, <1>1 DEF OneWorker, Alive
  <1> QED BY <1>5, <1>6, <1>7 DEF AESInv

\* The level and the words that wait grow or shrink by the same n.
LEMMA LevelMoves ==
  ASSUME LevelExact, NEW x \in Nat, x = fifo.read + fifo.bad + WordsOf(queue) + WordsOf(Held),
         NEW n \in Int, reg'.level = (reg.level + n) % 256,
         fifo'.read + fifo'.bad + WordsOf(queue') + WordsOf(Held') = x + n
  PROVE  LevelExact'
  <1>1. reg.level = x % 256 BY DEF LevelExact
  <1>2. reg'.level = (x + n) % 256 BY <1>1, ModAdd
  <1>3. WordsOf(queue)' = WordsOf(queue') /\ WordsOf(Held)' = WordsOf(Held') BY DEF WordsOf
  <1> QED BY <1>2, <1>3 DEF LevelExact

\* A word that begins no command is counted in the level and stays there.
LEMMA BadWordStep == ASSUME AESInv, WriteBadWord PROVE AESInv'
  <1>t. AESTypeOK /\ OneWorker BY DEF AESInv
  <1>u. UNCHANGED <<queue, stopped, worker, main, submitted, executed>> BY DEF WriteBadWord
  <1>1. fifo \in [op : Op \cup {NoCmd}, read : Nat, bad : Nat] /\ reg \in Regs
    BY <1>t DEF AESTypeOK
  <1>2. /\ fifo' \in [op : Op \cup {NoCmd}, read : Nat, bad : Nat]
        /\ fifo'.op = fifo.op /\ fifo'.read = fifo.read /\ fifo'.bad = fifo.bad + 1
    BY <1>1 DEF WriteBadWord
  <1>3. reg' \in Regs /\ reg'.level = (reg.level + 1) % 256
    <2> DEFINE q == [reg EXCEPT !.int_status = @ \cup {"invalid_command"}]
    <2>1. q \in Regs /\ q.level = reg.level BY <1>1 DEF Regs, Bits
    <2>2. reg' = AddLevel(q, 1) BY DEF WriteBadWord
    <2> HIDE DEF q
    <2> QED BY <2>1, <2>2, LevelType
  <1>4. AESTypeOK' BY <1>t, <1>u, <1>2, <1>3 DEF AESTypeOK
  <1>5. OneWorker' BY <1>t, <1>u, <1>2 DEF OneWorker, Alive
  <1>6. Held' = Held BY <1>u, HeldIs
  <1>7. InOrder' BY <1>u, <1>6 DEF AESInv, InOrder
  <1>8. LevelExact'
    <2>1. WordsOf(queue) \in Nat /\ WordsOf(Held) \in Nat
      BY <1>t, HeldType, WordsOfNat DEF AESTypeOK
    <2>2. fifo.read \in Nat /\ fifo.bad \in Nat BY <1>1
    <2> DEFINE x == fifo.read + fifo.bad + WordsOf(queue) + WordsOf(Held)
    <2>3. x \in Nat BY <2>1, <2>2
    <2>4. WordsOf(queue') = WordsOf(queue) /\ WordsOf(Held') = WordsOf(Held) BY <1>u, <1>6
    <2>5. fifo'.read + fifo'.bad + WordsOf(queue') + WordsOf(Held') = x + 1
      BY <1>2, <2>1, <2>2, <2>4
    <2> HIDE DEF x
    <2> QED BY <1>3, <2>3, <2>5, LevelMoves DEF AESInv, x
  <1> QED BY <1>4, <1>5, <1>7, <1>8 DEF AESInv

\* aes_process_fifo: a word of a command, the last of which puts the command into the
\* queue and wakes the worker up.
LEMMA WriteFifoStep == ASSUME AESInv, NEW op \in Op, WriteFifo(op) PROVE AESInv'
  <1>t. AESTypeOK /\ OneWorker BY DEF AESInv
  <1>u. UNCHANGED <<stopped, main, executed>> BY DEF WriteFifo
  <1>1. fifo \in [op : Op \cup {NoCmd}, read : Nat, bad : Nat] /\ reg \in Regs
    BY <1>t DEF AESTypeOK
  <1>2. reg' \in Regs /\ reg'.level = (reg.level + 1) % 256
    BY <1>1, LevelType DEF WriteFifo
  <1>n. WordsOf(queue) \in Nat /\ WordsOf(Held) \in Nat /\ fifo.read \in Nat /\ fifo.bad \in Nat
    BY <1>t, <1>1, HeldType, WordsOfNat DEF AESTypeOK
  <1> DEFINE x == fifo.read + fifo.bad + WordsOf(queue) + WordsOf(Held)
  <1>x. x \in Nat BY <1>n
  <1>s. queue \in Seq(Op) /\ submitted \in Seq(Op) BY <1>t DEF AESTypeOK
  <1>3. CASE Complete(op)
    <2>1. /\ queue' = Append(queue, op) /\ submitted' = Append(submitted, op) /\ Signal
          /\ fifo' = [fifo EXCEPT !.op = NoCmd, !.read = 0]
      BY <1>3 DEF WriteFifo, Submit
    <2>2. /\ fifo' \in [op : Op \cup {NoCmd}, read : Nat, bad : Nat]
          /\ fifo'.read = 0 /\ fifo'.bad = fifo.bad
      BY <1>1, <2>1
    <2>3. fifo.read + 1 = Words[op] BY <1>3 DEF Complete
    <2>4. worker' \in Threads /\ \A v \in Workers : worker'[v].cmd = worker[v].cmd
      BY <1>t, <2>1, SignalKeeps
    <2>5. AESTypeOK' BY <1>t, <1>u, <1>s, <1>2, <2>1, <2>2, <2>4 DEF AESTypeOK
    <2>6. OneWorker' BY <1>t, <1>u, <2>1, <2>2, SignalOneWorker
    <2>7. Held' = Held BY <2>4, HeldSame, HeldIs
    <2>8. InOrder'
      <3>1. executed \o Held \o queue = submitted BY DEF AESInv, InOrder
      <3>2. executed \in Seq(Op) /\ Held \in Seq(Op) BY <1>t, HeldType DEF AESTypeOK
      <3>3. \A a, q \in Seq(Op) : a \o Append(q, op) = Append(a \o q, op) OBVIOUS
      <3>4. executed \o Held \in Seq(Op) BY <3>2
      <3>5. (executed \o Held) \o Append(queue, op) = Append(submitted, op)
        BY <1>s, <3>1, <3>3, <3>4, Zenon
      <3> QED BY <1>u, <2>1, <2>7, <3>5 DEF InOrder
    <2>9. LevelExact'
      <3>1. WordsOf(queue') = WordsOf(queue) + Words[op] /\ WordsOf(Held') = WordsOf(Held)
        BY <1>s, <2>1, <2>7, WordsOfAppend
      <3>2. fifo'.read + fifo'.bad + WordsOf(queue') + WordsOf(Held') = x + 1
        BY <1>n, <2>2, <2>3, <3>1
      <3> HIDE DEF x
      <3> QED BY <1>2, <1>x, <3>2, LevelMoves DEF AESInv, x
    <2> QED BY <2>5, <2>6, <2>8, <2>9 DEF AESInv
  <1>4. CASE ~Complete(op)
    <2>1. fifo' = [fifo EXCEPT !.op = op, !.read = @ + 1] /\ UNCHANGED <<queue, worker, submitted>>
      BY <1>4 DEF WriteFifo
    <2>2. /\ fifo' \in [op : Op \cup {NoCmd}, read : Nat, bad : Nat]
          /\ fifo'.op # NoCmd /\ fifo'.read = fifo.read + 1 /\ fifo'.bad = fifo.bad
      <3>1. op # NoCmd BY DEF Op, NoCmd
      <3>2. fifo'.op = op /\ fifo'.read = fifo.read + 1 /\ fifo'.bad = fifo.bad
        BY <1>1, <2>1
      <3>3. fifo' \in [op : Op \cup {NoCmd}, read : Nat, bad : Nat]
        <4>1. op \in Op \cup {NoCmd} /\ fifo.read + 1 \in Nat BY <1>n
        <4> QED BY <1>1, <2>1, <4>1
      <3> QED BY <3>1, <3>2, <3>3
    <2>3. AESTypeOK' BY <1>t, <1>u, <1>2, <2>1, <2>2 DEF AESTypeOK
    <2>4. OneWorker' BY <1>t, <1>u, <2>1, <2>2 DEF OneWorker, Alive
    <2>5. Held' = Held BY <2>1, HeldIs
    <2>6. InOrder' BY <1>u, <2>1, <2>5 DEF AESInv, InOrder
    <2>7. LevelExact'
      <3>1. WordsOf(queue') = WordsOf(queue) /\ WordsOf(Held') = WordsOf(Held) BY <2>1, <2>5
      <3>2. fifo'.read + fifo'.bad + WordsOf(queue') + WordsOf(Held') = x + 1
        BY <1>n, <2>2, <3>1
      <3> HIDE DEF x
      <3> QED BY <1>2, <1>x, <3>2, LevelMoves DEF AESInv, x
    <2> QED BY <2>3, <2>4, <2>6, <2>7 DEF AESInv
  <1> QED BY <1>3, <1>4

\* Steps of the worker that take no command and finish none.
LEMMA GotoStep ==
  ASSUME AESInv, NEW w \in Workers, Alive(w), NEW p \in PCs \ {"none"}, Goto(w, p),
         worker[w].cmd # NoCmd <=> p \in {"exec", "lock"},
         stopped /\ main # w => p \in {"check", "loop", "done"},
         UNCHANGED <<reg, fifo, queue, stopped, main, submitted, executed>>
  PROVE  AESInv'
  <1>t. AESTypeOK /\ OneWorker BY DEF AESInv
  <1>1. Moved(w, p, worker[w].cmd) BY <1>t, GotoMoves DEF AESTypeOK
  <1>2. AESTypeOK' BY <1>t, <1>1 DEF AESTypeOK, Moved
  <1>3. OneWorker'
    <2>1. fifo'.op = NoCmd => fifo'.read = 0 BY <1>t DEF OneWorker
    <2> QED BY <1>t, <1>1, <2>1, MoveKeeps
  <1>4. \A v \in Workers : worker'[v].cmd = worker[v].cmd BY <1>1 DEF Moved
  <1>5. LevelExact' /\ InOrder' BY <1>4, QuietKeeps DEF AESInv
  <1> QED BY <1>2, <1>3, <1>5 DEF AESInv

\* Where a worker is that was told to stop and that nobody joins.
LEMMA ToldToStop ==
  ASSUME OneWorker, NEW w \in Workers, Alive(w), stopped, main # w
  PROVE  worker[w].pc \in {"check", "loop"}
  BY Zenon DEF OneWorker

\* The top of the loop, the execution, the check of the queue and the sleep change neither
\* the level nor the commands, nor does a worker that was told to stop sleep.
LEMMA QuietThreadStep ==
  ASSUME AESInv, NEW w \in Workers, LoopTop(w) \/ Exec(w) \/ Check(w) \/ Sleep(w)
  PROVE  AESInv'
  <1>t. OneWorker BY DEF AESInv
  <1>c. worker[w].cmd # NoCmd <=> worker[w].pc \in {"exec", "lock"} BY <1>t, Zenon DEF OneWorker
  <1>1. CASE LoopTop(w)
    <2>1. worker[w].pc = "loop" /\ Alive(w) BY <1>1 DEF LoopTop, Alive
    <2>2. CASE stopped
      <3>1. Goto(w, "done") BY <1>1, <2>2 DEF LoopTop
      <3> QED BY <1>1, <1>c, <2>1, <3>1, GotoStep DEF LoopTop, PCs
    <2>3. CASE ~stopped
      <3>1. Goto(w, "fetch") BY <1>1, <2>3 DEF LoopTop
      <3> QED BY <1>1, <1>c, <2>1, <2>3, <3>1, GotoStep DEF LoopTop, PCs
    <2> QED BY <2>2, <2>3
  <1>2. CASE Exec(w)
    <2>1. worker[w].pc = "exec" /\ Alive(w) BY <1>2 DEF Exec, Alive
    <2>2. Goto(w, "lock") BY <1>2 DEF Exec
    <2>3. ~ (stopped /\ main # w) BY <1>t, <2>1, ToldToStop
    <2> QED BY <1>2, <1>c, <2>1, <2>2, <2>3, GotoStep DEF Exec, PCs
  <1>3. CASE Check(w)
    <2>1. worker[w].pc = "check" /\ Alive(w) BY <1>3 DEF Check, Alive
    <2>2. CASE Idle
      <3>1. Goto(w, "presleep") /\ ~stopped BY <1>3, <2>2 DEF Check, Idle
      <3> QED BY <1>3, <1>c, <2>1, <3>1, GotoStep DEF Check, PCs
    <2>3. CASE ~Idle
      <3>1. Goto(w, "loop") BY <1>3, <2>3 DEF Check
      <3> QED BY <1>3, <1>c, <2>1, <3>1, GotoStep DEF Check, PCs
    <2> QED BY <2>2, <2>3
  <1>4. CASE Sleep(w)
    <2>1. worker[w].pc = "presleep" /\ Alive(w) BY <1>4 DEF Sleep, Alive
    <2>2. Goto(w, "asleep") BY <1>4 DEF Sleep
    <2>3. ~ (stopped /\ main # w) BY <1>t, <2>1, ToldToStop
    <2> QED BY <1>4, <1>c, <2>1, <2>2, <2>3, GotoStep DEF Sleep, PCs
  <1> QED BY <1>1, <1>2, <1>3, <1>4

\* The worker takes the oldest command: it moves from the queue to the worker's hands.
LEMMA FetchStep == ASSUME AESInv, NEW w \in Workers, Fetch(w) PROVE AESInv'
  <1>t. AESTypeOK /\ OneWorker BY DEF AESInv
  <1>1. worker[w].pc = "fetch" /\ Alive(w) BY DEF Fetch, Alive
  <1>c. worker[w].cmd = NoCmd BY <1>t, <1>1 DEF OneWorker
  <1>u. UNCHANGED <<reg, fifo, stopped, main, submitted, executed>> BY DEF Fetch
  <1>m. ~ (stopped /\ main # w) BY <1>t, <1>1, ToldToStop
  <1>2. CASE queue = <<>>
    <2>1. Goto(w, "check") /\ UNCHANGED queue BY <1>2 DEF Fetch
    <2> QED BY <1>c, <1>u, <1>1, <2>1, GotoStep DEF PCs
  <1>3. CASE queue # <<>>
    <2>s. queue \in Seq(Op) /\ executed \in Seq(Op) BY <1>t DEF AESTypeOK
    <2> DEFINE c == Head(queue)
    <2>1. /\ worker' = [worker EXCEPT ![w] = [pc |-> "exec", cmd |-> c]]
          /\ queue' = Tail(queue)
      BY <1>3 DEF Fetch
    <2>2. c \in Op /\ Tail(queue) \in Seq(Op) /\ <<c>> \o Tail(queue) = queue BY <1>3, <2>s
    <2>n. c # NoCmd BY <2>2 DEF Op, NoCmd
    <2>w. WordsOf(queue) = Words[c] + WordsOf(Tail(queue)) BY <1>3, <2>s, WordsOfTail
    <2> HIDE DEF c
    <2>3. Moved(w, "exec", c) BY <1>t, <2>1, <2>2, TakeMoves DEF AESTypeOK, PCs
    <2>4. AESTypeOK' BY <1>t, <1>u, <2>1, <2>2, <2>3 DEF AESTypeOK, Moved
    <2>5. OneWorker'
      <3>1. fifo'.op = NoCmd => fifo'.read = 0 BY <1>t, <1>u DEF OneWorker
      <3> QED BY <1>t, <1>u, <1>1, <1>m, <2>n, <2>3, <3>1, MoveKeeps DEF PCs
    <2>6. Held = <<>> BY <1>t, <1>1, <1>c, HeldAlive
    <2>7. Held' = <<c>>
      <3>1. worker'[w].cmd = c /\ \A v \in Workers : v # w => worker'[v].cmd = NoCmd
        BY <1>t, <1>1, <2>3, OneAlive DEF Moved
      <3> QED BY <2>n, <3>1, HeldOne, HeldIs
    <2>8. InOrder'
      <3>1. executed \o <<>> \o queue = submitted BY <2>6 DEF AESInv, InOrder
      <3>2. \A a, q \in Seq(Op) : a \o <<>> \o (<<c>> \o q) = a \o <<c>> \o q BY <2>2
      <3>3. executed \o <<c>> \o Tail(queue) = submitted BY <2>s, <2>2, <3>1, <3>2, Zenon
      <3> QED BY <1>u, <2>1, <2>7, <3>3 DEF InOrder
    <2>9. LevelExact'
      <3>1. WordsOf(Held) = 0 BY <2>6, WordsOfEmpty
      <3>2. WordsOf(<<c>>) = Words[c] BY <2>2, WordsOfOne
      <3>3. WordsOf(Tail(queue)) \in Nat /\ Words[c] \in Nat BY <2>2, WordsOfNat, WordsType
      <3>4. fifo.read \in Nat /\ fifo.bad \in Nat
        <4>1. fifo \in [op : Op \cup {NoCmd}, read : Nat, bad : Nat] BY <1>t DEF AESTypeOK
        <4> QED BY <4>1
      <3>5. WordsOf(queue)' = WordsOf(Tail(queue)) /\ WordsOf(Held)' = WordsOf(<<c>>)
        <4>1. WordsOf(queue)' = WordsOf(queue') /\ WordsOf(Held)' = WordsOf(Held')
          BY DEF WordsOf
        <4> QED BY <2>1, <2>7, <4>1
      <3>6. fifo.read + fifo.bad + WordsOf(queue) + WordsOf(Held)
              = fifo.read + fifo.bad + WordsOf(Tail(queue)) + WordsOf(<<c>>)
        BY <2>w, <3>1, <3>2, <3>3, <3>4
      <3> QED BY <1>u, <3>5, <3>6, Zenon DEF AESInv, LevelExact
    <2> QED BY <2>4, <2>5, <2>8, <2>9 DEF AESInv
  <1> QED BY <1>2, <1>3

\* The worker publishes its result: the command leaves its hands, and the level falls by
\* the words of the command.
LEMMA FinishStep == ASSUME AESInv, NEW w \in Workers, Finish(w) PROVE AESInv'
  <1>t. AESTypeOK /\ OneWorker BY DEF AESInv
  <1>1. worker[w].pc = "lock" /\ Alive(w) /\ main = 0 BY DEF Finish, Alive, BqlFree
  <1>u. UNCHANGED <<fifo, queue, main, submitted>> BY DEF Finish
  <1> DEFINE c == worker[w].cmd
  <1>c. c \in Op /\ c # NoCmd
    <2>1. c # NoCmd BY <1>t, <1>1 DEF OneWorker
    <2>2. c \in Op \cup {NoCmd} BY <1>t DEF AESTypeOK, Threads
    <2> QED BY <2>1, <2>2
  <1>m. ~stopped
    <2>1. w # 0 BY AESAssumption DEF Workers
    <2> QED BY <1>t, <1>1, <2>1, ToldToStop
  <1>2. /\ reg' = AddLevel([reg EXCEPT !.int_status = Result(@, c)], -Words[c])
        /\ stopped' = (stopped \/ c = "flagstop")
        /\ executed' = Append(executed, c)
        /\ worker' = [worker EXCEPT ![w] = [pc |-> "check", cmd |-> NoCmd]]
    BY DEF Finish, Finished
  <1>h. Held = <<c>> BY <1>t, <1>1, <1>c, HeldAlive
  <1> HIDE DEF c
  <1>3. Moved(w, "check", NoCmd)
    BY <1>t, <1>2, TakeMoves DEF AESTypeOK, PCs
  <1>s. queue \in Seq(Op) /\ executed \in Seq(Op) BY <1>t DEF AESTypeOK
  <1>4. reg' \in Regs /\ reg'.level = (reg.level + (-Words[c])) % 256
    <2> DEFINE q == [reg EXCEPT !.int_status = Result(@, c)]
    <2>1. reg \in Regs BY <1>t DEF AESTypeOK
    <2>2. Result(reg.int_status, c) \in SUBSET Bits BY <2>1 DEF Result, Regs, Bits
    <2>3. q \in Regs /\ q.level = reg.level BY <2>1, <2>2 DEF Regs
    <2>4. -Words[c] \in Int BY <1>c, WordsType
    <2>5. reg' = AddLevel(q, -Words[c]) BY <1>2
    <2> HIDE DEF q
    <2> QED BY <2>3, <2>4, <2>5, LevelType
  <1>5. AESTypeOK'
    <2>1. stopped' \in BOOLEAN BY <1>2
    <2>2. executed' \in Seq(Op) BY <1>2, <1>c, <1>s
    <2> QED BY <1>t, <1>u, <1>3, <1>4, <2>1, <2>2 DEF AESTypeOK, Moved
  <1>6. ASSUME NEW v \in Workers, v # w
        PROVE  worker'[v] = worker[v] /\ ~Alive(v) /\ worker[v].cmd = NoCmd
    BY <1>t, <1>1, <1>3, <1>6, OneAlive DEF Moved
  <1>7. OneWorker'
    <2>1. (fifo'.op = NoCmd => fifo'.read = 0) /\ main' = 0 BY <1>t, <1>u, <1>1 DEF OneWorker
    <2>2. stopped' => executed' # <<>> /\ executed'[Len(executed')] = "flagstop"
      <3>1. stopped' => c = "flagstop" BY <1>2, <1>m
      <3>2. executed' # <<>> /\ executed'[Len(executed')] = c BY <1>2, <1>s, <1>c
      <3> QED BY <3>1, <3>2
    <2>3. worker'[w].pc = "check" /\ worker'[w].cmd = NoCmd BY <1>3 DEF Moved
    <2>4. ASSUME NEW v \in Workers
          PROVE  /\ worker'[v].cmd # NoCmd <=> worker'[v].pc \in {"exec", "lock"}
                 /\ worker'[v].pc = "none" \/ Alive(v)'
                      => \A u \in Workers : v < u => worker'[u].pc = "none"
                 /\ Alive(v)' => worker'[v].pc \in {"check", "loop"}
      <3>1. worker[v].pc = "none" \/ Alive(v)
              => \A u \in Workers : v < u => worker[u].pc = "none"
        BY <1>t, Zenon DEF OneWorker
      <3>2. ASSUME worker[v].pc = "none" \/ Alive(v), NEW u \in Workers, v < u
            PROVE  worker'[u].pc = "none"
        <4>1. worker[u].pc = "none" BY <3>1, <3>2
        <4>2. u # w BY <1>1, <4>1
        <4> QED BY <1>6, <4>1, <4>2
      <3>3. CASE v = w BY <1>1, <2>3, <3>2, <3>3
      <3>4. CASE v # w
        <4>1. worker'[v] = worker[v] /\ ~Alive(v) /\ worker[v].cmd = NoCmd BY <1>6, <3>4
        <4> QED BY <3>2, <4>1 DEF Alive
      <3> QED BY <3>3, <3>4
    <2> QED BY <2>1, <2>2, <2>4, Zenon DEF OneWorker
  <1>8. Held' = <<>>
    <2>1. \A v \in Workers : worker'[v].cmd = NoCmd BY <1>3, <1>6 DEF Moved
    <2> QED BY <2>1, HeldNone, HeldIs
  <1>9. InOrder'
    <2>1. executed \o <<c>> \o queue = submitted BY <1>h DEF AESInv, InOrder
    <2>2. \A a, q \in Seq(Op) : Append(a, c) \o <<>> \o q = a \o <<c>> \o q BY <1>c
    <2>3. Append(executed, c) \o <<>> \o queue = submitted BY <1>s, <2>1, <2>2, Zenon
    <2> QED BY <1>u, <1>2, <1>8, <2>3 DEF InOrder
  <1>10. LevelExact'
    <2>1. WordsOf(Held) = Words[c] /\ WordsOf(Held') = 0
      BY <1>c, <1>h, <1>8, WordsOfOne, WordsOfEmpty
    <2>2. WordsOf(queue) \in Nat /\ Words[c] \in Nat BY <1>c, <1>s, WordsOfNat, WordsType
    <2>3. fifo.read \in Nat /\ fifo.bad \in Nat
      <3>1. fifo \in [op : Op \cup {NoCmd}, read : Nat, bad : Nat] BY <1>t DEF AESTypeOK
      <3> QED BY <3>1
    <2> DEFINE x == fifo.read + fifo.bad + WordsOf(queue) + WordsOf(Held)
    <2>4. x \in Nat BY <2>1, <2>2, <2>3
    <2>5. WordsOf(queue') = WordsOf(queue) /\ fifo' = fifo BY <1>u
    <2>6. fifo'.read + fifo'.bad + WordsOf(queue') + WordsOf(Held') = x + (-Words[c])
      BY <2>1, <2>2, <2>3, <2>5
    <2>7. -Words[c] \in Int BY <2>2
    <2> HIDE DEF x
    <2> QED BY <1>4, <2>4, <2>6, <2>7, LevelMoves DEF AESInv, x
  <1> QED BY <1>5, <1>7, <1>9, <1>10 DEF AESInv

\* Every register access and every step of a thread preserves the invariant.
LEMMA AESStep == ASSUME ~ResetsBusy, AESInv, [Next]_vars PROVE AESInv'
  <1>1. ASSUME NEW op \in Op, WriteFifo(op) PROVE AESInv' BY <1>1, WriteFifoStep
  <1>2. ASSUME NEW b \in Bits, AckInterrupts({b}) PROVE AESInv' BY <1>2, AckStep
  <1>3. ASSUME NEW bits \in {{"low"}, {"flag_command", "key_disabled"}}, WriteIntEnable(bits)
        PROVE  AESInv'
    <2>1. bits \in SUBSET Bits BY DEF Bits
    <2> QED BY <1>3, <2>1, EnableStep
  <1>4. ASSUME NEW n \in Watermark, WriteWatermarks(n) PROVE AESInv'
    <2>1. n \in Nat BY AESAssumption
    <2> QED BY <1>4, <2>1, WatermarkStep
  <1>5. CASE Start BY <1>5, StartStep
  <1>6. CASE Stop BY <1>6, StopStep
  <1>7. ASSUME NEW save \in BOOLEAN, StopEnd(save) PROVE AESInv' BY <1>7, StopEndStep
  <1>8. CASE ClearFifo BY <1>8, ClearStep
  <1>9. CASE Reset BY <1>9, ResetStep
  <1>10. CASE WriteBadWord BY <1>10, BadWordStep
  <1>11. ASSUME NEW w \in Workers, Thread(w) PROVE AESInv'
    BY <1>11, QuietThreadStep, FetchStep, FinishStep DEF Thread
  <1>12. CASE UNCHANGED vars
    <2>1. UNCHANGED <<reg, fifo, queue, stopped, worker, main, submitted, executed>>
      BY <1>12 DEF vars
    <2>2. reg' \in Regs /\ reg'.level = reg.level BY <2>1 DEF AESInv, AESTypeOK
    <2> QED BY <2>1, <2>2, RegisterStep
  <1> QED BY <1>1, <1>2, <1>3, <1>4, <1>5, <1>6, <1>7, <1>8, <1>9, <1>10, <1>11, <1>12, Zenon
      DEF Next

\* The inductive invariant holds in every state, provided the driver resets the engine only
\* when no worker exists: apple_aes_reset sets stopped and joins nobody, and a worker that
\* lives on would share the queue with the next.
THEOREM AESInvariance == ASSUME ~ResetsBusy PROVE Spec => []AESInv
  BY AESInitInv, AESStep, PTL DEF Spec

\* The FIFO level is the number of words that wait, in every state (aes_process_fifo,
\* aes_thread, aes_empty_fifo).
THEOREM AESLevelExact == ASSUME ~ResetsBusy PROVE Spec => []LevelExact
  <1>1. AESInv => LevelExact BY DEF AESInv
  <1> QED BY <1>1, AESInvariance, PTL

\* Commands are executed once each, in the order they were submitted, one at a time, in
\* every state (aes_thread, aes_stop, aes_start).
THEOREM AESInOrder == ASSUME ~ResetsBusy PROVE Spec => []InOrder
  <1>1. AESInv => InOrder BY DEF AESInv
  <1> QED BY <1>1, AESInvariance, PTL
=============================================================================
