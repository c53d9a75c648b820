-------------------------------- MODULE AES --------------------------------
(***************************************************************************)
(* The AES engine (hw/misc/apple-silicon/aes.c): the command FIFO that the *)
(* driver fills through a register, and the worker thread that takes the   *)
(* commands.  The worker runs beside the register accesses, which hold the *)
(* big lock (BQL); it takes that lock only to publish a result, and shares *)
(* the command queue under queue_mutex.                                    *)
(***************************************************************************)
EXTENDS Integers, Sequences

CONSTANTS
  MaxThreads,   \* bound: the threads aes_start creates
  Words,        \* words (data_len) of each command
  Watermark,    \* values of the command_fifo_low watermark
  MaxCommands,  \* bound: commands the driver submits
  MaxControls,  \* bound: writes of CONTROL, CLEAR_FIFO, WATERMARKS, and saves
  ResetsBusy    \* TRUE: RESET_AES is written while a worker exists

Workers == 1 .. MaxThreads
Op == {"key", "hwkey", "data", "badlen", "flag", "flagstop"}

ASSUME AESAssumption ==
  /\ MaxThreads \in Nat \ {0}
  /\ Words \in [Op -> 1 .. 255]
  /\ Watermark \subseteq Nat /\ MaxCommands \in Nat /\ MaxControls \in Nat
  /\ ResetsBusy \in BOOLEAN

VARIABLES
  reg,        \* level, low watermark, int_status, int_enable, and the line
  fifo,       \* the command being written: its opcode and the words read; history: the
              \* words since the last clear that were no command
  queue,      \* the commands the worker has not taken
  stopped,    \* s->stopped
  key,        \* the key context: none, software or disabled
  worker,     \* per thread: where it is, and the command it holds
  main,       \* the thread that holds the BQL in aes_stop, and whom it joins
  submitted,  \* history: the commands put into the queue since the last clear
  executed,   \* history: those that were executed
  controls    \* counts against MaxControls

vars == <<reg, fifo, queue, stopped, key, worker, main, submitted, executed, controls>>

NoCmd == "none"
Bits == {"low", "key_disabled", "invalid_length", "flag_command", "invalid_command"}
-----------------------------------------------------------------------------
aes_update_irq(r) == [r EXCEPT !.irq = r.int_enable \cap r.int_status # {}]

update_command_fifo_status(r) ==
  aes_update_irq([r EXCEPT !.int_status = (@ \ {"low"}) \cup
                             (IF r.level < r.watermark THEN {"low"} ELSE {})])

\* The level is an 8-bit field.
AddLevel(r, n) == update_command_fifo_status([r EXCEPT !.level = (@ + n) % 256])

\* queue_mutex is held by a worker that has found nothing to do, until it sleeps.
MutexFree == \A w \in Workers : worker[w].pc # "presleep"
BqlFree == main = 0
Alive(w) == worker[w].pc \notin {"none", "done"}

\* qemu_cond_signal: one sleeping thread, if there is one, wakes up.
Signal ==
  LET asleep == {w \in Workers : worker[w].pc = "asleep"}
  IN  IF asleep = {} THEN UNCHANGED worker
      ELSE \E w \in asleep : worker' = [worker EXCEPT ![w].pc = "check"]

-----------------------------------------------------------------------------
Init ==
  /\ reg = [level |-> 0, watermark |-> 0, int_status |-> {}, int_enable |-> {}, irq |-> FALSE]
  /\ fifo = [op |-> NoCmd, read |-> 0, bad |-> 0]
  /\ queue = <<>> /\ stopped = TRUE /\ key = "none"
  /\ worker = [w \in Workers |-> [pc |-> "none", cmd |-> NoCmd]]
  /\ main = 0
  /\ submitted = <<>> /\ executed = <<>> /\ controls = 0

Control == BqlFree /\ controls < MaxControls /\ controls' = controls + 1

-----------------------------------------------------------------------------
(* Register accesses, under the BQL.                                       *)

Submit(op) == queue' = Append(queue, op)

Complete(op) == fifo.read + 1 = Words[op]

WriteFifo(op) ==
  /\ BqlFree
  /\ IF fifo.op = NoCmd THEN Len(submitted) < MaxCommands ELSE op = fifo.op
  /\ IF Complete(op)
     THEN /\ MutexFree
          /\ Submit(op) /\ Signal
          /\ submitted' = Append(submitted, op)
          /\ fifo' = [fifo EXCEPT !.op = NoCmd, !.read = 0]
     ELSE /\ fifo' = [fifo EXCEPT !.op = op, !.read = @ + 1]
          /\ UNCHANGED <<queue, worker, submitted>>
  /\ reg' = AddLevel(reg, 1)
  /\ UNCHANGED <<stopped, key, main, executed, controls>>

\* INT_STATUS clears the bits written; INT_ENABLE is replaced.
AckInterrupts(bits) ==
  /\ BqlFree /\ bits \subseteq reg.int_status /\ bits # {}
  /\ reg' = aes_update_irq([reg EXCEPT !.int_status = @ \ bits])
  /\ UNCHANGED <<fifo, queue, stopped, key, worker, main, submitted, executed, controls>>

WriteIntEnable(bits) ==
  /\ Control
  /\ reg' = aes_update_irq([reg EXCEPT !.int_enable = bits])
  /\ UNCHANGED <<fifo, queue, stopped, key, worker, main, submitted, executed>>

\* WATERMARKS: the status is computed before the register is written.
WriteWatermarks(n) ==
  /\ Control
  /\ reg' = [update_command_fifo_status(reg) EXCEPT !.watermark = n]
  /\ UNCHANGED <<fifo, queue, stopped, key, worker, main, submitted, executed>>

\* aes_start creates a thread when the last one was told to stop.  A driver that stops
\* the engine by a command waits until its worker has ended.
Start ==
  /\ Control
  /\ executed # <<>> /\ executed[Len(executed)] = "flagstop" => \A w \in Workers : ~Alive(w)
  /\ IF stopped
     THEN \E w \in Workers :
            /\ worker[w].pc = "none" /\ \A v \in Workers : v < w => worker[v].pc # "none"
            /\ worker' = [worker EXCEPT ![w].pc = "loop"]
            /\ stopped' = FALSE
     ELSE UNCHANGED <<worker, stopped>>
  /\ UNCHANGED <<reg, fifo, queue, key, main, submitted, executed>>

\* s->thread: the thread created last.
LastThread == CHOOSE w \in Workers : worker[w].pc # "none"
                /\ \A v \in Workers : w < v => worker[v].pc = "none"

\* aes_stop, from CONTROL_STOP or apple_aes_pre_save: tells the worker to stop,
\* signals without queue_mutex, and waits for the thread to end, holding the BQL.
Stop ==
  /\ Control
  /\ IF stopped THEN UNCHANGED <<stopped, worker, main>>
     ELSE stopped' = TRUE /\ main' = LastThread /\ Signal
  /\ UNCHANGED <<reg, fifo, queue, key, submitted, executed>>

\* Fault: the thread is not waited for.
Joined_AtOnce == main # 0
Joined == main # 0 /\ worker[main].pc = "done"

\* The thread has ended.  A save leaves `stopped' as it was, and no worker.
StopEnd(save) ==
  /\ Joined
  /\ main' = 0
  /\ stopped' = ~save
  /\ UNCHANGED <<reg, fifo, queue, key, worker, submitted, executed, controls>>

\* aes_empty_fifo, on the registers r: an incomplete command stays where it is.
EmptyFifo(r) ==
  /\ MutexFree
  /\ queue' = <<>>
  /\ submitted' = SubSeq(submitted, 1, Len(submitted) - Len(queue))
  /\ reg' = update_command_fifo_status([r EXCEPT !.level = 0])

\* CLEAR_FIFO and CONTROL_RESET, by a driver that waits for the command at hand.
ClearFifo ==
  /\ Control
  /\ fifo.op = NoCmd /\ \A w \in Workers : worker[w].cmd = NoCmd
  /\ EmptyFifo(reg)
  /\ fifo' = [fifo EXCEPT !.bad = 0]
  /\ UNCHANGED <<stopped, key, worker, main, executed>>

\* apple_aes_reset, from RESET_AES or the machine: `stopped' is set first, so that
\* aes_stop does nothing.  The keys stay.
Reset ==
  /\ Control
  /\ ResetsBusy \/ \A w \in Workers : ~Alive(w)
  /\ fifo' = [op |-> NoCmd, read |-> 0, bad |-> 0]
  /\ stopped' = TRUE
  /\ EmptyFifo([reg EXCEPT !.watermark = 0, !.int_status = {}, !.int_enable = {}])
  /\ UNCHANGED <<key, worker, main, executed>>

\* A word that is no command is reported, and counted by the level.
WriteBadWord ==
  /\ Control /\ fifo.op = NoCmd
  /\ reg' = AddLevel([reg EXCEPT !.int_status = @ \cup {"invalid_command"}], 1)
  /\ fifo' = [fifo EXCEPT !.bad = @ + 1]
  /\ UNCHANGED <<queue, stopped, key, worker, main, submitted, executed>>

-----------------------------------------------------------------------------
(* aes_thread.                                                             *)

Goto(w, pc) == worker' = [worker EXCEPT ![w].pc = pc]

LoopTop(w) ==
  /\ worker[w].pc = "loop"
  /\ Goto(w, IF stopped THEN "done" ELSE "fetch")
  /\ UNCHANGED <<reg, fifo, queue, stopped, key, main, submitted, executed, controls>>

Fetch(w) ==
  /\ worker[w].pc = "fetch" /\ MutexFree
  /\ IF queue = <<>> THEN Goto(w, "check") /\ UNCHANGED queue
     ELSE /\ worker' = [worker EXCEPT ![w] = [pc |-> "exec", cmd |-> Head(queue)]]
          /\ queue' = Tail(queue)
  /\ UNCHANGED <<reg, fifo, stopped, key, main, submitted, executed, controls>>

\* What aes_process_command does before it takes the BQL: the old cipher is freed.
Exec(w) ==
  /\ worker[w].pc = "exec"
  /\ Goto(w, "lock")
  /\ key' = IF worker[w].cmd \in {"key", "hwkey"} THEN "none" ELSE key
  /\ UNCHANGED <<reg, fifo, queue, stopped, main, submitted, executed, controls>>

\* What it sets under the BQL.
Result(st, cmd) ==
  CASE cmd = "key"    -> st \ {"key_disabled"}
    [] cmd = "hwkey"  -> st \cup {"key_disabled"}
    [] cmd = "badlen" -> st \cup {"invalid_length"}
    [] cmd = "data"   -> IF key = "sw" THEN st ELSE st \cup {"key_disabled"}
    [] OTHER          -> st \cup {"flag_command"}

\* Fault: one word is taken off the level, not those of the command.
Finished_OneWord(w) ==
  AddLevel([reg EXCEPT !.int_status = Result(@, worker[w].cmd)], -1)
Finished(w) ==
  AddLevel([reg EXCEPT !.int_status = Result(@, worker[w].cmd)], -Words[worker[w].cmd])

Finish(w) ==
  /\ worker[w].pc = "lock" /\ BqlFree
  /\ reg' = Finished(w)
  /\ key' = CASE worker[w].cmd = "key" -> "sw"
              [] worker[w].cmd = "hwkey" -> "disabled"
              [] OTHER -> key
  /\ stopped' = (stopped \/ worker[w].cmd = "flagstop")
  /\ executed' = Append(executed, worker[w].cmd)
  /\ worker' = [worker EXCEPT ![w] = [pc |-> "check", cmd |-> NoCmd]]
  /\ UNCHANGED <<fifo, queue, main, submitted, controls>>

\* Fault: the queue is not looked at again before the thread sleeps.
Idle_NoRecheck == ~stopped
Idle == queue = <<>> /\ ~stopped

Check(w) ==
  /\ worker[w].pc = "check" /\ MutexFree
  /\ Goto(w, IF Idle THEN "presleep" ELSE "loop")
  /\ UNCHANGED <<reg, fifo, queue, stopped, key, main, submitted, executed, controls>>

\* qemu_cond_wait gives up queue_mutex and sleeps.
Sleep(w) ==
  /\ worker[w].pc = "presleep"
  /\ Goto(w, "asleep")
  /\ UNCHANGED <<reg, fifo, queue, stopped, key, main, submitted, executed, controls>>

Thread(w) ==
  LoopTop(w) \/ Fetch(w) \/ Exec(w) \/ Finish(w) \/ Check(w) \/ Sleep(w)

-----------------------------------------------------------------------------
Next ==
  \/ \E op \in Op : WriteFifo(op)
  \/ \E b \in Bits : AckInterrupts({b})
  \/ \E bits \in {{"low"}, {"flag_command", "key_disabled"}} : WriteIntEnable(bits)
  \/ \E n \in Watermark : WriteWatermarks(n)
  \/ Start
  \/ Stop
  \/ \E save \in BOOLEAN : StopEnd(save)
  \/ ClearFifo
  \/ Reset
  \/ WriteBadWord
  \/ \E w \in Workers : Thread(w)

Spec == Init /\ [][Next]_vars

\* The host runs every thread that can run; a join returns when the thread has
\* ended.  Nothing makes the driver write a register.
Fairness ==
  /\ \A w \in Workers : WF_vars(Thread(w))
  /\ WF_vars(\E save \in BOOLEAN : StopEnd(save))
FairSpec == Spec /\ Fairness

-----------------------------------------------------------------------------
(* Properties.                                                             *)

WordsOf(cmds) ==
  LET sum[i \in 0 .. Len(cmds)] == IF i = 0 THEN 0 ELSE sum[i - 1] + Words[cmds[i]]
  IN  sum[Len(cmds)]

\* The command in the hands of a worker, when one has taken one.
Held ==
  LET busy == {w \in Workers : worker[w].cmd # NoCmd}
  IN  IF busy = {} THEN <<>> ELSE <<worker[CHOOSE w \in busy : TRUE].cmd>>

\* The FIFO level, which the driver paces itself by, is the number of words that
\* wait: of the incomplete command, the queue and the command being executed, and of
\* the words that were no command, which stay counted until the FIFO is cleared.
LevelExact == reg.level = (fifo.read + fifo.bad + WordsOf(queue) + WordsOf(Held)) % 256

\* Commands are executed once each and in the order they were submitted, and one at a
\* time: a stopped worker has ended before another takes commands from the queue, so
\* that keys, IVs and flags keep their order (aes_stop, aes_start, aes_thread).
InOrder == executed \o Held \o queue = submitted

\* A submitted command is executed, unless the engine is stopped or a save has taken
\* its worker away: none is left behind by a worker that goes to sleep.
CommandsServed ==
  executed # submitted ~> executed = submitted \/ stopped \/ \A w \in Workers : ~Alive(w)

\* What include/qemu/main-loop.h says of the big lock: a thread gives it back.
BqlReleased == main # 0 ~> main = 0
=============================================================================
