-------------------------------- MODULE DART --------------------------------
(***************************************************************************)
(* The IOMMU (hw/arm/apple-silicon/dart.c): one instance, with its         *)
(* registers, its translation cache, and page tables in guest memory.      *)
(*                                                                         *)
(* Devices translate while they do DMA.  Most hold the big lock (BQL); the *)
(* worker thread of the AES engine does not.  A translation holds the      *)
(* instance's mutex.  The guest's CPUs write registers under the BQL and   *)
(* page tables, which are plain memory, at any time.                       *)
(***************************************************************************)
EXTENDS Naturals

CONSTANTS
  Sids,        \* streams
  L0, L1, L2,  \* indices of the three levels
  Iovas,       \* page numbers of I/O addresses: one index per level
  Dirs,        \* tables of level 1, by their address
  Tabs,        \* tables of level 2
  Ptes,        \* valid entries of level 2
  Perm,        \* the accesses that each allows
  None,        \* no valid entry; nobody
  Bypass,      \* the streams of the property "bypass"
  Agents,      \* devices that do DMA
  BqlAgents,   \* those that hold the BQL while they do
  Cpu,         \* a guest CPU in a register access
  Needs,       \* kinds of access
  Setups,      \* registers and tables to begin with
  MaxEdits     \* bound: writes to registers and tables

ASSUME DARTAssumption ==
  /\ Iovas \subseteq L0 \X L1 \X L2
  /\ Perm \in [Ptes -> SUBSET {"r", "w"}]
  /\ None \notin Sids \cup Dirs \cup Tabs \cup Ptes \cup Agents \cup {Cpu, "identity"}
  /\ "identity" \notin Ptes
  /\ Cpu \notin Agents /\ BqlAgents \subseteq Agents /\ MaxEdits \in Nat

Registers ==
  [remap : [Sids -> Sids], tcr : [Sids -> {"off", "on", "bypass"}],
   ttbr : [Sids -> [L0 -> Dirs \cup {None}]], sid_mask : SUBSET Sids]

ASSUME SetupAssumption ==
  \A x \in Setups : /\ x.regs \in Registers
                    /\ x.dir \in [Dirs -> [L1 -> Tabs \cup {None}]]
                    /\ x.tab \in [Tabs -> [L2 -> Ptes \cup {None}]]

VARIABLES
  regs,    \* the registers that translation reads
  dir,     \* tables of level 1
  tab,     \* tables of level 2
  tlb,     \* the cache, by stream and page
  error,   \* error_status is not 0
  line,    \* the interrupt line
  mutex,   \* holder of the instance's mutex
  bql,     \* holder of the BQL
  ag,      \* translations
  op,      \* the register access that waits for the mutex
  since,   \* history: what the walk could find since the last invalidation
  edits    \* counts against MaxEdits

vars == <<regs, dir, tab, tlb, error, line, mutex, bql, ag, op, since, edits>>

-----------------------------------------------------------------------------
(* The history of a stream and a page: the streams it was remapped to, the *)
(* tables they had, the entries these had.  None stands for no entry.      *)

Nothing == [sid |-> {}, dir |-> {}, tab |-> {}, pte |-> {}]

NextDirs(R, p, S) == {R.ttbr[q][p[1]] : q \in S}
NextTabs(D, p, A) == {D[t][p[2]] : t \in A \ {None}}
NextPtes(T, p, B) == {T[t][p[3]] : t \in B \ {None}}

Grow(h, s, p, R, D, T) ==
  LET S == h.sid \cup {R.remap[s]}
      A == h.dir \cup NextDirs(R, p, S)
      B == h.tab \cup NextTabs(D, p, A)
  IN  [sid |-> S, dir |-> A, tab |-> B, pte |-> h.pte \cup NextPtes(T, p, B)]

\* The histories of the streams in M start anew.
Since(H, M, R, D, T) ==
  [s \in Sids |-> [p \in Iovas |-> Grow(IF s \in M THEN Nothing ELSE H[s][p], s, p, R, D, T)]]

NoWalk == [pc |-> "idle", sid |-> None, iova |-> None, need |-> {}, at |-> None, level |-> FALSE]

EmptyTlb == [s \in Sids |-> [p \in Iovas |-> None]]

Init ==
  /\ \E x \in Setups : regs = x.regs /\ dir = x.dir /\ tab = x.tab
  /\ tlb = EmptyTlb
  /\ error = FALSE /\ line = FALSE
  /\ mutex = None /\ bql = None
  /\ ag = [a \in Agents |-> NoWalk]
  /\ op = [kind |-> "none", mask |-> {}]
  /\ since = Since([s \in Sids |-> [p \in Iovas |-> Nothing]], Sids, regs, dir, tab)
  /\ edits = 0

-----------------------------------------------------------------------------
(* apple_dart_translate, by agent a.                                       *)

Goto(a, pc, at) == ag' = [ag EXCEPT ![a].pc = pc, ![a].at = at]

\* The lock, and the remapped stream.
Lock(a, s, p, need) ==
  /\ ag[a].pc = "idle" /\ mutex = None
  /\ a \in BqlAgents => bql = None
  /\ mutex' = a
  /\ bql' = IF a \in BqlAgents THEN a ELSE bql
  /\ ag' = [ag EXCEPT ![a] = [pc |-> "lookup", sid |-> s, iova |-> p, need |-> need,
                              at |-> regs.remap[s], level |-> FALSE]]
  /\ UNCHANGED <<regs, dir, tab, tlb, error, line, op, since, edits>>

\* Bypass of the stream, translation switched off, or the cache.
Lookup(a) ==
  LET w == ag[a]
      cached == tlb[w.sid][w.iova]
  IN  /\ w.pc = "lookup"
      /\ CASE w.at \in Bypass -> Goto(a, "level", None) /\ mutex' = None
           [] w.at \notin Bypass /\ regs.tcr[w.at] # "on" ->
                Goto(a, "level", "identity") /\ mutex' = None
           [] OTHER -> /\ IF cached # None THEN Goto(a, "finish", cached)
                          ELSE Goto(a, "ttbr", w.at)
                       /\ UNCHANGED mutex
      /\ UNCHANGED <<regs, dir, tab, tlb, error, line, bql, op, since, edits>>

\* apple_dart_ptw: found is the entry read; a walk that finds none is over.
Walked(a, found, pc) ==
  /\ Goto(a, IF found = None THEN "finish" ELSE pc, found)
  /\ UNCHANGED <<regs, dir, tab, tlb, error, line, mutex, bql, op, since, edits>>

ReadTtbr(a) == ag[a].pc = "ttbr" /\ Walked(a, regs.ttbr[ag[a].at][ag[a].iova[1]], "dir")
ReadDir(a) == ag[a].pc = "dir" /\ Walked(a, dir[ag[a].at][ag[a].iova[2]], "tab")
ReadTab(a) == ag[a].pc = "tab" /\ Walked(a, tab[ag[a].at][ag[a].iova[3]], "finish")

\* The entry is cached; a missing entry or permission is an error.
Finish(a) ==
  LET w == ag[a] IN
  /\ w.pc = "finish"
  /\ tlb' = [tlb EXCEPT ![w.sid][w.iova] = w.at]
  /\ error' = (error \/ w.at = None \/ ~(w.need \subseteq Perm[w.at]))
  /\ mutex' = None
  /\ Goto(a, "level", w.at)
  /\ UNCHANGED <<regs, dir, tab, line, bql, op, since, edits>>

\* apple_dart_update_irq: the level is computed, then the line is set.
ReadLevel(a) ==
  /\ ag[a].pc = "level"
  /\ ag' = [ag EXCEPT ![a].pc = "line", ![a].level = error]
  /\ UNCHANGED <<regs, dir, tab, tlb, error, line, mutex, bql, op, since, edits>>

SetLine(a) ==
  /\ ag[a].pc = "line" /\ line' = ag[a].level
  /\ Goto(a, "use", ag[a].at)
  /\ UNCHANGED <<regs, dir, tab, tlb, error, mutex, bql, op, since, edits>>

\* The access with the translated address, and the end of the device's DMA.
Use(a) ==
  /\ ag[a].pc = "use"
  /\ ag' = [ag EXCEPT ![a] = NoWalk]
  /\ bql' = IF a \in BqlAgents THEN None ELSE bql
  /\ UNCHANGED <<regs, dir, tab, tlb, error, line, mutex, op, since, edits>>

-----------------------------------------------------------------------------
(* base_reg_write.                                                         *)

Edit ==
  /\ edits < MaxEdits /\ edits' = edits + 1
  /\ since' = Since(since, {}, regs', dir', tab')
  /\ UNCHANGED <<tlb, mutex, ag>>

WriteRegs(R) ==
  /\ bql = None /\ regs' = R
  /\ UNCHANGED <<dir, tab, error, line, bql, op>>
  /\ Edit

WriteRemap(s, q) == WriteRegs([regs EXCEPT !.remap[s] = q])
WriteTcr(s, v) == WriteRegs([regs EXCEPT !.tcr[s] = v])
WriteTtbr(s, i, t) == WriteRegs([regs EXCEPT !.ttbr[s][i] = t])
WriteSidMask(M) == WriteRegs([regs EXCEPT !.sid_mask = M])

\* ERROR_STATUS: nothing is cleared, the line is set anew.
WriteErrorStatus ==
  /\ bql = None /\ line' = error
  /\ UNCHANGED <<regs, dir, tab, tlb, error, mutex, bql, ag, op, since, edits>>

\* TLB_OP, up to the mutex.
Invalidate ==
  /\ bql = None /\ bql' = Cpu
  /\ op' = [kind |-> "invalidate", mask |-> regs.sid_mask]
  /\ UNCHANGED <<regs, dir, tab, tlb, error, line, mutex, ag, since, edits>>

\* Fault: entries are looked up by the stream that theirs is remapped to.
Drop_Remapped(M) ==
  /\ tlb' = [s \in Sids |-> IF regs.remap[s] \in M THEN [p \in Iovas |-> None] ELSE tlb[s]]
  /\ since' = Since(since, M, regs, dir, tab)
  /\ op' = [kind |-> "none", mask |-> {}] /\ bql' = None
  /\ UNCHANGED <<regs, dir, tab, error, line, mutex, ag, edits>>

\* The cache and the histories once the streams in M are invalid.
Drop(M) ==
  /\ tlb' = [s \in Sids |-> IF s \in M THEN [p \in Iovas |-> None] ELSE tlb[s]]
  /\ since' = Since(since, M, regs, dir, tab)
  /\ op' = [kind |-> "none", mask |-> {}] /\ bql' = None
  /\ UNCHANGED <<regs, dir, tab, error, line, mutex, ag, edits>>

\* Fault: the mutex is not taken.
Invalidated_NoMutex == op.kind = "invalidate" /\ Drop(op.mask)

\* Fault: BUSY is not cleared.
Invalidated_Busy ==
  /\ op.kind = "invalidate" /\ bql = Cpu /\ mutex = None
  /\ tlb' = [s \in Sids |-> IF s \in op.mask THEN [p \in Iovas |-> None] ELSE tlb[s]]
  /\ since' = Since(since, op.mask, regs, dir, tab)
  /\ bql' = None
  /\ UNCHANGED <<regs, dir, tab, error, line, mutex, ag, op, edits>>

Invalidated == op.kind = "invalidate" /\ mutex = None /\ Drop(op.mask)

\* apple_dart_reset, up to the mutex; the line stays.
Reset ==
  /\ bql = None /\ bql' = Cpu
  /\ regs' = [remap |-> [s \in Sids |-> s], tcr |-> [s \in Sids |-> "off"],
              ttbr |-> [s \in Sids |-> [i \in L0 |-> None]], sid_mask |-> {}]
  /\ error' = FALSE
  /\ op' = [kind |-> "reset", mask |-> Sids]
  /\ UNCHANGED <<dir, tab, line>>
  /\ Edit

ResetDone == op.kind = "reset" /\ mutex = None /\ Drop(op.mask)

-----------------------------------------------------------------------------
(* The guest's CPUs and its page tables.                                   *)

WriteDir(t, i, e) ==
  /\ dir' = [dir EXCEPT ![t][i] = e] /\ UNCHANGED <<regs, tab>>
  /\ Edit /\ UNCHANGED <<error, line, bql, op>>

WriteTab(t, i, e) ==
  /\ tab' = [tab EXCEPT ![t][i] = e] /\ UNCHANGED <<regs, dir>>
  /\ Edit /\ UNCHANGED <<error, line, bql, op>>

AgentStep(a) ==
  Lookup(a) \/ ReadTtbr(a) \/ ReadDir(a) \/ ReadTab(a) \/ Finish(a)
    \/ ReadLevel(a) \/ SetLine(a) \/ Use(a)

CpuStep ==
  \/ \E s, q \in Sids : WriteRemap(s, q)
  \/ \E s \in Sids, v \in {"off", "on", "bypass"} : WriteTcr(s, v)
  \/ \E s \in Sids, i \in L0, t \in Dirs \cup {None} : WriteTtbr(s, i, t)
  \/ \E M \in SUBSET Sids : WriteSidMask(M)
  \/ WriteErrorStatus
  \/ Invalidate \/ Invalidated \/ Reset \/ ResetDone
  \/ \E t \in Dirs, i \in L1, e \in Tabs \cup {None} : WriteDir(t, i, e)
  \/ \E t \in Tabs, i \in L2, e \in Ptes \cup {None} : WriteTab(t, i, e)

Next ==
  \/ \E a \in Agents, s \in Sids, p \in Iovas, need \in Needs : Lock(a, s, p, need)
  \/ \E a \in Agents : AgentStep(a)
  \/ CpuStep

Spec == Init /\ [][Next]_vars

\* Threads run on, and whoever waits for the mutex gets it.
Fairness ==
  /\ \A a \in Agents : WF_vars(AgentStep(a))
  /\ SF_vars(Invalidated) /\ SF_vars(ResetDone)

FairSpec == Spec /\ Fairness

-----------------------------------------------------------------------------
(* Properties.                                                             *)

\* A cached translation is one that a walk of the tables could find at some time since the
\* last invalidation of its stream: no invalidation (TLB_OP, reset) is undone by a walk that
\* began before it, and none misses an entry.
TlbNotStale ==
  \A s \in Sids, p \in Iovas : tlb[s][p] # None => tlb[s][p] \in since[s][p].pte

\* The same of a translation that a device with the BQL is about to use: once the guest's
\* write to TLB_OP is done, no such device uses what the guest took away before.
BqlDmaNotStale ==
  \A a \in BqlAgents : ag[a].pc = "use" /\ ag[a].at \in Ptes =>
    ag[a].at \in since[ag[a].sid][ag[a].iova].pte

\* A guest that waits for TLB_OP to lose its BUSY bit, or for the machine to reset, does not
\* wait for ever, however devices translate meanwhile.
OpEnds == op.kind # "none" ~> op.kind = "none"
=============================================================================
