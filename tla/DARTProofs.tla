----------------------------- MODULE DARTProofs -----------------------------
(***************************************************************************)
(* Proofs about DART.tla, for every number of streams, tables, entries and *)
(* devices: the cache, and devices that hold the big lock, never keep a    *)
(* translation that an invalidation took away.                             *)
(*                                                                         *)
(* The invariant says why: what a walk holds was found in tables of the    *)
(* stream's history, and the history forgets only while nobody walks (the  *)
(* mutex) and no device with the big lock uses a translation.              *)
(***************************************************************************)
EXTENDS DART, TLAPS

Histories == [sid : SUBSET Sids, dir : SUBSET (Dirs \cup {None}),
              tab : SUBSET (Tabs \cup {None}), pte : SUBSET (Ptes \cup {None})]

DirType == [Dirs -> [L1 -> Tabs \cup {None}]]
TabType == [Tabs -> [L2 -> Ptes \cup {None}]]

Mid == {"lookup", "ttbr", "dir", "tab", "finish"}
After == {"level", "line", "use"}

Things == Sids \cup Dirs \cup Tabs \cup Ptes \cup {None, "identity"}

Walks == [pc : {"idle"} \cup Mid \cup After, sid : Sids \cup {None}, iova : Iovas \cup {None},
          need : Needs \cup {{}}, at : Things, level : BOOLEAN]

TypeOK ==
  /\ regs \in Registers /\ dir \in DirType /\ tab \in TabType
  /\ tlb \in [Sids -> [Iovas -> Ptes \cup {None}]]
  /\ error \in BOOLEAN /\ line \in BOOLEAN
  /\ mutex \in Agents \cup {None} /\ bql \in Agents \cup {None, Cpu}
  /\ ag \in [Agents -> Walks]
  /\ op \in [kind : {"none", "invalidate", "reset"}, mask : SUBSET Sids]
  /\ since \in [Sids -> [Iovas -> Histories]]

\* A history holds all that a walk could find now.
Closed(h, s, p, R, D, T) ==
  /\ R.remap[s] \in h.sid
  /\ \A q \in h.sid : R.ttbr[q][p[1]] \in h.dir
  /\ \A t \in h.dir \ {None} : D[t][p[2]] \in h.tab
  /\ \A t \in h.tab \ {None} : T[t][p[3]] \in h.pte

AllClosed == \A s \in Sids, p \in Iovas : Closed(since[s][p], s, p, regs, dir, tab)

\* What a walk holds is in the history.
Found(w, h) ==
  /\ w.pc \in {"lookup", "ttbr"} => w.at \in h.sid
  /\ w.pc = "dir" => w.at \in h.dir \ {None}
  /\ w.pc = "tab" => w.at \in h.tab \ {None}
  /\ w.pc = "finish" => w.at \in h.pte \cup {None}

WalkOK(a, w, H, m, b) ==
  /\ w.pc # "idle" => w.sid \in Sids /\ w.iova \in Iovas
  /\ w.pc \in Mid => m = a /\ Found(w, H[w.sid][w.iova])
  /\ a \in BqlAgents /\ w.pc # "idle" => b = a
  /\ a \in BqlAgents /\ w.pc \in After /\ w.at \in Ptes => w.at \in H[w.sid][w.iova].pte

WalksOK == \A a \in Agents : WalkOK(a, ag[a], since, mutex, bql)

OpOK == op.kind # "none" => bql = Cpu

\* The inductive invariant.
IInv == TypeOK /\ AllClosed /\ WalksOK /\ OpOK /\ TlbNotStale

-----------------------------------------------------------------------------
(* Histories.                                                              *)

\* One step of a history keeps what it held and adds all that a walk could find now.
LEMMA GrowFacts ==
  ASSUME NEW h \in Histories, NEW s \in Sids, NEW p \in Iovas, NEW R \in Registers,
         NEW D \in DirType, NEW T \in TabType
  PROVE  LET g == Grow(h, s, p, R, D, T) IN
           /\ g \in Histories /\ Closed(g, s, p, R, D, T)
           /\ h.sid \subseteq g.sid /\ h.dir \subseteq g.dir
           /\ h.tab \subseteq g.tab /\ h.pte \subseteq g.pte
<1> DEFINE S == h.sid \cup {R.remap[s]}
           A == h.dir \cup NextDirs(R, p, S)
           B == h.tab \cup NextTabs(D, p, A)
           C == h.pte \cup NextPtes(T, p, B)
           g == Grow(h, s, p, R, D, T)
<1>1. g = [sid |-> S, dir |-> A, tab |-> B, pte |-> C]
  BY DEF Grow
<1>2. p[1] \in L0 /\ p[2] \in L1 /\ p[3] \in L2
  BY DARTAssumption
<1>3. S \in SUBSET Sids
  BY DEF Histories, Registers
<1>4. A \in SUBSET (Dirs \cup {None})
  <2>1. \A q \in S : R.ttbr[q][p[1]] \in Dirs \cup {None}
    BY <1>2, <1>3 DEF Registers
  <2> QED
    BY <2>1 DEF NextDirs, Histories
<1>5. B \in SUBSET (Tabs \cup {None})
  <2> HIDE DEF A
  <2>1. \A t \in A \ {None} : t \in Dirs
    BY <1>4
  <2>2. \A t \in A \ {None} : D[t][p[2]] \in Tabs \cup {None}
    BY <1>2, <2>1 DEF DirType
  <2> QED
    BY <2>2 DEF NextTabs, Histories
<1>6. C \in SUBSET (Ptes \cup {None})
  <2> HIDE DEF B
  <2>1. \A t \in B \ {None} : t \in Tabs
    BY <1>5
  <2>2. \A t \in B \ {None} : T[t][p[3]] \in Ptes \cup {None}
    BY <1>2, <2>1 DEF TabType
  <2> QED
    BY <2>2 DEF NextPtes, Histories
<1>7. g \in Histories
  <2> HIDE DEF g, S, A, B, C
  <2> QED
    BY <1>1, <1>3, <1>4, <1>5, <1>6 DEF Histories
<1>8. Closed(g, s, p, R, D, T)
  <2>1. R.remap[s] \in S
    OBVIOUS
  <2>2. \A q \in S : R.ttbr[q][p[1]] \in A
    BY DEF NextDirs
  <2>3. \A t \in A \ {None} : D[t][p[2]] \in B
    <3> HIDE DEF A
    <3> QED
      BY DEF NextTabs
  <2>4. \A t \in B \ {None} : T[t][p[3]] \in C
    <3> HIDE DEF B
    <3> QED
      BY DEF NextPtes
  <2> HIDE DEF g, S, A, B, C
  <2>5. g.sid = S /\ g.dir = A /\ g.tab = B /\ g.pte = C
    BY <1>1
  <2> QED
    BY <2>1, <2>2, <2>3, <2>4, <2>5 DEF Closed
<1> QED
  BY <1>1, <1>7, <1>8

Kept(h, g) ==
  h.sid \subseteq g.sid /\ h.dir \subseteq g.dir /\ h.tab \subseteq g.tab /\ h.pte \subseteq g.pte

AllHistories == [Sids -> [Iovas -> Histories]]

\* The same of all histories: those of the streams outside M keep what they held.
LEMMA SinceFacts ==
  ASSUME NEW H \in AllHistories, NEW M \in SUBSET Sids, NEW R \in Registers,
         NEW D \in DirType, NEW T \in TabType
  PROVE  /\ Since(H, M, R, D, T) \in AllHistories
         /\ \A s \in Sids, p \in Iovas : Closed(Since(H, M, R, D, T)[s][p], s, p, R, D, T)
         /\ \A s \in Sids \ M, p \in Iovas : Kept(H[s][p], Since(H, M, R, D, T)[s][p])
<1> DEFINE old(s, p) == IF s \in M THEN Nothing ELSE H[s][p]
           new(s, p) == Grow(old(s, p), s, p, R, D, T)
<1>1. \A s \in Sids, p \in Iovas : old(s, p) \in Histories
  BY DEF AllHistories, Nothing, Histories
<1>2. \A s \in Sids, p \in Iovas :
        /\ new(s, p) \in Histories /\ Closed(new(s, p), s, p, R, D, T)
        /\ Kept(old(s, p), new(s, p))
  <2> TAKE s \in Sids, p \in Iovas
  <2> HIDE DEF old
  <2> QED
    BY <1>1, GrowFacts DEF Kept
<1>3. Since(H, M, R, D, T) = [s \in Sids |-> [p \in Iovas |-> new(s, p)]]
  BY DEF Since
<1> HIDE DEF new
<1>4. Since(H, M, R, D, T) \in AllHistories
  BY <1>2, <1>3 DEF AllHistories
<1>5. \A s \in Sids, p \in Iovas : Since(H, M, R, D, T)[s][p] = new(s, p)
  BY <1>3
<1>6. \A s \in Sids \ M, p \in Iovas : old(s, p) = H[s][p]
  OBVIOUS
<1> QED
  BY <1>2, <1>4, <1>5, <1>6

\* What a walk holds stays found when the histories grow.
LEMMA FoundKept ==
  ASSUME NEW w, NEW h, NEW g, Found(w, h), Kept(h, g)
  PROVE  Found(w, g)
BY DEF Found, Kept

\* A walk stays in order when the histories grow and the big lock is free or stays where it is.
LEMMA WalkKept ==
  ASSUME NEW a \in Agents, NEW w \in Walks, NEW H, NEW G, NEW m, NEW b, NEW c,
         WalkOK(a, w, H, m, b), b = c \/ b = None,
         \A s \in Sids, p \in Iovas : Kept(H[s][p], G[s][p])
  PROVE  WalkOK(a, w, G, m, c)
<1>1. a # None
  BY DARTAssumption
<1>2. CASE w.pc = "idle"
  BY <1>2 DEF WalkOK, Mid, After
<1>3. CASE w.pc # "idle"
  <2>1. w.sid \in Sids /\ w.iova \in Iovas
    BY <1>3 DEF WalkOK
  <2>2. Kept(H[w.sid][w.iova], G[w.sid][w.iova])
    BY <2>1
  <2>3. w.pc \in Mid => m = a /\ Found(w, G[w.sid][w.iova])
    BY <2>2, FoundKept DEF WalkOK
  <2>4. a \in BqlAgents => c = a
    BY <1>1, <1>3 DEF WalkOK
  <2>5. a \in BqlAgents /\ w.pc \in After /\ w.at \in Ptes => w.at \in G[w.sid][w.iova].pte
    BY <2>2 DEF WalkOK, Kept
  <2> QED
    BY <2>1, <2>3, <2>4, <2>5 DEF WalkOK
<1> QED
  BY <1>2, <1>3

\* A write to registers or tables keeps the invariant: the histories grow with it.
LEMMA EditOK ==
  ASSUME IInv, Edit, regs' \in Registers, dir' \in DirType, tab' \in TabType,
         error' \in BOOLEAN, line' \in BOOLEAN,
         \/ bql' = bql /\ op' = op
         \/ bql = None /\ bql' = Cpu /\ op' = [kind |-> "reset", mask |-> Sids]
  PROVE  IInv'
<1>1. since \in AllHistories /\ since' = Since(since, {}, regs', dir', tab')
  BY DEF IInv, TypeOK, AllHistories, Edit
<1>2. /\ since' \in AllHistories
      /\ \A s \in Sids, p \in Iovas : Closed(since'[s][p], s, p, regs', dir', tab')
      /\ \A s \in Sids, p \in Iovas : Kept(since[s][p], since'[s][p])
  BY <1>1, SinceFacts
<1>3. TypeOK'
  BY <1>2 DEF IInv, TypeOK, Edit, AllHistories
<1>4. AllClosed'
  BY <1>2 DEF AllClosed
<1>5. WalksOK'
  <2> SUFFICES ASSUME NEW a \in Agents
               PROVE  WalkOK(a, ag[a], since', mutex, bql')
    BY DEF WalksOK, Edit
  <2>1. ag[a] \in Walks /\ WalkOK(a, ag[a], since, mutex, bql)
    BY DEF IInv, TypeOK, WalksOK
  <2>2. bql = bql' \/ bql = None
    OBVIOUS
  <2> QED
    BY <1>2, <2>1, <2>2, WalkKept
<1>6. OpOK'
  BY DEF IInv, OpOK
<1>7. TlbNotStale'
  BY <1>2 DEF IInv, TlbNotStale, Kept, Edit
<1> QED
  BY <1>3, <1>4, <1>5, <1>6, <1>7 DEF IInv

-----------------------------------------------------------------------------
(* Invalidation.                                                           *)

\* With the mutex free nobody walks, and with the big lock at the CPU no device that needs it
\* is at work: the histories may forget.
LEMMA DropOK ==
  ASSUME IInv, mutex = None, op.kind # "none", Drop(op.mask)
  PROVE  IInv'
<1> DEFINE M == op.mask
<1>1. M \in SUBSET Sids /\ since \in AllHistories
  BY DEF IInv, TypeOK, AllHistories
<1>2. since' = Since(since, M, regs, dir, tab)
  BY DEF Drop
<1>3. /\ since' \in AllHistories
      /\ \A s \in Sids, p \in Iovas : Closed(since'[s][p], s, p, regs, dir, tab)
      /\ \A s \in Sids \ M, p \in Iovas : Kept(since[s][p], since'[s][p])
  BY <1>1, <1>2, SinceFacts DEF IInv, TypeOK
<1> HIDE DEF M
<1>4. /\ tlb' = [s \in Sids |-> IF s \in M THEN [p \in Iovas |-> None] ELSE tlb[s]]
      /\ op' = [kind |-> "none", mask |-> {}] /\ bql' = None
      /\ UNCHANGED <<regs, dir, tab, error, line, mutex, ag, edits>>
  BY DEF Drop, M
<1>5. TypeOK'
  <2>1. tlb' \in [Sids -> [Iovas -> Ptes \cup {None}]]
    BY <1>4 DEF IInv, TypeOK
  <2> QED
    BY <1>3, <1>4, <2>1 DEF IInv, TypeOK, AllHistories
<1>6. AllClosed'
  BY <1>3, <1>4 DEF AllClosed
<1>7. WalksOK'
  <2> SUFFICES ASSUME NEW a \in Agents
               PROVE  WalkOK(a, ag[a], since', mutex, bql')
    BY <1>4 DEF WalksOK
  <2>1. WalkOK(a, ag[a], since, mutex, bql) /\ a # None /\ a # Cpu /\ bql = Cpu
    BY DARTAssumption DEF IInv, WalksOK, OpOK
  <2> QED
    BY <2>1 DEF WalkOK, Mid, After
<1>8. OpOK'
  BY <1>4 DEF OpOK
<1>9. TlbNotStale'
  <2> SUFFICES ASSUME NEW s \in Sids, NEW p \in Iovas, tlb'[s][p] # None
               PROVE  tlb'[s][p] \in since'[s][p].pte
    BY DEF TlbNotStale
  <2>1. s \notin M /\ tlb'[s][p] = tlb[s][p]
    BY <1>4
  <2> QED
    BY <1>3, <2>1 DEF IInv, TlbNotStale, Kept
<1> QED
  BY <1>5, <1>6, <1>7, <1>8, <1>9 DEF IInv

-----------------------------------------------------------------------------
(* Translation.                                                            *)

\* A step of one agent keeps the invariant if its own walk stays in order and it takes only
\* free locks and gives back only its own.
LEMMA AgentOK ==
  ASSUME IInv, NEW a \in Agents, NEW w \in Walks,
         ag' = [ag EXCEPT ![a] = w],
         UNCHANGED <<regs, dir, tab, op, since>>,
         tlb' \in [Sids -> [Iovas -> Ptes \cup {None}]], TlbNotStale',
         error' \in BOOLEAN, line' \in BOOLEAN,
         mutex' \in Agents \cup {None}, bql' \in Agents \cup {None, Cpu},
         mutex' = mutex \/ mutex \in {None, a}, bql' = bql \/ bql \in {None, a},
         WalkOK(a, w, since, mutex', bql')
  PROVE  IInv'
<1>1. TypeOK'
  BY DEF IInv, TypeOK
<1>2. AllClosed'
  BY DEF IInv, AllClosed
<1>3. WalksOK'
  <2> SUFFICES ASSUME NEW b \in Agents
               PROVE  WalkOK(b, ag'[b], since, mutex', bql')
    BY DEF WalksOK
  <2>1. CASE b = a
    BY <2>1 DEF IInv, TypeOK
  <2>2. CASE b # a
    <3>1. ag'[b] = ag[b] /\ WalkOK(b, ag[b], since, mutex, bql) /\ b # None
      BY <2>2, DARTAssumption DEF IInv, TypeOK, WalksOK
    <3> QED
      BY <2>2, <3>1 DEF WalkOK
  <2> QED
    BY <2>1, <2>2
<1>4. OpOK'
  BY DARTAssumption DEF IInv, OpOK
<1> QED
  BY <1>1, <1>2, <1>3, <1>4 DEF IInv

\* The cached translations stay found when neither they nor the histories change.
LEMMA TlbKept ==
  ASSUME TlbNotStale, UNCHANGED <<tlb, since>>
  PROVE  TlbNotStale'
BY DEF TlbNotStale

\* Taking the mutex.
LEMMA LockOK ==
  ASSUME IInv, NEW a \in Agents, NEW s \in Sids, NEW p \in Iovas, NEW need \in Needs,
         Lock(a, s, p, need)
  PROVE  IInv'
<1> DEFINE w == [pc |-> "lookup", sid |-> s, iova |-> p, need |-> need,
                 at |-> regs.remap[s], level |-> FALSE]
<1>1. regs.remap[s] \in Sids /\ regs.remap[s] \in since[s][p].sid
  BY DEF IInv, TypeOK, Registers, AllClosed, Closed
<1>2. w \in Walks
  BY <1>1 DEF Walks, Mid, Things
<1>3. WalkOK(a, w, since, mutex', bql')
  BY <1>1 DEF WalkOK, Found, Mid, After, Lock
<1>4. ag' = [ag EXCEPT ![a] = w]
  BY DEF Lock
<1>5. TlbNotStale'
  BY TlbKept DEF IInv, Lock
<1> HIDE DEF w
<1> QED
  BY <1>2, <1>3, <1>4, <1>5, AgentOK DEF IInv, TypeOK, Lock

\* The walk of an agent after Goto.
Moved(a, pc, at) == [ag[a] EXCEPT !.pc = pc, !.at = at]

\* Goto changes where an agent is and what it holds.
LEMMA GotoFacts ==
  ASSUME NEW a \in Agents, ag \in [Agents -> Walks], NEW pc \in Mid \cup After, NEW at \in Things,
         Goto(a, pc, at)
  PROVE  /\ Moved(a, pc, at) \in Walks /\ ag' = [ag EXCEPT ![a] = Moved(a, pc, at)]
         /\ Moved(a, pc, at).pc = pc /\ Moved(a, pc, at).at = at
         /\ Moved(a, pc, at).sid = ag[a].sid /\ Moved(a, pc, at).iova = ag[a].iova
BY DEF Goto, Moved, Walks

\* A step by Goto that changes neither the tables nor what they were keeps the invariant.
LEMMA MoveOK ==
  ASSUME IInv, NEW a \in Agents, NEW pc \in Mid \cup After, NEW at \in Things, Goto(a, pc, at),
         ag[a].pc # "idle",
         UNCHANGED <<regs, dir, tab, op, since, bql>>,
         tlb' \in [Sids -> [Iovas -> Ptes \cup {None}]], TlbNotStale',
         error' \in BOOLEAN, line' \in BOOLEAN,
         mutex' = mutex \/ (ag[a].pc \in Mid /\ mutex' = None),
         pc \in Mid => mutex' = a /\ Found([ag[a] EXCEPT !.pc = pc, !.at = at], since[ag[a].sid][ag[a].iova]),
         a \in BqlAgents /\ pc \in After /\ at \in Ptes => at \in since[ag[a].sid][ag[a].iova].pte
  PROVE  IInv'
<1> DEFINE w == Moved(a, pc, at)
<1>1. /\ w \in Walks /\ ag' = [ag EXCEPT ![a] = w]
      /\ w.pc = pc /\ w.at = at /\ w.sid = ag[a].sid /\ w.iova = ag[a].iova
  BY GotoFacts DEF IInv, TypeOK
<1>2. WalkOK(a, ag[a], since, mutex, bql)
  BY DEF IInv, WalksOK
<1>3. WalkOK(a, w, since, mutex', bql')
  <2>1. pc \in Mid => Found(w, since[w.sid][w.iova])
    BY <1>1 DEF Moved
  <2> HIDE DEF w
  <2> QED
    BY <1>1, <1>2, <2>1 DEF WalkOK
<1>4. mutex' = mutex \/ mutex \in {None, a}
  BY <1>2 DEF WalkOK
<1> HIDE DEF w
<1> QED
  BY <1>1, <1>3, <1>4, AgentOK DEF IInv, TypeOK

\* What an agent that walks knows of its stream, its page and what it holds.
LEMMA WalkFacts ==
  ASSUME IInv, NEW a \in Agents, ag[a].pc \in Mid
  PROVE  /\ ag[a].sid \in Sids /\ ag[a].iova \in Iovas /\ mutex = a
         /\ Found(ag[a], since[ag[a].sid][ag[a].iova])
         /\ Closed(since[ag[a].sid][ag[a].iova], ag[a].sid, ag[a].iova, regs, dir, tab)
         /\ since[ag[a].sid][ag[a].iova] \in Histories
         /\ ag[a].pc # "idle"
         /\ ag[a].iova[1] \in L0 /\ ag[a].iova[2] \in L1 /\ ag[a].iova[3] \in L2
<1>1. WalkOK(a, ag[a], since, mutex, bql)
  BY DEF IInv, WalksOK
<1>2. ag[a].sid \in Sids /\ ag[a].iova \in Iovas /\ mutex = a /\ ag[a].pc # "idle"
      /\ Found(ag[a], since[ag[a].sid][ag[a].iova])
  BY <1>1 DEF WalkOK, Mid
<1>3. ag[a].iova \in L0 \X L1 \X L2
  BY <1>2, DARTAssumption
<1> QED
  BY <1>2, <1>3 DEF IInv, AllClosed, TypeOK

\* The checks before the walk, and the cache.
LEMMA LookupOK ==
  ASSUME IInv, NEW a \in Agents, Lookup(a)
  PROVE  IInv'
<1> DEFINE w == ag[a]
           h == since[w.sid][w.iova]
           cached == tlb[w.sid][w.iova]
<1>1. /\ w.pc = "lookup" /\ w.pc \in Mid
      /\ UNCHANGED <<regs, dir, tab, tlb, error, line, bql, op, since>>
  BY DEF Lookup, Mid
<1>2. w.sid \in Sids /\ w.iova \in Iovas /\ mutex = a /\ Found(w, h) /\ w.pc # "idle"
  BY <1>1, WalkFacts
<1>3. TlbNotStale' /\ error' \in BOOLEAN /\ line' \in BOOLEAN
      /\ tlb' \in [Sids -> [Iovas -> Ptes \cup {None}]] /\ mutex' \in {mutex, None}
  BY <1>1, TlbKept DEF IInv, TypeOK, Lookup
<1>4. CASE Goto(a, "level", None) /\ mutex' = None
  <2>1. None \in Things /\ None \notin Ptes /\ "level" \notin Mid /\ "level" \in After
    BY DARTAssumption DEF Things, Mid, After
  <2> QED
    BY <1>1, <1>2, <1>3, <1>4, <2>1, MoveOK
<1>5. CASE Goto(a, "level", "identity") /\ mutex' = None
  <2>1. "identity" \in Things /\ "identity" \notin Ptes /\ "level" \notin Mid /\ "level" \in After
    BY DARTAssumption DEF Things, Mid, After
  <2> QED
    BY <1>1, <1>2, <1>3, <1>5, <2>1, MoveOK
<1>6. CASE cached # None /\ Goto(a, "finish", cached) /\ UNCHANGED mutex
  <2>1. cached \in Ptes /\ cached \in h.pte
    <3>1. tlb \in [Sids -> [Iovas -> Ptes \cup {None}]] /\ TlbNotStale
      BY DEF IInv, TypeOK
    <3>2. cached \in Ptes \cup {None}
      BY <1>2, <3>1
    <3>3. cached \in h.pte
      BY <1>2, <1>6, <3>1 DEF TlbNotStale
    <3> QED
      BY <1>6, <3>2, <3>3
  <2> HIDE DEF cached
  <2>2. Found([w EXCEPT !.pc = "finish", !.at = cached], h)
    <3>1. w \in Walks
      BY DEF IInv, TypeOK
    <3> HIDE DEF w, h
    <3> QED
      BY <2>1, <3>1 DEF Found, Walks
  <2> QED
    BY <1>1, <1>2, <1>3, <1>6, <2>1, <2>2, MoveOK DEF Things, Mid, After
<1>7. CASE cached = None /\ Goto(a, "ttbr", w.at) /\ UNCHANGED mutex
  <2>1. w.at \in h.sid /\ w.at \in Things
    BY <1>1, <1>2 DEF Found, IInv, TypeOK, Walks
  <2>2. Found([w EXCEPT !.pc = "ttbr", !.at = w.at], h)
    BY <2>1 DEF Found, IInv, TypeOK, Walks
  <2> QED
    BY <1>1, <1>2, <1>3, <1>7, <2>1, <2>2, MoveOK DEF Mid, After
<1> QED
  BY <1>4, <1>5, <1>6, <1>7 DEF Lookup

\* A step of apple_dart_ptw that finds an entry of the history, or none.
LEMMA WalkedOK ==
  ASSUME IInv, NEW a \in Agents, NEW found \in Things, NEW pc \in {"dir", "tab", "finish"},
         ag[a].pc \in Mid, Walked(a, found, pc),
         LET h == since[ag[a].sid][ag[a].iova] IN
           found # None => /\ pc = "dir" => found \in h.dir
                           /\ pc = "tab" => found \in h.tab
                           /\ pc = "finish" => found \in h.pte
  PROVE  IInv'
<1> DEFINE w == ag[a]
           h == since[w.sid][w.iova]
           to == IF found = None THEN "finish" ELSE pc
<1>1. Goto(a, to, found) /\ UNCHANGED <<regs, dir, tab, tlb, error, line, mutex, bql, op, since>>
  BY DEF Walked
<1>2. mutex = a /\ w.pc # "idle"
  BY WalkFacts
<1>3. TlbNotStale' /\ error' \in BOOLEAN /\ line' \in BOOLEAN
      /\ tlb' \in [Sids -> [Iovas -> Ptes \cup {None}]]
  BY <1>1, TlbKept DEF IInv, TypeOK
<1>4. Found([w EXCEPT !.pc = to, !.at = found], h)
  <2>1. w \in Walks
    BY DEF IInv, TypeOK
  <2>2. found # None => /\ pc = "dir" => found \in h.dir
                        /\ pc = "tab" => found \in h.tab
                        /\ pc = "finish" => found \in h.pte
    OBVIOUS
  <2> HIDE DEF w, h
  <2> QED
    BY <2>1, <2>2 DEF Found, Walks
<1>5. to \in Mid \cup After /\ to \notin After
  BY DEF Mid, After
<1>6. UNCHANGED <<regs, dir, tab, op, since, bql>> /\ mutex' = mutex /\ mutex' = a
  BY <1>1, <1>2
<1> HIDE DEF to
<1> QED
  BY <1>1, <1>2, <1>3, <1>4, <1>5, <1>6, MoveOK

\* The three reads of a walk.
LEMMA ReadsOK ==
  ASSUME IInv, NEW a \in Agents, ReadTtbr(a) \/ ReadDir(a) \/ ReadTab(a)
  PROVE  IInv'
<1> DEFINE w == ag[a]
           h == since[w.sid][w.iova]
<1>1. CASE ReadTtbr(a)
  <2>1. w.pc = "ttbr" /\ w.pc \in Mid
    BY <1>1 DEF ReadTtbr, Mid
  <2>2. /\ w.at \in h.sid /\ h \in Histories /\ w.iova[1] \in L0
        /\ Closed(h, w.sid, w.iova, regs, dir, tab)
    BY <2>1, WalkFacts DEF Found
  <2>3. regs.ttbr[w.at][w.iova[1]] \in h.dir /\ regs.ttbr[w.at][w.iova[1]] \in Things
    BY <2>2 DEF Closed, Histories, Things
  <2> QED
    BY <1>1, <2>1, <2>3, WalkedOK DEF ReadTtbr
<1>2. CASE ReadDir(a)
  <2>1. w.pc = "dir" /\ w.pc \in Mid
    BY <1>2 DEF ReadDir, Mid
  <2>2. /\ w.at \in h.dir \ {None} /\ h \in Histories /\ w.iova[2] \in L1
        /\ Closed(h, w.sid, w.iova, regs, dir, tab)
    BY <2>1, WalkFacts DEF Found
  <2>3. dir[w.at][w.iova[2]] \in h.tab /\ dir[w.at][w.iova[2]] \in Things
    BY <2>2 DEF Closed, Histories, Things
  <2> QED
    BY <1>2, <2>1, <2>3, WalkedOK DEF ReadDir
<1>3. CASE ReadTab(a)
  <2>1. w.pc = "tab" /\ w.pc \in Mid
    BY <1>3 DEF ReadTab, Mid
  <2>2. /\ w.at \in h.tab \ {None} /\ h \in Histories /\ w.iova[3] \in L2
        /\ Closed(h, w.sid, w.iova, regs, dir, tab)
    BY <2>1, WalkFacts DEF Found
  <2>3. tab[w.at][w.iova[3]] \in h.pte /\ tab[w.at][w.iova[3]] \in Things
    BY <2>2 DEF Closed, Histories, Things
  <2> QED
    BY <1>3, <2>1, <2>3, WalkedOK DEF ReadTab
<1> QED
  BY <1>1, <1>2, <1>3

\* The entry that was found goes into the cache.
LEMMA FinishOK ==
  ASSUME IInv, NEW a \in Agents, Finish(a)
  PROVE  IInv'
<1> DEFINE w == ag[a]
           h == since[w.sid][w.iova]
<1>1. /\ w.pc = "finish" /\ w.pc \in Mid /\ Goto(a, "level", w.at) /\ mutex' = None
      /\ tlb' = [tlb EXCEPT ![w.sid][w.iova] = w.at]
      /\ error' = (error \/ w.at = None \/ ~(w.need \subseteq Perm[w.at]))
      /\ UNCHANGED <<regs, dir, tab, line, bql, op, since>>
  BY DEF Finish, Mid
<1>2. /\ w.sid \in Sids /\ w.iova \in Iovas /\ mutex = a /\ w.pc # "idle"
      /\ w.at \in h.pte \cup {None} /\ h \in Histories
  BY <1>1, WalkFacts DEF Found
<1>3. w.at \in Ptes \cup {None} /\ w.at \in Things
  BY <1>2 DEF Histories, Things
<1>4. tlb' \in [Sids -> [Iovas -> Ptes \cup {None}]]
  BY <1>1, <1>2, <1>3 DEF IInv, TypeOK
<1>5. TlbNotStale'
  <2> SUFFICES ASSUME NEW s \in Sids, NEW p \in Iovas, tlb'[s][p] # None
               PROVE  tlb'[s][p] \in since[s][p].pte
    BY <1>1 DEF TlbNotStale
  <2>1. CASE s = w.sid /\ p = w.iova
    BY <1>1, <1>2, <2>1 DEF IInv, TypeOK
  <2>2. CASE ~(s = w.sid /\ p = w.iova)
    <3>1. tlb'[s][p] = tlb[s][p]
      BY <1>1, <1>2, <2>2 DEF IInv, TypeOK
    <3> QED
      BY <3>1 DEF IInv, TlbNotStale
  <2> QED
    BY <2>1, <2>2
<1>6. error' \in BOOLEAN /\ line' \in BOOLEAN
  BY <1>1 DEF IInv, TypeOK
<1>7. w.at \in Ptes => w.at \in h.pte
  BY <1>2, DARTAssumption
<1> QED
  BY <1>1, <1>2, <1>3, <1>4, <1>5, <1>6, <1>7, MoveOK DEF Mid, After

\* The interrupt line, and the end of an access.
LEMMA AfterOK ==
  ASSUME IInv, NEW a \in Agents, ReadLevel(a) \/ SetLine(a) \/ Use(a)
  PROVE  IInv'
<1> DEFINE w == ag[a]
<1>1. w \in Walks /\ WalkOK(a, w, since, mutex, bql) /\ ag \in [Agents -> Walks]
  BY DEF IInv, TypeOK, WalksOK
<1>2. CASE ReadLevel(a)
  <2> DEFINE v == [w EXCEPT !.pc = "line", !.level = error]
  <2>1. v \in Walks /\ ag' = [ag EXCEPT ![a] = v]
    BY <1>1, <1>2 DEF ReadLevel, Walks, After, IInv, TypeOK
  <2>2. WalkOK(a, v, since, mutex, bql)
    BY <1>1, <1>2 DEF ReadLevel, WalkOK, Walks, Mid, After
  <2>3. TlbNotStale'
    BY <1>2, TlbKept DEF IInv, ReadLevel
  <2> HIDE DEF v
  <2> QED
    BY <1>2, <2>1, <2>2, <2>3, AgentOK DEF ReadLevel, IInv, TypeOK
<1>3. CASE SetLine(a)
  <2>1. /\ w.pc = "line" /\ Goto(a, "use", w.at) /\ line' = w.level
        /\ UNCHANGED <<regs, dir, tab, tlb, error, mutex, bql, op, since>>
    BY <1>3 DEF SetLine
  <2>2. w.at \in Things /\ line' \in BOOLEAN /\ error' \in BOOLEAN
        /\ tlb' \in [Sids -> [Iovas -> Ptes \cup {None}]]
    BY <1>1, <2>1 DEF Walks, IInv, TypeOK
  <2>3. TlbNotStale'
    BY <2>1, TlbKept DEF IInv
  <2>4. a \in BqlAgents /\ w.at \in Ptes => w.at \in since[w.sid][w.iova].pte
    BY <1>1, <2>1 DEF WalkOK, After
  <2> QED
    BY <2>1, <2>2, <2>3, <2>4, MoveOK DEF Mid, After
<1>4. CASE Use(a)
  <2>1. NoWalk \in Walks /\ ag' = [ag EXCEPT ![a] = NoWalk]
    BY <1>4 DEF Use, NoWalk, Walks, Things
  <2>2. WalkOK(a, NoWalk, since, mutex', bql')
    BY DEF WalkOK, NoWalk, Mid, After
  <2>3. TlbNotStale'
    BY <1>4, TlbKept DEF IInv, Use
  <2>4. bql' = bql \/ bql = a
    BY <1>1, <1>4 DEF Use, WalkOK
  <2>5. bql' \in Agents \cup {None, Cpu}
    BY <1>4 DEF Use, IInv, TypeOK
  <2> HIDE DEF w
  <2> QED
    BY <1>4, <2>1, <2>2, <2>3, <2>4, <2>5, AgentOK DEF Use, IInv, TypeOK
<1> QED
  BY <1>2, <1>3, <1>4

-----------------------------------------------------------------------------
(* The guest's CPUs.                                                       *)

\* A register write keeps the invariant if the registers keep their type.
LEMMA RegsOK ==
  ASSUME IInv, NEW R \in Registers, WriteRegs(R)
  PROVE  IInv'
BY EditOK DEF WriteRegs, IInv, TypeOK

\* The writes to REMAP, TCR, TTBR and SID_MASK.
LEMMA RegWritesOK ==
  ASSUME IInv,
         \/ \E s, q \in Sids : WriteRemap(s, q)
         \/ \E s \in Sids, v \in {"off", "on", "bypass"} : WriteTcr(s, v)
         \/ \E s \in Sids, i \in L0, t \in Dirs \cup {None} : WriteTtbr(s, i, t)
         \/ \E M \in SUBSET Sids : WriteSidMask(M)
  PROVE  IInv'
<1>0. regs \in Registers
  BY DEF IInv, TypeOK
<1>1. ASSUME NEW s \in Sids, NEW q \in Sids, WriteRemap(s, q)
      PROVE  IInv'
  <2>1. [regs EXCEPT !.remap[s] = q] \in Registers
    BY <1>0 DEF Registers
  <2> QED
    BY <1>1, <2>1, RegsOK DEF WriteRemap
<1>2. ASSUME NEW s \in Sids, NEW v \in {"off", "on", "bypass"}, WriteTcr(s, v)
      PROVE  IInv'
  <2>1. [regs EXCEPT !.tcr[s] = v] \in Registers
    BY <1>0 DEF Registers
  <2> QED
    BY <1>2, <2>1, RegsOK DEF WriteTcr
<1>3. ASSUME NEW s \in Sids, NEW i \in L0, NEW t \in Dirs \cup {None}, WriteTtbr(s, i, t)
      PROVE  IInv'
  <2>1. [regs EXCEPT !.ttbr[s][i] = t] \in Registers
    BY <1>0 DEF Registers
  <2> QED
    BY <1>3, <2>1, RegsOK DEF WriteTtbr
<1>4. ASSUME NEW M \in SUBSET Sids, WriteSidMask(M)
      PROVE  IInv'
  <2>1. [regs EXCEPT !.sid_mask = M] \in Registers
    BY <1>0 DEF Registers
  <2> QED
    BY <1>4, <2>1, RegsOK DEF WriteSidMask
<1> QED
  BY <1>1, <1>2, <1>3, <1>4

\* The writes to page tables.
LEMMA TableWritesOK ==
  ASSUME IInv,
         \/ \E t \in Dirs, i \in L1, e \in Tabs \cup {None} : WriteDir(t, i, e)
         \/ \E t \in Tabs, i \in L2, e \in Ptes \cup {None} : WriteTab(t, i, e)
  PROVE  IInv'
<1>0. /\ regs \in Registers /\ dir \in DirType /\ tab \in TabType
      /\ error \in BOOLEAN /\ line \in BOOLEAN
  BY DEF IInv, TypeOK
<1>1. ASSUME NEW t \in Dirs, NEW i \in L1, NEW e \in Tabs \cup {None}, WriteDir(t, i, e)
      PROVE  IInv'
  <2>1. [dir EXCEPT ![t][i] = e] \in DirType
    BY <1>0 DEF DirType
  <2> QED
    BY <1>0, <1>1, <2>1, EditOK DEF WriteDir
<1>2. ASSUME NEW t \in Tabs, NEW i \in L2, NEW e \in Ptes \cup {None}, WriteTab(t, i, e)
      PROVE  IInv'
  <2>1. [tab EXCEPT ![t][i] = e] \in TabType
    BY <1>0 DEF TabType
  <2> QED
    BY <1>0, <1>2, <2>1, EditOK DEF WriteTab
<1> QED
  BY <1>1, <1>2

\* apple_dart_reset, up to the mutex.
LEMMA ResetOK ==
  ASSUME IInv, Reset
  PROVE  IInv'
<1>1. regs' \in Registers
  BY DEF Reset, Registers
<1>2. dir' \in DirType /\ tab' \in TabType /\ error' \in BOOLEAN /\ line' \in BOOLEAN
  BY DEF Reset, IInv, TypeOK
<1> QED
  BY <1>1, <1>2, EditOK DEF Reset

\* TLB_OP up to the mutex, and ERROR_STATUS: neither touches the tables.
LEMMA QuietOK ==
  ASSUME IInv, Invalidate \/ WriteErrorStatus
  PROVE  IInv'
<1>1. /\ UNCHANGED <<regs, dir, tab, tlb, error, mutex, ag, since>>
      /\ line' \in BOOLEAN /\ bql = None /\ bql' \in {None, Cpu}
      /\ op' = op \/ (bql' = Cpu /\ op' = [kind |-> "invalidate", mask |-> regs.sid_mask])
  BY DEF Invalidate, WriteErrorStatus, IInv, TypeOK
<1>2. TypeOK'
  BY <1>1 DEF IInv, TypeOK, Registers
<1>3. AllClosed' /\ TlbNotStale'
  BY <1>1, TlbKept DEF IInv, AllClosed
<1>4. WalksOK'
  <2> SUFFICES ASSUME NEW a \in Agents
               PROVE  WalkOK(a, ag[a], since, mutex, bql')
    BY <1>1 DEF WalksOK
  <2>1. WalkOK(a, ag[a], since, mutex, bql) /\ a # None
    BY DARTAssumption DEF IInv, WalksOK
  <2> QED
    BY <1>1, <2>1 DEF WalkOK
<1>5. OpOK'
  BY <1>1, DARTAssumption DEF IInv, OpOK
<1> QED
  BY <1>2, <1>3, <1>4, <1>5 DEF IInv

-----------------------------------------------------------------------------
(* The theorems.                                                           *)

\* Every start of the machine satisfies the invariant.
LEMMA InitOK == Init => IInv
<1> SUFFICES ASSUME Init PROVE IInv
  OBVIOUS
<1>1. regs \in Registers /\ dir \in DirType /\ tab \in TabType
  BY SetupAssumption DEF Init, DirType, TabType
<1> DEFINE H == [s \in Sids |-> [p \in Iovas |-> Nothing]]
<1>2. H \in AllHistories
  BY DEF AllHistories, Histories, Nothing
<1>3. since = Since(H, Sids, regs, dir, tab)
  BY DEF Init
<1> HIDE DEF H
<1>4. since \in AllHistories /\ AllClosed
  BY <1>1, <1>2, <1>3, SinceFacts DEF AllClosed
<1>5. NoWalk \in Walks /\ ag = [a \in Agents |-> NoWalk]
  BY DEF Init, NoWalk, Walks, Things
<1>6. WalksOK
  <2> SUFFICES ASSUME NEW a \in Agents
               PROVE  WalkOK(a, NoWalk, since, mutex, bql)
    BY <1>5 DEF WalksOK
  <2> QED
    BY DEF WalkOK, NoWalk, Mid, After
<1>7. TlbNotStale /\ tlb \in [Sids -> [Iovas -> Ptes \cup {None}]]
  BY DEF Init, EmptyTlb, TlbNotStale
<1>8. OpOK /\ op \in [kind : {"none", "invalidate", "reset"}, mask : SUBSET Sids]
  BY DEF Init, OpOK
<1> QED
  BY <1>1, <1>4, <1>5, <1>6, <1>7, <1>8 DEF Init, IInv, TypeOK, AllHistories

\* Every step keeps it.
LEMMA NextOK == IInv /\ [Next]_vars => IInv'
<1> SUFFICES ASSUME IInv, [Next]_vars PROVE IInv'
  OBVIOUS
<1>1. ASSUME NEW a \in Agents, NEW s \in Sids, NEW p \in Iovas, NEW need \in Needs,
             Lock(a, s, p, need)
      PROVE  IInv'
  BY <1>1, LockOK
<1>2. ASSUME NEW a \in Agents, AgentStep(a)
      PROVE  IInv'
  BY <1>2, LookupOK, ReadsOK, FinishOK, AfterOK DEF AgentStep
<1>3. CASE Invalidated \/ ResetDone
  BY <1>3, DropOK DEF Invalidated, ResetDone
<1>4. CASE CpuStep /\ ~(Invalidated \/ ResetDone)
  BY <1>4, RegWritesOK, TableWritesOK, ResetOK, QuietOK DEF CpuStep
<1>5. CASE UNCHANGED vars
  BY <1>5 DEF vars, IInv, TypeOK, AllClosed, WalksOK, OpOK, TlbNotStale
<1> QED
  BY <1>1, <1>2, <1>3, <1>4, <1>5 DEF Next

\* The invariant holds in every behaviour.
THEOREM DARTInvariance == Spec => []IInv
BY InitOK, NextOK, PTL DEF Spec

\* The registers, tables, cache, locks and walks of dart.c keep their types.
THEOREM DARTTypeCorrect == Spec => []TypeOK
<1>1. IInv => TypeOK
  BY DEF IInv
<1> QED
  BY <1>1, DARTInvariance, PTL

\* A walk that raced with TLB_OP or reset never puts an entry into the cache that the
\* invalidation took away, whatever the guest writes to registers and tables meanwhile.
THEOREM DARTTlbNotStale == Spec => []TlbNotStale
<1>1. IInv => TlbNotStale
  BY DEF IInv
<1> QED
  BY <1>1, DARTInvariance, PTL

\* A device that translates and accesses memory under the big lock uses no translation that
\* an invalidation took away.
THEOREM DARTBqlDmaNotStale == Spec => []BqlDmaNotStale
<1>1. IInv => BqlDmaNotStale
  BY DARTAssumption DEF IInv, WalksOK, WalkOK, After, BqlDmaNotStale
<1> QED
  BY <1>1, DARTInvariance, PTL
=============================================================================
