--------------------------- MODULE BafsMemProofs ---------------------------
(***************************************************************************)
(* Proofs about BafsMem, for every set of threads, files, controllers,     *)
(* registrations, mappings and addresses, for every set of calls that may  *)
(* overlap and for every process, whether it follows the protocol or not.  *)
(*                                                                         *)
(* The inductive invariant Inv ties the DMA mapping objects to the lists   *)
(* and threads that hold them: an object a thread is still filling in is   *)
(* live, in no list and no other thread's; an object in a dma_list is live *)
(* and belongs to that registration.  Every count of a controller follows. *)
(*                                                                         *)
(* The second half states what each step does to the state (StepEff), and  *)
(* from that two invariants: CtxInv, about the holders of the context, the *)
(* lists and the walk, and BaseInv, about locks and releases.              *)
(***************************************************************************)
EXTENDS BafsMem, FiniteSetTheorems, TLAPS

USE ConstantsAssumption

----------------------------------------------------------------------------
(* The inductive invariant. *)

(* Steps at which a thread has a registration at hand. *)
NeedsMem == {"reg_insert", "reg_copy", "reg_erase", "pin_get", "pin_do", "pin_put",
             "rel_unlink", "rel_free", "unmap_do", "unmap_put", "walk_put",
             "map_alloc", "map_dma", "map_link", "map_put"}

(* Steps at which it still has controllers to map for. *)
NeedsLeft == {"map_lock", "walk", "walk_put", "map_alloc", "map_dma", "map_link"}

(* Steps at which it fills in a DMA mapping object. *)
DmaPc == {"map_dma", "map_link"}

(* Steps of __bafs_mem_release, and the steps it goes back to. *)
RelPc == {"rel_unlink", "rel_free", "rel_ctx"}
RelRet == {"pin_ret", "unmap_ctx", "map_undo"}

LocalsOK(s) ==
  /\ s.pc \in NeedsMem => s.m \in Mem
  /\ s.pc # "idle" => s.f \in File
  /\ s.pc \in NeedsLeft => s.left # <<>>
  /\ s.pc \in DmaPc => s.d \in Dma
  /\ s.pc \in RelPc => s.ret \in RelRet

Locals == \A t \in Thread : LocalsOK(th[t])

Elems(s) == {s[i] : i \in 1 .. Len(s)}

DmaMade ==
  /\ \A d \in Dma : dma[d].heap # "unused" => dma[d].mem \in Mem /\ dma[d].ctrl \in Ctrl
  /\ \A t \in Thread : \A d \in Elems(th[t].mine) : dma[d].heap # "unused"

InFlight ==
  \A t \in Thread : th[t].pc \in DmaPc =>
    /\ dma[th[t].d].heap = "live"
    /\ dma[th[t].d].mem = th[t].m
    /\ \A n \in Mem : th[t].d \notin mem[n].dmas
    /\ \A u \in Thread : /\ th[t].d \notin Elems(th[u].mine)
                         /\ u # t /\ th[u].pc \in DmaPc => th[u].d # th[t].d

DmaInv == DmaMade /\ DmaListsSound /\ InFlight /\ CtrlRefExact

(* A page table pointer is backed until the release is done with it, and   *)
(* only a release that has handed the object to kfree_rcu makes it DEAD.   *)
Gone == {"limbo", "freed"}

TableOK(r, k) ==
  /\ r.table => k > 0 \/ r.state = "DEAD"
  /\ r.state = "DEAD" => r.heap \in Gone

TableInv == \A m \in Mem : TableOK(mem[m], pages[m])

Inv == TypeOK /\ Locals /\ TableInv /\ DmaInv

(* The part of TypeOK about everything but the objects and the threads. *)
TypeRest ==
  /\ ctxRef \in Nat
  /\ ctxLock \in Thread \cup {NULL}
  /\ memList \subseteq Mem
  /\ memXa \in [Id -> Mem \cup {NULL}]
  /\ vma \in [Addr -> [m : Mem, f : File] \cup {NoVma}]
  /\ mmapLock \in Thread \cup {NULL}
  /\ file \in [File -> {"open", "closing", "closed"}]
  /\ cb \in [Mem -> {"idle", "armed", "spinning"}]
  /\ known \subseteq Handle
  /\ fault \in Fault

----------------------------------------------------------------------------
(* The initial states. *)

(* Counts over the finite sets of the model are natural numbers. *)
LEMMA CardType ==
  /\ \A S \in SUBSET File : Cardinality(S) \in Nat
  /\ \A S \in SUBSET Mem : Cardinality(S) \in Nat
  /\ \A S \in SUBSET Dma : Cardinality(S) \in Nat
BY FS_Subset, FS_CardinalityType

(* The invariant holds when the module's files have just been opened. *)
LEMMA InitInv == Init => Inv
<1> SUFFICES ASSUME Init PROVE Inv
  OBVIOUS
<1> USE DEF Init
<1>1. ctxRef \in Nat
  BY CardType
<1>2. TypeOK
  BY <1>1 DEF TypeOK, UnusedMem, UnusedDma, Idle, MemRec, DmaRec, ThreadRec, Heap, Pc,
              Fault, Id, NoVma
<1>3. Locals
  BY DEF Locals, LocalsOK, Idle, NeedsMem, NeedsLeft, DmaPc, RelPc
<1>4. DmaMade /\ InFlight
  BY DEF DmaMade, InFlight, DmaPc, UnusedDma, Idle, Elems
<1>5. TableInv /\ DmaListsSound
  BY DEF TableInv, TableOK, DmaListsSound, UnusedMem
<1>6. CtrlRefExact
  <2>1. \A c \in Ctrl : {d \in Dma : dma[d].heap = "live" /\ dma[d].ctrl = c} = {}
    BY DEF UnusedDma
  <2> QED BY <2>1, FS_EmptySet DEF CtrlRefExact
<1> QED BY <1>2, <1>3, <1>4, <1>5, <1>6 DEF Inv, DmaInv

----------------------------------------------------------------------------
(* What a thread that takes a step may rely on. *)

(* A step that runs finds its registration, and finds the counts it is     *)
(* about to drop above zero: otherwise the step is an Oops.                *)
LEMMA RunsFacts ==
  ASSUME Inv, NEW t \in Thread, NEW pc, Runs(t, pc)
  PROVE  /\ TypeOK /\ Locals /\ TableInv
         /\ th[t].pc = pc /\ th[t] \in ThreadRec /\ LocalsOK(th[t])
         /\ pc \in NeedsMem => th[t].m \in Mem /\ mem[th[t].m] \in MemRec
         /\ ctxRef \in Nat
         /\ pc \in DerefsCtx => ctxRef > 0
         /\ pc \in {"pin_put", "unmap_put", "map_put"} => mem[th[t].m].ref > 0
         /\ pc = "walk_put" => mem[th[t].m].ref > 1
         /\ pc = "unmap_do" => mem[th[t].m].ref > Cardinality(mem[th[t].m].dmas)
         /\ pc = "map_undo" /\ th[t].mine # <<>>
              => dma[Head(th[t].mine)].heap # "freed"
         /\ pc = "close_do" => ctxRef > Cardinality(Stale)
<1>1. TypeOK /\ Locals /\ TableInv /\ th[t].pc = pc
  BY DEF Inv, Runs, At
<1>2. th[t] \in ThreadRec /\ LocalsOK(th[t]) /\ ctxRef \in Nat
  BY <1>1 DEF TypeOK, Locals
<1>3. pc \in NeedsMem => th[t].m \in Mem
  BY <1>1, <1>2 DEF LocalsOK
<1>4. \A m \in Mem : mem[m] \in MemRec
  BY <1>1 DEF TypeOK
<1>5. Cardinality(Stale) \in Nat
  BY <1>1, CardType DEF Stale, TypeOK
<1>6. \A m \in Mem : mem[m].ref \in Nat /\ Cardinality(mem[m].dmas) \in Nat
  BY <1>4, CardType DEF MemRec
<1>7. /\ ~UseAfterFree(t) /\ ~DeadRef(t) /\ ~SelfDeadlock(t)
  BY DEF Runs
<1>8. /\ pc \in DerefsCtx => ctxRef > 0
      /\ pc = "close_do" => ctxRef > Cardinality(Stale)
      /\ pc = "map_undo" /\ th[t].mine # <<>> => dma[Head(th[t].mine)].heap # "freed"
  BY <1>1, <1>2, <1>5, <1>7 DEF UseAfterFree
<1>9. /\ pc \in {"pin_put", "unmap_put", "map_put"} => mem[th[t].m].ref > 0
      /\ pc = "walk_put" => mem[th[t].m].ref > 1
      /\ pc = "unmap_do" => mem[th[t].m].ref > Cardinality(mem[th[t].m].dmas)
  BY <1>1, <1>3, <1>6, <1>7 DEF DeadRef, SelfDeadlock, At, NeedsMem
<1> QED BY <1>1, <1>2, <1>3, <1>4, <1>8, <1>9

----------------------------------------------------------------------------
(* Steps that leave the DMA mapping objects alone. *)

(* The new record s of a thread holds no mapping object r did not hold. *)
Quiet(r, s) ==
  /\ Elems(s.mine) \subseteq Elems(r.mine)
  /\ s.pc \in DmaPc => r.pc \in DmaPc /\ s.d = r.d /\ s.m = r.m

ThreadsFrame ==
  /\ th' \in [Thread -> ThreadRec]
  /\ Locals'
  /\ \A t \in Thread : Quiet(th[t], th'[t])

ListsFrame ==
  /\ mem' \in [Mem -> MemRec]
  /\ \A m \in Mem : mem'[m].dmas \subseteq mem[m].dmas

(* r is q, with no page table that q has not. *)
SameTable(r, q) ==
  \/ ~r.table /\ r.state # "DEAD"
  \/ /\ r.table => q.table
     /\ r.state = q.state
     /\ r.heap = q.heap \/ r.heap \in Gone

MemFrame == ListsFrame /\ \A m \in Mem : SameTable(mem'[m], mem[m])

(* The mapping objects in S are freed, and each gives the reference on its *)
(* controller back.                                                        *)
FreesDma(S) ==
  /\ dma' \in [Dma -> DmaRec]
  /\ \A d \in Dma : /\ dma'[d].heap = IF d \in S THEN "freed" ELSE dma[d].heap
                    /\ dma'[d].mem = dma[d].mem
                    /\ dma'[d].ctrl = dma[d].ctrl
  /\ ctrlRef' = [c \in Ctrl |-> ctrlRef[c] - Cardinality({d \in S : dma[d].ctrl = c})]

SameDma ==
  /\ dma' \in [Dma -> DmaRec]
  /\ ctrlRef' = ctrlRef
  /\ \A d \in Dma : /\ dma'[d].heap = dma[d].heap
                    /\ dma'[d].mem = dma[d].mem
                    /\ dma'[d].ctrl = dma[d].ctrl

(* One thread's record is replaced. *)
LEMMA ThreadUpdate ==
  ASSUME TypeOK, Locals, NEW t \in Thread, NEW s \in ThreadRec, LocalsOK(s),
         th' = [th EXCEPT ![t] = s]
  PROVE  /\ th' \in [Thread -> ThreadRec]
         /\ Locals'
         /\ \A u \in Thread : th'[u] = IF u = t THEN s ELSE th[u]
         /\ Quiet(th[t], s) => ThreadsFrame
<1>1. th \in [Thread -> ThreadRec]
  BY DEF TypeOK
<1>2. /\ th' \in [Thread -> ThreadRec]
      /\ \A u \in Thread : th'[u] = IF u = t THEN s ELSE th[u]
  BY <1>1
<1>3. Locals'
  BY <1>2 DEF Locals
<1>4. ASSUME Quiet(th[t], s) PROVE \A u \in Thread : Quiet(th[u], th'[u])
  BY <1>2, <1>4 DEF Quiet
<1> QED BY <1>2, <1>3, <1>4 DEF ThreadsFrame

(* The thread goes on to a step that needs nothing new. *)
LEMMA GotoFrame ==
  ASSUME TypeOK, Locals, NEW t \in Thread, NEW pc \in Pc, Goto(t, pc), th[t].pc # "idle",
         pc \in NeedsMem => th[t].m \in Mem,
         pc \in NeedsLeft => th[t].left # <<>>,
         pc \in DmaPc => th[t].pc \in DmaPc,
         pc \in RelPc => th[t].pc \in RelPc
  PROVE  ThreadsFrame
<1> DEFINE s == [th[t] EXCEPT !.pc = pc]
<1>1. th[t] \in ThreadRec /\ LocalsOK(th[t])
  BY DEF TypeOK, Locals
<1>2. s \in ThreadRec
  BY <1>1 DEF ThreadRec
<1>3. /\ s.pc = pc /\ s.m = th[t].m /\ s.f = th[t].f /\ s.left = th[t].left
      /\ s.d = th[t].d /\ s.mine = th[t].mine /\ s.ret = th[t].ret
  BY <1>1 DEF ThreadRec
<1>4. LocalsOK(s) /\ Quiet(th[t], s)
  BY <1>1, <1>3 DEF LocalsOK, Quiet
<1>5. th' = [th EXCEPT ![t] = s]
  BY DEF Goto
<1> HIDE DEF s
<1> QED BY <1>2, <1>4, <1>5, ThreadUpdate

(* The thread returns to user space. *)
LEMMA ReturnFrame ==
  ASSUME TypeOK, Locals, NEW t \in Thread, Return(t)
  PROVE  ThreadsFrame
<1>1. Idle \in ThreadRec /\ LocalsOK(Idle)
  BY DEF Idle, ThreadRec, LocalsOK, Pc, NeedsMem, NeedsLeft, DmaPc, RelPc
<1>2. Quiet(th[t], Idle)
  BY DEF Quiet, Idle, DmaPc, Elems
<1> QED BY <1>1, <1>2, ThreadUpdate DEF Return

(* One registration's record is replaced. *)
LEMMA MemUpdate ==
  ASSUME TypeOK, NEW m \in Mem, NEW r \in MemRec, mem' = [mem EXCEPT ![m] = r]
  PROVE  /\ mem' \in [Mem -> MemRec]
         /\ \A n \in Mem : mem'[n] = IF n = m THEN r ELSE mem[n]
         /\ r.dmas \subseteq mem[m].dmas /\ SameTable(r, mem[m]) => MemFrame
<1>1. mem \in [Mem -> MemRec]
  BY DEF TypeOK
<1>2. mem' \in [Mem -> MemRec] /\ \A n \in Mem : mem'[n] = IF n = m THEN r ELSE mem[n]
  BY <1>1
<1> QED BY <1>2 DEF MemFrame, ListsFrame, SameTable

(* Its dma_list and page table stay. *)
LEMMA MemRecFrame ==
  ASSUME TypeOK, NEW m \in Mem, NEW r \in MemRec, mem' = [mem EXCEPT ![m] = r],
         r.dmas = mem[m].dmas, SameTable(r, mem[m])
  PROVE  MemFrame
BY MemUpdate

(* Only a reference count changes. *)
LEMMA RefFrame ==
  ASSUME TypeOK, NEW m \in Mem, NEW k \in Nat, mem' = [mem EXCEPT ![m].ref = k]
  PROVE  MemFrame
<1> DEFINE r == [mem[m] EXCEPT !.ref = k]
<1>1. mem[m] \in MemRec
  BY DEF TypeOK
<1>2. r \in MemRec /\ r.dmas = mem[m].dmas /\ SameTable(r, mem[m])
  BY <1>1 DEF MemRec, SameTable, Gone
<1>3. mem' = [mem EXCEPT ![m] = r]
  OBVIOUS
<1> HIDE DEF r
<1> QED BY <1>2, <1>3, MemRecFrame

(* kref_put on a registration, with or without the release that follows. *)
LEMMA PutFrame ==
  ASSUME TypeOK, Locals, NEW t \in Thread, NEW m \in Mem, NEW next,
         mem[m].ref > 0, MemPut(t, m, next), th[t].pc # "idle",
         next \in RelRet
  PROVE  MemFrame /\ ThreadsFrame
<1> USE DEF NeedsMem, NeedsLeft, DmaPc, RelPc, RelRet
<1>0. mem[m] \in MemRec /\ th[t] \in ThreadRec /\ LocalsOK(th[t])
  BY DEF TypeOK, Locals
<1>a. next \in Pc
  BY DEF Pc
<1>1. mem[m].ref - 1 \in Nat
  BY <1>0 DEF MemRec
<1>2. MemFrame
  <2>1. mem' = [mem EXCEPT ![m].ref = mem[m].ref - 1]
    BY DEF MemPut
  <2> QED BY <1>1, <2>1, RefFrame
<1>3. CASE mem[m].ref = 1
  <2> DEFINE s == [th[t] EXCEPT !.pc = "rel_unlink", !.m = m, !.ret = next]
  <2>1. "rel_unlink" \in Pc
    BY DEF Pc
  <2>2. /\ s \in ThreadRec
        /\ s.pc = "rel_unlink" /\ s.m = m /\ s.f = th[t].f /\ s.mine = th[t].mine
        /\ s.ret = next
    BY <1>0, <1>a, <2>1 DEF ThreadRec
  <2>3. LocalsOK(s) /\ Quiet(th[t], s)
    BY <1>0, <2>2 DEF LocalsOK, Quiet
  <2>4. th' = [th EXCEPT ![t] = s]
    BY <1>3 DEF MemPut
  <2> HIDE DEF s
  <2> QED BY <1>2, <2>2, <2>3, <2>4, ThreadUpdate
<1>4. CASE mem[m].ref # 1
  <2>1. Goto(t, next)
    BY <1>4 DEF MemPut, Goto
  <2> QED BY <1>2, <1>a, <2>1, GotoFrame
<1> QED BY <1>3, <1>4

(* Freeing mapping objects keeps the controllers' counts exact. *)
LEMMA CountFrame ==
  ASSUME Inv, NEW S \in SUBSET Dma, \A d \in S : dma[d].heap = "live", FreesDma(S)
  PROVE  CtrlRefExact' /\ ctrlRef' \in [Ctrl -> Int]
<1> DEFINE Live(c)  == {d \in Dma : dma[d].heap = "live" /\ dma[d].ctrl = c}
           Freed(c) == {d \in S : dma[d].ctrl = c}
<1>1. ctrlRef \in [Ctrl -> Int] /\ CtrlRefExact
  BY DEF Inv, DmaInv, TypeOK
<1> SUFFICES ASSUME NEW c \in Ctrl
             PROVE  /\ ctrlRef'[c] \in Int
                    /\ ctrlRef'[c] = Cardinality({d \in Dma : dma'[d].heap = "live"
                                                              /\ dma'[d].ctrl = c})
  BY <1>1 DEF CtrlRefExact, FreesDma
<1>2. ctrlRef[c] = Cardinality(Live(c)) /\ ctrlRef'[c] = ctrlRef[c] - Cardinality(Freed(c))
  BY <1>1 DEF CtrlRefExact, FreesDma
<1>3. {d \in Dma : dma'[d].heap = "live" /\ dma'[d].ctrl = c} = Live(c) \ Freed(c)
  BY DEF FreesDma
<1>4. Freed(c) \subseteq Live(c) /\ Live(c) \subseteq Dma
  OBVIOUS
<1> HIDE DEF Live, Freed
<1>5. IsFiniteSet(Live(c))
  BY <1>4, FS_Subset
<1>6. IsFiniteSet(Freed(c)) /\ Live(c) \cap Freed(c) = Freed(c)
  BY <1>4, <1>5, FS_Subset
<1>7. Cardinality(Live(c) \ Freed(c)) = Cardinality(Live(c)) - Cardinality(Freed(c))
  BY <1>5, <1>6, FS_Difference
<1>8. Cardinality(Live(c)) \in Nat /\ Cardinality(Freed(c)) \in Nat
  BY <1>5, <1>6, FS_CardinalityType
<1>9. ctrlRef'[c] = Cardinality(Live(c) \ Freed(c)) /\ ctrlRef'[c] \in Int
  BY <1>2, <1>7, <1>8
<1> QED BY <1>3, <1>9

(* A step that takes hold of no new mapping object, and frees only objects *)
(* that nobody holds afterwards, preserves what is said of them.           *)
LEMMA DmaFrame ==
  ASSUME Inv, NEW S \in SUBSET Dma, \A d \in S : dma[d].heap = "live", FreesDma(S),
         ThreadsFrame, ListsFrame,
         \A t \in Thread : th'[t].pc \in DmaPc => th'[t].d \notin S,
         \A m \in Mem : mem'[m].dmas \cap S = {}
  PROVE  DmaInv' /\ ctrlRef' \in [Ctrl -> Int]
<1> USE DEF Inv, DmaInv
<1>1. \A t \in Thread : Elems(th'[t].mine) \subseteq Elems(th[t].mine)
  BY DEF ThreadsFrame, Quiet
<1>2. \A t \in Thread : Elems(th[t].mine) \subseteq Dma
  <2> SUFFICES ASSUME NEW t \in Thread PROVE Elems(th[t].mine) \subseteq Dma
    OBVIOUS
  <2>1. th[t] \in ThreadRec
    BY DEF TypeOK
  <2>2. th[t].mine \in Seq(Dma)
    BY <2>1 DEF ThreadRec
  <2> QED BY <2>2 DEF Elems
<1>3. DmaMade'
  BY <1>1, <1>2 DEF DmaMade, FreesDma
<1>4. DmaListsSound'
  <2>1. \A m \in Mem : mem'[m].dmas \subseteq Dma
    BY DEF ListsFrame, MemRec
  <2> QED BY <2>1 DEF DmaListsSound, FreesDma, ListsFrame
<1>5. InFlight'
  <2>1. \A t \in Thread : th'[t].pc \in DmaPc => th'[t].d \in Dma
    BY DEF ThreadsFrame, Locals, LocalsOK
  <2> SUFFICES ASSUME NEW t \in Thread, th'[t].pc \in DmaPc
               PROVE  /\ dma'[th'[t].d].heap = "live"
                      /\ dma'[th'[t].d].mem = th'[t].m
                      /\ \A n \in Mem : th'[t].d \notin mem'[n].dmas
                      /\ \A u \in Thread :
                           /\ th'[t].d \notin Elems(th'[u].mine)
                           /\ u # t /\ th'[u].pc \in DmaPc => th'[u].d # th'[t].d
    BY DEF InFlight
  <2>2. \A u \in Thread : th'[u].pc \in DmaPc =>
          th[u].pc \in DmaPc /\ th'[u].d = th[u].d /\ th'[u].m = th[u].m
    BY DEF ThreadsFrame, Quiet
  <2>3. /\ dma[th[t].d].heap = "live"
        /\ dma[th[t].d].mem = th[t].m
        /\ \A n \in Mem : th[t].d \notin mem[n].dmas
        /\ \A u \in Thread : /\ th[t].d \notin Elems(th[u].mine)
                             /\ u # t /\ th[u].pc \in DmaPc => th[u].d # th[t].d
    BY <2>2 DEF InFlight
  <2>4. dma'[th'[t].d].heap = "live" /\ dma'[th'[t].d].mem = th'[t].m
    BY <2>1, <2>2, <2>3 DEF FreesDma
  <2>5. \A n \in Mem : th'[t].d \notin mem'[n].dmas
    BY <2>2, <2>3 DEF ListsFrame
  <2>6. \A u \in Thread : th'[t].d \notin Elems(th'[u].mine)
    BY <1>1, <2>2, <2>3
  <2>7. \A u \in Thread : u # t /\ th'[u].pc \in DmaPc => th'[u].d # th'[t].d
    BY <2>2, <2>3
  <2> QED BY <2>4, <2>5, <2>6, <2>7
<1>6. CtrlRefExact' /\ ctrlRef' \in [Ctrl -> Int]
  BY CountFrame
<1> QED BY <1>3, <1>4, <1>5, <1>6

(* In particular a step that frees none. *)
LEMMA SameDmaFrame ==
  ASSUME Inv, SameDma, ThreadsFrame, ListsFrame
  PROVE  DmaInv'
<1>1. ctrlRef \in [Ctrl -> Int]
  BY DEF Inv, TypeOK
<1>2. \A c \in Ctrl : {d \in {} : dma[d].ctrl = c} = {} /\ Cardinality({}) = 0
  BY FS_EmptySet
<1>3. ctrlRef' = [c \in Ctrl |-> ctrlRef[c] - Cardinality({d \in {} : dma[d].ctrl = c})]
  BY <1>1, <1>2 DEF SameDma
<1>4. FreesDma({})
  BY <1>3 DEF FreesDma, SameDma
<1> QED BY <1>4, DmaFrame

(* A step that leaves a page table alone and mapping objects in place. *)
LEMMA SameStep ==
  ASSUME Inv, SameDma, ThreadsFrame, MemFrame, TypeRest', UNCHANGED pages
  PROVE  Inv'
<1>1. TypeOK'
  BY DEF TypeRest, TypeOK, ThreadsFrame, MemFrame, ListsFrame, Inv, SameDma
<1>2. TableInv'
  BY DEF TableInv, TableOK, SameTable, MemFrame, Inv
<1> QED BY <1>1, <1>2, SameDmaFrame DEF Inv, ThreadsFrame, MemFrame

(* A step that leaves the mapping objects alone. *)
LEMMA NoDma == Inv /\ UNCHANGED dmaVars => SameDma
BY DEF SameDma, dmaVars, Inv, TypeOK

(* A step that leaves the registrations alone. *)
LEMMA NoMem == Inv /\ mem' = mem => MemFrame
BY DEF MemFrame, ListsFrame, SameTable, Inv, TypeOK

(* A step that changes neither mapping objects nor page tables. *)
LEMMA FrameStep ==
  ASSUME Inv, ThreadsFrame, MemFrame, TypeRest', UNCHANGED <<pages, dmaVars>>
  PROVE  Inv'
BY SameStep, NoDma
----------------------------------------------------------------------------
(* The steps of each call. *)

(* bafs_core_reg_mem preserves the invariant. *)
LEMMA RegSteps ==
  ASSUME Inv, NEW t \in Thread,
         RegInsert(t) \/ RegInsertFails(t) \/ RegCopy(t) \/ RegCopyFails(t) \/ RegErase(t)
  PROVE  Inv'
<1> DEFINE m == th[t].m
<1> USE DEF NeedsMem, NeedsLeft, DmaPc, RelPc, RelRet, DerefsCtx, dmaVars, procVars, ctxVars
<1>0. TypeRest /\ mem \in [Mem -> MemRec]
  BY DEF Inv, TypeOK, TypeRest
<1>1. CASE RegInsert(t)
  <2>1. Runs(t, "reg_insert") /\ Goto(t, "reg_copy")
    BY <1>1 DEF RegInsert
  <2>2. TypeOK /\ Locals /\ th[t].pc = "reg_insert" /\ m \in Mem /\ mem[m] \in MemRec
    BY <2>1, RunsFacts
  <2> DEFINE born == Cardinality({n \in Mem : mem[n].born > 0}) + 1
  <2>3. PICK i \in FreeId : /\ memXa' = [memXa EXCEPT ![i] = m]
                            /\ mem' = [mem EXCEPT ![m].id = i, ![m].born = born]
    BY <1>1 DEF RegInsert
  <2>4. born \in Nat
    BY CardType
  <2> HIDE DEF born
  <2> DEFINE r == [mem[m] EXCEPT !.id = i, !.born = born]
  <2>5. r \in MemRec /\ r.dmas = mem[m].dmas /\ SameTable(r, mem[m])
    BY <2>2, <2>4 DEF MemRec, SameTable, Gone, FreeId
  <2>6. mem' = [mem EXCEPT ![m] = r]
    BY <2>3
  <2> HIDE DEF r
  <2>7. MemFrame
    BY <2>2, <2>5, <2>6, MemRecFrame
  <2>8. ThreadsFrame
    BY <2>1, <2>2, GotoFrame DEF Pc
  <2>9. TypeRest'
    BY <1>0, <1>1, <2>2, <2>3 DEF TypeRest, RegInsert, FreeId
  <2> QED BY <1>1, <2>7, <2>8, <2>9, FrameStep DEF RegInsert
<1>2. CASE RegInsertFails(t) \/ RegErase(t)
  <2>1. (Runs(t, "reg_insert") \/ Runs(t, "reg_erase")) /\ Return(t)
    BY <1>2 DEF RegInsertFails, RegErase
  <2>2. TypeOK /\ Locals /\ m \in Mem /\ mem[m] \in MemRec /\ ctxRef \in Nat /\ ctxRef > 0
    BY <2>1, RunsFacts
  <2> DEFINE r == [mem[m] EXCEPT !.heap = "freed"]
  <2>3. r \in MemRec /\ r.dmas = mem[m].dmas /\ SameTable(r, mem[m])
    BY <2>2 DEF MemRec, SameTable, Gone, Heap
  <2>4. mem' = [mem EXCEPT ![m] = r]
    BY <1>2 DEF RegInsertFails, RegErase
  <2> HIDE DEF r
  <2>5. MemFrame
    BY <2>2, <2>3, <2>4, MemRecFrame
  <2>6. ThreadsFrame
    BY <2>1, <2>2, ReturnFrame
  <2>7. TypeRest'
    BY SMTT(30), <1>0, <1>2, <2>2 DEF TypeRest, RegInsertFails, RegErase
  <2> QED BY <1>2, <2>5, <2>6, <2>7, FrameStep DEF RegInsertFails, RegErase
<1>3. CASE RegCopy(t)
  <2>1. Runs(t, "reg_copy") /\ Return(t)
    BY <1>3 DEF RegCopy
  <2>2. TypeOK /\ Locals /\ mem[m] \in MemRec
    BY <2>1, RunsFacts
  <2>a. mem[m].id \in Id
    BY <2>2 DEF MemRec
  <2>3. mem[m].id + 1 \in Handle
    BY <2>a DEF Id, Handle
  <2>4. ThreadsFrame /\ MemFrame
    BY <1>3, <2>1, <2>2, ReturnFrame, NoMem DEF RegCopy
  <2>5. TypeRest'
    BY <1>0, <1>3, <2>3 DEF TypeRest, RegCopy
  <2> QED BY <1>3, <2>4, <2>5, FrameStep DEF RegCopy
<1>4. CASE RegCopyFails(t)
  <2>1. Runs(t, "reg_copy") /\ Goto(t, "reg_erase")
    BY <1>4 DEF RegCopyFails
  <2>2. TypeOK /\ Locals /\ th[t].pc = "reg_copy" /\ m \in Mem
    BY <2>1, RunsFacts
  <2>3. ThreadsFrame /\ MemFrame
    BY <1>4, <2>1, <2>2, GotoFrame, NoMem DEF Pc, RegCopyFails
  <2>4. TypeRest'
    BY <1>0, <1>4 DEF TypeRest, RegCopyFails
  <2> QED BY <1>4, <2>3, <2>4, FrameStep DEF RegCopyFails
<1> QED BY <1>1, <1>2, <1>3, <1>4

(* A step that changes page tables but no mapping object: pin_bafs_mem,    *)
(* __bafs_mem_release.                                                     *)
LEMMA TableStep ==
  ASSUME Inv, ThreadsFrame, TypeRest', SameDma,
         NEW m \in Mem, NEW r \in MemRec, NEW k \in Nat,
         mem' = [mem EXCEPT ![m] = r], pages' = [pages EXCEPT ![m] = k],
         r.dmas = mem[m].dmas, TableOK(r, k)
  PROVE  Inv'
<1>1. /\ TypeOK /\ pages \in [Mem -> Nat] /\ mem \in [Mem -> MemRec]
      /\ ctrlRef \in [Ctrl -> Int]
  BY DEF Inv, TypeOK
<1>2. mem' \in [Mem -> MemRec] /\ \A n \in Mem : mem'[n] = IF n = m THEN r ELSE mem[n]
  BY <1>1, MemUpdate
<1>3. pages' \in [Mem -> Nat] /\ \A n \in Mem : pages'[n] = IF n = m THEN k ELSE pages[n]
  BY <1>1
<1>4. TypeOK'
  BY <1>1, <1>2, <1>3 DEF TypeRest, TypeOK, ThreadsFrame, SameDma
<1>5. TableInv'
  BY <1>2, <1>3 DEF TableInv, Inv
<1>7. ListsFrame
  BY <1>2 DEF ListsFrame
<1>8. DmaInv'
  BY <1>7, SameDmaFrame
<1> QED BY <1>4, <1>5, <1>8 DEF Inv, ThreadsFrame

(* pin_bafs_mem preserves the invariant. *)
LEMMA PinSteps ==
  ASSUME Inv, NEW t \in Thread,
         PinGet(t) \/ PinDo(t) \/ PinDoFails(t) \/ PinPut(t) \/ PinReturn(t)
  PROVE  Inv'
<1> DEFINE m == th[t].m
<1> USE DEF NeedsMem, NeedsLeft, DmaPc, RelPc, RelRet, dmaVars, procVars, ctxVars
<1>0. TypeRest /\ mem \in [Mem -> MemRec] /\ pages \in [Mem -> Nat] /\ TableInv
  BY DEF Inv, TypeOK, TypeRest
<1>1. CASE PinGet(t)
  <2>1. Runs(t, "pin_get") /\ Goto(t, "pin_do") /\ mem' = [mem EXCEPT ![m].ref = mem[m].ref + 1]
    BY <1>1 DEF PinGet
  <2>2. TypeOK /\ Locals /\ th[t].pc = "pin_get" /\ m \in Mem /\ mem[m] \in MemRec
    BY <2>1, RunsFacts
  <2>3. mem[m].ref + 1 \in Nat
    BY <2>2 DEF MemRec
  <2>4. MemFrame
    BY <2>1, <2>2, <2>3, RefFrame
  <2>5. ThreadsFrame
    BY <2>1, <2>2, GotoFrame DEF Pc
  <2>6. TypeRest'
    BY <1>0, <1>1 DEF TypeRest, PinGet
  <2> QED BY <1>1, <2>4, <2>5, <2>6, FrameStep DEF PinGet
<1>2. CASE PinDo(t)
  <2>1. Runs(t, "pin_do") /\ Goto(t, "pin_put")
    BY <1>2 DEF PinDo
  <2>2. TypeOK /\ Locals /\ th[t].pc = "pin_do" /\ m \in Mem /\ mem[m] \in MemRec
        /\ th[t] \in ThreadRec /\ th[t].f \in File
    BY <2>1, RunsFacts DEF LocalsOK
  <2>a. th[t].a \in Addr \cup {NULL}
    BY <2>2 DEF ThreadRec
  <2> DEFINE r == [mem[m] EXCEPT !.vaddr = th[t].a, !.sized = TRUE, !.table = TRUE,
                                 !.state = "LIVE"]
             k == pages[m] + 1
  <2>3. r \in MemRec /\ r.dmas = mem[m].dmas /\ r.state = "LIVE"
    BY <2>2, <2>a DEF MemRec
  <2>4. k \in Nat /\ k > 0
    BY <1>0, <2>2
  <2>b. TableOK(r, k)
    BY <2>3, <2>4 DEF TableOK
  <2>5. mem' = [mem EXCEPT ![m] = r] /\ pages' = [pages EXCEPT ![m] = k]
    BY <1>2 DEF PinDo
  <2> HIDE DEF r, k
  <2>6. ThreadsFrame
    BY <2>1, <2>2, GotoFrame DEF Pc
  <2>7. vma' \in [Addr -> [m : Mem, f : File] \cup {NoVma}]
    BY <1>0, <1>2, <2>2 DEF TypeRest, PinDo
  <2>8. cb' \in [Mem -> {"idle", "armed", "spinning"}]
    BY <1>0, <1>2, <2>2 DEF TypeRest, PinDo
  <2>9. TypeRest'
    BY <1>0, <1>2, <2>7, <2>8 DEF TypeRest, PinDo
  <2>10. SameDma
    BY <1>2, NoDma DEF PinDo
  <2> QED BY <2>2, <2>3, <2>4, <2>b, <2>5, <2>6, <2>9, <2>10, TableStep
<1>3. CASE PinDoFails(t)
  <2>1. Runs(t, "pin_do") /\ Goto(t, "pin_put")
    BY <1>3 DEF PinDoFails
  <2>2. TypeOK /\ Locals /\ th[t].pc = "pin_do" /\ m \in Mem /\ mem[m] \in MemRec
        /\ th[t] \in ThreadRec
    BY <2>1, RunsFacts
  <2>a. th[t].a \in Addr \cup {NULL} /\ mem[m].id \in Id
    BY <2>2 DEF ThreadRec, MemRec
  <2>3. PICK kept \in {FALSE, mem[m].loc # "CPU" /\ mem[m].table},
             begun \in {FALSE, mem[m].loc = "CUDA" /\ {"cb", "pin"} \in Overlap} :
          /\ mem' = [mem EXCEPT ![m].vaddr = th[t].a,
                                ![m].sized = @ \/ mem[m].loc = "CPU",
                                ![m].table = kept]
          /\ cb' = [cb EXCEPT ![m] = IF begun /\ ~kept THEN "spinning" ELSE @]
    BY <1>3 DEF PinDoFails
  <2>b. kept \in BOOLEAN /\ (kept => mem[m].table)
    BY <2>2 DEF MemRec
  <2> DEFINE sized == mem[m].sized \/ mem[m].loc = "CPU"
             r == [mem[m] EXCEPT !.vaddr = th[t].a, !.sized = sized, !.table = kept]
  <2>c. sized \in BOOLEAN
    OBVIOUS
  <2>d. mem' = [mem EXCEPT ![m] = r]
    BY <2>3
  <2> HIDE DEF sized
  <2>4. r \in MemRec /\ r.dmas = mem[m].dmas /\ SameTable(r, mem[m])
    BY <2>2, <2>a, <2>b, <2>c DEF MemRec, SameTable
  <2> HIDE DEF r
  <2>5. MemFrame
    BY <2>2, <2>4, <2>b, <2>d, MemUpdate
  <2>6. ThreadsFrame
    BY <2>1, <2>2, GotoFrame DEF Pc
  <2>7. mem[m].id + 1 \in Handle
    BY <2>a DEF Id, Handle
  <2>8. cb' \in [Mem -> {"idle", "armed", "spinning"}]
    BY <1>0, <2>2, <2>3 DEF TypeRest
  <2>9. TypeRest'
    BY <1>0, <1>3, <2>7, <2>8 DEF TypeRest, PinDoFails
  <2> QED BY <1>3, <2>5, <2>6, <2>9, FrameStep DEF PinDoFails
<1>4. CASE PinPut(t)
  <2>1. Runs(t, "pin_put") /\ MemPut(t, m, "pin_ret")
    BY <1>4 DEF PinPut
  <2>2. TypeOK /\ Locals /\ th[t].pc = "pin_put" /\ m \in Mem /\ mem[m].ref > 0
    BY <2>1, RunsFacts
  <2>3. MemFrame /\ ThreadsFrame
    BY <2>1, <2>2, PutFrame DEF Pc
  <2>4. TypeRest'
    BY <1>0, <1>4 DEF TypeRest, PinPut
  <2> QED BY <1>4, <2>3, <2>4, FrameStep DEF PinPut
<1>5. CASE PinReturn(t)
  <2>1. TypeOK /\ Locals
    BY DEF Inv
  <2>2. ThreadsFrame /\ MemFrame
    BY <1>5, <2>1, ReturnFrame, NoMem DEF PinReturn
  <2>3. TypeRest'
    BY <1>0, <1>5 DEF TypeRest, PinReturn
  <2> QED BY <1>5, <2>2, <2>3, FrameStep DEF PinReturn
<1> QED BY <1>1, <1>2, <1>3, <1>4, <1>5

(* __bafs_mem_release preserves the invariant: it gives a page table back  *)
(* only if the registration still has one.                                 *)
LEMMA RelSteps ==
  ASSUME Inv, NEW t \in Thread, RelUnlink(t) \/ RelFree(t) \/ RelCtx(t)
  PROVE  Inv'
<1> DEFINE m == th[t].m
<1> USE DEF NeedsMem, NeedsLeft, DmaPc, RelPc, RelRet, DerefsCtx, dmaVars, procVars, ctxVars
<1>0. TypeRest /\ mem \in [Mem -> MemRec] /\ pages \in [Mem -> Nat] /\ TableInv
  BY DEF Inv, TypeOK, TypeRest
<1>1. CASE RelUnlink(t)
  <2>1. Runs(t, "rel_unlink") /\ Goto(t, "rel_free")
    BY <1>1 DEF RelUnlink
  <2>2. TypeOK /\ Locals /\ th[t].pc = "rel_unlink" /\ m \in Mem
    BY <2>1, RunsFacts
  <2>3. ThreadsFrame /\ MemFrame
    BY <1>1, <2>1, <2>2, GotoFrame, NoMem DEF Pc, RelUnlink
  <2>4. TypeRest'
    BY <1>0, <1>1 DEF TypeRest, RelUnlink
  <2> QED BY <1>1, <2>3, <2>4, FrameStep DEF RelUnlink
<1>2. CASE RelFree(t)
  <2>1. Runs(t, "rel_free") /\ Goto(t, "rel_ctx")
    BY <1>2 DEF RelFree
  <2>2. TypeOK /\ Locals /\ th[t].pc = "rel_free" /\ m \in Mem /\ mem[m] \in MemRec
    BY <2>1, RunsFacts
  <2>a. mem[m].state # "DEAD" /\ TableOK(mem[m], pages[m])
    <3>1. ~UseAfterFree(t) /\ ~DoubleFree(t)
      BY <2>1 DEF Runs
    <3>2. m # NULL /\ th[t].pc \in DerefsMem
      BY <2>2 DEF DerefsMem
    <3>3. mem[m].heap \notin Gone
      BY <2>2, <3>1, <3>2 DEF UseAfterFree, DoubleFree, Gone
    <3> QED BY <1>0, <2>2, <3>3 DEF TableInv, TableOK
  <2> DEFINE table == mem[m].table /\ ~(ReleasesTable(m) /\ mem[m].loc = "CUDA")
             state == IF mem[m].state = "STALE" THEN mem[m].state ELSE "DEAD"
             r == [mem[m] EXCEPT !.heap = "limbo", !.table = table, !.state = state]
             k == IF ReleasesTable(m) THEN pages[m] - 1 ELSE pages[m]
  <2>3. table \in BOOLEAN /\ state \in {"STALE", "LIVE", "DEAD", "DEAD_CB"}
    OBVIOUS
  <2>4. mem' = [mem EXCEPT ![m] = r] /\ pages' = [pages EXCEPT ![m] = k]
    BY <1>2 DEF RelFree
  <2>5. k \in Nat /\ (table => k > 0 \/ state = "DEAD") /\ state \in {"STALE", "DEAD"}
    BY <1>0, <2>2, <2>a DEF TableOK, ReleasesTable
  <2> HIDE DEF table, state, k
  <2>6. /\ r \in MemRec /\ r.dmas = mem[m].dmas
        /\ r.table = table /\ r.state = state /\ r.heap = "limbo"
    BY <2>2, <2>3 DEF MemRec, Heap
  <2> HIDE DEF r
  <2>b. TableOK(r, k)
    BY <2>5, <2>6 DEF TableOK, Gone
  <2>7. ThreadsFrame
    BY <2>1, <2>2, GotoFrame DEF Pc
  <2>8. cb' \in [Mem -> {"idle", "armed", "spinning"}]
    BY <1>0, <1>2, <2>2 DEF TypeRest, RelFree
  <2>9. TypeRest'
    BY <1>0, <1>2, <2>8 DEF TypeRest, RelFree
  <2>10. SameDma
    BY <1>2, NoDma DEF RelFree
  <2> QED BY <2>2, <2>4, <2>5, <2>6, <2>b, <2>7, <2>9, <2>10, TableStep
<1>3. CASE RelCtx(t)
  <2>1. Runs(t, "rel_ctx") /\ Goto(t, th[t].ret)
    BY <1>3 DEF RelCtx
  <2>2. TypeOK /\ Locals /\ th[t].pc = "rel_ctx" /\ th[t] \in ThreadRec
        /\ ctxRef \in Nat /\ ctxRef > 0
    BY <2>1, RunsFacts
  <2>3. th[t].ret \in RelRet /\ th[t].ret \in Pc
    BY <2>1, <2>2, RunsFacts DEF LocalsOK, Pc
  <2>4. ThreadsFrame /\ MemFrame
    BY <1>3, <2>1, <2>2, <2>3, GotoFrame, NoMem DEF RelCtx
  <2>5. TypeRest'
    BY <1>0, <1>3, <2>2 DEF TypeRest, RelCtx
  <2> QED BY <1>3, <2>4, <2>5, FrameStep DEF RelCtx
<1> QED BY <1>1, <1>2, <1>3

(* Closing a file drops registrations that have no DMA mapping's pages to  *)
(* give back; it preserves the invariant.                                  *)
LEMMA CloseSteps ==
  ASSUME Inv, NEW t \in Thread, CloseDo(t) \/ CloseReturn(t)
  PROVE  Inv'
<1> USE DEF NeedsMem, NeedsLeft, DmaPc, RelPc, RelRet, DerefsCtx, dmaVars, procVars, ctxVars
<1>0. TypeRest /\ mem \in [Mem -> MemRec]
  BY DEF Inv, TypeOK, TypeRest
<1>1. CASE CloseDo(t)
  <2>1. Runs(t, "close_do") /\ Goto(t, "close_ctx")
    BY <1>1 DEF CloseDo
  <2>2. TypeOK /\ Locals /\ th[t].pc = "close_do" /\ ctxRef \in Nat
        /\ ctxRef > Cardinality(Stale)
    BY <2>1, RunsFacts
  <2>3. Cardinality(Stale) \in Nat
    BY <1>0, CardType DEF TypeRest, Stale
  <2> DEFINE r(m) == [mem[m] EXCEPT !.heap = "limbo"]
  <2>4. \A m \in Mem : /\ r(m) \in MemRec
                       /\ r(m).dmas = mem[m].dmas /\ SameTable(r(m), mem[m])
    <3> SUFFICES ASSUME NEW m \in Mem
                 PROVE  /\ r(m) \in MemRec
                        /\ r(m).dmas = mem[m].dmas /\ SameTable(r(m), mem[m])
      OBVIOUS
    <3>1. mem[m] \in MemRec
      BY <1>0
    <3> QED BY <3>1 DEF MemRec, Heap, SameTable, Gone
  <2>5. mem' = [m \in Mem |-> IF m \in Stale THEN r(m) ELSE mem[m]]
    BY <1>1 DEF CloseDo
  <2> HIDE DEF r
  <2>6. mem' \in [Mem -> MemRec]
    BY <1>0, <2>4, <2>5
  <2>7. MemFrame
    BY <2>4, <2>5, <2>6 DEF MemFrame, ListsFrame, SameTable
  <2>8. ThreadsFrame
    BY <2>1, <2>2, GotoFrame DEF Pc
  <2>9. TypeRest'
    <3>1. ctxRef' \in Nat
      BY <1>1, <2>2, <2>3 DEF CloseDo
    <3>2. memXa' \in [Id -> Mem \cup {NULL}]
      BY <1>0, <1>1 DEF CloseDo, TypeRest
    <3> QED BY <1>0, <1>1, <3>1, <3>2 DEF TypeRest, CloseDo
  <2> QED BY <1>1, <2>7, <2>8, <2>9, FrameStep DEF CloseDo
<1>2. CASE CloseReturn(t)
  <2>1. Runs(t, "close_ctx") /\ Return(t)
    BY <1>2 DEF CloseReturn
  <2>2. TypeOK /\ Locals /\ ctxRef \in Nat /\ ctxRef > 0
    BY <2>1, RunsFacts
  <2>3. ThreadsFrame /\ MemFrame
    BY <1>2, <2>1, <2>2, ReturnFrame, NoMem DEF CloseReturn
  <2>4. ctxRef' \in Nat
    BY <1>2, <2>2 DEF CloseReturn
  <2>5. file' \in [File -> {"open", "closing", "closed"}]
    BY <1>0, <1>2 DEF TypeRest, CloseReturn
  <2>6. TypeRest'
    BY <1>0, <1>2, <2>4, <2>5 DEF TypeRest, CloseReturn
  <2> QED BY <1>2, <2>3, <2>6, FrameStep DEF CloseReturn
<1> QED BY <1>1, <1>2


----------------------------------------------------------------------------
(* Unmapping. *)

(* A step that frees mapping objects and leaves page tables alone. *)
LEMMA FreeStep ==
  ASSUME Inv, NEW S \in SUBSET Dma, \A d \in S : dma[d].heap = "live", FreesDma(S),
         ThreadsFrame, MemFrame, TypeRest', UNCHANGED pages,
         \A t \in Thread : th'[t].pc \in DmaPc => th'[t].d \notin S,
         \A m \in Mem : mem'[m].dmas \cap S = {}
  PROVE  Inv'
<1>1. DmaInv' /\ ctrlRef' \in [Ctrl -> Int]
  BY DmaFrame DEF MemFrame
<1>2. TypeOK'
  BY <1>1 DEF TypeRest, TypeOK, ThreadsFrame, MemFrame, ListsFrame, Inv, FreesDma
<1>3. TableInv'
  BY DEF TableInv, TableOK, SameTable, MemFrame, Inv
<1> QED BY <1>1, <1>2, <1>3 DEF Inv, ThreadsFrame

(* What unmap_dma does to the mapping objects it is called for. *)
LEMMA UnmapFrees ==
  ASSUME Inv, NEW S \in SUBSET Dma, NEW m, UnmapDma(S, m)
  PROVE  FreesDma(S)
<1> DEFINE b(d) == dma[d].mapped /\ ~UnmapsNow(m)
           r(d) == [dma[d] EXCEPT !.heap = "freed", !.mapped = b(d)]
<1>1. \A d \in Dma : b(d) \in BOOLEAN
  OBVIOUS
<1>2. dma' = [d \in Dma |-> IF d \in S THEN r(d) ELSE dma[d]]
  BY DEF UnmapDma
<1>3. dma \in [Dma -> DmaRec]
  BY DEF Inv, TypeOK
<1> HIDE DEF b
<1>4. \A d \in Dma : /\ r(d) \in DmaRec
                     /\ r(d).heap = "freed" /\ r(d).mem = dma[d].mem
                     /\ r(d).ctrl = dma[d].ctrl
  <2> SUFFICES ASSUME NEW d \in Dma
               PROVE  /\ r(d) \in DmaRec
                      /\ r(d).heap = "freed" /\ r(d).mem = dma[d].mem
                      /\ r(d).ctrl = dma[d].ctrl
    OBVIOUS
  <2>1. dma[d] \in DmaRec
    BY <1>3
  <2> QED BY <1>1, <2>1 DEF DmaRec
<1> HIDE DEF r
<1>5. dma' \in [Dma -> DmaRec]
  BY <1>2, <1>3, <1>4
<1>6. \A d \in Dma : /\ dma'[d].heap = IF d \in S THEN "freed" ELSE dma[d].heap
                     /\ dma'[d].mem = dma[d].mem
                     /\ dma'[d].ctrl = dma[d].ctrl
  BY <1>2, <1>4
<1> QED BY <1>5, <1>6 DEF FreesDma, UnmapDma

(* The close operation of the vma preserves the invariant: the objects it  *)
(* frees are the ones in the list of this registration, which no other     *)
(* list and no call that is still mapping holds.                           *)
LEMMA UnmapSteps ==
  ASSUME Inv, NEW t \in Thread, UnmapDo(t) \/ UnmapPut(t) \/ UnmapReturn(t)
  PROVE  Inv'
<1> DEFINE m == th[t].m
<1> USE DEF NeedsMem, NeedsLeft, DmaPc, RelPc, RelRet, DerefsCtx, dmaVars, procVars, ctxVars
<1>0. TypeRest /\ mem \in [Mem -> MemRec]
  BY DEF Inv, TypeOK, TypeRest
<1>1. CASE UnmapDo(t)
  <2> DEFINE S == mem[m].dmas
             k == mem[m].ref - Cardinality(S)
             r == [mem[m] EXCEPT !.dmas = {}, !.ref = k]
  <2>1. Runs(t, "unmap_do") /\ Goto(t, "unmap_put") /\ UnmapDma(S, m)
    BY <1>1 DEF UnmapDo
  <2>2. /\ TypeOK /\ Locals /\ th[t].pc = "unmap_do" /\ m \in Mem /\ mem[m] \in MemRec
        /\ ctxRef \in Nat /\ mem[m].ref > Cardinality(S)
    BY <2>1, RunsFacts
  <2>3. S \in SUBSET Dma /\ mem[m].ref \in Nat
    BY <2>2 DEF MemRec
  <2>4. k \in Nat
    BY <2>2, <2>3, CardType
  <2>5. mem' = [mem EXCEPT ![m] = r]
    BY <1>1 DEF UnmapDo
  <2> HIDE DEF k
  <2>6. r \in MemRec /\ r.dmas = {} /\ SameTable(r, mem[m])
    BY <2>2, <2>4 DEF MemRec, SameTable, Gone
  <2> HIDE DEF r
  <2>a. r.dmas \subseteq mem[m].dmas /\ SameTable(r, mem[m]) /\ r \in MemRec
    BY <2>6
  <2>b. \A n \in Mem : mem'[n] = IF n = m THEN r ELSE mem[n]
    BY <1>0, <2>5
  <2>7. MemFrame
    BY <2>2, <2>5, <2>a, MemUpdate
  <2>8. ThreadsFrame
    BY <2>1, <2>2, GotoFrame DEF Pc
  <2>9. FreesDma(S)
    BY <2>1, <2>3, UnmapFrees
  <2>10. \A d \in S : dma[d].heap = "live" /\ dma[d].mem = m
    BY <2>2 DEF Inv, DmaInv, DmaListsSound
  <2>11. \A n \in Mem : mem'[n].dmas \cap S = {}
    <3> SUFFICES ASSUME NEW n \in Mem PROVE mem'[n].dmas \cap S = {}
      OBVIOUS
    <3>1. CASE n = m
      BY <2>6, <2>b, <3>1
    <3>2. CASE n # m
      <4>1. \A d \in mem[n].dmas : dma[d].mem = n
        BY DEF Inv, DmaInv, DmaListsSound
      <4>2. mem'[n] = mem[n]
        BY <2>b, <3>2
      <4> QED BY <2>10, <3>2, <4>1, <4>2
    <3> QED BY <3>1, <3>2
  <2>12. \A u \in Thread : th'[u].pc \in DmaPc => th'[u].d \notin S
    BY <2>2, <2>8 DEF ThreadsFrame, Quiet, Inv, DmaInv, InFlight
  <2>13. TypeRest'
    <3>1. ctxRef' \in Nat
      BY <1>1, <2>2 DEF UnmapDo
    <3>2. vma' \in [Addr -> [m : Mem, f : File] \cup {NoVma}]
      BY <1>0, <1>1 DEF UnmapDo, TypeRest
    <3> QED BY <1>0, <1>1, <3>1, <3>2 DEF TypeRest, UnmapDo
  <2>14. UNCHANGED pages
    BY <1>1 DEF UnmapDo
  <2> HIDE DEF S
  <2> QED BY <2>3, <2>7, <2>8, <2>9, <2>10, <2>11, <2>12, <2>13, <2>14, FreeStep
<1>2. CASE UnmapPut(t)
  <2>1. Runs(t, "unmap_put") /\ MemPut(t, m, "unmap_ctx")
    BY <1>2 DEF UnmapPut
  <2>2. TypeOK /\ Locals /\ th[t].pc = "unmap_put" /\ m \in Mem /\ mem[m].ref > 0
    BY <2>1, RunsFacts
  <2>3. MemFrame /\ ThreadsFrame
    BY <2>1, <2>2, PutFrame
  <2>4. TypeRest'
    BY <1>0, <1>2 DEF TypeRest, UnmapPut
  <2> QED BY <1>2, <2>3, <2>4, FrameStep DEF UnmapPut
<1>3. CASE UnmapReturn(t)
  <2>1. Runs(t, "unmap_ctx") /\ Return(t)
    BY <1>3 DEF UnmapReturn
  <2>2. TypeOK /\ Locals /\ ctxRef \in Nat /\ ctxRef > 0
    BY <2>1, RunsFacts
  <2>3. ThreadsFrame /\ MemFrame
    BY <1>3, <2>1, <2>2, ReturnFrame, NoMem DEF UnmapReturn
  <2>4. TypeRest'
    BY <1>0, <1>3, <2>2 DEF TypeRest, UnmapReturn
  <2> QED BY <1>3, <2>3, <2>4, FrameStep DEF UnmapReturn
<1> QED BY <1>1, <1>2, <1>3

----------------------------------------------------------------------------
(* Looking an address up and mapping memory for a controller. *)

(* The element a walk of mem_list looks at is one of the list. *)
LEMMA YoungestType ==
  ASSUME NEW S \in SUBSET Mem
  PROVE  Youngest(S) \in Mem \cup {NULL}
BY DEF Youngest

(* bafs_get_mem_with_ctx preserves the invariant. *)
LEMMA WalkSteps ==
  ASSUME Inv, NEW t \in Thread,
         MapLock(t) \/ WalkMatch(t) \/ WalkSkip(t) \/ WalkPut(t) \/ WalkEnd(t)
  PROVE  Inv'
<1> DEFINE m == th[t].m
<1> USE DEF NeedsMem, NeedsLeft, DmaPc, RelPc, RelRet, DerefsCtx, dmaVars, procVars, ctxVars
<1>0. TypeRest /\ mem \in [Mem -> MemRec]
  BY DEF Inv, TypeOK, TypeRest
<1>1. CASE MapLock(t)
  <2> DEFINE y == Youngest(memList)
             s == [th[t] EXCEPT !.pc = "walk", !.rest = memList, !.m = y]
  <2>1. Runs(t, "map_lock") /\ th' = [th EXCEPT ![t] = s]
    BY <1>1 DEF MapLock
  <2>2. TypeOK /\ Locals /\ th[t].pc = "map_lock" /\ th[t] \in ThreadRec /\ LocalsOK(th[t])
    BY <2>1, RunsFacts
  <2>3. y \in Mem \cup {NULL} /\ memList \in SUBSET Mem /\ "walk" \in Pc
    BY <1>0, YoungestType DEF TypeRest, Pc
  <2> HIDE DEF y
  <2>4. /\ s \in ThreadRec
        /\ s.pc = "walk" /\ s.f = th[t].f /\ s.left = th[t].left /\ s.mine = th[t].mine
    BY <2>2, <2>3 DEF ThreadRec
  <2>5. LocalsOK(s) /\ Quiet(th[t], s)
    BY <2>2, <2>4 DEF LocalsOK, Quiet
  <2> HIDE DEF s
  <2>6. ThreadsFrame /\ MemFrame
    BY <1>1, <2>1, <2>2, <2>4, <2>5, ThreadUpdate, NoMem DEF MapLock
  <2>7. TypeRest'
    BY <1>0, <1>1 DEF TypeRest, MapLock
  <2> QED BY <1>1, <2>6, <2>7, FrameStep DEF MapLock
<1>2. CASE WalkMatch(t) \/ WalkSkip(t)
  <2>1. /\ Runs(t, "walk") /\ m # NULL
        /\ mem' = [mem EXCEPT ![m].ref = mem[m].ref + 1]
        /\ UNCHANGED <<pages, dmaVars>>
    BY <1>2 DEF WalkMatch, WalkSkip
  <2>2. /\ TypeOK /\ Locals /\ th[t].pc = "walk" /\ th[t] \in ThreadRec
        /\ LocalsOK(th[t]) /\ ctxRef \in Nat /\ ctxRef > 0
    BY <2>1, RunsFacts
  <2>3. m \in Mem
    BY <2>1, <2>2 DEF ThreadRec
  <2>4. mem[m] \in MemRec
    BY <1>0, <2>3
  <2>5. mem[m].ref + 1 \in Nat
    BY <2>4 DEF MemRec
  <2>6. MemFrame
    BY <2>1, <2>2, <2>3, <2>5, RefFrame
  <2>7. CASE WalkMatch(t)
    <3> DEFINE s == [th[t] EXCEPT !.pc = "map_alloc", !.rest = {}]
    <3>1. th' = [th EXCEPT ![t] = s]
      BY <2>7 DEF WalkMatch
    <3>2. "map_alloc" \in Pc
      BY DEF Pc
    <3>3. /\ s \in ThreadRec
          /\ s.pc = "map_alloc" /\ s.m = m /\ s.f = th[t].f /\ s.left = th[t].left
          /\ s.mine = th[t].mine
      BY <2>2, <3>2 DEF ThreadRec
    <3>4. LocalsOK(s) /\ Quiet(th[t], s)
      BY <2>2, <2>3, <3>3 DEF LocalsOK, Quiet
    <3> HIDE DEF s
    <3>5. ThreadsFrame
      BY <2>2, <3>1, <3>3, <3>4, ThreadUpdate
    <3>6. TypeRest'
      BY <1>0, <2>2, <2>7 DEF TypeRest, WalkMatch
    <3> QED BY <2>1, <2>6, <3>5, <3>6, FrameStep
  <2>8. CASE WalkSkip(t)
    <3>1. Goto(t, "walk_put") /\ "walk_put" \in Pc
      BY <2>8 DEF WalkSkip, Pc
    <3>2. th[t].left # <<>>
      BY <2>2 DEF LocalsOK
    <3>3. ThreadsFrame
      BY <2>2, <2>3, <3>1, <3>2, GotoFrame
    <3>4. TypeRest'
      BY <1>0, <2>8 DEF TypeRest, WalkSkip
    <3> QED BY <2>1, <2>6, <3>3, <3>4, FrameStep
  <2> QED BY <1>2, <2>7, <2>8
<1>3. CASE WalkPut(t)
  <2> DEFINE rest == th[t].rest \ {m}
             y == Youngest(rest)
             s == [th[t] EXCEPT !.pc = "walk", !.rest = rest, !.m = y]
  <2>1. /\ Runs(t, "walk_put") /\ th' = [th EXCEPT ![t] = s]
        /\ mem' = [mem EXCEPT ![m].ref = mem[m].ref - 1]
    BY <1>3 DEF WalkPut
  <2>2. /\ TypeOK /\ Locals /\ th[t].pc = "walk_put" /\ th[t] \in ThreadRec
        /\ LocalsOK(th[t]) /\ m \in Mem /\ mem[m] \in MemRec /\ mem[m].ref > 1
    BY <2>1, RunsFacts
  <2>3. rest \in SUBSET Mem /\ "walk" \in Pc
    BY <2>2 DEF ThreadRec, Pc
  <2> HIDE DEF rest
  <2>4. y \in Mem \cup {NULL}
    BY <2>3, YoungestType
  <2> HIDE DEF y
  <2>5. /\ s \in ThreadRec
        /\ s.pc = "walk" /\ s.f = th[t].f /\ s.left = th[t].left /\ s.mine = th[t].mine
    BY <2>2, <2>3, <2>4 DEF ThreadRec
  <2>6. LocalsOK(s) /\ Quiet(th[t], s)
    BY <2>2, <2>5 DEF LocalsOK, Quiet
  <2> HIDE DEF s
  <2>7. ThreadsFrame
    BY <2>1, <2>2, <2>5, <2>6, ThreadUpdate
  <2>8. mem[m].ref - 1 \in Nat
    BY <2>2 DEF MemRec
  <2>9. MemFrame
    BY <2>1, <2>2, <2>8, RefFrame
  <2>10. TypeRest'
    BY <1>0, <1>3 DEF TypeRest, WalkPut
  <2> QED BY <1>3, <2>7, <2>9, <2>10, FrameStep DEF WalkPut
<1>4. CASE WalkEnd(t)
  <2>1. Runs(t, "walk") /\ Goto(t, "map_undo") /\ "map_undo" \in Pc
    BY <1>4 DEF WalkEnd, Pc
  <2>2. TypeOK /\ Locals /\ th[t].pc = "walk" /\ ctxRef \in Nat /\ ctxRef > 0
    BY <2>1, RunsFacts
  <2>3. ThreadsFrame /\ MemFrame
    BY <1>4, <2>1, <2>2, GotoFrame, NoMem DEF WalkEnd
  <2>4. TypeRest'
    BY <1>0, <1>4, <2>2 DEF TypeRest, WalkEnd
  <2> QED BY <1>4, <2>3, <2>4, FrameStep DEF WalkEnd
<1> QED BY <1>1, <1>2, <1>3, <1>4

(* Adding to the list of mappings a call has made adds the new one only. *)
LEMMA ElemsCons ==
  ASSUME NEW s \in Seq(Dma), NEW d \in Dma
  PROVE  <<d>> \o s \in Seq(Dma) /\ Elems(<<d>> \o s) \subseteq {d} \cup Elems(s)
BY DEF Elems

(* Taking the last mapping made from the list leaves the others. *)
LEMMA ElemsTail ==
  ASSUME NEW s \in Seq(Dma), s # <<>>
  PROVE  /\ Tail(s) \in Seq(Dma) /\ Elems(Tail(s)) \subseteq Elems(s)
         /\ Head(s) \in Elems(s) /\ Head(s) \in Dma
BY DEF Elems

(* out_delete_dma frees the object the call was filling in. *)
LEMMA DeleteFrees ==
  ASSUME Inv, NEW t \in Thread, th[t].d \in Dma, dma[th[t].d].heap = "live",
         NEW mapped \in BOOLEAN, DeleteDma(t, mapped)
  PROVE  FreesDma({th[t].d})
<1> DEFINE d == th[t].d
           r == [dma[d] EXCEPT !.heap = "freed", !.mapped = mapped]
<1>1. dma \in [Dma -> DmaRec] /\ ctrlRef \in [Ctrl -> Int] /\ dma[d].ctrl \in Ctrl
  BY DEF Inv, TypeOK, DmaInv, DmaMade
<1>2. dma' = [dma EXCEPT ![d] = r]
  BY DEF DeleteDma
<1>3. dma[d] \in DmaRec
  BY <1>1
<1>4. r \in DmaRec /\ r.heap = "freed" /\ r.mem = dma[d].mem /\ r.ctrl = dma[d].ctrl
  BY <1>3 DEF DmaRec
<1> HIDE DEF r
<1>5. dma' \in [Dma -> DmaRec] /\ \A e \in Dma : dma'[e] = IF e = d THEN r ELSE dma[e]
  BY <1>1, <1>2, <1>4
<1>6. \A c \in Ctrl : Cardinality({e \in {d} : dma[e].ctrl = c})
                      = IF c = dma[d].ctrl THEN 1 ELSE 0
  <2> SUFFICES ASSUME NEW c \in Ctrl
               PROVE  Cardinality({e \in {d} : dma[e].ctrl = c})
                      = IF c = dma[d].ctrl THEN 1 ELSE 0
    OBVIOUS
  <2>1. CASE c = dma[d].ctrl
    <3>1. {e \in {d} : dma[e].ctrl = c} = {d}
      BY <2>1
    <3> QED BY <2>1, <3>1, FS_Singleton
  <2>2. CASE c # dma[d].ctrl
    <3>1. {e \in {d} : dma[e].ctrl = c} = {}
      BY <2>2
    <3> QED BY <2>2, <3>1, FS_EmptySet
  <2> QED BY <2>1, <2>2
<1>7. \A c \in Ctrl : ctrlRef'[c] = ctrlRef[c] - IF c = dma[d].ctrl THEN 1 ELSE 0
  BY <1>1 DEF DeleteDma
<1>8. ctrlRef' \in [Ctrl -> Int]
  BY <1>1 DEF DeleteDma
<1>9. ctrlRef' = [c \in Ctrl |-> ctrlRef[c] - Cardinality({e \in {d} : dma[e].ctrl = c})]
  BY <1>6, <1>7, <1>8
<1> QED BY <1>4, <1>5, <1>9 DEF FreesDma

(* The failing steps of bafs_ctrl_dma_map_mem preserve the invariant. *)
LEMMA MapFailSteps ==
  ASSUME Inv, NEW t \in Thread, MapDmaFails(t) \/ MapAddrsFail(t)
  PROVE  Inv'
<1> DEFINE d == th[t].d
<1> USE DEF NeedsMem, NeedsLeft, DmaPc, RelPc, RelRet, dmaVars, procVars, ctxVars
<1>0. TypeRest
  BY DEF Inv, TypeOK, TypeRest
<1>1. PICK b \in BOOLEAN : DeleteDma(t, b)
  BY DEF MapDmaFails, MapAddrsFail
<1>2. Runs(t, "map_dma") \/ Runs(t, "map_link")
  BY DEF MapDmaFails, MapAddrsFail
<1>3. /\ TypeOK /\ Locals /\ th[t].pc \in DmaPc /\ LocalsOK(th[t]) /\ th[t].m \in Mem
  BY <1>2, RunsFacts
<1>4. d \in Dma /\ dma[d].heap = "live"
  BY <1>3 DEF LocalsOK, Inv, DmaInv, InFlight
<1>5. FreesDma({d})
  BY <1>1, <1>4, DeleteFrees
<1>6. MemFrame /\ UNCHANGED pages
  BY NoMem DEF MapDmaFails, MapAddrsFail
<1>7. Goto(t, "map_put") /\ "map_put" \in Pc
  BY <1>1 DEF DeleteDma, Pc
<1>8. ThreadsFrame
  BY <1>3, <1>7, GotoFrame
<1>9. TypeRest'
  BY <1>0 DEF TypeRest, MapDmaFails, MapAddrsFail
<1>10. \A n \in Mem : mem'[n].dmas \cap {d} = {}
  BY <1>3, <1>6 DEF MemFrame, ListsFrame, Inv, DmaInv, InFlight
<1>11. \A u \in Thread : th'[u].pc \in DmaPc => th'[u].d \notin {d}
  <2> SUFFICES ASSUME NEW u \in Thread, th'[u].pc \in DmaPc PROVE th'[u].d # d
    OBVIOUS
  <2>1. th[u].pc \in DmaPc /\ th'[u].d = th[u].d
    BY <1>8 DEF ThreadsFrame, Quiet
  <2>2. u # t
    <3>1. th \in [Thread -> ThreadRec]
      BY <1>3 DEF TypeOK
    <3>2. th'[t].pc = "map_put"
      BY <1>7, <3>1 DEF Goto, ThreadRec
    <3> QED BY <3>2
  <2> QED BY <1>3, <2>1, <2>2 DEF Inv, DmaInv, InFlight
<1> HIDE DEF d
<1> QED BY <1>4, <1>5, <1>6, <1>8, <1>9, <1>10, <1>11, FreeStep

(* bafs_ctrl_dma_unmap_mem on the error path of a group mapping preserves  *)
(* the invariant: the object is still live, or the step is an Oops.        *)
LEMMA UndoStep ==
  ASSUME Inv, NEW t \in Thread, MapUndo(t)
  PROVE  Inv'
<1> DEFINE mine == th[t].mine
           d == Head(mine)
           m == dma[d].mem
           s == [th[t] EXCEPT !.pc = "map_put", !.m = m, !.mine = Tail(mine)]
           r == [mem[m] EXCEPT !.dmas = @ \ {d}]
<1> USE DEF NeedsMem, NeedsLeft, DmaPc, RelPc, RelRet, dmaVars, procVars, ctxVars
<1>0. TypeRest /\ mem \in [Mem -> MemRec]
  BY DEF Inv, TypeOK, TypeRest
<1>1. /\ Runs(t, "map_undo") /\ mine # <<>> /\ UnmapDma({d}, m)
      /\ mem' = [mem EXCEPT ![m] = r] /\ th' = [th EXCEPT ![t] = s]
      /\ UNCHANGED pages
  BY DEF MapUndo
<1>2. /\ TypeOK /\ Locals /\ th[t].pc = "map_undo" /\ th[t] \in ThreadRec
      /\ LocalsOK(th[t]) /\ dma[d].heap # "freed"
  BY <1>1, RunsFacts
<1>3. mine \in Seq(Dma)
  BY <1>2 DEF ThreadRec
<1>4. /\ Tail(mine) \in Seq(Dma) /\ Elems(Tail(mine)) \subseteq Elems(mine)
      /\ d \in Elems(mine) /\ d \in Dma
  BY <1>1, <1>3, ElemsTail
<1>5. dma[d].heap # "unused" /\ m \in Mem
  BY <1>4 DEF Inv, DmaInv, DmaMade
<1>6. dma[d].heap = "live"
  <2>1. dma[d] \in DmaRec
    BY <1>2, <1>4 DEF TypeOK
  <2> QED BY <1>2, <1>5, <2>1 DEF DmaRec
<1>7. FreesDma({d})
  BY <1>1, <1>4, UnmapFrees
<1> DEFINE rest == Tail(mine)
<1> HIDE DEF rest, m
<1>8. ThreadsFrame /\ th'[t].pc = "map_put"
  <2>1. "map_put" \in Pc
    BY DEF Pc
  <2>2. /\ s \in ThreadRec
        /\ s.pc = "map_put" /\ s.m = m /\ s.f = th[t].f /\ s.mine = Tail(mine)
    BY <1>2, <1>4, <1>5, <2>1 DEF ThreadRec
  <2>3. LocalsOK(s) /\ Quiet(th[t], s)
    BY <1>2, <1>4, <1>5, <2>2 DEF LocalsOK, Quiet
  <2> HIDE DEF s
  <2> QED BY <1>1, <1>2, <2>2, <2>3, ThreadUpdate
<1>9. MemFrame /\ \A n \in Mem : mem'[n].dmas = IF n = m THEN mem[m].dmas \ {d} ELSE mem[n].dmas
  <2>1. mem[m] \in MemRec
    BY <1>0, <1>5
  <2>2. r \in MemRec /\ r.dmas = mem[m].dmas \ {d} /\ SameTable(r, mem[m])
    BY <2>1 DEF MemRec, SameTable, Gone
  <2>3. r.dmas \subseteq mem[m].dmas /\ SameTable(r, mem[m])
    BY <2>2
  <2> HIDE DEF r
  <2>4. MemFrame /\ \A n \in Mem : mem'[n] = IF n = m THEN r ELSE mem[n]
    BY <1>1, <1>2, <1>5, <2>2, <2>3, MemUpdate
  <2> QED BY <2>2, <2>4
<1>10. TypeRest'
  BY <1>0 DEF TypeRest, MapUndo
<1>11. \A n \in Mem : mem'[n].dmas \cap {d} = {}
  <2>1. \A n \in Mem : d \in mem[n].dmas => n = m
    BY DEF Inv, DmaInv, DmaListsSound, m
  <2> QED BY <1>9, <2>1
<1>12. \A u \in Thread : th'[u].pc \in DmaPc => th'[u].d \notin {d}
  BY <1>4, <1>8 DEF ThreadsFrame, Quiet, Inv, DmaInv, InFlight
<1> HIDE DEF d
<1> QED BY <1>1, <1>4, <1>6, <1>7, <1>8, <1>9, <1>10, <1>11, <1>12, FreeStep

(* Allocating a mapping object preserves the invariant. *)
LEMMA AllocStep ==
  ASSUME Inv, NEW t \in Thread, NEW d \in Dma, MapAlloc(t, d)
  PROVE  Inv'
<1> DEFINE m == th[t].m
           c == Head(th[t].left)
           r == [heap |-> "live", mem |-> m, ctrl |-> c, mapped |-> FALSE]
           s == [th[t] EXCEPT !.pc = "map_dma", !.d = d]
<1> USE DEF NeedsMem, NeedsLeft, DmaPc, RelPc, RelRet, dmaVars, procVars, ctxVars
<1>0. /\ TypeRest /\ dma \in [Dma -> DmaRec] /\ ctrlRef \in [Ctrl -> Int]
      /\ pages \in [Mem -> Nat] /\ mem \in [Mem -> MemRec] /\ th \in [Thread -> ThreadRec]
  BY DEF Inv, TypeOK, TypeRest
<1>1. /\ Runs(t, "map_alloc") /\ dma[d].heap = "unused" /\ dma' = [dma EXCEPT ![d] = r]
      /\ ctrlRef' = [ctrlRef EXCEPT ![c] = ctrlRef[c] + 1] /\ th' = [th EXCEPT ![t] = s]
      /\ UNCHANGED <<mem, pages>>
  BY DEF MapAlloc
<1>2. /\ TypeOK /\ Locals /\ th[t].pc = "map_alloc" /\ th[t] \in ThreadRec
      /\ LocalsOK(th[t]) /\ m \in Mem
  BY <1>1, RunsFacts
<1>3. c \in Ctrl
  <2>1. th[t].left \in Seq(Ctrl) /\ th[t].left # <<>>
    BY <1>2 DEF ThreadRec, LocalsOK
  <2> QED BY <2>1
<1> HIDE DEF c
<1>4. r \in DmaRec /\ r.heap = "live" /\ r.mem = m /\ r.ctrl = c
  BY <1>2, <1>3 DEF DmaRec
<1> HIDE DEF r
<1>5. dma' \in [Dma -> DmaRec] /\ \A e \in Dma : dma'[e] = IF e = d THEN r ELSE dma[e]
  BY <1>0, <1>1, <1>4
<1>6. /\ th' \in [Thread -> ThreadRec] /\ Locals'
      /\ \A u \in Thread : th'[u] = IF u = t THEN s ELSE th[u]
      /\ s.pc = "map_dma" /\ s.d = d /\ s.m = m /\ s.mine = th[t].mine
  <2>1. "map_dma" \in Pc
    BY DEF Pc
  <2>2. /\ s \in ThreadRec
        /\ s.pc = "map_dma" /\ s.m = m /\ s.f = th[t].f /\ s.left = th[t].left
        /\ s.d = d /\ s.mine = th[t].mine
    BY <1>2, <2>1 DEF ThreadRec
  <2>3. LocalsOK(s)
    BY <1>2, <2>2 DEF LocalsOK
  <2> HIDE DEF s
  <2> QED BY <1>1, <1>2, <2>2, <2>3, ThreadUpdate
<1> HIDE DEF s
<1>7. \A u \in Thread : th'[u].mine = th[u].mine
  BY <1>6
<1>8. \A u \in Thread : d \notin Elems(th[u].mine) /\ (th[u].pc \in DmaPc => th[u].d # d)
  BY <1>1 DEF Inv, DmaInv, DmaMade, InFlight
<1>9. \A n \in Mem : d \notin mem[n].dmas
  BY <1>1 DEF Inv, DmaInv, DmaListsSound
<1>10. DmaMade'
  <2>1. \A u \in Thread : Elems(th[u].mine) \subseteq Dma
    <3> SUFFICES ASSUME NEW u \in Thread PROVE Elems(th[u].mine) \subseteq Dma
      OBVIOUS
    <3>1. th[u] \in ThreadRec
      BY <1>0
    <3>2. th[u].mine \in Seq(Dma)
      BY <3>1 DEF ThreadRec
    <3> QED BY <3>2 DEF Elems
  <2>2. \A u \in Thread : \A e \in Elems(th'[u].mine) : dma'[e].heap # "unused"
    BY <1>4, <1>5, <1>7, <2>1 DEF Inv, DmaInv, DmaMade
  <2>3. \A e \in Dma : dma'[e].heap # "unused" => dma'[e].mem \in Mem /\ dma'[e].ctrl \in Ctrl
    BY <1>2, <1>3, <1>4, <1>5 DEF Inv, DmaInv, DmaMade
  <2> QED BY <2>2, <2>3 DEF DmaMade
<1>11. DmaListsSound'
  <2>1. \A n \in Mem : mem[n].dmas \subseteq Dma
    BY <1>0 DEF MemRec
  <2> QED BY <1>1, <1>5, <1>9, <2>1 DEF Inv, DmaInv, DmaListsSound
<1>12. InFlight'
  <2> SUFFICES ASSUME NEW u \in Thread, th'[u].pc \in DmaPc
               PROVE  /\ dma'[th'[u].d].heap = "live"
                      /\ dma'[th'[u].d].mem = th'[u].m
                      /\ \A n \in Mem : th'[u].d \notin mem'[n].dmas
                      /\ \A v \in Thread :
                           /\ th'[u].d \notin Elems(th'[v].mine)
                           /\ v # u /\ th'[v].pc \in DmaPc => th'[v].d # th'[u].d
    BY DEF InFlight
  <2>1. CASE u = t
    BY <1>1, <1>4, <1>5, <1>6, <1>7, <1>8, <1>9, <2>1
  <2>2. CASE u # t
    <3>1. th'[u] = th[u] /\ th[u].d \in Dma /\ th[u].d # d
      BY <1>2, <1>6, <1>8, <2>2 DEF Locals, LocalsOK
    <3>2. dma'[th'[u].d].heap = "live" /\ dma'[th'[u].d].mem = th'[u].m
      BY <1>5, <3>1 DEF Inv, DmaInv, InFlight
    <3>3. \A n \in Mem : th'[u].d \notin mem'[n].dmas
      BY <1>1, <3>1 DEF Inv, DmaInv, InFlight
    <3>4. \A v \in Thread : th'[u].d \notin Elems(th'[v].mine)
      BY <1>7, <3>1 DEF Inv, DmaInv, InFlight
    <3>5. \A v \in Thread : v # u /\ th'[v].pc \in DmaPc => th'[v].d # th'[u].d
      <4> SUFFICES ASSUME NEW v \in Thread, v # u, th'[v].pc \in DmaPc
                   PROVE  th'[v].d # th[u].d
        BY <3>1
      <4>1. CASE v = t
        BY <1>6, <3>1, <4>1
      <4>2. CASE v # t
        <5>1. th'[v] = th[v]
          BY <1>6, <4>2
        <5> QED BY <3>1, <5>1 DEF Inv, DmaInv, InFlight
      <4> QED BY <4>1, <4>2
    <3> QED BY <3>2, <3>3, <3>4, <3>5
  <2> QED BY <2>1, <2>2
<1>13. CtrlRefExact'
  <2> DEFINE Live(x) == {e \in Dma : dma[e].heap = "live" /\ dma[e].ctrl = x}
  <2>1. \A x \in Ctrl : ctrlRef[x] = Cardinality(Live(x)) /\ IsFiniteSet(Live(x))
    BY FS_Subset DEF Inv, DmaInv, CtrlRefExact
  <2>2. \A x \in Ctrl : {e \in Dma : dma'[e].heap = "live" /\ dma'[e].ctrl = x}
                        = IF x = c THEN Live(c) \cup {d} ELSE Live(x)
    BY <1>1, <1>4, <1>5
  <2>3. d \notin Live(c)
    BY <1>1
  <2> HIDE DEF Live
  <2>4. Cardinality(Live(c) \cup {d}) = Cardinality(Live(c)) + 1
    BY <1>3, <2>1, <2>3, FS_AddElement
  <2>5. \A x \in Ctrl : ctrlRef'[x] = IF x = c THEN ctrlRef[c] + 1 ELSE ctrlRef[x]
    BY <1>0, <1>1
  <2> QED BY <1>3, <2>1, <2>2, <2>4, <2>5 DEF CtrlRefExact
<1>14. TypeOK'
  <2>1. ctrlRef' \in [Ctrl -> Int]
    BY <1>0, <1>1, <1>3
  <2>2. TypeRest'
    BY <1>0 DEF TypeRest, MapAlloc
  <2> QED BY <1>0, <1>1, <1>5, <1>6, <2>1, <2>2 DEF TypeRest, TypeOK
<1>15. TableInv'
  BY <1>1 DEF Inv, TableInv
<1> QED BY <1>6, <1>10, <1>11, <1>12, <1>13, <1>14, <1>15 DEF Inv, DmaInv

(* Linking a mapping object preserves the invariant: it passes from the    *)
(* call that filled it in to the dma_list of its registration.             *)
LEMMA LinkStep ==
  ASSUME Inv, NEW t \in Thread, MapLink(t)
  PROVE  Inv'
<1> DEFINE m == th[t].m
           d == th[t].d
           left == Tail(th[t].left)
           mine == <<d>> \o th[t].mine
           pc == IF left = <<>> THEN "map_copy" ELSE "map_lock"
           s == [th[t] EXCEPT !.pc = pc, !.left = left, !.mine = mine]
           r == [mem[m] EXCEPT !.dmas = @ \cup {d}]
<1> USE DEF NeedsMem, NeedsLeft, DmaPc, RelPc, RelRet, dmaVars, procVars, ctxVars
<1>0. /\ TypeRest /\ dma \in [Dma -> DmaRec] /\ ctrlRef \in [Ctrl -> Int]
      /\ pages \in [Mem -> Nat] /\ mem \in [Mem -> MemRec] /\ th \in [Thread -> ThreadRec]
  BY DEF Inv, TypeOK, TypeRest
<1>1. /\ Runs(t, "map_link") /\ mem' = [mem EXCEPT ![m] = r]
      /\ th' = [th EXCEPT ![t] = s] /\ UNCHANGED <<pages, dma, ctrlRef>>
  BY DEF MapLink
<1>2. /\ TypeOK /\ Locals /\ th[t].pc = "map_link" /\ th[t] \in ThreadRec
      /\ LocalsOK(th[t]) /\ m \in Mem
  BY <1>1, RunsFacts
<1>3. /\ d \in Dma /\ th[t].mine \in Seq(Dma) /\ th[t].left \in Seq(Ctrl)
      /\ th[t].left # <<>>
  BY <1>2 DEF ThreadRec, LocalsOK
<1>4. left \in Seq(Ctrl)
  BY <1>3
<1>5. mine \in Seq(Dma) /\ Elems(mine) \subseteq {d} \cup Elems(th[t].mine)
  BY <1>3, ElemsCons
<1>6. pc \in {"map_copy", "map_lock"} /\ (pc = "map_lock" => left # <<>>)
  OBVIOUS
<1>7. pc \in Pc
  BY <1>6 DEF Pc
<1> HIDE DEF pc, left, mine
<1>8. /\ s \in ThreadRec
      /\ s.pc = pc /\ s.m = m /\ s.f = th[t].f /\ s.left = left /\ s.mine = mine
  BY <1>2, <1>4, <1>5, <1>7 DEF ThreadRec
<1>9. LocalsOK(s)
  BY <1>2, <1>6, <1>8 DEF LocalsOK
<1> HIDE DEF s
<1>10. /\ th' \in [Thread -> ThreadRec] /\ Locals'
       /\ \A u \in Thread : th'[u] = IF u = t THEN s ELSE th[u]
  BY <1>1, <1>2, <1>8, <1>9, ThreadUpdate
<1>11. /\ mem' \in [Mem -> MemRec]
       /\ \A n \in Mem : /\ mem'[n].dmas = IF n = m THEN mem[m].dmas \cup {d} ELSE mem[n].dmas
                         /\ SameTable(mem'[n], mem[n])
  <2>1. mem[m] \in MemRec
    BY <1>0, <1>2
  <2>2. r \in MemRec /\ r.dmas = mem[m].dmas \cup {d} /\ SameTable(r, mem[m])
    BY <1>3, <2>1 DEF MemRec, SameTable, Gone
  <2> HIDE DEF r
  <2>3. mem' \in [Mem -> MemRec] /\ \A n \in Mem : mem'[n] = IF n = m THEN r ELSE mem[n]
    BY <1>1, <1>2, <2>2, MemUpdate
  <2> QED BY <2>2, <2>3 DEF SameTable
<1>12. /\ dma[d].heap = "live" /\ dma[d].mem = m
       /\ \A u \in Thread : u # t /\ th[u].pc \in DmaPc => th[u].d # d
  BY <1>2 DEF Inv, DmaInv, InFlight
<1>13. DmaMade'
  <2>1. \A u \in Thread : \A e \in Elems(th[u].mine) : dma[e].heap # "unused"
    BY DEF Inv, DmaInv, DmaMade
  <2>2. \A u \in Thread : \A e \in Elems(th'[u].mine) : dma[e].heap # "unused"
    BY <1>5, <1>8, <1>10, <1>12, <2>1
  <2> QED BY <1>1, <2>2 DEF Inv, DmaInv, DmaMade
<1>14. DmaListsSound'
  BY <1>1, <1>11, <1>12 DEF Inv, DmaInv, DmaListsSound
<1>15. InFlight'
  <2> SUFFICES ASSUME NEW u \in Thread, th'[u].pc \in DmaPc
               PROVE  /\ dma'[th'[u].d].heap = "live"
                      /\ dma'[th'[u].d].mem = th'[u].m
                      /\ \A n \in Mem : th'[u].d \notin mem'[n].dmas
                      /\ \A v \in Thread :
                           /\ th'[u].d \notin Elems(th'[v].mine)
                           /\ v # u /\ th'[v].pc \in DmaPc => th'[v].d # th'[u].d
    BY DEF InFlight
  <2>1. \A v \in Thread : th'[v].pc \in DmaPc => v # t /\ th'[v] = th[v]
    BY <1>6, <1>8, <1>10
  <2>2. th'[u] = th[u] /\ th[u].d # d
    BY <1>12, <2>1
  <2>3. /\ dma[th[u].d].heap = "live" /\ dma[th[u].d].mem = th[u].m
        /\ \A n \in Mem : th[u].d \notin mem[n].dmas
        /\ \A v \in Thread : /\ th[u].d \notin Elems(th[v].mine)
                             /\ v # u /\ th[v].pc \in DmaPc => th[v].d # th[u].d
    BY <2>2 DEF Inv, DmaInv, InFlight
  <2>4. \A v \in Thread : th'[u].d \notin Elems(th'[v].mine)
    BY <1>5, <1>8, <1>10, <2>2, <2>3
  <2>5. \A v \in Thread : v # u /\ th'[v].pc \in DmaPc => th'[v].d # th'[u].d
    BY <2>1, <2>2, <2>3
  <2>6. \A n \in Mem : th'[u].d \notin mem'[n].dmas
    BY <1>11, <2>2, <2>3
  <2> QED BY <1>1, <2>2, <2>3, <2>4, <2>5, <2>6
<1>16. CtrlRefExact'
  BY <1>1 DEF Inv, DmaInv, CtrlRefExact
<1>17. TypeOK'
  <2>1. TypeRest'
    BY <1>0 DEF TypeRest, MapLink
  <2> QED BY <1>0, <1>1, <1>10, <1>11, <2>1 DEF TypeRest, TypeOK
<1>18. TableInv'
  BY <1>1, <1>11 DEF Inv, TableInv, TableOK, SameTable
<1> QED BY <1>10, <1>13, <1>14, <1>15, <1>16, <1>17, <1>18 DEF Inv, DmaInv

(* The other steps of a DMA mapping call preserve the invariant. *)
LEMMA MapSteps ==
  ASSUME Inv, NEW t \in Thread,
         MapAllocFails(t) \/ MapDma(t) \/ MapPut(t) \/ MapReturn(t) \/ MapCopyFails(t)
  PROVE  Inv'
<1> DEFINE m == th[t].m
<1> USE DEF NeedsMem, NeedsLeft, DmaPc, RelPc, RelRet, dmaVars, procVars, ctxVars
<1>0. TypeRest /\ mem \in [Mem -> MemRec]
  BY DEF Inv, TypeOK, TypeRest
<1>1. CASE MapAllocFails(t)
  <2>1. Runs(t, "map_alloc") /\ Goto(t, "map_put") /\ "map_put" \in Pc
    BY <1>1 DEF MapAllocFails, Pc
  <2>2. TypeOK /\ Locals /\ th[t].pc = "map_alloc" /\ m \in Mem
    BY <2>1, RunsFacts
  <2>3. ThreadsFrame /\ MemFrame
    BY <1>1, <2>1, <2>2, GotoFrame, NoMem DEF MapAllocFails
  <2>4. TypeRest'
    BY <1>0, <1>1 DEF TypeRest, MapAllocFails
  <2> QED BY <1>1, <2>3, <2>4, FrameStep DEF MapAllocFails
<1>2. CASE MapDma(t)
  <2> DEFINE d == th[t].d
             b == mem[m].table
             r == [dma[d] EXCEPT !.mapped = b]
  <2>1. /\ Runs(t, "map_dma") /\ Goto(t, "map_link") /\ "map_link" \in Pc
        /\ dma' = [dma EXCEPT ![d] = r]
    BY <1>2 DEF MapDma, Pc
  <2>2. /\ TypeOK /\ Locals /\ th[t].pc = "map_dma" /\ m \in Mem /\ LocalsOK(th[t])
        /\ mem[m] \in MemRec
    BY <2>1, RunsFacts
  <2>3. d \in Dma /\ th[t].left # <<>> /\ b \in BOOLEAN
    BY <2>2 DEF LocalsOK, MemRec
  <2>4. dma \in [Dma -> DmaRec] /\ dma[d] \in DmaRec
    BY <2>2, <2>3 DEF TypeOK
  <2> HIDE DEF b
  <2>5. /\ r \in DmaRec /\ r.heap = dma[d].heap /\ r.mem = dma[d].mem
        /\ r.ctrl = dma[d].ctrl
    BY <2>3, <2>4 DEF DmaRec
  <2> HIDE DEF r
  <2>6. dma' \in [Dma -> DmaRec] /\ \A e \in Dma : dma'[e] = IF e = d THEN r ELSE dma[e]
    BY <2>1, <2>4, <2>5
  <2>7. SameDma
    BY <1>2, <2>5, <2>6 DEF SameDma, MapDma
  <2>8. ThreadsFrame
    BY <2>1, <2>2, <2>3, GotoFrame
  <2>9. MemFrame
    BY <1>2, NoMem DEF MapDma
  <2>10. TypeRest'
    BY <1>0, <1>2 DEF TypeRest, MapDma
  <2> QED BY <1>2, <2>7, <2>8, <2>9, <2>10, SameStep DEF MapDma
<1>3. CASE MapPut(t)
  <2>1. Runs(t, "map_put") /\ MemPut(t, m, "map_undo")
    BY <1>3 DEF MapPut
  <2>2. TypeOK /\ Locals /\ th[t].pc = "map_put" /\ m \in Mem /\ mem[m].ref > 0
    BY <2>1, RunsFacts
  <2>3. MemFrame /\ ThreadsFrame
    BY <2>1, <2>2, PutFrame
  <2>4. TypeRest'
    BY <1>0, <1>3 DEF TypeRest, MapPut
  <2> QED BY <1>3, <2>3, <2>4, FrameStep DEF MapPut
<1>4. CASE MapReturn(t)
  <2>1. TypeOK /\ Locals /\ Return(t)
    BY <1>4 DEF Inv, MapReturn
  <2>2. ThreadsFrame /\ MemFrame
    BY <1>4, <2>1, ReturnFrame, NoMem DEF MapReturn
  <2>3. TypeRest'
    BY <1>0, <1>4 DEF TypeRest, MapReturn
  <2> QED BY <1>4, <2>2, <2>3, FrameStep DEF MapReturn
<1>5. CASE MapCopyFails(t)
  <2>1. Runs(t, "map_copy") /\ Goto(t, "map_undo") /\ "map_undo" \in Pc
    BY <1>5 DEF MapCopyFails, Pc
  <2>2. TypeOK /\ Locals /\ th[t].pc = "map_copy"
    BY <2>1, RunsFacts
  <2>3. ThreadsFrame /\ MemFrame
    BY <1>5, <2>1, <2>2, GotoFrame, NoMem DEF MapCopyFails
  <2>4. TypeRest'
    BY <1>0, <1>5 DEF TypeRest, MapCopyFails
  <2> QED BY <1>5, <2>3, <2>4, FrameStep DEF MapCopyFails
<1> QED BY <1>1, <1>2, <1>3, <1>4, <1>5

----------------------------------------------------------------------------
(* The beginning of each call. *)

(* A thread that was idle starts a call that needs nothing yet but a file. *)
LEMMA StartFrame ==
  ASSUME TypeOK, Locals, NEW t \in Thread, NEW s \in ThreadRec, LocalsOK(s),
         s.pc \notin DmaPc, s.mine = <<>>, th' = [th EXCEPT ![t] = s]
  PROVE  ThreadsFrame
<1>1. Quiet(th[t], s)
  BY DEF Quiet, Elems
<1> QED BY <1>1, ThreadUpdate

(* Starting a call preserves the invariant. *)
LEMMA ClientSteps ==
  ASSUME Inv, NEW t \in Thread, Client(t)
  PROVE  Inv'
<1> USE DEF NeedsMem, NeedsLeft, DmaPc, RelPc, RelRet, dmaVars, procVars, ctxVars
<1>0. /\ TypeRest /\ mem \in [Mem -> MemRec] /\ TypeOK /\ Locals
      /\ pages \in [Mem -> Nat]
  BY DEF Inv, TypeOK, TypeRest
<1>a. Idle \in ThreadRec /\ Idle.mine = <<>>
  BY DEF Idle, ThreadRec, Pc
<1>b. UnusedMem \in MemRec /\ UnusedMem.dmas = {} /\ ~UnusedMem.table
      /\ UnusedMem.state = "STALE"
  BY DEF UnusedMem, MemRec, Heap, Id
<1>c. /\ {"reg_insert", "pin_get", "map_lock", "unmap_do", "close_do"} \subseteq Pc
      /\ {"reg", "pin", "map", "unmap", "close"} \subseteq Op
  BY DEF Pc, Op
<1>1. ASSUME NEW f \in File, NEW l \in Loc, NEW m \in Mem, RegStart(t, f, l, m)
      PROVE  Inv'
  <2> DEFINE r == [UnusedMem EXCEPT !.heap = "live", !.ref = 1, !.loc = l]
             s == [Idle EXCEPT !.op = "reg", !.pc = "reg_insert", !.f = f, !.m = m]
  <2>1. mem' = [mem EXCEPT ![m] = r] /\ th' = [th EXCEPT ![t] = s]
    BY <1>1 DEF RegStart
  <2>2. r \in MemRec /\ r.dmas = {} /\ SameTable(r, mem[m])
    BY <1>b DEF MemRec, Heap, SameTable
  <2>3. /\ s \in ThreadRec /\ s.pc = "reg_insert" /\ s.f = f /\ s.m = m /\ s.mine = <<>>
    BY <1>a, <1>c DEF ThreadRec
  <2>4. LocalsOK(s)
    BY <2>3 DEF LocalsOK
  <2> HIDE DEF r, s
  <2>5. MemFrame
    BY <1>0, <2>1, <2>2, MemUpdate
  <2>6. ThreadsFrame
    BY <1>0, <2>1, <2>3, <2>4, StartFrame
  <2>7. TypeRest'
    BY <1>0, <1>1 DEF TypeRest, RegStart
  <2> QED BY <1>1, <2>5, <2>6, <2>7, FrameStep DEF RegStart
<1>2. ASSUME NEW f \in File, NEW p \in Handle, NEW a \in Addr, PinStart(t, f, p, a)
      PROVE  Inv'
  <2> DEFINE m == MemOfPgoff(p)
             s == [Idle EXCEPT !.op = "pin", !.pc = "pin_get", !.f = f, !.a = a, !.m = m]
  <2>1. th' = [th EXCEPT ![t] = s] /\ m # NULL
    BY <1>2 DEF PinStart
  <2>2. m \in Mem
    <3>1. p - 1 \in Id
      BY DEF Handle, Id
    <3>2. memXa[p - 1] \in Mem \cup {NULL}
      BY <1>0, <3>1 DEF TypeRest
    <3> QED BY <2>1, <3>2 DEF MemOfPgoff
  <2> HIDE DEF m
  <2>3. s \in ThreadRec /\ s.pc = "pin_get" /\ s.f = f /\ s.m = m /\ s.mine = <<>>
    BY <1>a, <1>c, <2>2 DEF ThreadRec
  <2>4. LocalsOK(s)
    BY <2>2, <2>3 DEF LocalsOK
  <2> HIDE DEF s
  <2>5. ThreadsFrame /\ MemFrame
    BY <1>0, <1>2, <2>1, <2>3, <2>4, StartFrame, NoMem DEF PinStart
  <2>6. TypeRest'
    BY <1>0, <1>2 DEF TypeRest, PinStart
  <2> QED BY <1>2, <2>5, <2>6, FrameStep DEF PinStart
<1>3. ASSUME NEW f \in File, NEW a \in Addr \cup {NULL}, MapStart(t, f, a)
      PROVE  Inv'
  <2> DEFINE left == CtrlsOf[f]
             s == [Idle EXCEPT !.op = "map", !.pc = "map_lock", !.f = f, !.a = a,
                               !.left = left]
  <2>1. th' = [th EXCEPT ![t] = s] /\ left # <<>> /\ left \in Seq(Ctrl)
    BY <1>3 DEF MapStart
  <2> HIDE DEF left
  <2>2. s \in ThreadRec /\ s.pc = "map_lock" /\ s.f = f /\ s.left = left /\ s.mine = <<>>
    BY <1>a, <1>c, <2>1 DEF ThreadRec
  <2>3. LocalsOK(s)
    BY <2>1, <2>2 DEF LocalsOK
  <2> HIDE DEF s
  <2>4. ThreadsFrame /\ MemFrame
    BY <1>0, <1>3, <2>1, <2>2, <2>3, StartFrame, NoMem DEF MapStart
  <2>5. TypeRest'
    BY <1>0, <1>3 DEF TypeRest, MapStart
  <2> QED BY <1>3, <2>4, <2>5, FrameStep DEF MapStart
<1>4. ASSUME NEW a \in Addr, UnmapStart(t, a)
      PROVE  Inv'
  <2> DEFINE v == vma[a]
             s == [Idle EXCEPT !.op = "unmap", !.pc = "unmap_do", !.f = v.f, !.a = a,
                               !.m = v.m]
  <2>1. th' = [th EXCEPT ![t] = s] /\ v # NoVma
    BY <1>4 DEF UnmapStart
  <2>2. v \in [m : Mem, f : File]
    BY <1>0, <2>1 DEF TypeRest
  <2>3. v.m \in Mem /\ v.f \in File
    BY <2>2
  <2> HIDE DEF v
  <2>4. s \in ThreadRec /\ s.pc = "unmap_do" /\ s.f = v.f /\ s.m = v.m /\ s.mine = <<>>
    BY <1>a, <1>c, <2>3 DEF ThreadRec
  <2>5. LocalsOK(s)
    BY <2>3, <2>4 DEF LocalsOK
  <2> HIDE DEF s
  <2>6. ThreadsFrame /\ MemFrame
    BY <1>0, <1>4, <2>1, <2>4, <2>5, StartFrame, NoMem DEF UnmapStart
  <2>7. TypeRest'
    BY <1>0, <1>4 DEF TypeRest, UnmapStart
  <2> QED BY <1>4, <2>6, <2>7, FrameStep DEF UnmapStart
<1>5. ASSUME NEW f \in File, CloseStart(t, f)
      PROVE  Inv'
  <2> DEFINE s == [Idle EXCEPT !.op = "close", !.pc = "close_do", !.f = f]
  <2>1. th' = [th EXCEPT ![t] = s]
    BY <1>5 DEF CloseStart
  <2>2. s \in ThreadRec /\ s.pc = "close_do" /\ s.f = f /\ s.mine = <<>>
    BY <1>a, <1>c DEF ThreadRec
  <2>3. LocalsOK(s)
    BY <2>2 DEF LocalsOK
  <2> HIDE DEF s
  <2>4. ThreadsFrame /\ MemFrame
    BY <1>0, <1>5, <2>1, <2>2, <2>3, StartFrame, NoMem DEF CloseStart
  <2>5. file' \in [File -> {"open", "closing", "closed"}]
    BY <1>0, <1>5 DEF TypeRest, CloseStart
  <2>6. TypeRest'
    BY <1>0, <1>5, <2>5 DEF TypeRest, CloseStart
  <2> QED BY <1>5, <2>4, <2>6, FrameStep DEF CloseStart
<1> QED BY <1>1, <1>2, <1>3, <1>4, <1>5 DEF Client

----------------------------------------------------------------------------
(* Steps that are not part of a call. *)

(* The GPU callback, the end of a grace period, a split of a vma and a     *)
(* memory error preserve the invariant.  The callback gives back the page  *)
(* table only if the registration still has one.                           *)
LEMMA OtherSteps ==
  ASSUME Inv,
         \/ \E m \in Mem : CbBegin(m) \/ CbRun(m) \/ CbOops(m) \/ GraceEnd(m)
         \/ \E t \in Thread : Oops(t)
         \/ \E a, b \in Addr : SplitVma(a, b)
  PROVE  Inv'
<1> USE DEF dmaVars, procVars, ctxVars
<1>0. /\ TypeRest /\ mem \in [Mem -> MemRec] /\ TypeOK /\ TableInv
      /\ pages \in [Mem -> Nat] /\ dma \in [Dma -> DmaRec]
  BY DEF Inv, TypeOK, TypeRest
<1>1. th' = th => ThreadsFrame
  BY DEF ThreadsFrame, Quiet, Inv, TypeOK, Locals
<1>2. ASSUME NEW m \in Mem, CbBegin(m) PROVE Inv'
  <2>1. TypeRest'
    BY <1>0, <1>2 DEF TypeRest, CbBegin
  <2> QED BY <1>1, <1>2, <2>1, NoMem, FrameStep DEF CbBegin
<1>3. ASSUME NEW m \in Mem, CbRun(m) PROVE Inv'
  <2> DEFINE state == IF CbActs(m) THEN "DEAD_CB" ELSE mem[m].state
             table == mem[m].table /\ ~CbActs(m)
             r == [mem[m] EXCEPT !.state = state, !.table = table]
             k == IF CbActs(m) /\ mem[m].table THEN pages[m] - 1 ELSE pages[m]
             q(d) == [dma[d] EXCEPT !.mapped = FALSE]
  <2>1. /\ mem' = [mem EXCEPT ![m] = r] /\ pages' = [pages EXCEPT ![m] = k]
        /\ dma' = [d \in Dma |-> IF CbActs(m) /\ d \in mem[m].dmas THEN q(d) ELSE dma[d]]
        /\ UNCHANGED <<ctrlRef, th>>
    BY <1>3 DEF CbRun
  <2>2. mem[m] \in MemRec
    BY <1>0
  <2>3. state \in {"STALE", "LIVE", "DEAD", "DEAD_CB"} /\ table \in BOOLEAN
    BY <2>2 DEF MemRec
  <2>4. /\ k \in Nat /\ (table => k > 0 \/ state = "DEAD")
        /\ state = "DEAD" => mem[m].heap \in Gone
    BY <1>0 DEF TableInv, TableOK, CbActs
  <2> HIDE DEF state, table, k
  <2>5. /\ r \in MemRec /\ r.dmas = mem[m].dmas
        /\ r.table = table /\ r.state = state /\ r.heap = mem[m].heap
    BY <2>2, <2>3 DEF MemRec
  <2> HIDE DEF r
  <2>a. TableOK(r, k)
    BY <2>4, <2>5 DEF TableOK
  <2>6. \A d \in Dma : /\ q(d) \in DmaRec /\ q(d).heap = dma[d].heap
                       /\ q(d).mem = dma[d].mem /\ q(d).ctrl = dma[d].ctrl
    <3> SUFFICES ASSUME NEW d \in Dma
                 PROVE  /\ q(d) \in DmaRec /\ q(d).heap = dma[d].heap
                        /\ q(d).mem = dma[d].mem /\ q(d).ctrl = dma[d].ctrl
      OBVIOUS
    <3>1. dma[d] \in DmaRec
      BY <1>0
    <3> QED BY <3>1 DEF DmaRec
  <2> HIDE DEF q
  <2>7. dma' \in [Dma -> DmaRec]
    BY <1>0, <2>1, <2>6
  <2>8. SameDma
    BY <2>1, <2>6, <2>7 DEF SameDma
  <2>9. TypeRest'
    BY <1>0, <1>3 DEF TypeRest, CbRun
  <2> QED BY <1>1, <2>1, <2>4, <2>5, <2>a, <2>8, <2>9, TableStep
<1>4. ASSUME NEW m \in Mem, CbOops(m) PROVE Inv'
  <2>1. TypeRest'
    BY <1>0, <1>4 DEF TypeRest, CbOops, Fault
  <2> QED BY <1>1, <1>4, <2>1, NoMem, FrameStep DEF CbOops
<1>5. ASSUME NEW m \in Mem, GraceEnd(m) PROVE Inv'
  <2> DEFINE r == [mem[m] EXCEPT !.heap = "freed"]
  <2>1. mem' = [mem EXCEPT ![m] = r] /\ mem[m] \in MemRec
    BY <1>0, <1>5 DEF GraceEnd
  <2>2. r \in MemRec /\ r.dmas = mem[m].dmas /\ SameTable(r, mem[m])
    BY <2>1 DEF MemRec, SameTable, Gone, Heap
  <2> HIDE DEF r
  <2>3. MemFrame
    BY <1>0, <2>1, <2>2, MemRecFrame
  <2>4. TypeRest'
    BY <1>0, <1>5 DEF TypeRest, GraceEnd
  <2> QED BY <1>1, <1>5, <2>3, <2>4, FrameStep DEF GraceEnd
<1>6. ASSUME NEW t \in Thread, Oops(t) PROVE Inv'
  <2>1. fault' \in Fault
    BY <1>6 DEF Oops, Fault
  <2>2. TypeRest'
    BY <1>0, <1>6, <2>1 DEF TypeRest, Oops
  <2> QED BY <1>1, <1>6, <2>2, NoMem, FrameStep DEF Oops
<1>7. ASSUME NEW a \in Addr, NEW b \in Addr, SplitVma(a, b) PROVE Inv'
  <2>1. TypeRest'
    BY <1>0, <1>7 DEF TypeRest, SplitVma
  <2> QED BY <1>1, <1>7, <2>1, NoMem, FrameStep DEF SplitVma
<1> QED BY <1>2, <1>3, <1>4, <1>5, <1>6, <1>7

----------------------------------------------------------------------------
(* Theorems. *)

(* Every step preserves the invariant. *)
LEMMA InvNext == Inv /\ [Next]_vars => Inv'
<1> SUFFICES ASSUME Inv, [Next]_vars PROVE Inv'
  OBVIOUS
<1>1. ASSUME NEW t \in Thread, Step(t) PROVE Inv'
  <2>1. CASE \/ RegInsert(t) \/ RegInsertFails(t) \/ RegCopy(t) \/ RegCopyFails(t)
             \/ RegErase(t)
    BY <2>1, RegSteps
  <2>2. CASE PinGet(t) \/ PinDo(t) \/ PinDoFails(t) \/ PinPut(t) \/ PinReturn(t)
    BY <2>2, PinSteps
  <2>3. CASE RelUnlink(t) \/ RelFree(t) \/ RelCtx(t)
    BY <2>3, RelSteps
  <2>4. CASE UnmapDo(t) \/ UnmapPut(t) \/ UnmapReturn(t)
    BY <2>4, UnmapSteps
  <2>5. CASE CloseDo(t) \/ CloseReturn(t)
    BY <2>5, CloseSteps
  <2>6. CASE MapLock(t) \/ WalkMatch(t) \/ WalkSkip(t) \/ WalkPut(t) \/ WalkEnd(t)
    BY <2>6, WalkSteps
  <2>7. ASSUME NEW d \in Dma, MapAlloc(t, d) PROVE Inv'
    BY <2>7, AllocStep
  <2>8. CASE MapAllocFails(t) \/ MapDma(t) \/ MapPut(t) \/ MapReturn(t) \/ MapCopyFails(t)
    BY <2>8, MapSteps
  <2>9. CASE MapDmaFails(t) \/ MapAddrsFail(t)
    BY <2>9, MapFailSteps
  <2>10. CASE MapLink(t)
    BY <2>10, LinkStep
  <2>11. CASE MapUndo(t)
    BY <2>11, UndoStep
  <2> QED BY <1>1, <2>1, <2>2, <2>3, <2>4, <2>5, <2>6, <2>7, <2>8, <2>9, <2>10, <2>11
          DEF Step
<1>2. ASSUME NEW t \in Thread, Client(t) PROVE Inv'
  BY <1>2, ClientSteps
<1>3. CASE \/ \E m \in Mem : CbBegin(m) \/ CbRun(m) \/ CbOops(m) \/ GraceEnd(m)
           \/ \E t \in Thread : Oops(t)
           \/ \E a, b \in Addr : SplitVma(a, b)
  BY <1>3, OtherSteps
<1>4. CASE UNCHANGED vars
  <2>1. UNCHANGED <<th, mem, pages, dmaVars>> /\ TypeRest'
    BY <1>4 DEF vars, ctxVars, dmaVars, procVars, Inv, TypeOK, TypeRest
  <2>2. ThreadsFrame
    BY <2>1 DEF ThreadsFrame, Quiet, Inv, TypeOK, Locals
  <2> QED BY <2>1, <2>2, NoMem, FrameStep
<1> QED BY <1>1, <1>2, <1>3, <1>4 DEF Next, Halted

(* The invariant holds in every reachable state. *)
LEMMA InvAlways == Spec => []Inv
BY InitInv, InvNext, PTL DEF Spec

(* Type correctness: in particular no reference count of the context or of *)
(* a registration and no count of page tables ever falls below zero,       *)
(* whatever calls overlap and whatever the process does.                   *)
THEOREM TypeCorrect == Spec => []TypeOK
<1>1. Inv => TypeOK
  BY DEF Inv
<1> QED BY <1>1, InvAlways, PTL

(* The references DMA mappings hold on a controller are exactly as many as *)
(* there are live mapping objects for it, through every interleaving of    *)
(* group mappings, their error paths, munmap and the GPU callback.         *)
THEOREM ControllerCountExact == Spec => []CtrlRefExact
<1>1. Inv => CtrlRefExact
  BY DEF Inv, DmaInv
<1> QED BY <1>1, InvAlways, PTL

(* A dma_list never holds an object that unmap_dma has freed, nor one that *)
(* belongs to another registration.                                        *)
THEOREM ListsSound == Spec => []DmaListsSound
<1>1. Inv => DmaListsSound
  BY DEF Inv, DmaInv
<1> QED BY <1>1, InvAlways, PTL

(* __bafs_mem_release and the GPU callback never leave a registration with *)
(* a pointer to a page table that was given back, and never give one back  *)
(* twice.                                                                  *)
THEOREM TablesAlwaysBacked == Spec => []TablesBacked
<1>1. Inv => TablesBacked
  BY DEF Inv, TableInv, TableOK, TablesBacked
<1> QED BY <1>1, InvAlways, PTL

----------------------------------------------------------------------------
(* What each step does, field by field. *)

(* The other threads and the locals of t stay. *)
Keeps(t) ==
  /\ \A u \in Thread \ {t} : th'[u] = th[u]
  /\ th'[t].op = th[t].op /\ th'[t].m = th[t].m /\ th'[t].d = th[t].d
  /\ th'[t].f = th[t].f /\ th'[t].a = th[t].a
  /\ th'[t].rest = th[t].rest /\ th'[t].mine = th[t].mine

(* t goes on from one step to the next. *)
Moves(t, from, to) ==
  Keeps(t) /\ th[t].pc = from /\ th'[t].pc = to /\ th'[t].ret = th[t].ret

(* t begins a call. *)
Starts(t, o, pc, f, a, m) ==
  /\ \A u \in Thread \ {t} : th'[u] = th[u]
  /\ th[t].pc = "idle"
  /\ th'[t].op = o /\ th'[t].pc = pc /\ th'[t].f = f /\ th'[t].a = a /\ th'[t].m = m
  /\ th'[t].mine = <<>>
  /\ \A u \in Thread \ {t} : th[u].op # "none" => {o, th[u].op} \in Overlap
  /\ (\E n \in Mem : cb[n] = "spinning") => {o, "cb"} \in Overlap

(* t returns to user space. *)
Ends(t, from) ==
  /\ \A u \in Thread \ {t} : th'[u] = th[u]
  /\ th[t].pc = from
  /\ th'[t].op = "none" /\ th'[t].pc = "idle" /\ th'[t].m = NULL /\ th'[t].f = NULL
  /\ th'[t].mine = <<>>

Only(m) == \A n \in Mem \ {m} : mem'[n] = mem[n]

SameUse(m) ==
  /\ mem'[m].heap = mem[m].heap /\ mem'[m].state = mem[m].state
  /\ mem'[m].loc = mem[m].loc /\ mem'[m].vaddr = mem[m].vaddr
  /\ mem'[m].table = mem[m].table

SameCounts(m) == mem'[m].ref = mem[m].ref /\ mem'[m].dmas = mem[m].dmas

SameId(m) == mem'[m].id = mem[m].id

(* The reference count of m becomes k. *)
RefTo(m, k) ==
  /\ Only(m) /\ mem'[m].ref = k /\ mem'[m].dmas = mem[m].dmas /\ SameUse(m) /\ SameId(m)

(* The memory of m is given back, and nothing else of it changes. *)
HeapTo(m, h) ==
  /\ Only(m) /\ mem'[m].heap = h /\ SameCounts(m) /\ SameId(m)
  /\ mem'[m].state = mem[m].state /\ mem'[m].loc = mem[m].loc
  /\ mem'[m].vaddr = mem[m].vaddr /\ mem'[m].table = mem[m].table

(* t puts a reference on its registration, and releases it with the last. *)
Puts(t, from, next) ==
  /\ Keeps(t) /\ th[t].pc = from /\ th[t].m \in Mem
  /\ mem[th[t].m].ref > 0 /\ mem[th[t].m].heap # "freed"
  /\ RefTo(th[t].m, mem[th[t].m].ref - 1)
  /\ \/ mem[th[t].m].ref = 1 /\ th'[t].pc = "rel_unlink" /\ th'[t].ret = next
     \/ mem[th[t].m].ref > 1 /\ th'[t].pc = next /\ th'[t].ret = th[t].ret

RegStartEff(t, f, l, m) ==
  /\ Starts(t, "reg", "reg_insert", f, NULL, m)
  /\ file[f] = "open" /\ mem[m].heap = "unused"
  /\ Only(m)
  /\ mem'[m].heap = "live" /\ mem'[m].ref = 1 /\ mem'[m].loc = l
  /\ mem'[m].state = "STALE" /\ mem'[m].vaddr = NULL /\ ~mem'[m].table
  /\ mem'[m].dmas = {}
  /\ ctxRef' = ctxRef + 1
  /\ UNCHANGED <<ctxLock, memList, memXa, pages, dma, ctrlRef, vma, mmapLock, file, known,
                 cb, fault>>

RegInsertEff(t) ==
  /\ Moves(t, "reg_insert", "reg_copy")
  /\ th[t].m \in Mem /\ ctxLock = NULL
  /\ \E i \in Id : /\ memXa[i] = NULL /\ memXa'[i] = th[t].m
                   /\ \A j \in Id \ {i} : memXa'[j] = memXa[j]
                   /\ mem'[th[t].m].id = i
  /\ memList' = memList \cup {th[t].m}
  /\ Only(th[t].m) /\ SameUse(th[t].m) /\ SameCounts(th[t].m)
  /\ UNCHANGED <<ctxRef, ctxLock, pages, dma, ctrlRef, vma, mmapLock, file, known, cb,
                 fault>>

RegInsertFailsEff(t) ==
  /\ Ends(t, "reg_insert")
  /\ th[t].m \in Mem /\ ctxLock = NULL
  /\ HeapTo(th[t].m, "freed")
  /\ ctxRef' = ctxRef - 1
  /\ UNCHANGED <<ctxLock, memList, memXa, pages, dma, ctrlRef, vma, mmapLock, file, known,
                 cb, fault>>

RegCopyEff(t) ==
  /\ Ends(t, "reg_copy")
  /\ th[t].m \in Mem
  /\ known' = known \cup {mem[th[t].m].id + 1}
  /\ UNCHANGED <<ctxRef, ctxLock, memList, memXa, mem, pages, dma, ctrlRef, vma, mmapLock,
                 file, cb, fault>>

(* Steps that only go on. *)
GoesOn(t, from, to) ==
  /\ Moves(t, from, to)
  /\ UNCHANGED <<ctxRef, ctxLock, memList, memXa, mem, pages, dma, ctrlRef, vma, mmapLock,
                 file, known, cb, fault>>

RegEraseEff(t) ==
  /\ Ends(t, "reg_erase")
  /\ th[t].m \in Mem /\ ctxLock = NULL /\ mem[th[t].m].heap \notin Gone
  /\ memList' = memList \ {th[t].m}
  /\ \A i \in Id : memXa'[i] = IF i = mem[th[t].m].id THEN NULL ELSE memXa[i]
  /\ HeapTo(th[t].m, "freed")
  /\ ctxRef' = ctxRef - 1
  /\ UNCHANGED <<ctxLock, pages, dma, ctrlRef, vma, mmapLock, file, known, cb, fault>>

PinStartEff(t, f, p, a) ==
  LET m == memXa[p - 1]
  IN /\ Starts(t, "pin", "pin_get", f, a, m)
     /\ file[f] = "open" /\ vma[a] = NoVma /\ m \in Mem /\ ctxLock = NULL
     /\ mmapLock = NULL /\ mmapLock' = t
     /\ known' = known \ {p}
     /\ UNCHANGED <<ctxRef, ctxLock, memList, memXa, mem, pages, dma, ctrlRef, vma, file,
                    cb, fault>>

PinGetEff(t) ==
  /\ Moves(t, "pin_get", "pin_do")
  /\ th[t].m \in Mem /\ mem[th[t].m].ref > 0 /\ mem[th[t].m].heap # "freed"
  /\ RefTo(th[t].m, mem[th[t].m].ref + 1)
  /\ UNCHANGED <<ctxRef, ctxLock, memList, memXa, pages, dma, ctrlRef, vma, mmapLock, file,
                 known, cb, fault>>

PinDoEff(t) ==
  LET m == th[t].m
  IN /\ Moves(t, "pin_do", "pin_put")
     /\ m \in Mem /\ mem[m].heap # "freed" /\ mem[m].loc \in {"CPU", "CUDA"}
     /\ Only(m) /\ SameCounts(m) /\ SameId(m)
     /\ mem'[m].heap = mem[m].heap /\ mem'[m].loc = mem[m].loc
     /\ mem'[m].vaddr = th[t].a /\ mem'[m].table /\ mem'[m].state = "LIVE"
     /\ \A n \in Mem : pages'[n] = IF n = m THEN pages[m] + 1 ELSE pages[n]
     /\ \A a \in Addr : vma'[a] = IF a = th[t].a THEN [m |-> m, f |-> th[t].f] ELSE vma[a]
     /\ \A n \in Mem : cb'[n] = IF n = m /\ mem[m].loc = "CUDA" THEN "armed" ELSE cb[n]
     /\ UNCHANGED <<ctxRef, ctxLock, memList, memXa, dma, ctrlRef, mmapLock, file, known,
                    fault>>

PinDoFailsEff(t) ==
  LET m == th[t].m
  IN /\ Moves(t, "pin_do", "pin_put")
     /\ m \in Mem /\ mem[m].heap # "freed"
     /\ Only(m) /\ SameCounts(m) /\ SameId(m)
     /\ mem'[m].heap = mem[m].heap /\ mem'[m].loc = mem[m].loc
     /\ mem'[m].state = mem[m].state /\ mem'[m].vaddr = th[t].a
     /\ mem'[m].table => mem[m].table
     /\ \/ cb' = cb
        \/ /\ mem[m].loc = "CUDA" /\ {"cb", "pin"} \in Overlap
           /\ \A n \in Mem : cb'[n] = IF n = m THEN "spinning" ELSE cb[n]
     /\ known' = known \cup {mem[m].id + 1}
     /\ UNCHANGED <<ctxRef, ctxLock, memList, memXa, pages, dma, ctrlRef, vma, mmapLock,
                    file, fault>>

PutEff(t, from, next) ==
  /\ Puts(t, from, next)
  /\ UNCHANGED <<ctxRef, ctxLock, memList, memXa, pages, dma, ctrlRef, vma, mmapLock, file,
                 known, cb, fault>>

PinReturnEff(t) ==
  /\ Ends(t, "pin_ret")
  /\ mmapLock' = NULL
  /\ UNCHANGED <<ctxRef, ctxLock, memList, memXa, mem, pages, dma, ctrlRef, vma, file, known,
                 cb, fault>>

RelUnlinkEff(t) ==
  /\ Moves(t, "rel_unlink", "rel_free")
  /\ th[t].m \in Mem /\ ctxLock = NULL /\ mem[th[t].m].heap # "freed"
  /\ memList' = memList \ {th[t].m}
  /\ \A i \in Id : memXa'[i] = IF i = mem[th[t].m].id THEN NULL ELSE memXa[i]
  /\ UNCHANGED <<ctxRef, ctxLock, mem, pages, dma, ctrlRef, vma, mmapLock, file, known, cb,
                 fault>>

RelFreeEff(t) ==
  LET m == th[t].m
  IN /\ Moves(t, "rel_free", "rel_ctx")
     /\ m \in Mem /\ mem[m].heap \notin Gone
     /\ Only(m) /\ SameCounts(m) /\ SameId(m)
     /\ mem'[m].heap = "limbo" /\ mem'[m].loc = mem[m].loc /\ mem'[m].vaddr = mem[m].vaddr
     /\ mem'[m].table => mem[m].table
     /\ mem'[m].state = IF mem[m].state = "STALE" THEN "STALE" ELSE "DEAD"
     /\ \A n \in Mem : pages'[n] = IF n = m /\ ReleasesTable(m) THEN pages[m] - 1 ELSE pages[n]
     /\ \A n \in Mem : cb'[n] = IF n = m /\ ReleasesTable(m) /\ cb[m] = "armed"
                                THEN "idle" ELSE cb[n]
     /\ UNCHANGED <<ctxRef, ctxLock, memList, memXa, dma, ctrlRef, vma, mmapLock, file,
                    known, fault>>

RelCtxEff(t) ==
  /\ Keeps(t) /\ th[t].pc = "rel_ctx" /\ th'[t].pc = th[t].ret /\ th[t].ret \in RelRet
  /\ ctxRef' = ctxRef - 1
  /\ UNCHANGED <<ctxLock, memList, memXa, mem, pages, dma, ctrlRef, vma, mmapLock, file,
                 known, cb, fault>>

(* The mapping objects in S are freed; what was mapped stays so if b.      *)
Drops(S, b) ==
  \A d \in Dma :
    /\ dma'[d].mem = dma[d].mem
    /\ dma'[d].heap = IF d \in S THEN "freed" ELSE dma[d].heap
    /\ dma'[d].mapped <=> IF d \in S THEN dma[d].mapped /\ b ELSE dma[d].mapped

UnmapStartEff(t, a) ==
  /\ Starts(t, "unmap", "unmap_do", vma[a].f, a, vma[a].m)
  /\ vma[a] # NoVma /\ vma[a].m \in Mem
  /\ mmapLock = NULL /\ mmapLock' = t
  /\ UNCHANGED <<ctxRef, ctxLock, memList, memXa, mem, pages, dma, ctrlRef, vma, file, known,
                 cb, fault>>

UnmapDoEff(t) ==
  LET m == th[t].m
  IN /\ Moves(t, "unmap_do", "unmap_put")
     /\ m \in Mem /\ mem[m].heap # "freed" /\ mem[m].ref > Cardinality(mem[m].dmas)
     /\ Only(m) /\ SameUse(m) /\ SameId(m)
     /\ mem'[m].dmas = {} /\ mem'[m].ref = mem[m].ref - Cardinality(mem[m].dmas)
     /\ Drops(mem[m].dmas, ~UnmapsNow(m))
     /\ \A a \in Addr : vma'[a] = IF a = th[t].a THEN NoVma ELSE vma[a]
     /\ ctxRef' = ctxRef + 1
     /\ UNCHANGED <<ctxLock, memList, memXa, pages, mmapLock, file, known, cb, fault>>

UnmapReturnEff(t) ==
  /\ Ends(t, "unmap_ctx")
  /\ ctxRef' = ctxRef - 1 /\ mmapLock' = NULL
  /\ UNCHANGED <<ctxLock, memList, memXa, mem, pages, dma, ctrlRef, vma, file, known, cb,
                 fault>>

SplitVmaEff(a, b) ==
  /\ ~Protocol /\ mmapLock = NULL
  /\ vma[a] # NoVma /\ vma[b] = NoVma
  /\ \A x \in Addr : vma'[x] = IF x = b THEN vma[a] ELSE vma[x]
  /\ UNCHANGED <<ctxRef, ctxLock, memList, memXa, mem, pages, dma, ctrlRef, mmapLock, file,
                 known, cb, th, fault>>

CloseStartEff(t, f) ==
  /\ Starts(t, "close", "close_do", f, NULL, NULL)
  /\ file[f] = "open"
  /\ \A a \in Addr : vma[a].f # f
  /\ \A u \in Thread : th[u].f # f
  /\ \A g \in File : file'[g] = IF g = f THEN "closing" ELSE file[g]
  /\ UNCHANGED <<ctxRef, ctxLock, memList, memXa, mem, pages, dma, ctrlRef, vma, mmapLock,
                 known, cb, fault>>

CloseDoEff(t) ==
  /\ Moves(t, "close_do", "close_ctx")
  /\ ctxLock = NULL
  /\ memList' = memList \ Stale
  /\ \A i \in Id : memXa'[i] = IF \E m \in Stale : mem[m].id = i THEN NULL ELSE memXa[i]
  /\ \A m \in Mem : /\ SameCounts(m) /\ SameId(m)
                    /\ mem'[m].heap = IF m \in Stale THEN "limbo" ELSE mem[m].heap
                    /\ mem'[m].state = mem[m].state /\ mem'[m].loc = mem[m].loc
                    /\ mem'[m].vaddr = mem[m].vaddr /\ mem'[m].table = mem[m].table
  /\ ctxRef' = ctxRef - Cardinality(Stale)
  /\ known' = {}
  /\ UNCHANGED <<ctxLock, pages, dma, ctrlRef, vma, mmapLock, file, cb, fault>>

CloseReturnEff(t) ==
  /\ Ends(t, "close_ctx")
  /\ ctxRef' = ctxRef - 1
  /\ \A g \in File : file'[g] = IF g = th[t].f THEN "closed" ELSE file[g]
  /\ UNCHANGED <<ctxLock, memList, memXa, mem, pages, dma, ctrlRef, vma, mmapLock, known, cb,
                 fault>>

MapStartEff(t, f, a) ==
  /\ Starts(t, "map", "map_lock", f, a, NULL)
  /\ file[f] = "open"
  /\ UNCHANGED <<ctxRef, ctxLock, memList, memXa, mem, pages, dma, ctrlRef, vma, mmapLock,
                 file, known, cb, fault>>

(* The walk of mem_list looks at the youngest of rest. *)
Looks(t, rest) ==
  /\ \A u \in Thread \ {t} : th'[u] = th[u]
  /\ th'[t].pc = "walk" /\ th'[t].rest = rest /\ th'[t].m \in rest \cup {NULL}
  /\ th'[t].op = th[t].op /\ th'[t].d = th[t].d /\ th'[t].f = th[t].f
  /\ th'[t].a = th[t].a /\ th'[t].ret = th[t].ret /\ th'[t].mine = th[t].mine

MapLockEff(t) ==
  /\ th[t].pc = "map_lock" /\ ctxLock = NULL
  /\ Looks(t, memList)
  /\ ctxLock' = t /\ ctxRef' = ctxRef + 1
  /\ UNCHANGED <<memList, memXa, mem, pages, dma, ctrlRef, vma, mmapLock, file, known, cb,
                 fault>>

WalkMatchEff(t) ==
  LET m == th[t].m
  IN /\ th[t].pc = "walk" /\ m \in Mem /\ mem[m].ref > 0 /\ mem[m].heap # "freed"
     /\ Matches(m, th[t].a)
     /\ RefTo(m, mem[m].ref + 1)
     /\ ctxLock' = NULL /\ ctxRef' = ctxRef - 1
     /\ \A u \in Thread \ {t} : th'[u] = th[u]
     /\ th'[t].pc = "map_alloc" /\ th'[t].m = m
     /\ th'[t].op = th[t].op /\ th'[t].d = th[t].d /\ th'[t].f = th[t].f
     /\ th'[t].a = th[t].a /\ th'[t].ret = th[t].ret /\ th'[t].mine = th[t].mine
     /\ UNCHANGED <<memList, memXa, pages, dma, ctrlRef, vma, mmapLock, file, known, cb,
                    fault>>

WalkSkipEff(t) ==
  LET m == th[t].m
  IN /\ Moves(t, "walk", "walk_put")
     /\ m \in Mem /\ mem[m].ref > 0 /\ mem[m].heap # "freed"
     /\ RefTo(m, mem[m].ref + 1)
     /\ UNCHANGED <<ctxRef, ctxLock, memList, memXa, pages, dma, ctrlRef, vma, mmapLock,
                    file, known, cb, fault>>

WalkPutEff(t) ==
  LET m == th[t].m
  IN /\ th[t].pc = "walk_put" /\ m \in Mem /\ mem[m].ref > 1 /\ mem[m].heap # "freed"
     /\ RefTo(m, mem[m].ref - 1)
     /\ Looks(t, th[t].rest \ {m})
     /\ UNCHANGED <<ctxRef, ctxLock, memList, memXa, pages, dma, ctrlRef, vma, mmapLock,
                    file, known, cb, fault>>

WalkEndEff(t) ==
  /\ Moves(t, "walk", "map_undo") /\ th[t].m = NULL
  /\ ctxLock' = NULL /\ ctxRef' = ctxRef - 1
  /\ UNCHANGED <<memList, memXa, mem, pages, dma, ctrlRef, vma, mmapLock, file, known, cb,
                 fault>>

MapAllocEff(t, d) ==
  /\ \A u \in Thread \ {t} : th'[u] = th[u]
  /\ th[t].pc = "map_alloc" /\ th'[t].pc = "map_dma" /\ th'[t].d = d
  /\ th'[t].op = th[t].op /\ th'[t].m = th[t].m /\ th'[t].f = th[t].f
  /\ th'[t].a = th[t].a /\ th'[t].ret = th[t].ret /\ th'[t].rest = th[t].rest
  /\ th'[t].mine = th[t].mine
  /\ th[t].m \in Mem /\ dma[d].heap = "unused"
  /\ \A e \in Dma \ {d} : dma'[e] = dma[e]
  /\ dma'[d].heap = "live" /\ dma'[d].mem = th[t].m /\ ~dma'[d].mapped
  /\ UNCHANGED <<ctxRef, ctxLock, memList, memXa, mem, pages, vma, mmapLock, file, known, cb,
                 fault>>

MapDmaEff(t) ==
  LET m == th[t].m
      d == th[t].d
  IN /\ Moves(t, "map_dma", "map_link")
     /\ m \in Mem /\ d \in Dma /\ mem[m].heap # "freed"
     /\ \A e \in Dma \ {d} : dma'[e] = dma[e]
     /\ dma'[d].heap = dma[d].heap /\ dma'[d].mem = dma[d].mem
     /\ dma'[d].mapped <=> mem[m].table
     /\ UNCHANGED <<ctxRef, ctxLock, memList, memXa, mem, pages, vma, mmapLock, file, known,
                    cb, fault>>

(* out_delete_dma, for either of the reasons to go there. *)
MapFailsEff(t) ==
  LET m == th[t].m
      d == th[t].d
  IN /\ th[t].pc \in DmaPc /\ Moves(t, th[t].pc, "map_put")
     /\ m \in Mem /\ d \in Dma /\ mem[m].heap # "freed"
     /\ \A e \in Dma \ {d} : dma'[e] = dma[e]
     /\ dma'[d].heap = "freed" /\ dma'[d].mem = dma[d].mem
     /\ dma'[d].mapped => dma[d].mapped /\ mem[m].loc # "CPU" /\ ~mem[m].table
     /\ UNCHANGED <<ctxRef, ctxLock, memList, memXa, mem, pages, vma, mmapLock, file, known,
                    cb, fault>>

(* The list mine of the mappings made so far gains or loses its first element. *)
Pushes(t, d) == th'[t].mine = <<d>> \o th[t].mine

Pops(t, d) ==
  /\ th[t].mine \in Seq(Dma) /\ th[t].mine # <<>> /\ th'[t].mine = Tail(th[t].mine)
  /\ d = Head(th[t].mine) /\ d \in Elems(th[t].mine)

MapLinkEff(t) ==
  LET m == th[t].m
      d == th[t].d
  IN /\ \A u \in Thread \ {t} : th'[u] = th[u]
     /\ th[t].pc = "map_link" /\ th'[t].pc \in {"map_copy", "map_lock"}
     /\ th'[t].op = th[t].op /\ th'[t].m = th[t].m /\ th'[t].d = th[t].d
     /\ th'[t].f = th[t].f /\ th'[t].a = th[t].a /\ th'[t].ret = th[t].ret
     /\ th'[t].rest = th[t].rest
     /\ Pushes(t, d)
     /\ m \in Mem /\ d \in Dma /\ mem[m].heap # "freed"
     /\ Only(m) /\ SameUse(m) /\ SameId(m)
     /\ mem'[m].ref = mem[m].ref /\ mem'[m].dmas = mem[m].dmas \cup {d}
     /\ UNCHANGED <<ctxRef, ctxLock, memList, memXa, pages, dma, ctrlRef, vma, mmapLock,
                    file, known, cb, fault>>

MapReturnEff(t) ==
  /\ \/ Ends(t, "map_copy")
     \/ Ends(t, "map_undo") /\ th[t].mine = <<>>
  /\ UNCHANGED <<ctxRef, ctxLock, memList, memXa, mem, pages, dma, ctrlRef, vma, mmapLock,
                 file, known, cb, fault>>

MapUndoEff(t, d, m) ==
  /\ \A u \in Thread \ {t} : th'[u] = th[u]
  /\ th[t].pc = "map_undo" /\ th'[t].pc = "map_put" /\ th'[t].m = m
  /\ th'[t].op = th[t].op /\ th'[t].d = th[t].d /\ th'[t].f = th[t].f
  /\ th'[t].a = th[t].a /\ th'[t].ret = th[t].ret /\ th'[t].rest = th[t].rest
  /\ Pops(t, d) /\ d \in Dma
  /\ m = dma[d].mem /\ m \in Mem /\ dma[d].heap = "live" /\ mem[m].heap # "freed"
  /\ Drops({d}, ~UnmapsNow(m))
  /\ Only(m) /\ SameUse(m) /\ SameId(m)
  /\ mem'[m].ref = mem[m].ref /\ mem'[m].dmas = mem[m].dmas \ {d}
  /\ UNCHANGED <<ctxRef, ctxLock, memList, memXa, pages, vma, mmapLock, file, known, cb,
                 fault>>

CbBeginEff(m) ==
  /\ cb[m] = "armed"
  /\ \A t \in Thread : th[t].op # "none" => {"cb", th[t].op} \in Overlap
  /\ \A n \in Mem : cb'[n] = IF n = m THEN "spinning" ELSE cb[n]
  /\ UNCHANGED <<ctxRef, ctxLock, memList, memXa, mem, pages, dma, ctrlRef, vma, mmapLock,
                 file, known, th, fault>>

CbRunEff(m) ==
  /\ cb[m] = "spinning" /\ mem[m].heap # "freed"
  /\ \A n \in Mem : cb'[n] = IF n = m THEN "idle" ELSE cb[n]
  /\ Only(m) /\ SameCounts(m) /\ SameId(m)
  /\ mem'[m].heap = mem[m].heap /\ mem'[m].loc = mem[m].loc
  /\ mem'[m].vaddr = mem[m].vaddr
  /\ mem'[m].state = IF CbActs(m) THEN "DEAD_CB" ELSE mem[m].state
  /\ mem'[m].table <=> mem[m].table /\ ~CbActs(m)
  /\ \A n \in Mem : pages'[n] = IF n = m /\ CbActs(m) /\ mem[m].table
                                THEN pages[m] - 1 ELSE pages[n]
  /\ \A d \in Dma : /\ dma'[d].heap = dma[d].heap /\ dma'[d].mem = dma[d].mem
                    /\ dma'[d].mapped <=> dma[d].mapped /\ ~(CbActs(m) /\ d \in mem[m].dmas)
  /\ UNCHANGED <<ctxRef, ctxLock, memList, memXa, ctrlRef, vma, mmapLock, file, known, th,
                 fault>>

GraceEndEff(m) ==
  /\ mem[m].heap = "limbo" /\ cb[m] # "spinning"
  /\ HeapTo(m, "freed")
  /\ UNCHANGED <<ctxRef, ctxLock, memList, memXa, pages, dma, ctrlRef, vma, mmapLock, file,
                 known, cb, th, fault>>

(* A memory error, and the end. *)
Frozen ==
  UNCHANGED <<ctxRef, ctxLock, memList, memXa, mem, pages, dma, ctrlRef, vma, mmapLock, file,
              known, cb, th>>

----------------------------------------------------------------------------
(* That they do it. *)

LEMMA MemPoint ==
  ASSUME TypeOK, NEW m \in Mem, NEW r, mem' = [mem EXCEPT ![m] = r]
  PROVE  Only(m) /\ mem'[m] = r
BY DEF TypeOK, Only

LEMMA ThreadPoint ==
  ASSUME TypeOK, NEW t \in Thread, NEW s, th' = [th EXCEPT ![t] = s]
  PROVE  th'[t] = s /\ \A u \in Thread \ {t} : th'[u] = th[u]
BY DEF TypeOK

LEMMA GotoMoves ==
  ASSUME TypeOK, NEW t \in Thread, NEW pc, Goto(t, pc)
  PROVE  Moves(t, th[t].pc, pc)
<1> DEFINE s == [th[t] EXCEPT !.pc = pc]
<1>1. th[t] \in ThreadRec
  BY DEF TypeOK
<1>2. /\ s.pc = pc /\ s.op = th[t].op /\ s.m = th[t].m /\ s.d = th[t].d /\ s.f = th[t].f
      /\ s.a = th[t].a /\ s.ret = th[t].ret /\ s.rest = th[t].rest /\ s.mine = th[t].mine
  BY <1>1 DEF ThreadRec
<1>3. th' = [th EXCEPT ![t] = s]
  BY DEF Goto
<1> HIDE DEF s
<1>4. th'[t] = s /\ \A u \in Thread \ {t} : th'[u] = th[u]
  BY <1>3, ThreadPoint
<1> QED BY <1>2, <1>4 DEF Moves, Keeps

LEMMA ReturnEnds ==
  ASSUME TypeOK, NEW t \in Thread, Return(t)
  PROVE  Ends(t, th[t].pc)
<1>1. th'[t] = Idle /\ \A u \in Thread \ {t} : th'[u] = th[u]
  BY ThreadPoint DEF Return
<1> QED BY <1>1 DEF Ends, Idle

LEMMA RefPoint ==
  ASSUME TypeOK, NEW m \in Mem, NEW k, mem' = [mem EXCEPT ![m].ref = k]
  PROVE  RefTo(m, k)
<1> DEFINE r == [mem[m] EXCEPT !.ref = k]
<1>1. mem[m] \in MemRec
  BY DEF TypeOK
<1>2. /\ r.ref = k /\ r.dmas = mem[m].dmas /\ r.id = mem[m].id /\ r.heap = mem[m].heap
      /\ r.state = mem[m].state /\ r.loc = mem[m].loc /\ r.vaddr = mem[m].vaddr
      /\ r.table = mem[m].table
  BY <1>1 DEF MemRec
<1>3. mem' = [mem EXCEPT ![m] = r]
  OBVIOUS
<1> HIDE DEF r
<1>4. Only(m) /\ mem'[m] = r
  BY <1>3, MemPoint
<1> QED BY <1>2, <1>4 DEF RefTo, SameUse, SameId

LEMMA HeapPoint ==
  ASSUME TypeOK, NEW m \in Mem, NEW h, mem' = [mem EXCEPT ![m].heap = h]
  PROVE  HeapTo(m, h)
<1> DEFINE r == [mem[m] EXCEPT !.heap = h]
<1>1. mem[m] \in MemRec
  BY DEF TypeOK
<1>2. /\ r.ref = mem[m].ref /\ r.dmas = mem[m].dmas /\ r.id = mem[m].id /\ r.heap = h
      /\ r.state = mem[m].state /\ r.loc = mem[m].loc /\ r.vaddr = mem[m].vaddr
      /\ r.table = mem[m].table
  BY <1>1 DEF MemRec
<1>3. mem' = [mem EXCEPT ![m] = r]
  OBVIOUS
<1> HIDE DEF r
<1>4. Only(m) /\ mem'[m] = r
  BY <1>3, MemPoint
<1> QED BY <1>2, <1>4 DEF HeapTo, SameCounts, SameId

(* A step that runs finds its registration not yet freed. *)
LEMMA RunsMem ==
  ASSUME Inv, NEW t \in Thread, NEW pc, Runs(t, pc), th[t].m \in Mem
  PROVE  /\ pc \in DerefsMem => mem[th[t].m].heap # "freed"
         /\ pc \in {"reg_erase", "rel_free"} => mem[th[t].m].heap \notin Gone
         /\ pc \in {"pin_get", "walk"} => mem[th[t].m].ref > 0
<1>1. /\ ~UseAfterFree(t) /\ ~DoubleFree(t) /\ ~DeadRef(t) /\ th[t].pc = pc
      /\ th[t].m # NULL
  BY DEF Runs, At
<1>2. mem[th[t].m] \in MemRec
  BY DEF Inv, TypeOK
<1>3. mem[th[t].m].ref \in Nat
  BY <1>2 DEF MemRec
<1> QED BY <1>1, <1>3 DEF UseAfterFree, DoubleFree, DeadRef, Gone, DerefsMem

LEMMA PutDoes ==
  ASSUME Inv, NEW t \in Thread, NEW pc, NEW next, Runs(t, pc), MemPut(t, th[t].m, next),
         pc \in {"pin_put", "unmap_put", "map_put"}
  PROVE  Puts(t, pc, next)
<1> DEFINE m == th[t].m
<1>1. /\ TypeOK /\ th[t] \in ThreadRec /\ th[t].pc = pc /\ m \in Mem /\ mem[m] \in MemRec
      /\ mem[m].ref > 0
  BY RunsFacts DEF NeedsMem
<1>2. mem[m].heap # "freed"
  BY <1>1, RunsMem DEF DerefsMem
<1>3. mem[m].ref \in Nat
  BY <1>1 DEF MemRec
<1>4. RefTo(m, mem[m].ref - 1)
  <2>1. mem' = [mem EXCEPT ![m].ref = mem[m].ref - 1]
    BY DEF MemPut
  <2> QED BY <1>1, <2>1, RefPoint
<1>5. CASE mem[m].ref = 1
  <2> DEFINE s == [th[t] EXCEPT !.pc = "rel_unlink", !.m = m, !.ret = next]
  <2>1. /\ s.pc = "rel_unlink" /\ s.op = th[t].op /\ s.m = m /\ s.d = th[t].d
        /\ s.f = th[t].f /\ s.a = th[t].a /\ s.ret = next /\ s.rest = th[t].rest
        /\ s.mine = th[t].mine
    BY <1>1 DEF ThreadRec
  <2>2. th' = [th EXCEPT ![t] = s]
    BY <1>5 DEF MemPut
  <2> HIDE DEF s
  <2>3. th'[t] = s /\ \A u \in Thread \ {t} : th'[u] = th[u]
    BY <1>1, <2>2, ThreadPoint
  <2> QED BY <1>1, <1>2, <1>4, <1>5, <2>1, <2>3 DEF Puts, Keeps
<1>6. CASE mem[m].ref # 1
  <2>1. Goto(t, next)
    BY <1>6 DEF MemPut, Goto
  <2>2. Moves(t, pc, next)
    BY <1>1, <2>1, GotoMoves
  <2> QED BY <1>1, <1>2, <1>3, <1>4, <1>6, <2>2 DEF Puts, Moves
<1> QED BY <1>5, <1>6

LEMMA RegStartDoes ==
  ASSUME Inv, NEW t \in Thread, NEW f \in File, NEW l \in Loc, NEW m \in Mem,
         RegStart(t, f, l, m)
  PROVE  RegStartEff(t, f, l, m)
<1> DEFINE r == [UnusedMem EXCEPT !.heap = "live", !.ref = 1, !.loc = l]
           s == [Idle EXCEPT !.op = "reg", !.pc = "reg_insert", !.f = f, !.m = m]
<1>1. TypeOK /\ mem' = [mem EXCEPT ![m] = r] /\ th' = [th EXCEPT ![t] = s]
  BY DEF RegStart, Inv
<1>2. /\ r.heap = "live" /\ r.ref = 1 /\ r.loc = l /\ r.state = "STALE" /\ r.vaddr = NULL
      /\ ~r.table /\ r.dmas = {}
  BY DEF UnusedMem
<1>3. /\ s.op = "reg" /\ s.pc = "reg_insert" /\ s.f = f /\ s.a = NULL /\ s.m = m
      /\ s.mine = <<>>
  BY DEF Idle
<1> HIDE DEF r, s
<1>4. /\ Only(m) /\ mem'[m] = r
      /\ th'[t] = s /\ \A u \in Thread \ {t} : th'[u] = th[u]
  BY <1>1, MemPoint, ThreadPoint
<1> QED BY <1>2, <1>3, <1>4 DEF RegStart, RegStartEff, Starts, MayStart, At, procVars, dmaVars

LEMMA PinStartDoes ==
  ASSUME Inv, NEW t \in Thread, NEW f \in File, NEW p \in Handle, NEW a \in Addr,
         PinStart(t, f, p, a)
  PROVE  PinStartEff(t, f, p, a)
<1> DEFINE m == memXa[p - 1]
           s == [Idle EXCEPT !.op = "pin", !.pc = "pin_get", !.f = f, !.a = a, !.m = m]
<1>1. TypeOK /\ th' = [th EXCEPT ![t] = s] /\ m # NULL
  BY DEF PinStart, Inv, MemOfPgoff
<1>2. m \in Mem
  <2>1. p - 1 \in Id
    BY DEF Handle, Id
  <2> QED BY <1>1, <2>1 DEF TypeOK
<1>3. /\ s.op = "pin" /\ s.pc = "pin_get" /\ s.f = f /\ s.a = a /\ s.m = m
      /\ s.mine = <<>>
  BY DEF Idle
<1> HIDE DEF s
<1>4. th'[t] = s /\ \A u \in Thread \ {t} : th'[u] = th[u]
  BY <1>1, ThreadPoint
<1> QED BY <1>2, <1>3, <1>4
        DEF PinStart, PinStartEff, Starts, MayStart, At, CtxFree, ctxVars, dmaVars

LEMMA UnmapStartDoes ==
  ASSUME Inv, NEW t \in Thread, NEW a \in Addr, UnmapStart(t, a)
  PROVE  UnmapStartEff(t, a)
<1> DEFINE s == [Idle EXCEPT !.op = "unmap", !.pc = "unmap_do", !.f = vma[a].f, !.a = a,
                             !.m = vma[a].m]
<1>1. TypeOK /\ th' = [th EXCEPT ![t] = s] /\ vma[a] # NoVma
  BY DEF UnmapStart, Inv
<1>2. vma[a] \in [m : Mem, f : File]
  BY <1>1 DEF TypeOK
<1>3. /\ s.op = "unmap" /\ s.pc = "unmap_do" /\ s.f = vma[a].f /\ s.a = a
      /\ s.m = vma[a].m /\ s.mine = <<>> /\ vma[a].m \in Mem
  BY <1>2 DEF Idle
<1> HIDE DEF s
<1>4. th'[t] = s /\ \A u \in Thread \ {t} : th'[u] = th[u]
  BY <1>1, ThreadPoint
<1> QED BY <1>1, <1>3, <1>4
        DEF UnmapStart, UnmapStartEff, Starts, MayStart, At, ctxVars, dmaVars

LEMMA CloseStartDoes ==
  ASSUME Inv, NEW t \in Thread, NEW f \in File, CloseStart(t, f)
  PROVE  CloseStartEff(t, f)
<1> DEFINE s == [Idle EXCEPT !.op = "close", !.pc = "close_do", !.f = f]
<1>1. TypeOK /\ th' = [th EXCEPT ![t] = s]
  BY DEF CloseStart, Inv
<1>2. /\ s.op = "close" /\ s.pc = "close_do" /\ s.f = f /\ s.a = NULL /\ s.m = NULL
      /\ s.mine = <<>>
  BY DEF Idle
<1> HIDE DEF s
<1>3. th'[t] = s /\ \A u \in Thread \ {t} : th'[u] = th[u]
  BY <1>1, ThreadPoint
<1>4. \A g \in File : file'[g] = IF g = f THEN "closing" ELSE file[g]
  BY <1>1 DEF CloseStart, TypeOK
<1> QED BY <1>2, <1>3, <1>4
        DEF CloseStart, CloseStartEff, Starts, MayStart, At, ctxVars, dmaVars

LEMMA MapStartDoes ==
  ASSUME Inv, NEW t \in Thread, NEW f \in File, NEW a, MapStart(t, f, a)
  PROVE  MapStartEff(t, f, a)
<1> DEFINE left == CtrlsOf[f]
           s == [Idle EXCEPT !.op = "map", !.pc = "map_lock", !.f = f, !.a = a,
                             !.left = left]
<1>1. TypeOK /\ th' = [th EXCEPT ![t] = s]
  BY DEF MapStart, Inv
<1>2. /\ s.op = "map" /\ s.pc = "map_lock" /\ s.f = f /\ s.a = a /\ s.m = NULL
      /\ s.mine = <<>>
  BY DEF Idle
<1> HIDE DEF s
<1>3. th'[t] = s /\ \A u \in Thread \ {t} : th'[u] = th[u]
  BY <1>1, ThreadPoint
<1> QED BY <1>2, <1>3
        DEF MapStart, MapStartEff, Starts, MayStart, At, ctxVars, dmaVars, procVars

LEMMA RegInsertDoes ==
  ASSUME Inv, NEW t \in Thread, RegInsert(t)
  PROVE  RegInsertEff(t)
<1> DEFINE m == th[t].m
           born == Cardinality({n \in Mem : mem[n].born > 0}) + 1
<1>1. Runs(t, "reg_insert") /\ Goto(t, "reg_copy") /\ CtxFree
  BY DEF RegInsert
<1>2. TypeOK /\ th[t].pc = "reg_insert" /\ m \in Mem /\ mem[m] \in MemRec
  BY <1>1, RunsFacts DEF NeedsMem
<1>3. PICK i \in FreeId : /\ memXa' = [memXa EXCEPT ![i] = m]
                          /\ memList' = memList \cup {m}
                          /\ mem' = [mem EXCEPT ![m].id = i, ![m].born = born]
  BY DEF RegInsert
<1> HIDE DEF born
<1> DEFINE r == [mem[m] EXCEPT !.id = i, !.born = born]
<1>4. /\ r.ref = mem[m].ref /\ r.dmas = mem[m].dmas /\ r.id = i /\ r.heap = mem[m].heap
      /\ r.state = mem[m].state /\ r.loc = mem[m].loc /\ r.vaddr = mem[m].vaddr
      /\ r.table = mem[m].table
  BY <1>2 DEF MemRec
<1>5. mem' = [mem EXCEPT ![m] = r]
  BY <1>3
<1> HIDE DEF r
<1>6. Only(m) /\ mem'[m] = r
  BY <1>2, <1>5, MemPoint
<1>7. i \in Id /\ memXa[i] = NULL /\ memXa'[i] = m /\ \A j \in Id \ {i} : memXa'[j] = memXa[j]
  BY <1>2, <1>3 DEF FreeId, TypeOK
<1>8. Moves(t, "reg_insert", "reg_copy")
  BY <1>1, <1>2, GotoMoves
<1> QED BY <1>1, <1>2, <1>3, <1>4, <1>6, <1>7, <1>8
        DEF RegInsert, RegInsertEff, CtxFree, SameUse, SameCounts, procVars, dmaVars

LEMMA RegInsertFailsDoes ==
  ASSUME Inv, NEW t \in Thread, RegInsertFails(t)
  PROVE  RegInsertFailsEff(t)
<1>1. Runs(t, "reg_insert") /\ Return(t)
  BY DEF RegInsertFails
<1>2. TypeOK /\ th[t].pc = "reg_insert" /\ th[t].m \in Mem
  BY <1>1, RunsFacts DEF NeedsMem
<1>3. HeapTo(th[t].m, "freed") /\ Ends(t, "reg_insert")
  BY <1>1, <1>2, HeapPoint, ReturnEnds DEF RegInsertFails
<1> QED BY <1>2, <1>3 DEF RegInsertFails, RegInsertFailsEff, CtxFree, procVars, dmaVars

LEMMA RegCopyDoes ==
  ASSUME Inv, NEW t \in Thread, RegCopy(t)
  PROVE  RegCopyEff(t)
<1>1. Runs(t, "reg_copy") /\ Return(t)
  BY DEF RegCopy
<1>2. TypeOK /\ th[t].pc = "reg_copy" /\ th[t].m \in Mem
  BY <1>1, RunsFacts DEF NeedsMem
<1>3. Ends(t, "reg_copy")
  BY <1>1, <1>2, ReturnEnds
<1> QED BY <1>2, <1>3 DEF RegCopy, RegCopyEff, ctxVars, dmaVars

LEMMA GoesOnDoes ==
  ASSUME Inv, NEW t \in Thread
  PROVE  /\ RegCopyFails(t) => GoesOn(t, "reg_copy", "reg_erase")
         /\ MapAllocFails(t) => GoesOn(t, "map_alloc", "map_put")
         /\ MapCopyFails(t) => GoesOn(t, "map_copy", "map_undo")
<1>1. \A pc, to : Runs(t, pc) /\ Goto(t, to) => Moves(t, pc, to)
  BY RunsFacts, GotoMoves
<1> QED BY <1>1 DEF RegCopyFails, MapAllocFails, MapCopyFails, GoesOn, ctxVars, procVars,
                    dmaVars

LEMMA RegEraseDoes ==
  ASSUME Inv, NEW t \in Thread, RegErase(t)
  PROVE  RegEraseEff(t)
<1>1. Runs(t, "reg_erase") /\ Return(t)
  BY DEF RegErase
<1>2. TypeOK /\ th[t].pc = "reg_erase" /\ th[t].m \in Mem
  BY <1>1, RunsFacts DEF NeedsMem
<1>3. mem[th[t].m].heap \notin Gone
  BY <1>1, <1>2, RunsMem
<1>4. HeapTo(th[t].m, "freed") /\ Ends(t, "reg_erase")
  BY <1>1, <1>2, HeapPoint, ReturnEnds DEF RegErase
<1>5. \A i \in Id : memXa'[i] = IF i = mem[th[t].m].id THEN NULL ELSE memXa[i]
  BY <1>2 DEF RegErase, TypeOK
<1> QED BY <1>2, <1>3, <1>4, <1>5 DEF RegErase, RegEraseEff, CtxFree, procVars, dmaVars

LEMMA PinGetDoes ==
  ASSUME Inv, NEW t \in Thread, PinGet(t)
  PROVE  PinGetEff(t)
<1>1. Runs(t, "pin_get") /\ Goto(t, "pin_do")
  BY DEF PinGet
<1>2. TypeOK /\ th[t].pc = "pin_get" /\ th[t].m \in Mem
  BY <1>1, RunsFacts DEF NeedsMem
<1>3. mem[th[t].m].ref > 0 /\ mem[th[t].m].heap # "freed"
  BY <1>1, <1>2, RunsMem DEF DerefsMem
<1>4. RefTo(th[t].m, mem[th[t].m].ref + 1)
  <2>1. mem' = [mem EXCEPT ![th[t].m].ref = mem[th[t].m].ref + 1]
    BY DEF PinGet
  <2> QED BY <1>2, <2>1, RefPoint
<1>5. Moves(t, "pin_get", "pin_do")
  BY <1>1, <1>2, GotoMoves
<1> QED BY <1>2, <1>3, <1>4, <1>5 DEF PinGet, PinGetEff, ctxVars, procVars, dmaVars

LEMMA PinDoDoes ==
  ASSUME Inv, NEW t \in Thread, PinDo(t)
  PROVE  PinDoEff(t)
<1> DEFINE m == th[t].m
           r == [mem[m] EXCEPT !.vaddr = th[t].a, !.sized = TRUE, !.table = TRUE,
                               !.state = "LIVE"]
<1>1. Runs(t, "pin_do") /\ Goto(t, "pin_put")
  BY DEF PinDo
<1>2. TypeOK /\ th[t].pc = "pin_do" /\ m \in Mem /\ mem[m] \in MemRec
  BY <1>1, RunsFacts DEF NeedsMem
<1>3. mem[m].heap # "freed" /\ Moves(t, "pin_do", "pin_put")
  BY <1>1, <1>2, RunsMem, GotoMoves DEF DerefsMem
<1>4. /\ r.ref = mem[m].ref /\ r.dmas = mem[m].dmas /\ r.id = mem[m].id
      /\ r.heap = mem[m].heap /\ r.state = "LIVE" /\ r.loc = mem[m].loc
      /\ r.vaddr = th[t].a /\ r.table
  BY <1>2 DEF MemRec
<1>5. mem' = [mem EXCEPT ![m] = r]
  BY DEF PinDo
<1> HIDE DEF r
<1>6. Only(m) /\ mem'[m] = r
  BY <1>2, <1>5, MemPoint
<1>7. /\ \A n \in Mem : pages'[n] = IF n = m THEN pages[m] + 1 ELSE pages[n]
      /\ \A a \in Addr : vma'[a] = IF a = th[t].a THEN [m |-> m, f |-> th[t].f] ELSE vma[a]
      /\ \A n \in Mem : cb'[n] = IF n = m /\ mem[m].loc = "CUDA" THEN "armed" ELSE cb[n]
  BY <1>2 DEF PinDo, TypeOK
<1> QED BY <1>2, <1>3, <1>4, <1>6, <1>7
        DEF PinDo, PinDoEff, SameCounts, SameId, ctxVars, dmaVars

LEMMA PinDoFailsDoes ==
  ASSUME Inv, NEW t \in Thread, PinDoFails(t)
  PROVE  PinDoFailsEff(t)
<1> DEFINE m == th[t].m
<1>1. Runs(t, "pin_do") /\ Goto(t, "pin_put")
  BY DEF PinDoFails
<1>2. TypeOK /\ th[t].pc = "pin_do" /\ m \in Mem /\ mem[m] \in MemRec
  BY <1>1, RunsFacts DEF NeedsMem
<1>3. mem[m].heap # "freed" /\ Moves(t, "pin_do", "pin_put")
  BY <1>1, <1>2, RunsMem, GotoMoves DEF DerefsMem
<1>4. PICK kept \in {FALSE, mem[m].loc # "CPU" /\ mem[m].table},
           begun \in {FALSE, mem[m].loc = "CUDA" /\ {"cb", "pin"} \in Overlap} :
        /\ mem' = [mem EXCEPT ![m].vaddr = th[t].a,
                              ![m].sized = @ \/ mem[m].loc = "CPU",
                              ![m].table = kept]
        /\ cb' = [cb EXCEPT ![m] = IF begun /\ ~kept THEN "spinning" ELSE @]
  BY DEF PinDoFails
<1> DEFINE sized == mem[m].sized \/ mem[m].loc = "CPU"
           r == [mem[m] EXCEPT !.vaddr = th[t].a, !.sized = sized, !.table = kept]
<1>5. mem' = [mem EXCEPT ![m] = r]
  BY <1>4
<1> HIDE DEF sized
<1>6. /\ r.ref = mem[m].ref /\ r.dmas = mem[m].dmas /\ r.id = mem[m].id
      /\ r.heap = mem[m].heap /\ r.state = mem[m].state /\ r.loc = mem[m].loc
      /\ r.vaddr = th[t].a /\ r.table = kept
  BY <1>2 DEF MemRec
<1> HIDE DEF r
<1>7. Only(m) /\ mem'[m] = r
  BY <1>2, <1>5, MemPoint
<1>8. kept => mem[m].table
  BY <1>4
<1>9. \/ cb' = cb
      \/ /\ mem[m].loc = "CUDA" /\ {"cb", "pin"} \in Overlap
         /\ \A n \in Mem : cb'[n] = IF n = m THEN "spinning" ELSE cb[n]
  <2>1. CASE begun /\ ~kept
    BY <1>2, <1>4, <2>1 DEF TypeOK
  <2>2. CASE ~(begun /\ ~kept)
    BY <1>2, <1>4, <2>2 DEF TypeOK
  <2> QED BY <2>1, <2>2
<1> QED BY <1>2, <1>3, <1>6, <1>7, <1>8, <1>9
        DEF PinDoFails, PinDoFailsEff, SameCounts, SameId, ctxVars, dmaVars

LEMMA PutsDo ==
  ASSUME Inv, NEW t \in Thread
  PROVE  /\ PinPut(t) => PutEff(t, "pin_put", "pin_ret")
         /\ UnmapPut(t) => PutEff(t, "unmap_put", "unmap_ctx")
         /\ MapPut(t) => PutEff(t, "map_put", "map_undo")
BY PutDoes DEF PinPut, UnmapPut, MapPut, PutEff, ctxVars, procVars, dmaVars

LEMMA ReturnsDo ==
  ASSUME Inv, NEW t \in Thread
  PROVE  /\ PinReturn(t) => PinReturnEff(t)
         /\ UnmapReturn(t) => UnmapReturnEff(t)
         /\ MapReturn(t) => MapReturnEff(t)
         /\ CloseReturn(t) => CloseReturnEff(t)
<1>1. \A pc : Runs(t, pc) /\ Return(t) => Ends(t, pc)
  BY RunsFacts, ReturnEnds
<1>2. CloseReturn(t) => \A g \in File : file'[g] = IF g = th[t].f THEN "closed" ELSE file[g]
  BY DEF CloseReturn, Inv, TypeOK
<1> QED BY <1>1, <1>2
        DEF PinReturn, UnmapReturn, MapReturn, CloseReturn, PinReturnEff, UnmapReturnEff,
            MapReturnEff, CloseReturnEff, ctxVars, procVars, dmaVars

LEMMA RelUnlinkDoes ==
  ASSUME Inv, NEW t \in Thread, RelUnlink(t)
  PROVE  RelUnlinkEff(t)
<1>1. Runs(t, "rel_unlink") /\ Goto(t, "rel_free")
  BY DEF RelUnlink
<1>2. TypeOK /\ th[t].pc = "rel_unlink" /\ th[t].m \in Mem
  BY <1>1, RunsFacts DEF NeedsMem
<1>3. mem[th[t].m].heap # "freed" /\ Moves(t, "rel_unlink", "rel_free")
  BY <1>1, <1>2, RunsMem, GotoMoves DEF DerefsMem
<1>4. \A i \in Id : memXa'[i] = IF i = mem[th[t].m].id THEN NULL ELSE memXa[i]
  BY <1>2 DEF RelUnlink, TypeOK
<1> QED BY <1>2, <1>3, <1>4 DEF RelUnlink, RelUnlinkEff, CtxFree, procVars, dmaVars

LEMMA RelFreeDoes ==
  ASSUME Inv, NEW t \in Thread, RelFree(t)
  PROVE  RelFreeEff(t)
<1> DEFINE m == th[t].m
           table == mem[m].table /\ ~(ReleasesTable(m) /\ mem[m].loc = "CUDA")
           state == IF mem[m].state = "STALE" THEN mem[m].state ELSE "DEAD"
           r == [mem[m] EXCEPT !.heap = "limbo", !.table = table, !.state = state]
<1>1. Runs(t, "rel_free") /\ Goto(t, "rel_ctx")
  BY DEF RelFree
<1>2. TypeOK /\ th[t].pc = "rel_free" /\ m \in Mem /\ mem[m] \in MemRec
  BY <1>1, RunsFacts DEF NeedsMem
<1>3. mem[m].heap \notin Gone /\ Moves(t, "rel_free", "rel_ctx")
  BY <1>1, <1>2, RunsMem, GotoMoves
<1>4. mem' = [mem EXCEPT ![m] = r]
  BY DEF RelFree
<1>5. table => mem[m].table
  OBVIOUS
<1>6. state = IF mem[m].state = "STALE" THEN "STALE" ELSE "DEAD"
  OBVIOUS
<1> HIDE DEF table, state
<1>7. /\ r.ref = mem[m].ref /\ r.dmas = mem[m].dmas /\ r.id = mem[m].id
      /\ r.heap = "limbo" /\ r.state = state /\ r.loc = mem[m].loc
      /\ r.vaddr = mem[m].vaddr /\ r.table = table
  BY <1>2 DEF MemRec
<1> HIDE DEF r
<1>8. Only(m) /\ mem'[m] = r
  BY <1>2, <1>4, MemPoint
<1>9. /\ \A n \in Mem : pages'[n] = IF n = m /\ ReleasesTable(m) THEN pages[m] - 1 ELSE pages[n]
      /\ \A n \in Mem : cb'[n] = IF n = m /\ ReleasesTable(m) /\ cb[m] = "armed"
                                 THEN "idle" ELSE cb[n]
  BY <1>2 DEF RelFree, TypeOK
<1> QED BY <1>2, <1>3, <1>5, <1>6, <1>7, <1>8, <1>9
        DEF RelFree, RelFreeEff, SameCounts, SameId, ctxVars, procVars, dmaVars

LEMMA RelCtxDoes ==
  ASSUME Inv, NEW t \in Thread, RelCtx(t)
  PROVE  RelCtxEff(t)
<1>1. Runs(t, "rel_ctx") /\ Goto(t, th[t].ret)
  BY DEF RelCtx
<1>2. TypeOK /\ th[t].pc = "rel_ctx" /\ th[t].ret \in RelRet
  BY <1>1, RunsFacts DEF LocalsOK, RelPc
<1>3. Moves(t, "rel_ctx", th[t].ret)
  BY <1>1, <1>2, GotoMoves
<1> QED BY <1>2, <1>3 DEF RelCtx, RelCtxEff, Moves, procVars, dmaVars

LEMMA DropsPoint ==
  ASSUME Inv, NEW S \in SUBSET Dma, NEW m, UnmapDma(S, m)
  PROVE  Drops(S, ~UnmapsNow(m))
<1> DEFINE b(d) == dma[d].mapped /\ ~UnmapsNow(m)
           r(d) == [dma[d] EXCEPT !.heap = "freed", !.mapped = b(d)]
<1>1. dma' = [d \in Dma |-> IF d \in S THEN r(d) ELSE dma[d]]
  BY DEF UnmapDma
<1>2. dma \in [Dma -> DmaRec]
  BY DEF Inv, TypeOK
<1> SUFFICES ASSUME NEW d \in Dma
             PROVE  /\ dma'[d].mem = dma[d].mem
                    /\ dma'[d].heap = IF d \in S THEN "freed" ELSE dma[d].heap
                    /\ dma'[d].mapped <=> IF d \in S THEN b(d) ELSE dma[d].mapped
  BY DEF Drops
<1>3. dma[d] \in DmaRec
  BY <1>2
<1>4. dma'[d] = IF d \in S THEN r(d) ELSE dma[d]
  BY <1>1
<1> HIDE DEF b
<1>5. r(d).mem = dma[d].mem /\ r(d).heap = "freed" /\ r(d).mapped = b(d)
  BY <1>3 DEF DmaRec
<1> HIDE DEF r
<1> QED BY <1>4, <1>5

LEMMA UnmapDoDoes ==
  ASSUME Inv, NEW t \in Thread, UnmapDo(t)
  PROVE  UnmapDoEff(t)
<1> DEFINE m == th[t].m
           k == mem[m].ref - Cardinality(mem[m].dmas)
           r == [mem[m] EXCEPT !.dmas = {}, !.ref = k]
<1>1. Runs(t, "unmap_do") /\ Goto(t, "unmap_put") /\ UnmapDma(mem[m].dmas, m)
  BY DEF UnmapDo
<1>2. /\ TypeOK /\ th[t].pc = "unmap_do" /\ m \in Mem /\ mem[m] \in MemRec
      /\ mem[m].ref > Cardinality(mem[m].dmas)
  BY <1>1, RunsFacts DEF NeedsMem
<1>3. mem[m].heap # "freed" /\ Moves(t, "unmap_do", "unmap_put")
  BY <1>1, <1>2, RunsMem, GotoMoves DEF DerefsMem
<1>4. mem' = [mem EXCEPT ![m] = r]
  BY DEF UnmapDo
<1> HIDE DEF k
<1>5. /\ r.ref = k /\ r.dmas = {} /\ r.id = mem[m].id
      /\ r.heap = mem[m].heap /\ r.state = mem[m].state /\ r.loc = mem[m].loc
      /\ r.vaddr = mem[m].vaddr /\ r.table = mem[m].table
  BY <1>2 DEF MemRec
<1> HIDE DEF r
<1>6. Only(m) /\ mem'[m] = r
  BY <1>2, <1>4, MemPoint
<1>7. mem[m].dmas \in SUBSET Dma
  BY <1>2 DEF MemRec
<1>8. Drops(mem[m].dmas, ~UnmapsNow(m))
  BY <1>1, <1>7, DropsPoint
<1>9. \A a \in Addr : vma'[a] = IF a = th[t].a THEN NoVma ELSE vma[a]
  BY <1>2 DEF UnmapDo, TypeOK
<1> QED BY <1>2, <1>3, <1>5, <1>6, <1>8, <1>9
        DEF UnmapDo, UnmapDoEff, SameUse, SameId, k

LEMMA SplitVmaDoes ==
  ASSUME Inv, NEW a \in Addr, NEW b \in Addr, SplitVma(a, b)
  PROVE  SplitVmaEff(a, b)
<1>1. \A x \in Addr : vma'[x] = IF x = b THEN vma[a] ELSE vma[x]
  BY DEF SplitVma, Inv, TypeOK
<1> QED BY <1>1 DEF SplitVma, SplitVmaEff, ctxVars, dmaVars

LEMMA CloseDoDoes ==
  ASSUME Inv, NEW t \in Thread, CloseDo(t)
  PROVE  CloseDoEff(t)
<1> DEFINE r(m) == [mem[m] EXCEPT !.heap = "limbo"]
<1>1. Runs(t, "close_do") /\ Goto(t, "close_ctx")
  BY DEF CloseDo
<1>2. TypeOK /\ th[t].pc = "close_do"
  BY <1>1, RunsFacts
<1>3. Moves(t, "close_do", "close_ctx")
  BY <1>1, <1>2, GotoMoves
<1>4. \A m \in Mem : /\ SameCounts(m) /\ SameId(m)
                     /\ mem'[m].heap = IF m \in Stale THEN "limbo" ELSE mem[m].heap
                     /\ mem'[m].state = mem[m].state /\ mem'[m].loc = mem[m].loc
                     /\ mem'[m].vaddr = mem[m].vaddr /\ mem'[m].table = mem[m].table
  <2> SUFFICES ASSUME NEW m \in Mem
               PROVE  /\ SameCounts(m) /\ SameId(m)
                      /\ mem'[m].heap = IF m \in Stale THEN "limbo" ELSE mem[m].heap
                      /\ mem'[m].state = mem[m].state /\ mem'[m].loc = mem[m].loc
                      /\ mem'[m].vaddr = mem[m].vaddr /\ mem'[m].table = mem[m].table
    OBVIOUS
  <2>1. mem[m] \in MemRec
    BY <1>2 DEF TypeOK
  <2>2. mem'[m] = IF m \in Stale THEN r(m) ELSE mem[m]
    BY DEF CloseDo
  <2>3. /\ r(m).ref = mem[m].ref /\ r(m).dmas = mem[m].dmas /\ r(m).id = mem[m].id
        /\ r(m).heap = "limbo" /\ r(m).state = mem[m].state /\ r(m).loc = mem[m].loc
        /\ r(m).vaddr = mem[m].vaddr /\ r(m).table = mem[m].table
    BY <2>1 DEF MemRec
  <2> HIDE DEF r
  <2> QED BY <2>2, <2>3 DEF SameCounts, SameId
<1>5. \A i \in Id : memXa'[i] = IF \E m \in Stale : mem[m].id = i THEN NULL ELSE memXa[i]
  BY DEF CloseDo
<1> QED BY <1>3, <1>4, <1>5 DEF CloseDo, CloseDoEff, CtxFree, dmaVars

LEMMA YoungestIn ==
  ASSUME NEW S PROVE Youngest(S) \in S \cup {NULL}
BY DEF Youngest

LEMMA LooksPoint ==
  ASSUME TypeOK, NEW t \in Thread, NEW rest,
         th' = [th EXCEPT ![t].pc = "walk", ![t].rest = rest, ![t].m = Youngest(rest)]
  PROVE  Looks(t, rest)
<1> DEFINE y == Youngest(rest)
           s == [th[t] EXCEPT !.pc = "walk", !.rest = rest, !.m = y]
<1>1. th' = [th EXCEPT ![t] = s]
  OBVIOUS
<1>2. y \in rest \cup {NULL}
  BY YoungestIn
<1> HIDE DEF y
<1>3. th[t] \in ThreadRec
  BY DEF TypeOK
<1>4. /\ s.pc = "walk" /\ s.rest = rest /\ s.m = y /\ s.op = th[t].op /\ s.d = th[t].d
      /\ s.f = th[t].f /\ s.a = th[t].a /\ s.ret = th[t].ret /\ s.mine = th[t].mine
  BY <1>3 DEF ThreadRec
<1> HIDE DEF s
<1>5. th'[t] = s /\ \A u \in Thread \ {t} : th'[u] = th[u]
  BY <1>1, ThreadPoint
<1> QED BY <1>2, <1>4, <1>5 DEF Looks

LEMMA MapLockDoes ==
  ASSUME Inv, NEW t \in Thread, MapLock(t)
  PROVE  MapLockEff(t)
<1>1. TypeOK /\ th[t].pc = "map_lock"
  BY RunsFacts DEF MapLock
<1>2. Looks(t, memList)
  BY <1>1, LooksPoint DEF MapLock
<1> QED BY <1>1, <1>2 DEF MapLock, MapLockEff, CtxFree, procVars, dmaVars

LEMMA WalkMatchDoes ==
  ASSUME Inv, NEW t \in Thread, WalkMatch(t)
  PROVE  WalkMatchEff(t)
<1> DEFINE m == th[t].m
           s == [th[t] EXCEPT !.pc = "map_alloc", !.rest = {}]
<1>1. Runs(t, "walk") /\ m # NULL /\ th' = [th EXCEPT ![t] = s]
  BY DEF WalkMatch
<1>2. TypeOK /\ th[t].pc = "walk" /\ th[t] \in ThreadRec
  BY <1>1, RunsFacts
<1>3. m \in Mem
  BY <1>1, <1>2 DEF ThreadRec
<1>4. mem[m].ref > 0 /\ mem[m].heap # "freed"
  BY <1>1, <1>3, RunsMem DEF DerefsMem
<1>5. /\ s.pc = "map_alloc" /\ s.m = m /\ s.op = th[t].op /\ s.d = th[t].d
      /\ s.f = th[t].f /\ s.a = th[t].a /\ s.ret = th[t].ret /\ s.mine = th[t].mine
  BY <1>2 DEF ThreadRec
<1> HIDE DEF s
<1>6. th'[t] = s /\ \A u \in Thread \ {t} : th'[u] = th[u]
  BY <1>1, <1>2, ThreadPoint
<1>7. RefTo(m, mem[m].ref + 1)
  <2>1. mem' = [mem EXCEPT ![m].ref = mem[m].ref + 1]
    BY DEF WalkMatch
  <2> QED BY <1>2, <1>3, <2>1, RefPoint
<1> QED BY <1>2, <1>3, <1>4, <1>5, <1>6, <1>7 DEF WalkMatch, WalkMatchEff, procVars, dmaVars

LEMMA WalkSkipDoes ==
  ASSUME Inv, NEW t \in Thread, WalkSkip(t)
  PROVE  WalkSkipEff(t)
<1> DEFINE m == th[t].m
<1>1. Runs(t, "walk") /\ m # NULL /\ Goto(t, "walk_put")
  BY DEF WalkSkip
<1>2. TypeOK /\ th[t].pc = "walk" /\ th[t] \in ThreadRec
  BY <1>1, RunsFacts
<1>3. m \in Mem
  BY <1>1, <1>2 DEF ThreadRec
<1>4. mem[m].ref > 0 /\ mem[m].heap # "freed"
  BY <1>1, <1>3, RunsMem DEF DerefsMem
<1>5. RefTo(m, mem[m].ref + 1)
  <2>1. mem' = [mem EXCEPT ![m].ref = mem[m].ref + 1]
    BY DEF WalkSkip
  <2> QED BY <1>2, <1>3, <2>1, RefPoint
<1>6. Moves(t, "walk", "walk_put")
  BY <1>1, <1>2, GotoMoves
<1> QED BY <1>3, <1>4, <1>5, <1>6 DEF WalkSkip, WalkSkipEff, ctxVars, procVars, dmaVars

LEMMA WalkPutDoes ==
  ASSUME Inv, NEW t \in Thread, WalkPut(t)
  PROVE  WalkPutEff(t)
<1> DEFINE m == th[t].m
           rest == th[t].rest \ {m}
<1>1. /\ Runs(t, "walk_put") /\ mem' = [mem EXCEPT ![m].ref = mem[m].ref - 1]
      /\ th' = [th EXCEPT ![t].pc = "walk", ![t].rest = rest, ![t].m = Youngest(rest)]
  BY DEF WalkPut
<1>2. TypeOK /\ th[t].pc = "walk_put" /\ m \in Mem /\ mem[m].ref > 1
  BY <1>1, RunsFacts DEF NeedsMem
<1>3. mem[m].heap # "freed"
  BY <1>1, <1>2, RunsMem DEF DerefsMem
<1>4. RefTo(m, mem[m].ref - 1) /\ Looks(t, rest)
  BY <1>1, <1>2, RefPoint, LooksPoint
<1> QED BY <1>2, <1>3, <1>4 DEF WalkPut, WalkPutEff, ctxVars, procVars, dmaVars

LEMMA WalkEndDoes ==
  ASSUME Inv, NEW t \in Thread, WalkEnd(t)
  PROVE  WalkEndEff(t)
<1>1. TypeOK /\ th[t].pc = "walk"
  BY RunsFacts DEF WalkEnd
<1>2. Moves(t, "walk", "map_undo")
  BY <1>1, GotoMoves DEF WalkEnd
<1> QED BY <1>2 DEF WalkEnd, WalkEndEff, procVars, dmaVars

LEMMA MapAllocDoes ==
  ASSUME Inv, NEW t \in Thread, NEW d \in Dma, MapAlloc(t, d)
  PROVE  MapAllocEff(t, d)
<1> DEFINE m == th[t].m
           c == Head(th[t].left)
           r == [heap |-> "live", mem |-> m, ctrl |-> c, mapped |-> FALSE]
           s == [th[t] EXCEPT !.pc = "map_dma", !.d = d]
<1>1. Runs(t, "map_alloc") /\ dma' = [dma EXCEPT ![d] = r] /\ th' = [th EXCEPT ![t] = s]
  BY DEF MapAlloc
<1>2. TypeOK /\ th[t].pc = "map_alloc" /\ th[t] \in ThreadRec /\ m \in Mem
  BY <1>1, RunsFacts DEF NeedsMem
<1>3. /\ s.pc = "map_dma" /\ s.d = d /\ s.op = th[t].op /\ s.m = m /\ s.f = th[t].f
      /\ s.a = th[t].a /\ s.ret = th[t].ret /\ s.rest = th[t].rest /\ s.mine = th[t].mine
  BY <1>2 DEF ThreadRec
<1>4. r.heap = "live" /\ r.mem = m /\ ~r.mapped
  OBVIOUS
<1> HIDE DEF r, s
<1>5. th'[t] = s /\ \A u \in Thread \ {t} : th'[u] = th[u]
  BY <1>1, <1>2, ThreadPoint
<1>6. dma'[d] = r /\ \A e \in Dma \ {d} : dma'[e] = dma[e]
  BY <1>1, <1>2 DEF TypeOK
<1> QED BY <1>2, <1>3, <1>4, <1>5, <1>6 DEF MapAlloc, MapAllocEff, ctxVars, procVars

LEMMA MapDmaDoes ==
  ASSUME Inv, NEW t \in Thread, MapDma(t)
  PROVE  MapDmaEff(t)
<1> DEFINE m == th[t].m
           d == th[t].d
           b == mem[m].table
           r == [dma[d] EXCEPT !.mapped = b]
<1>1. Runs(t, "map_dma") /\ Goto(t, "map_link") /\ dma' = [dma EXCEPT ![d] = r]
  BY DEF MapDma
<1>2. TypeOK /\ th[t].pc = "map_dma" /\ m \in Mem /\ d \in Dma
  BY <1>1, RunsFacts DEF NeedsMem, LocalsOK, DmaPc
<1>3. mem[m].heap # "freed" /\ Moves(t, "map_dma", "map_link")
  BY <1>1, <1>2, RunsMem, GotoMoves DEF DerefsMem
<1>4. dma \in [Dma -> DmaRec] /\ dma[d] \in DmaRec
  BY <1>2 DEF TypeOK
<1> HIDE DEF b
<1>5. r.heap = dma[d].heap /\ r.mem = dma[d].mem /\ r.mapped = b
  BY <1>4 DEF DmaRec
<1> HIDE DEF r
<1>6. dma'[d] = r /\ \A e \in Dma \ {d} : dma'[e] = dma[e]
  BY <1>1, <1>2, <1>4
<1> QED BY <1>2, <1>3, <1>5, <1>6 DEF MapDma, MapDmaEff, b, ctxVars, procVars

LEMMA MapFailsDo ==
  ASSUME Inv, NEW t \in Thread, MapDmaFails(t) \/ MapAddrsFail(t)
  PROVE  MapFailsEff(t)
<1> DEFINE m == th[t].m
           d == th[t].d
           pc == th[t].pc
<1>1. /\ pc \in DmaPc /\ Runs(t, pc) /\ Goto(t, "map_put")
  BY RunsFacts DEF MapDmaFails, MapAddrsFail, DeleteDma, DmaPc
<1>2. TypeOK /\ m \in Mem /\ d \in Dma
  BY <1>1, RunsFacts DEF NeedsMem, LocalsOK, DmaPc
<1>3. mem[m].heap # "freed" /\ Moves(t, pc, "map_put")
  BY <1>1, <1>2, RunsMem, GotoMoves DEF DerefsMem, DmaPc
<1>4. dma \in [Dma -> DmaRec] /\ dma[d] \in DmaRec
  BY <1>2 DEF TypeOK
<1>5. PICK b \in BOOLEAN : /\ DeleteDma(t, b)
                           /\ b => dma[d].mapped /\ mem[m].loc # "CPU" /\ ~mem[m].table
  BY DEF MapDmaFails, MapAddrsFail
<1> DEFINE r == [dma[d] EXCEPT !.heap = "freed", !.mapped = b]
<1>6. dma' = [dma EXCEPT ![d] = r]
  BY <1>5 DEF DeleteDma
<1>7. r.heap = "freed" /\ r.mem = dma[d].mem /\ r.mapped = b
  BY <1>4 DEF DmaRec
<1> HIDE DEF r
<1>8. dma'[d] = r /\ \A e \in Dma \ {d} : dma'[e] = dma[e]
  BY <1>2, <1>4, <1>6
<1> QED BY <1>1, <1>2, <1>3, <1>5, <1>7, <1>8
        DEF MapDmaFails, MapAddrsFail, MapFailsEff, ctxVars, procVars

LEMMA MapLinkDoes ==
  ASSUME Inv, NEW t \in Thread, MapLink(t)
  PROVE  MapLinkEff(t)
<1> DEFINE m == th[t].m
           d == th[t].d
           left == Tail(th[t].left)
           mine == <<d>> \o th[t].mine
           pc == IF left = <<>> THEN "map_copy" ELSE "map_lock"
           s == [th[t] EXCEPT !.pc = pc, !.left = left, !.mine = mine]
           r == [mem[m] EXCEPT !.dmas = @ \cup {d}]
<1>1. Runs(t, "map_link") /\ mem' = [mem EXCEPT ![m] = r] /\ th' = [th EXCEPT ![t] = s]
  BY DEF MapLink
<1>2. /\ TypeOK /\ th[t].pc = "map_link" /\ m \in Mem /\ d \in Dma
      /\ th[t] \in ThreadRec /\ mem[m] \in MemRec
  BY <1>1, RunsFacts DEF NeedsMem, LocalsOK, DmaPc
<1>3. mem[m].heap # "freed"
  BY <1>1, <1>2, RunsMem DEF DerefsMem
<1>4. pc \in {"map_copy", "map_lock"}
  OBVIOUS
<1> HIDE DEF pc, left, mine
<1>5. /\ s.pc = pc /\ s.op = th[t].op /\ s.m = m /\ s.d = d /\ s.f = th[t].f
      /\ s.a = th[t].a /\ s.ret = th[t].ret /\ s.rest = th[t].rest /\ s.mine = mine
  BY <1>2 DEF ThreadRec
<1>6. /\ r.ref = mem[m].ref /\ r.dmas = mem[m].dmas \cup {d} /\ r.id = mem[m].id
      /\ r.heap = mem[m].heap /\ r.state = mem[m].state /\ r.loc = mem[m].loc
      /\ r.vaddr = mem[m].vaddr /\ r.table = mem[m].table
  BY <1>2 DEF MemRec
<1> HIDE DEF r, s
<1>7. /\ th'[t] = s /\ \A u \in Thread \ {t} : th'[u] = th[u]
      /\ Only(m) /\ mem'[m] = r
  BY <1>1, <1>2, ThreadPoint, MemPoint
<1> QED BY <1>2, <1>3, <1>4, <1>5, <1>6, <1>7
        DEF MapLink, MapLinkEff, Pushes, SameUse, SameId, mine, ctxVars, procVars, dmaVars

LEMMA MapUndoDoes ==
  ASSUME Inv, NEW t \in Thread, MapUndo(t)
  PROVE  \E d, m : MapUndoEff(t, d, m)
<1> DEFINE mine == th[t].mine
           d == Head(mine)
           m == dma[d].mem
           rest == Tail(mine)
           s == [th[t] EXCEPT !.pc = "map_put", !.m = m, !.mine = rest]
           r == [mem[m] EXCEPT !.dmas = @ \ {d}]
<1>1. /\ Runs(t, "map_undo") /\ mine # <<>> /\ UnmapDma({d}, m)
      /\ mem' = [mem EXCEPT ![m] = r] /\ th' = [th EXCEPT ![t] = s]
  BY DEF MapUndo
<1>2. /\ TypeOK /\ th[t].pc = "map_undo" /\ th[t] \in ThreadRec /\ dma[d].heap # "freed"
      /\ DmaInv
  BY <1>1, RunsFacts DEF Inv
<1>3. mine \in Seq(Dma)
  BY <1>2 DEF ThreadRec
<1>4. d \in Elems(mine) /\ d \in Dma
  BY <1>1, <1>3, ElemsTail
<1>5. dma[d].heap = "live" /\ m \in Mem
  <2>1. dma[d].heap # "unused" /\ m \in Mem
    BY <1>2, <1>4 DEF DmaInv, DmaMade
  <2>2. dma[d] \in DmaRec
    BY <1>2, <1>4 DEF TypeOK
  <2> QED BY <1>2, <2>1, <2>2 DEF DmaRec
<1>6. mem[m].heap # "freed"
  BY <1>1, <1>2 DEF Runs, UseAfterFree
<1>7. Drops({d}, ~UnmapsNow(m))
  BY <1>1, <1>4, DropsPoint
<1>8. mem[m] \in MemRec
  BY <1>2, <1>5 DEF TypeOK
<1> HIDE DEF m, rest
<1>9. /\ s.pc = "map_put" /\ s.op = th[t].op /\ s.m = m /\ s.d = th[t].d
      /\ s.f = th[t].f /\ s.a = th[t].a /\ s.ret = th[t].ret /\ s.rest = th[t].rest
      /\ s.mine = rest
  BY <1>2 DEF ThreadRec
<1>10. /\ r.ref = mem[m].ref /\ r.dmas = mem[m].dmas \ {d} /\ r.id = mem[m].id
       /\ r.heap = mem[m].heap /\ r.state = mem[m].state /\ r.loc = mem[m].loc
       /\ r.vaddr = mem[m].vaddr /\ r.table = mem[m].table
  BY <1>8 DEF MemRec
<1> HIDE DEF r, s
<1>11. /\ th'[t] = s /\ \A u \in Thread \ {t} : th'[u] = th[u]
       /\ Only(m) /\ mem'[m] = r
  BY <1>1, <1>2, <1>5, ThreadPoint, MemPoint
<1>12. UNCHANGED <<ctxRef, ctxLock, memList, memXa, pages, vma, mmapLock, file, known, cb,
                   fault>>
  BY DEF MapUndo, ctxVars, procVars
<1>13. m = dma[d].mem /\ rest = Tail(th[t].mine)
  BY DEF m, rest
<1>14. d = Head(th[t].mine) /\ th[t].mine = mine
  OBVIOUS
<1> HIDE DEF d
<1>15. MapUndoEff(t, d, m)
  BY <1>1, <1>2, <1>3, <1>4, <1>5, <1>6, <1>7, <1>9, <1>10, <1>11, <1>12, <1>13, <1>14
     DEF MapUndoEff, Pops, SameUse, SameId
<1> QED BY <1>15

LEMMA CbBeginDoes ==
  ASSUME Inv, NEW m \in Mem, CbBegin(m)
  PROVE  CbBeginEff(m)
<1>1. \A n \in Mem : cb'[n] = IF n = m THEN "spinning" ELSE cb[n]
  BY DEF CbBegin, Inv, TypeOK
<1> QED BY <1>1 DEF CbBegin, CbBeginEff, ctxVars, procVars, dmaVars

LEMMA CbRunDoes ==
  ASSUME Inv, NEW m \in Mem, CbRun(m)
  PROVE  CbRunEff(m)
<1> DEFINE state == IF CbActs(m) THEN "DEAD_CB" ELSE mem[m].state
           table == mem[m].table /\ ~CbActs(m)
           r == [mem[m] EXCEPT !.state = state, !.table = table]
           q(d) == [dma[d] EXCEPT !.mapped = FALSE]
<1>1. TypeOK /\ mem[m] \in MemRec
  BY DEF Inv, TypeOK
<1>2. mem' = [mem EXCEPT ![m] = r]
  BY DEF CbRun
<1> HIDE DEF state, table
<1>3. /\ r.ref = mem[m].ref /\ r.dmas = mem[m].dmas /\ r.id = mem[m].id
      /\ r.heap = mem[m].heap /\ r.state = state /\ r.loc = mem[m].loc
      /\ r.vaddr = mem[m].vaddr /\ r.table = table
  BY <1>1 DEF MemRec
<1> HIDE DEF r
<1>4. Only(m) /\ mem'[m] = r
  BY <1>1, <1>2, MemPoint
<1>5. \A d \in Dma : /\ dma'[d].heap = dma[d].heap /\ dma'[d].mem = dma[d].mem
                     /\ dma'[d].mapped <=> dma[d].mapped /\ ~(CbActs(m) /\ d \in mem[m].dmas)
  <2> SUFFICES ASSUME NEW d \in Dma
               PROVE  /\ dma'[d].heap = dma[d].heap /\ dma'[d].mem = dma[d].mem
                      /\ dma'[d].mapped <=> /\ dma[d].mapped
                                            /\ ~(CbActs(m) /\ d \in mem[m].dmas)
    OBVIOUS
  <2>1. dma[d] \in DmaRec
    BY <1>1 DEF TypeOK
  <2>2. dma'[d] = IF CbActs(m) /\ d \in mem[m].dmas THEN q(d) ELSE dma[d]
    BY DEF CbRun
  <2>3. q(d).heap = dma[d].heap /\ q(d).mem = dma[d].mem /\ ~q(d).mapped
    BY <2>1 DEF DmaRec
  <2> HIDE DEF q
  <2> QED BY <2>2, <2>3
<1>6. /\ \A n \in Mem : cb'[n] = IF n = m THEN "idle" ELSE cb[n]
      /\ \A n \in Mem : pages'[n] = IF n = m /\ CbActs(m) /\ mem[m].table
                                     THEN pages[m] - 1 ELSE pages[n]
  BY <1>1 DEF CbRun, TypeOK
<1> QED BY <1>3, <1>4, <1>5, <1>6
        DEF CbRun, CbRunEff, SameCounts, SameId, state, table, ctxVars, procVars

LEMMA GraceEndDoes ==
  ASSUME Inv, NEW m \in Mem, GraceEnd(m)
  PROVE  GraceEndEff(m)
<1>1. HeapTo(m, "freed")
  BY HeapPoint DEF GraceEnd, Inv
<1> QED BY <1>1 DEF GraceEnd, GraceEndEff, ctxVars, procVars, dmaVars

LEMMA FrozenDoes ==
  /\ \A t \in Thread : Oops(t) => Frozen
  /\ \A m \in Mem : CbOops(m) => Frozen
  /\ UNCHANGED vars => Frozen
BY DEF Oops, CbOops, Frozen, vars, ctxVars, procVars, dmaVars

----------------------------------------------------------------------------
(* The invariant behind the count of the context. *)

(* Each step belongs to one call; a release goes on with the call that ran it. *)
OpOK(s) ==
  /\ s.op = "none" <=> s.pc = "idle"
  /\ s.op = "reg" <=> s.pc \in {"reg_insert", "reg_copy", "reg_erase"}
  /\ s.op = "close" <=> s.pc \in {"close_do", "close_ctx"}
  /\ s.pc \in {"pin_get", "pin_do", "pin_put", "pin_ret"} => s.op = "pin"
  /\ s.pc \in {"unmap_do", "unmap_put", "unmap_ctx"} => s.op = "unmap"
  /\ s.pc \in {"map_lock", "walk", "walk_put", "map_alloc", "map_dma", "map_link",
               "map_put", "map_copy", "map_undo"} => s.op = "map"
  /\ s.pc \in RelPc => /\ s.ret = "pin_ret" => s.op = "pin"
                       /\ s.ret = "unmap_ctx" => s.op = "unmap"
                       /\ s.ret = "map_undo" => s.op = "map"

Ops == \A t \in Thread : OpOK(th[t])

(* A call and a vma hold the file they were made through. *)
FilesOK ==
  /\ \A t \in Thread : th[t].op \in {"reg", "pin", "map", "unmap"} => file[th[t].f] = "open"
  /\ \A t \in Thread : th[t].op = "close" =>
       /\ file[th[t].f] = "closing"
       /\ \A u \in Thread : th[u].f = th[t].f => u = t
  /\ \A a \in Addr : vma[a] # NoVma => file[vma[a].f] = "open"

(* Nothing leads to m. *)
Unseen(m) ==
  /\ m \notin memList
  /\ \A i \in Id : memXa[i] # m
  /\ \A a \in Addr : vma[a].m # m
  /\ \A d \in Dma : dma[d].mem # m

(* An object is unused as long as nothing leads to it. *)
Unused ==
  \A m \in Mem : mem[m].heap = "unused" => Unseen(m) /\ \A t \in Thread : th[t].m # m

(* Only the thread that makes a registration knows of it before xa_alloc. *)
Making ==
  \A t \in Thread : th[t].pc = "reg_insert" =>
    /\ th[t].m \in Mem /\ mem[th[t].m].heap = "live" /\ Unseen(th[t].m)
    /\ \A u \in Thread : th[u].m = th[t].m => u = t

(* The holder of ctx->lock walks the list, and the list stays as it is. *)
WalkPc == {"walk", "walk_put"}

Walks ==
  \A t \in Thread :
    /\ ctxLock = t <=> th[t].pc \in WalkPc
    /\ th[t].pc \in WalkPc => th[t].rest \subseteq memList
    /\ th[t].pc = "walk" => th[t].m = NULL \/ th[t].m \in memList
    /\ th[t].pc = "walk_put" => th[t].m \in memList

(* mem_list holds live registrations, and none between its list_del and    *)
(* its kfree_rcu.                                                          *)
Lists ==
  /\ \A m \in memList : mem[m].heap = "live"
  /\ \A t \in Thread : th[t].pc = "rel_free" => th[t].m \notin memList

CtxInv == Ops /\ FilesOK /\ Unused /\ Making /\ Walks /\ Lists /\ CtxRefExact

(* The pairs of steps of GoesOn and of Puts. *)
GoesOnPc(pc, to) ==
  \/ pc = "reg_copy" /\ to = "reg_erase"
  \/ pc = "map_alloc" /\ to = "map_put"
  \/ pc = "map_copy" /\ to = "map_undo"

PutPc(pc, next) ==
  \/ pc = "pin_put" /\ next = "pin_ret"
  \/ pc = "unmap_put" /\ next = "unmap_ctx"
  \/ pc = "map_put" /\ next = "map_undo"

(* What the type invariant says of the values the steps use. *)
LEMMA NullOut ==
  NULL \notin Mem /\ NULL \notin Thread /\ NULL \notin File /\ NULL \notin Addr
BY DEF ConstantsAssumption

LEMMA NoVmaFields == NoVma.m = NULL /\ NoVma.f = NULL
BY DEF NoVma

LEMMA HandleId == \A p \in Handle : p - 1 \in Id
BY DEF Handle, Id

LEMMA ThreadTypes ==
  ASSUME Inv
  PROVE  \A t \in Thread : /\ th[t].m \in Mem \cup {NULL}
                           /\ th[t].pc # "idle" => th[t].f \in File
                           /\ th[t].pc \in NeedsMem => th[t].m \in Mem
                           /\ th[t].pc \in DmaPc => th[t].d \in Dma
<1>1. \A t \in Thread : th[t] \in ThreadRec /\ LocalsOK(th[t])
  BY DEF Inv, TypeOK, Locals
<1> QED BY <1>1 DEF ThreadRec, LocalsOK

LEMMA ThreadFile == ASSUME Inv PROVE \A t \in Thread : th[t].pc # "idle" => th[t].f \in File
BY ThreadTypes

LEMMA MemTypes ==
  ASSUME Inv
  PROVE  \A m \in Mem : /\ mem[m].heap \in {"unused", "live", "limbo", "freed"}
                        /\ mem[m].id \in Id /\ mem[m].dmas \in SUBSET Dma
                        /\ mem[m].ref \in Nat
                        /\ mem[m].state \in {"STALE", "LIVE", "DEAD", "DEAD_CB"}
<1>1. \A m \in Mem : mem[m] \in MemRec
  BY DEF Inv, TypeOK
<1> QED BY <1>1 DEF MemRec, Heap

LEMMA ListTypes ==
  ASSUME Inv
  PROVE  memList \subseteq Mem /\ (\A i \in Id : memXa[i] \in Mem \cup {NULL})
BY DEF Inv, TypeOK

LEMMA VmaTypes ==
  ASSUME Inv
  PROVE  \A a \in Addr : vma[a] = NoVma \/ (vma[a].m \in Mem /\ vma[a].f \in File)
<1>1. \A a \in Addr : vma[a] = NoVma \/ vma[a] \in [m : Mem, f : File]
  BY DEF Inv, TypeOK
<1> SUFFICES ASSUME NEW a \in Addr, vma[a] # NoVma PROVE vma[a].m \in Mem /\ vma[a].f \in File
  OBVIOUS
<1>2. vma[a] \in [m : Mem, f : File]
  BY <1>1
<1> QED BY <1>2

LEMMA DmaTypes == ASSUME Inv PROVE \A d \in Dma : dma[d].mem \in Mem \cup {NULL}
<1>1. \A d \in Dma : dma[d] \in DmaRec
  BY DEF Inv, TypeOK
<1> QED BY <1>1 DEF DmaRec

LEMMA OpFile == ASSUME Inv, Ops PROVE \A t \in Thread : th[t].op # "none" => th[t].f \in File
BY ThreadTypes DEF Ops, OpOK

LEMMA FilesFrame ==
  ASSUME FilesOK, file' = file, vma' = vma,
         \A u \in Thread : th'[u].op = th[u].op /\ th'[u].f = th[u].f
  PROVE  FilesOK'
BY DEF FilesOK

LEMMA FilesStart ==
  ASSUME FilesOK, file' = file, vma' = vma, NEW t \in Thread, NEW f \in File, file[f] = "open",
         \A u \in Thread \ {t} : th'[u] = th[u],
         th'[t].op \in {"reg", "pin", "map", "unmap"}, th'[t].f = f
  PROVE  FilesOK'
<1>1. \A u \in Thread : th'[u].op \in {"reg", "pin", "map", "unmap"} => file'[th'[u].f] = "open"
  <2> SUFFICES ASSUME NEW u \in Thread, th'[u].op \in {"reg", "pin", "map", "unmap"}
               PROVE  file'[th'[u].f] = "open"
    OBVIOUS
  <2>1. CASE u = t
    BY <2>1
  <2>2. CASE u # t
    BY <2>2 DEF FilesOK
  <2> QED BY <2>1, <2>2
<1>2. ASSUME NEW u \in Thread, th'[u].op = "close"
      PROVE  /\ file'[th'[u].f] = "closing"
             /\ \A v \in Thread : th'[v].f = th'[u].f => v = u
  <2>1. u # t /\ th'[u] = th[u]
    BY <1>2
  <2>2. /\ file[th[u].f] = "closing" /\ th[u].f # f
        /\ \A v \in Thread : th[v].f = th[u].f => v = u
    BY <1>2, <2>1 DEF FilesOK
  <2>3. \A v \in Thread : th'[v].f = th[u].f => v # t /\ th'[v] = th[v]
    BY <2>2
  <2> QED BY <2>1, <2>2, <2>3
<1>3. \A a \in Addr : vma'[a] # NoVma => file'[vma'[a].f] = "open"
  BY DEF FilesOK
<1> QED BY <1>1, <1>2, <1>3 DEF FilesOK

LEMMA FilesEnd ==
  ASSUME Inv, Ops, FilesOK, file' = file, vma' = vma, NEW t \in Thread, NEW pc, Ends(t, pc)
  PROVE  FilesOK'
BY NullOut, OpFile DEF FilesOK, Ends

----------------------------------------------------------------------------
(* What a step of the module does. *)

CallEff(t) ==
  \/ \E f \in File, l \in Loc, m \in Mem : RegStartEff(t, f, l, m)
  \/ \E f \in File, p \in Handle, a \in Addr : MayPin(p, a) /\ PinStartEff(t, f, p, a)
  \/ \E a \in Addr : UnmapStartEff(t, a)
  \/ \E f \in File : CloseStartEff(t, f)
  \/ \E f \in File, a \in Addr \cup {NULL} : MayMap(a) /\ MapStartEff(t, f, a)

LockEff(t) ==
  \/ RegInsertEff(t) \/ RegInsertFailsEff(t) \/ RegCopyEff(t) \/ RegEraseEff(t)
  \/ \E pc, to : GoesOnPc(pc, to) /\ GoesOn(t, pc, to)
  \/ PinGetEff(t) \/ PinDoEff(t) \/ PinDoFailsEff(t) \/ PinReturnEff(t)
  \/ \E pc, next : PutPc(pc, next) /\ PutEff(t, pc, next)
  \/ RelUnlinkEff(t) \/ RelFreeEff(t) \/ RelCtxEff(t)
  \/ UnmapDoEff(t) \/ UnmapReturnEff(t) \/ CloseDoEff(t) \/ CloseReturnEff(t)

MapEff(t) ==
  \/ MapLockEff(t) \/ WalkMatchEff(t) \/ WalkSkipEff(t) \/ WalkPutEff(t) \/ WalkEndEff(t)
  \/ \E d \in Dma : MapAllocEff(t, d)
  \/ MapDmaEff(t) \/ MapFailsEff(t) \/ MapLinkEff(t) \/ MapReturnEff(t)
  \/ \E d, m : MapUndoEff(t, d, m)

StepEff ==
  \/ \E t \in Thread : CallEff(t) \/ LockEff(t) \/ MapEff(t)
  \/ \E m \in Mem : CbBeginEff(m) \/ CbRunEff(m) \/ GraceEndEff(m)
  \/ \E a, b \in Addr : SplitVmaEff(a, b)
  \/ Frozen

LEMMA ClientDoes ==
  ASSUME Inv, NEW t \in Thread, Client(t)
  PROVE  CallEff(t)
BY RegStartDoes, PinStartDoes, UnmapStartDoes, CloseStartDoes, MapStartDoes
   DEF Client, CallEff

LEMMA StepDoes ==
  ASSUME Inv, NEW t \in Thread, Step(t)
  PROVE  LockEff(t) \/ MapEff(t)
<1>1. \A pc, to : GoesOnPc(pc, to) /\ GoesOn(t, pc, to) => LockEff(t) \/ MapEff(t)
  BY DEF LockEff
<1>2. \A pc, next : PutPc(pc, next) /\ PutEff(t, pc, next) => LockEff(t) \/ MapEff(t)
  BY DEF LockEff
<1>3. CASE RegCopyFails(t) \/ MapAllocFails(t) \/ MapCopyFails(t)
  BY <1>1, <1>3, GoesOnDoes DEF GoesOnPc
<1>4. CASE PinPut(t) \/ UnmapPut(t) \/ MapPut(t)
  BY <1>2, <1>4, PutsDo DEF PutPc
<1>5. CASE \/ RegInsert(t) \/ RegInsertFails(t) \/ RegCopy(t) \/ RegErase(t)
           \/ PinGet(t) \/ PinDo(t) \/ PinDoFails(t) \/ PinReturn(t)
           \/ RelUnlink(t) \/ RelFree(t) \/ RelCtx(t)
           \/ UnmapDo(t) \/ UnmapReturn(t) \/ CloseDo(t) \/ CloseReturn(t)
  BY <1>5, RegInsertDoes, RegInsertFailsDoes, RegCopyDoes, RegEraseDoes, PinGetDoes,
     PinDoDoes, PinDoFailsDoes, ReturnsDo, RelUnlinkDoes, RelFreeDoes, RelCtxDoes,
     UnmapDoDoes, CloseDoDoes DEF LockEff
<1>6. CASE \/ MapLock(t) \/ WalkMatch(t) \/ WalkSkip(t) \/ WalkPut(t) \/ WalkEnd(t)
           \/ \E d \in Dma : MapAlloc(t, d)
           \/ MapDma(t) \/ MapDmaFails(t) \/ MapAddrsFail(t) \/ MapLink(t) \/ MapReturn(t)
           \/ MapUndo(t)
  BY <1>6, MapLockDoes, WalkMatchDoes, WalkSkipDoes, WalkPutDoes, WalkEndDoes, MapAllocDoes,
     MapDmaDoes, MapFailsDo, MapLinkDoes, ReturnsDo, MapUndoDoes DEF MapEff
<1> QED BY <1>3, <1>4, <1>5, <1>6 DEF Step

LEMMA NextDoes == ASSUME Inv, [Next]_vars PROVE StepEff
<1>1. CASE \E t \in Thread : Client(t) \/ Step(t)
  BY <1>1, ClientDoes, StepDoes DEF StepEff
<1>2. CASE (\E t \in Thread : Oops(t)) \/ (\E m \in Mem : CbOops(m)) \/ Halted \/ UNCHANGED vars
  BY <1>2, FrozenDoes DEF StepEff, Halted
<1>3. CASE \E m \in Mem : CbBegin(m) \/ CbRun(m) \/ GraceEnd(m)
  BY <1>3, CbBeginDoes, CbRunDoes, GraceEndDoes DEF StepEff
<1>4. CASE \E a, b \in Addr : SplitVma(a, b)
  BY <1>4, SplitVmaDoes DEF StepEff
<1> QED BY <1>1, <1>2, <1>3, <1>4 DEF Next

----------------------------------------------------------------------------
(* Counting. *)

OpenFiles == {f \in File : file[f] # "closed"}

LiveMems == {m \in Mem : mem[m].heap = "live"}

(* Threads that hold the context for a moment. *)
CtxThreads == {t \in Thread : th[t].pc \in {"rel_ctx", "walk", "walk_put"}}

UnmapThreads == {t \in Thread : th[t].op = "unmap" /\ th[t].pc # "unmap_do"}

LEMMA CountAdd ==
  ASSUME NEW U, IsFiniteSet(U), NEW S \in SUBSET U, NEW x, x \notin S
  PROVE  Cardinality(S \cup {x}) = Cardinality(S) + 1
BY FS_Subset, FS_AddElement

LEMMA CountRemove ==
  ASSUME NEW U, IsFiniteSet(U), NEW S \in SUBSET U, NEW x \in S
  PROVE  Cardinality(S \ {x}) = Cardinality(S) - 1
BY FS_Subset, FS_RemoveElement

LEMMA CtxCount ==
  /\ CtxRefExact <=> ctxRef = Cardinality(OpenFiles) + Cardinality(LiveMems)
                              + Cardinality(CtxThreads) + Cardinality(UnmapThreads)
  /\ OpenFiles \in SUBSET File /\ LiveMems \in SUBSET Mem
  /\ CtxThreads \in SUBSET Thread /\ UnmapThreads \in SUBSET Thread
  /\ Cardinality(OpenFiles) \in Nat /\ Cardinality(LiveMems) \in Nat
  /\ Cardinality(CtxThreads) \in Nat /\ Cardinality(UnmapThreads) \in Nat
<1>1. /\ OpenFiles \in SUBSET File /\ LiveMems \in SUBSET Mem
      /\ CtxThreads \in SUBSET Thread /\ UnmapThreads \in SUBSET Thread
  BY DEF OpenFiles, LiveMems, CtxThreads, UnmapThreads
<1>2. /\ Cardinality(OpenFiles) \in Nat /\ Cardinality(LiveMems) \in Nat
      /\ Cardinality(CtxThreads) \in Nat /\ Cardinality(UnmapThreads) \in Nat
  BY <1>1, FS_Subset, FS_CardinalityType
<1>3. CtxRefExact <=> ctxRef = Cardinality(OpenFiles) + Cardinality(LiveMems)
                              + Cardinality(CtxThreads) + Cardinality(UnmapThreads)
  BY DEF CtxRefExact, At, OpenFiles, LiveMems, CtxThreads, UnmapThreads
<1> QED BY <1>1, <1>2, <1>3

(* The same fact after a step. *)
LEMMA CtxCountNext ==
  /\ CtxRefExact' <=> ctxRef' = Cardinality(OpenFiles') + Cardinality(LiveMems')
                               + Cardinality(CtxThreads') + Cardinality(UnmapThreads')
BY DEF CtxRefExact, At, OpenFiles, LiveMems, CtxThreads, UnmapThreads

----------------------------------------------------------------------------
(* Every step keeps it. *)

LEMMA RegStartCtx ==
  ASSUME Inv, CtxInv, NEW t \in Thread, NEW f \in File, NEW l \in Loc, NEW m \in Mem, RegStartEff(t, f, l, m)
  PROVE  CtxInv'
<1>1. Ops'
  BY DEF CtxInv, Ops, OpOK, RelPc, RegStartEff, Starts
<1>2. FilesOK'
  BY FilesStart DEF CtxInv, RegStartEff, Starts
<1>3. Unused'
  BY NullOut DEF CtxInv, Unused, Unseen, RegStartEff, Starts, Only
<1>4. Making'
  <2>1. /\ \A u \in Thread : th[u].m # m
        /\ \A u \in Thread \ {t} : th'[u] = th[u]
        /\ th'[t].m = m
    <3>1. mem[m].heap = "unused"
      BY DEF RegStartEff
    <3> QED BY <3>1 DEF CtxInv, Unused, RegStartEff, Starts
  <2>2. \A n \in Mem : Unseen(n)' <=> Unseen(n)
    BY DEF Unseen, RegStartEff
  <2>3. Unseen(m) /\ mem'[m].heap = "live" /\ \A n \in Mem \ {m} : mem'[n] = mem[n]
    BY DEF CtxInv, Unused, RegStartEff, Only
  <2>5. \A u \in Thread \ {t} : th[u].pc = "reg_insert" => th[u].m \in Mem \ {m}
    BY <2>1 DEF CtxInv, Making
  <2> QED BY <2>1, <2>2, <2>3, <2>5 DEF CtxInv, Making
<1>5. Walks'
  BY NullOut DEF CtxInv, Walks, WalkPc, RegStartEff, Starts
<1>6. Lists'
  BY NullOut, ListTypes DEF CtxInv, Lists, Making, Unseen, RegStartEff, Starts, Only
<1>7. CtxRefExact'
  <2>1. OpenFiles' = OpenFiles
    BY DEF OpenFiles, RegStartEff, Starts
  <2>2. LiveMems' = LiveMems \cup {m} /\ m \notin LiveMems
    BY DEF LiveMems, CtxInv, Making, Unused, Lists, Stale, Gone, RegStartEff, Starts, Only
  <2>3. CtxThreads' = CtxThreads
    BY DEF CtxThreads, RelRet, RegStartEff, Starts
  <2>4. UnmapThreads' = UnmapThreads
    BY DEF UnmapThreads, CtxInv, Ops, OpOK, RelPc, RegStartEff, Starts
  <2>5. ctxRef' = ctxRef + 1
    BY DEF RegStartEff
  <2>6. CtxRefExact
    BY DEF CtxInv
  <2>7. Cardinality(LiveMems') = Cardinality(LiveMems) + 1
    BY <2>2, CtxCount, CountAdd
  <2> QED BY <2>1, <2>2, <2>3, <2>4, <2>5, <2>6, <2>7, CtxCount, CtxCountNext
<1> QED BY <1>1, <1>2, <1>3, <1>4, <1>5, <1>6, <1>7 DEF CtxInv

LEMMA RegInsertCtx ==
  ASSUME Inv, CtxInv, NEW t \in Thread, RegInsertEff(t)
  PROVE  CtxInv'
<1>1. Ops'
  BY DEF CtxInv, Ops, OpOK, RelPc, RegInsertEff, Moves, Keeps
<1>2. FilesOK'
  <2>1. \A u \in Thread : th'[u].op = th[u].op /\ th'[u].f = th[u].f
    BY DEF RegInsertEff, Moves, Keeps
  <2> QED BY <2>1, FilesFrame DEF CtxInv, RegInsertEff
<1>3. Unused'
  BY NullOut DEF CtxInv, Unused, Unseen, RegInsertEff, Moves, Keeps, Only, SameUse,
     SameCounts
<1>4. Making'
  BY NullOut DEF CtxInv, Making, Unused, Unseen, RegInsertEff, Moves, Keeps, Only,
     SameUse, SameCounts
<1>5. Walks'
  BY NullOut DEF CtxInv, Walks, WalkPc, RegInsertEff, Moves, Keeps
<1>6. Lists'
  BY NullOut, ListTypes DEF CtxInv, Lists, Making, Unseen, RegInsertEff, Moves, Keeps,
     Only, SameUse, SameCounts
<1>7. CtxRefExact'
  <2>1. OpenFiles' = OpenFiles
    BY DEF OpenFiles, RegInsertEff, Moves, Keeps
  <2>2. LiveMems' = LiveMems
    BY DEF LiveMems, RegInsertEff, Moves, Keeps, Only, SameUse, SameCounts
  <2>3. CtxThreads' = CtxThreads
    BY DEF CtxThreads, RelRet, RegInsertEff, Moves, Keeps
  <2>4. UnmapThreads' = UnmapThreads
    BY DEF UnmapThreads, CtxInv, Ops, OpOK, RelPc, RegInsertEff, Moves, Keeps
  <2>5. ctxRef' = ctxRef 
    BY DEF RegInsertEff
  <2>6. CtxRefExact
    BY DEF CtxInv
  <2> QED BY <2>1, <2>2, <2>3, <2>4, <2>5, <2>6, CtxCount, CtxCountNext
<1> QED BY <1>1, <1>2, <1>3, <1>4, <1>5, <1>6, <1>7 DEF CtxInv

LEMMA RegInsertFailsCtx ==
  ASSUME Inv, CtxInv, NEW t \in Thread, RegInsertFailsEff(t)
  PROVE  CtxInv'
<1>1. Ops'
  BY DEF CtxInv, Ops, OpOK, RelPc, RegInsertFailsEff, Ends
<1>2. FilesOK'
  BY FilesEnd DEF CtxInv, RegInsertFailsEff
<1>3. Unused'
  BY NullOut DEF CtxInv, Unused, Unseen, RegInsertFailsEff, Ends, HeapTo, Only,
     SameCounts, SameId
<1>4. Making'
  <2>1. \A n \in Mem : Unseen(n)' <=> Unseen(n)
    BY DEF Unseen, RegInsertFailsEff
  <2>2. th[t].pc = "reg_insert" /\ th'[t].m = NULL /\ th'[t].pc = "idle"
        /\ \A u \in Thread \ {t} : th'[u] = th[u]
    BY DEF RegInsertFailsEff, Ends
  <2>3. \A n \in Mem \ {th[t].m} : mem'[n] = mem[n]
    BY DEF RegInsertFailsEff, HeapTo, Only
  <2> QED BY <2>1, <2>2, <2>3, NullOut DEF CtxInv, Making
<1>5. Walks'
  BY NullOut DEF CtxInv, Walks, WalkPc, RegInsertFailsEff, Ends
<1>6. Lists'
  BY NullOut, ListTypes DEF CtxInv, Lists, Making, Unseen, RegInsertFailsEff, Ends,
     HeapTo, Only, SameCounts, SameId
<1>7. CtxRefExact'
  <2>1. OpenFiles' = OpenFiles
    BY DEF OpenFiles, RegInsertFailsEff, Ends
  <2>2. LiveMems' = LiveMems \ {th[t].m} /\ th[t].m \in LiveMems
    BY DEF LiveMems, CtxInv, Making, Unused, Lists, Stale, Gone, RegInsertFailsEff, Ends,
       HeapTo, Only, SameCounts, SameId
  <2>3. CtxThreads' = CtxThreads
    BY DEF CtxThreads, RelRet, RegInsertFailsEff, Ends
  <2>4. UnmapThreads' = UnmapThreads
    BY DEF UnmapThreads, CtxInv, Ops, OpOK, RelPc, RegInsertFailsEff, Ends
  <2>5. ctxRef' = ctxRef - 1
    BY DEF RegInsertFailsEff
  <2>6. CtxRefExact
    BY DEF CtxInv
  <2>7. Cardinality(LiveMems') = Cardinality(LiveMems) - 1
    BY <2>2, CtxCount, CountRemove
  <2> QED BY <2>1, <2>2, <2>3, <2>4, <2>5, <2>6, <2>7, CtxCount, CtxCountNext
<1> QED BY <1>1, <1>2, <1>3, <1>4, <1>5, <1>6, <1>7 DEF CtxInv

LEMMA RegCopyCtx ==
  ASSUME Inv, CtxInv, NEW t \in Thread, RegCopyEff(t)
  PROVE  CtxInv'
<1>1. Ops'
  BY DEF CtxInv, Ops, OpOK, RelPc, RegCopyEff, Ends
<1>2. FilesOK'
  BY FilesEnd DEF CtxInv, RegCopyEff
<1>3. Unused'
  BY NullOut DEF CtxInv, Unused, Unseen, RegCopyEff, Ends
<1>4. Making'
  BY NullOut DEF CtxInv, Making, Unused, Unseen, RegCopyEff, Ends
<1>5. Walks'
  BY NullOut DEF CtxInv, Walks, WalkPc, RegCopyEff, Ends
<1>6. Lists'
  BY NullOut, ListTypes DEF CtxInv, Lists, Making, Unseen, RegCopyEff, Ends
<1>7. CtxRefExact'
  <2>1. OpenFiles' = OpenFiles
    BY DEF OpenFiles, RegCopyEff, Ends
  <2>2. LiveMems' = LiveMems
    BY DEF LiveMems, RegCopyEff, Ends
  <2>3. CtxThreads' = CtxThreads
    BY DEF CtxThreads, RelRet, RegCopyEff, Ends
  <2>4. UnmapThreads' = UnmapThreads
    BY DEF UnmapThreads, CtxInv, Ops, OpOK, RelPc, RegCopyEff, Ends
  <2>5. ctxRef' = ctxRef 
    BY DEF RegCopyEff
  <2>6. CtxRefExact
    BY DEF CtxInv
  <2> QED BY <2>1, <2>2, <2>3, <2>4, <2>5, <2>6, CtxCount, CtxCountNext
<1> QED BY <1>1, <1>2, <1>3, <1>4, <1>5, <1>6, <1>7 DEF CtxInv

LEMMA GoesOnCtx ==
  ASSUME Inv, CtxInv, NEW t \in Thread, NEW pc, NEW to, GoesOnPc(pc, to), GoesOn(t, pc, to)
  PROVE  CtxInv'
<1>1. Ops'
  BY DEF CtxInv, Ops, OpOK, RelPc, GoesOnPc, GoesOn, Moves, Keeps
<1>2. FilesOK'
  <2>1. \A u \in Thread : th'[u].op = th[u].op /\ th'[u].f = th[u].f
    BY DEF GoesOnPc, GoesOn, Moves, Keeps
  <2> QED BY <2>1, FilesFrame DEF CtxInv, GoesOnPc, GoesOn
<1>3. Unused'
  BY NullOut DEF CtxInv, Unused, Unseen, GoesOnPc, GoesOn, Moves, Keeps
<1>4. Making'
  BY NullOut DEF CtxInv, Making, Unused, Unseen, GoesOnPc, GoesOn, Moves, Keeps
<1>5. Walks'
  BY NullOut DEF CtxInv, Walks, WalkPc, GoesOnPc, GoesOn, Moves, Keeps
<1>6. Lists'
  BY NullOut, ListTypes DEF CtxInv, Lists, Making, Unseen, GoesOnPc, GoesOn, Moves,
     Keeps
<1>7. CtxRefExact'
  <2>1. OpenFiles' = OpenFiles
    BY DEF OpenFiles, GoesOnPc, GoesOn, Moves, Keeps
  <2>2. LiveMems' = LiveMems
    BY DEF LiveMems, GoesOnPc, GoesOn, Moves, Keeps
  <2>3. CtxThreads' = CtxThreads
    BY DEF CtxThreads, RelRet, GoesOnPc, GoesOn, Moves, Keeps
  <2>4. UnmapThreads' = UnmapThreads
    BY DEF UnmapThreads, CtxInv, Ops, OpOK, RelPc, GoesOnPc, GoesOn, Moves, Keeps
  <2>5. ctxRef' = ctxRef 
    BY DEF GoesOn
  <2>6. CtxRefExact
    BY DEF CtxInv
  <2> QED BY <2>1, <2>2, <2>3, <2>4, <2>5, <2>6, CtxCount, CtxCountNext
<1> QED BY <1>1, <1>2, <1>3, <1>4, <1>5, <1>6, <1>7 DEF CtxInv

LEMMA RegEraseCtx ==
  ASSUME Inv, CtxInv, NEW t \in Thread, RegEraseEff(t)
  PROVE  CtxInv'
<1>1. Ops'
  BY DEF CtxInv, Ops, OpOK, RelPc, RegEraseEff, Ends
<1>2. FilesOK'
  BY FilesEnd DEF CtxInv, RegEraseEff
<1>3. Unused'
  BY NullOut DEF CtxInv, Unused, Unseen, RegEraseEff, Ends, HeapTo, Only, SameCounts,
     SameId
<1>4. Making'
  BY NullOut DEF CtxInv, Making, Unused, Unseen, RegEraseEff, Ends, HeapTo, Only,
     SameCounts, SameId
<1>5. Walks'
  BY NullOut DEF CtxInv, Walks, WalkPc, RegEraseEff, Ends
<1>6. Lists'
  BY NullOut, ListTypes DEF CtxInv, Lists, Making, Unseen, RegEraseEff, Ends, HeapTo,
     Only, SameCounts, SameId
<1>7. CtxRefExact'
  <2>1. OpenFiles' = OpenFiles
    BY DEF OpenFiles, RegEraseEff, Ends
  <2>2. LiveMems' = LiveMems \ {th[t].m} /\ th[t].m \in LiveMems
    BY MemTypes DEF LiveMems, CtxInv, Making, Unused, Lists, Stale, Gone, RegEraseEff,
       Ends, HeapTo, Only, SameCounts, SameId
  <2>3. CtxThreads' = CtxThreads
    BY DEF CtxThreads, RelRet, RegEraseEff, Ends
  <2>4. UnmapThreads' = UnmapThreads
    BY DEF UnmapThreads, CtxInv, Ops, OpOK, RelPc, RegEraseEff, Ends
  <2>5. ctxRef' = ctxRef - 1
    BY DEF RegEraseEff
  <2>6. CtxRefExact
    BY DEF CtxInv
  <2>7. Cardinality(LiveMems') = Cardinality(LiveMems) - 1
    BY <2>2, CtxCount, CountRemove
  <2> QED BY <2>1, <2>2, <2>3, <2>4, <2>5, <2>6, <2>7, CtxCount, CtxCountNext
<1> QED BY <1>1, <1>2, <1>3, <1>4, <1>5, <1>6, <1>7 DEF CtxInv

LEMMA PinStartCtx ==
  ASSUME Inv, CtxInv, NEW t \in Thread, NEW f \in File, NEW p \in Handle, NEW a \in Addr, MayPin(p, a), PinStartEff(t, f, p, a)
  PROVE  CtxInv'
<1>1. Ops'
  BY DEF CtxInv, Ops, OpOK, RelPc, PinStartEff, Starts
<1>2. FilesOK'
  BY FilesStart DEF CtxInv, PinStartEff, Starts
<1>3. Unused'
  BY NullOut, HandleId DEF CtxInv, Unused, Unseen, PinStartEff, Starts
<1>4. Making'
  BY NullOut, HandleId DEF CtxInv, Making, Unused, Unseen, PinStartEff, Starts
<1>5. Walks'
  BY NullOut DEF CtxInv, Walks, WalkPc, PinStartEff, Starts
<1>6. Lists'
  BY NullOut, ListTypes DEF CtxInv, Lists, Making, Unseen, PinStartEff, Starts
<1>7. CtxRefExact'
  <2>1. OpenFiles' = OpenFiles
    BY DEF OpenFiles, PinStartEff, Starts
  <2>2. LiveMems' = LiveMems
    BY DEF LiveMems, PinStartEff, Starts
  <2>3. CtxThreads' = CtxThreads
    BY DEF CtxThreads, RelRet, PinStartEff, Starts
  <2>4. UnmapThreads' = UnmapThreads
    BY DEF UnmapThreads, CtxInv, Ops, OpOK, RelPc, PinStartEff, Starts
  <2>5. ctxRef' = ctxRef 
    BY DEF PinStartEff
  <2>6. CtxRefExact
    BY DEF CtxInv
  <2> QED BY <2>1, <2>2, <2>3, <2>4, <2>5, <2>6, CtxCount, CtxCountNext
<1> QED BY <1>1, <1>2, <1>3, <1>4, <1>5, <1>6, <1>7 DEF CtxInv

LEMMA PinGetCtx ==
  ASSUME Inv, CtxInv, NEW t \in Thread, PinGetEff(t)
  PROVE  CtxInv'
<1>1. Ops'
  BY DEF CtxInv, Ops, OpOK, RelPc, PinGetEff, Moves, Keeps
<1>2. FilesOK'
  <2>1. \A u \in Thread : th'[u].op = th[u].op /\ th'[u].f = th[u].f
    BY DEF PinGetEff, Moves, Keeps
  <2> QED BY <2>1, FilesFrame DEF CtxInv, PinGetEff
<1>3. Unused'
  BY NullOut DEF CtxInv, Unused, Unseen, PinGetEff, Moves, Keeps, RefTo, Only, SameUse,
     SameId
<1>4. Making'
  BY NullOut DEF CtxInv, Making, Unused, Unseen, PinGetEff, Moves, Keeps, RefTo, Only,
     SameUse, SameId
<1>5. Walks'
  BY NullOut DEF CtxInv, Walks, WalkPc, PinGetEff, Moves, Keeps
<1>6. Lists'
  BY NullOut, ListTypes DEF CtxInv, Lists, Making, Unseen, PinGetEff, Moves, Keeps,
     RefTo, Only, SameUse, SameId
<1>7. CtxRefExact'
  <2>1. OpenFiles' = OpenFiles
    BY DEF OpenFiles, PinGetEff, Moves, Keeps
  <2>2. LiveMems' = LiveMems
    BY DEF LiveMems, PinGetEff, Moves, Keeps, RefTo, Only, SameUse, SameId
  <2>3. CtxThreads' = CtxThreads
    BY DEF CtxThreads, RelRet, PinGetEff, Moves, Keeps
  <2>4. UnmapThreads' = UnmapThreads
    BY DEF UnmapThreads, CtxInv, Ops, OpOK, RelPc, PinGetEff, Moves, Keeps
  <2>5. ctxRef' = ctxRef 
    BY DEF PinGetEff
  <2>6. CtxRefExact
    BY DEF CtxInv
  <2> QED BY <2>1, <2>2, <2>3, <2>4, <2>5, <2>6, CtxCount, CtxCountNext
<1> QED BY <1>1, <1>2, <1>3, <1>4, <1>5, <1>6, <1>7 DEF CtxInv

LEMMA PinDoCtx ==
  ASSUME Inv, CtxInv, NEW t \in Thread, PinDoEff(t)
  PROVE  CtxInv'
<1>1. Ops'
  BY DEF CtxInv, Ops, OpOK, RelPc, PinDoEff, Moves, Keeps
<1>2. FilesOK'
  <2>1. \A u \in Thread : th'[u].op = th[u].op /\ th'[u].f = th[u].f
    BY DEF PinDoEff, Moves, Keeps
  <2>2. file[th[t].f] = "open"
    BY DEF CtxInv, Ops, OpOK, FilesOK, PinDoEff, Moves
  <2>3. \A a \in Addr : vma'[a] = vma[a] \/ vma'[a].f = th[t].f
    BY DEF PinDoEff
  <2> QED BY <2>1, <2>2, <2>3 DEF CtxInv, FilesOK, PinDoEff
<1>3. Unused'
  BY NullOut DEF CtxInv, Unused, Unseen, PinDoEff, Moves, Keeps, Only, SameCounts,
     SameId
<1>4. Making'
  <2>2. \A u \in Thread : /\ th'[u].m = th[u].m
                          /\ th'[u].pc = "reg_insert" => th[u].pc = "reg_insert"
    BY DEF PinDoEff, Moves, Keeps
  <2>3. ASSUME NEW u \in Thread, th[u].pc = "reg_insert", NEW n, n = th[u].m
       PROVE  Unseen(n)'
    <3>1. n # th[t].m /\ Unseen(n) /\ n \in Mem
      BY <2>3 DEF CtxInv, Making, PinDoEff, Moves
    <3>2. \A a \in Addr : vma'[a].m = th[t].m \/ vma'[a] = vma[a]
      BY DEF PinDoEff
    <3>3. memList' = memList /\ memXa' = memXa /\ dma' = dma
      BY DEF PinDoEff
    <3>4. \A a \in Addr : vma'[a].m # n
      BY <3>1, <3>2 DEF Unseen
    <3> QED BY <3>1, <3>3, <3>4 DEF Unseen
  <2>4. \A n \in Mem : mem'[n].heap = mem[n].heap
    BY DEF PinDoEff, Only
  <2> QED BY <2>2, <2>3, <2>4 DEF CtxInv, Making
<1>5. Walks'
  BY NullOut DEF CtxInv, Walks, WalkPc, PinDoEff, Moves, Keeps
<1>6. Lists'
  BY NullOut, ListTypes DEF CtxInv, Lists, Making, Unseen, PinDoEff, Moves, Keeps, Only,
     SameCounts, SameId
<1>7. CtxRefExact'
  <2>1. OpenFiles' = OpenFiles
    BY DEF OpenFiles, PinDoEff, Moves, Keeps
  <2>2. LiveMems' = LiveMems
    BY DEF LiveMems, PinDoEff, Moves, Keeps, Only, SameCounts, SameId
  <2>3. CtxThreads' = CtxThreads
    BY DEF CtxThreads, RelRet, PinDoEff, Moves, Keeps
  <2>4. UnmapThreads' = UnmapThreads
    BY DEF UnmapThreads, CtxInv, Ops, OpOK, RelPc, PinDoEff, Moves, Keeps
  <2>5. ctxRef' = ctxRef 
    BY DEF PinDoEff
  <2>6. CtxRefExact
    BY DEF CtxInv
  <2> QED BY <2>1, <2>2, <2>3, <2>4, <2>5, <2>6, CtxCount, CtxCountNext
<1> QED BY <1>1, <1>2, <1>3, <1>4, <1>5, <1>6, <1>7 DEF CtxInv

LEMMA PinDoFailsCtx ==
  ASSUME Inv, CtxInv, NEW t \in Thread, PinDoFailsEff(t)
  PROVE  CtxInv'
<1>1. Ops'
  BY DEF CtxInv, Ops, OpOK, RelPc, PinDoFailsEff, Moves, Keeps
<1>2. FilesOK'
  <2>1. \A u \in Thread : th'[u].op = th[u].op /\ th'[u].f = th[u].f
    BY DEF PinDoFailsEff, Moves, Keeps
  <2> QED BY <2>1, FilesFrame DEF CtxInv, PinDoFailsEff
<1>3. Unused'
  <2>1. \A n \in Mem : (Unseen(n)' <=> Unseen(n)) /\ mem'[n].heap = mem[n].heap
    BY DEF Unseen, PinDoFailsEff, Only
  <2>2. \A u \in Thread : th'[u].m = th[u].m
    BY DEF PinDoFailsEff, Moves, Keeps
  <2> QED BY <2>1, <2>2 DEF CtxInv, Unused
<1>4. Making'
  BY NullOut DEF CtxInv, Making, Unused, Unseen, PinDoFailsEff, Moves, Keeps, Only,
     SameCounts, SameId
<1>5. Walks'
  BY NullOut DEF CtxInv, Walks, WalkPc, PinDoFailsEff, Moves, Keeps
<1>6. Lists'
  BY NullOut, ListTypes DEF CtxInv, Lists, Making, Unseen, PinDoFailsEff, Moves, Keeps,
     Only, SameCounts, SameId
<1>7. CtxRefExact'
  <2>1. OpenFiles' = OpenFiles
    BY DEF OpenFiles, PinDoFailsEff, Moves, Keeps
  <2>2. LiveMems' = LiveMems
    BY DEF LiveMems, PinDoFailsEff, Moves, Keeps, Only, SameCounts, SameId
  <2>3. CtxThreads' = CtxThreads
    BY DEF CtxThreads, RelRet, PinDoFailsEff, Moves, Keeps
  <2>4. UnmapThreads' = UnmapThreads
    BY DEF UnmapThreads, CtxInv, Ops, OpOK, RelPc, PinDoFailsEff, Moves, Keeps
  <2>5. ctxRef' = ctxRef 
    BY DEF PinDoFailsEff
  <2>6. CtxRefExact
    BY DEF CtxInv
  <2> QED BY <2>1, <2>2, <2>3, <2>4, <2>5, <2>6, CtxCount, CtxCountNext
<1> QED BY <1>1, <1>2, <1>3, <1>4, <1>5, <1>6, <1>7 DEF CtxInv

LEMMA PutCtx ==
  ASSUME Inv, CtxInv, NEW t \in Thread, NEW pc, NEW next, PutPc(pc, next), PutEff(t, pc, next)
  PROVE  CtxInv'
<1>1. Ops'
  BY DEF CtxInv, Ops, OpOK, RelPc, PutPc, PutEff, Puts, Keeps
<1>2. FilesOK'
  <2>1. \A u \in Thread : th'[u].op = th[u].op /\ th'[u].f = th[u].f
    BY DEF PutPc, PutEff, Puts, Keeps
  <2> QED BY <2>1, FilesFrame DEF CtxInv, PutEff, Puts
<1>3. Unused'
  BY NullOut DEF CtxInv, Unused, Unseen, PutPc, PutEff, Puts, Keeps, RefTo, Only,
     SameUse, SameId
<1>4. Making'
  BY NullOut DEF CtxInv, Making, Unused, Unseen, PutPc, PutEff, Puts, Keeps, RefTo,
     Only, SameUse, SameId
<1>5. Walks'
  BY NullOut DEF CtxInv, Walks, WalkPc, PutPc, PutEff, Puts, Keeps
<1>6. Lists'
  BY NullOut, ListTypes DEF CtxInv, Lists, Making, Unseen, PutPc, PutEff, Puts, Keeps,
     RefTo, Only, SameUse, SameId
<1>7. CtxRefExact'
  <2>1. OpenFiles' = OpenFiles
    BY DEF OpenFiles, PutPc, PutEff, Puts, Keeps
  <2>2. LiveMems' = LiveMems
    BY DEF LiveMems, PutPc, PutEff, Puts, Keeps, RefTo, Only, SameUse, SameId
  <2>3. CtxThreads' = CtxThreads
    BY DEF CtxThreads, RelRet, PutPc, PutEff, Puts, Keeps
  <2>4. UnmapThreads' = UnmapThreads
    BY DEF UnmapThreads, CtxInv, Ops, OpOK, RelPc, PutPc, PutEff, Puts, Keeps
  <2>5. ctxRef' = ctxRef
    BY DEF PutEff
  <2>6. CtxRefExact
    BY DEF CtxInv
  <2> QED BY <2>1, <2>2, <2>3, <2>4, <2>5, <2>6, CtxCount, CtxCountNext
<1> QED BY <1>1, <1>2, <1>3, <1>4, <1>5, <1>6, <1>7 DEF CtxInv

LEMMA PinReturnCtx ==
  ASSUME Inv, CtxInv, NEW t \in Thread, PinReturnEff(t)
  PROVE  CtxInv'
<1>1. Ops'
  BY DEF CtxInv, Ops, OpOK, RelPc, PinReturnEff, Ends
<1>2. FilesOK'
  BY FilesEnd DEF CtxInv, PinReturnEff
<1>3. Unused'
  BY NullOut DEF CtxInv, Unused, Unseen, PinReturnEff, Ends
<1>4. Making'
  BY NullOut DEF CtxInv, Making, Unused, Unseen, PinReturnEff, Ends
<1>5. Walks'
  BY NullOut DEF CtxInv, Walks, WalkPc, PinReturnEff, Ends
<1>6. Lists'
  BY NullOut, ListTypes DEF CtxInv, Lists, Making, Unseen, PinReturnEff, Ends
<1>7. CtxRefExact'
  <2>1. OpenFiles' = OpenFiles
    BY DEF OpenFiles, PinReturnEff, Ends
  <2>2. LiveMems' = LiveMems
    BY DEF LiveMems, PinReturnEff, Ends
  <2>3. CtxThreads' = CtxThreads
    BY DEF CtxThreads, RelRet, PinReturnEff, Ends
  <2>4. UnmapThreads' = UnmapThreads
    BY DEF UnmapThreads, CtxInv, Ops, OpOK, RelPc, PinReturnEff, Ends
  <2>5. ctxRef' = ctxRef 
    BY DEF PinReturnEff
  <2>6. CtxRefExact
    BY DEF CtxInv
  <2> QED BY <2>1, <2>2, <2>3, <2>4, <2>5, <2>6, CtxCount, CtxCountNext
<1> QED BY <1>1, <1>2, <1>3, <1>4, <1>5, <1>6, <1>7 DEF CtxInv

LEMMA RelUnlinkCtx ==
  ASSUME Inv, CtxInv, NEW t \in Thread, RelUnlinkEff(t)
  PROVE  CtxInv'
<1>1. Ops'
  BY DEF CtxInv, Ops, OpOK, RelPc, RelUnlinkEff, Moves, Keeps
<1>2. FilesOK'
  <2>1. \A u \in Thread : th'[u].op = th[u].op /\ th'[u].f = th[u].f
    BY DEF RelUnlinkEff, Moves, Keeps
  <2> QED BY <2>1, FilesFrame DEF CtxInv, RelUnlinkEff
<1>3. Unused'
  BY NullOut DEF CtxInv, Unused, Unseen, RelUnlinkEff, Moves, Keeps
<1>4. Making'
  BY NullOut DEF CtxInv, Making, Unused, Unseen, RelUnlinkEff, Moves, Keeps
<1>5. Walks'
  BY NullOut DEF CtxInv, Walks, WalkPc, RelUnlinkEff, Moves, Keeps
<1>6. Lists'
  BY NullOut, ListTypes DEF CtxInv, Lists, Making, Unseen, RelUnlinkEff, Moves, Keeps
<1>7. CtxRefExact'
  <2>1. OpenFiles' = OpenFiles
    BY DEF OpenFiles, RelUnlinkEff, Moves, Keeps
  <2>2. LiveMems' = LiveMems
    BY DEF LiveMems, RelUnlinkEff, Moves, Keeps
  <2>3. CtxThreads' = CtxThreads
    BY DEF CtxThreads, RelRet, RelUnlinkEff, Moves, Keeps
  <2>4. UnmapThreads' = UnmapThreads
    BY DEF UnmapThreads, CtxInv, Ops, OpOK, RelPc, RelUnlinkEff, Moves, Keeps
  <2>5. ctxRef' = ctxRef 
    BY DEF RelUnlinkEff
  <2>6. CtxRefExact
    BY DEF CtxInv
  <2> QED BY <2>1, <2>2, <2>3, <2>4, <2>5, <2>6, CtxCount, CtxCountNext
<1> QED BY <1>1, <1>2, <1>3, <1>4, <1>5, <1>6, <1>7 DEF CtxInv

LEMMA RelFreeCtx ==
  ASSUME Inv, CtxInv, NEW t \in Thread, RelFreeEff(t)
  PROVE  CtxInv'
<1>1. Ops'
  BY DEF CtxInv, Ops, OpOK, RelPc, RelFreeEff, Moves, Keeps
<1>2. FilesOK'
  <2>1. \A u \in Thread : th'[u].op = th[u].op /\ th'[u].f = th[u].f
    BY DEF RelFreeEff, Moves, Keeps
  <2> QED BY <2>1, FilesFrame DEF CtxInv, RelFreeEff
<1>3. Unused'
  BY NullOut DEF CtxInv, Unused, Unseen, RelFreeEff, Moves, Keeps, Only, SameCounts,
     SameId
<1>4. Making'
  BY NullOut DEF CtxInv, Making, Unused, Unseen, RelFreeEff, Moves, Keeps, Only,
     SameCounts, SameId
<1>5. Walks'
  BY NullOut DEF CtxInv, Walks, WalkPc, RelFreeEff, Moves, Keeps
<1>6. Lists'
  BY NullOut, ListTypes DEF CtxInv, Lists, Making, Unseen, RelFreeEff, Moves, Keeps,
     Only, SameCounts, SameId
<1>7. CtxRefExact'
  <2>1. OpenFiles' = OpenFiles
    BY DEF OpenFiles, RelFreeEff, Moves, Keeps
  <2>2. LiveMems' = LiveMems \ {th[t].m} /\ th[t].m \in LiveMems
    BY MemTypes DEF LiveMems, CtxInv, Making, Unused, Lists, Stale, Gone, RelFreeEff,
       Moves, Keeps, Only, SameCounts, SameId
  <2>3. CtxThreads' = CtxThreads \cup {t} /\ t \notin CtxThreads
    BY DEF CtxThreads, RelRet, RelFreeEff, Moves, Keeps
  <2>4. UnmapThreads' = UnmapThreads
    BY DEF UnmapThreads, CtxInv, Ops, OpOK, RelPc, RelFreeEff, Moves, Keeps
  <2>5. ctxRef' = ctxRef 
    BY DEF RelFreeEff
  <2>6. CtxRefExact
    BY DEF CtxInv
  <2>7. Cardinality(LiveMems') = Cardinality(LiveMems) - 1
    BY <2>2, CtxCount, CountRemove
  <2>8. Cardinality(CtxThreads') = Cardinality(CtxThreads) + 1
    BY <2>3, CtxCount, CountAdd
  <2> QED BY <2>1, <2>2, <2>3, <2>4, <2>5, <2>6, <2>7, <2>8, CtxCount, CtxCountNext
<1> QED BY <1>1, <1>2, <1>3, <1>4, <1>5, <1>6, <1>7 DEF CtxInv

LEMMA RelCtxCtx ==
  ASSUME Inv, CtxInv, NEW t \in Thread, RelCtxEff(t)
  PROVE  CtxInv'
<1>1. Ops'
  BY DEF CtxInv, Ops, OpOK, RelPc, RelCtxEff, Keeps, RelRet
<1>2. FilesOK'
  BY DEF CtxInv, FilesOK, RelCtxEff, Keeps, RelRet
<1>3. Unused'
  BY NullOut DEF CtxInv, Unused, Unseen, RelCtxEff, Keeps, RelRet
<1>4. Making'
  BY NullOut DEF CtxInv, Making, Unused, Unseen, RelCtxEff, Keeps, RelRet
<1>5. Walks'
  BY NullOut DEF CtxInv, Walks, WalkPc, RelCtxEff, Keeps, RelRet
<1>6. Lists'
  BY NullOut, ListTypes DEF CtxInv, Lists, Making, Unseen, RelCtxEff, Keeps, RelRet
<1>7. CtxRefExact'
  <2>1. OpenFiles' = OpenFiles
    BY DEF OpenFiles, RelCtxEff, Keeps, RelRet
  <2>2. LiveMems' = LiveMems
    BY DEF LiveMems, RelCtxEff, Keeps, RelRet
  <2>3. CtxThreads' = CtxThreads \ {t} /\ t \in CtxThreads
    BY DEF CtxThreads, RelRet, RelCtxEff, Keeps
  <2>4. UnmapThreads' = UnmapThreads
    BY DEF UnmapThreads, CtxInv, Ops, OpOK, RelPc, RelCtxEff, Keeps, RelRet
  <2>5. ctxRef' = ctxRef - 1
    BY DEF RelCtxEff
  <2>6. CtxRefExact
    BY DEF CtxInv
  <2>7. Cardinality(CtxThreads') = Cardinality(CtxThreads) - 1
    BY <2>3, CtxCount, CountRemove
  <2> QED BY <2>1, <2>2, <2>3, <2>4, <2>5, <2>6, <2>7, CtxCount, CtxCountNext
<1> QED BY <1>1, <1>2, <1>3, <1>4, <1>5, <1>6, <1>7 DEF CtxInv

LEMMA UnmapStartCtx ==
  ASSUME Inv, CtxInv, NEW t \in Thread, NEW a \in Addr, UnmapStartEff(t, a)
  PROVE  CtxInv'
<1>1. Ops'
  BY DEF CtxInv, Ops, OpOK, RelPc, UnmapStartEff, Starts
<1>2. FilesOK'
  <2>1. file[vma[a].f] = "open"
    BY DEF CtxInv, FilesOK, UnmapStartEff
  <2>2. /\ \A u \in Thread \ {t} : th'[u] = th[u]
        /\ th'[t].op = "unmap" /\ th'[t].f = vma[a].f
        /\ file' = file /\ vma' = vma
    BY DEF UnmapStartEff, Starts
  <2> QED BY <2>1, <2>2 DEF CtxInv, FilesOK
<1>3. Unused'
  BY NullOut DEF CtxInv, Unused, Unseen, UnmapStartEff, Starts
<1>4. Making'
  BY NullOut DEF CtxInv, Making, Unused, Unseen, UnmapStartEff, Starts
<1>5. Walks'
  BY NullOut DEF CtxInv, Walks, WalkPc, UnmapStartEff, Starts
<1>6. Lists'
  BY NullOut, ListTypes DEF CtxInv, Lists, Making, Unseen, UnmapStartEff, Starts
<1>7. CtxRefExact'
  <2>1. OpenFiles' = OpenFiles
    BY DEF OpenFiles, UnmapStartEff, Starts
  <2>2. LiveMems' = LiveMems
    BY DEF LiveMems, UnmapStartEff, Starts
  <2>3. CtxThreads' = CtxThreads
    BY DEF CtxThreads, RelRet, UnmapStartEff, Starts
  <2>4. UnmapThreads' = UnmapThreads
    BY DEF UnmapThreads, CtxInv, Ops, OpOK, RelPc, UnmapStartEff, Starts
  <2>5. ctxRef' = ctxRef 
    BY DEF UnmapStartEff
  <2>6. CtxRefExact
    BY DEF CtxInv
  <2> QED BY <2>1, <2>2, <2>3, <2>4, <2>5, <2>6, CtxCount, CtxCountNext
<1> QED BY <1>1, <1>2, <1>3, <1>4, <1>5, <1>6, <1>7 DEF CtxInv

LEMMA UnmapDoCtx ==
  ASSUME Inv, CtxInv, NEW t \in Thread, UnmapDoEff(t)
  PROVE  CtxInv'
<1>1. Ops'
  BY DEF CtxInv, Ops, OpOK, RelPc, UnmapDoEff, Moves, Keeps
<1>2. FilesOK'
  BY NoVmaFields DEF CtxInv, FilesOK, UnmapDoEff, Moves, Keeps
<1>3. Unused'
  <2>1. \A n \in Mem : mem'[n].heap = mem[n].heap
    BY DEF UnmapDoEff, Only, SameUse
  <2>2. \A u \in Thread : th'[u].m = th[u].m
    BY DEF UnmapDoEff, Moves, Keeps
  <2>3. \A n \in Mem : Unseen(n) => Unseen(n)'
    <3>1. \A e \in Dma : dma'[e].mem = dma[e].mem
      BY DEF UnmapDoEff, Drops
    <3> QED BY <3>1, NullOut, NoVmaFields DEF Unseen, UnmapDoEff
  <2> QED BY <2>1, <2>2, <2>3 DEF CtxInv, Unused
<1>4. Making'
  BY NullOut, NoVmaFields DEF CtxInv, Making, Unused, Unseen, UnmapDoEff, Moves, Keeps,
     Only, SameUse, SameId, Drops
<1>5. Walks'
  BY NullOut DEF CtxInv, Walks, WalkPc, UnmapDoEff, Moves, Keeps
<1>6. Lists'
  BY NullOut, ListTypes DEF CtxInv, Lists, Making, Unseen, UnmapDoEff, Moves, Keeps,
     Only, SameUse, SameId
<1>7. CtxRefExact'
  <2>1. OpenFiles' = OpenFiles
    BY DEF OpenFiles, UnmapDoEff, Moves, Keeps
  <2>2. LiveMems' = LiveMems
    BY DEF LiveMems, UnmapDoEff, Moves, Keeps, Only, SameUse, SameId
  <2>3. CtxThreads' = CtxThreads
    BY DEF CtxThreads, RelRet, UnmapDoEff, Moves, Keeps
  <2>4. UnmapThreads' = UnmapThreads \cup {t} /\ t \notin UnmapThreads
    BY DEF UnmapThreads, CtxInv, Ops, OpOK, RelPc, UnmapDoEff, Moves, Keeps
  <2>5. ctxRef' = ctxRef + 1
    BY DEF UnmapDoEff
  <2>6. CtxRefExact
    BY DEF CtxInv
  <2>7. Cardinality(UnmapThreads') = Cardinality(UnmapThreads) + 1
    BY <2>4, CtxCount, CountAdd
  <2> QED BY <2>1, <2>2, <2>3, <2>4, <2>5, <2>6, <2>7, CtxCount, CtxCountNext
<1> QED BY <1>1, <1>2, <1>3, <1>4, <1>5, <1>6, <1>7 DEF CtxInv

LEMMA UnmapReturnCtx ==
  ASSUME Inv, CtxInv, NEW t \in Thread, UnmapReturnEff(t)
  PROVE  CtxInv'
<1>1. Ops'
  BY DEF CtxInv, Ops, OpOK, RelPc, UnmapReturnEff, Ends
<1>2. FilesOK'
  BY FilesEnd DEF CtxInv, UnmapReturnEff
<1>3. Unused'
  BY NullOut DEF CtxInv, Unused, Unseen, UnmapReturnEff, Ends
<1>4. Making'
  BY NullOut DEF CtxInv, Making, Unused, Unseen, UnmapReturnEff, Ends
<1>5. Walks'
  BY NullOut DEF CtxInv, Walks, WalkPc, UnmapReturnEff, Ends
<1>6. Lists'
  BY NullOut, ListTypes DEF CtxInv, Lists, Making, Unseen, UnmapReturnEff, Ends
<1>7. CtxRefExact'
  <2>1. OpenFiles' = OpenFiles
    BY DEF OpenFiles, UnmapReturnEff, Ends
  <2>2. LiveMems' = LiveMems
    BY DEF LiveMems, UnmapReturnEff, Ends
  <2>3. CtxThreads' = CtxThreads
    BY DEF CtxThreads, RelRet, UnmapReturnEff, Ends
  <2>4. UnmapThreads' = UnmapThreads \ {t} /\ t \in UnmapThreads
    BY DEF UnmapThreads, CtxInv, Ops, OpOK, RelPc, UnmapReturnEff, Ends
  <2>5. ctxRef' = ctxRef - 1
    BY DEF UnmapReturnEff
  <2>6. CtxRefExact
    BY DEF CtxInv
  <2>7. Cardinality(UnmapThreads') = Cardinality(UnmapThreads) - 1
    BY <2>4, CtxCount, CountRemove
  <2> QED BY <2>1, <2>2, <2>3, <2>4, <2>5, <2>6, <2>7, CtxCount, CtxCountNext
<1> QED BY <1>1, <1>2, <1>3, <1>4, <1>5, <1>6, <1>7 DEF CtxInv

LEMMA SplitVmaCtx ==
  ASSUME Inv, CtxInv, NEW a \in Addr, NEW b \in Addr, SplitVmaEff(a, b)
  PROVE  CtxInv'
<1>1. Ops'
  BY DEF CtxInv, Ops, OpOK, RelPc, SplitVmaEff
<1>2. FilesOK'
  BY DEF CtxInv, FilesOK, SplitVmaEff
<1>3. Unused'
  BY NullOut DEF CtxInv, Unused, Unseen, SplitVmaEff
<1>4. Making'
  BY NullOut DEF CtxInv, Making, Unused, Unseen, SplitVmaEff
<1>5. Walks'
  BY NullOut DEF CtxInv, Walks, WalkPc, SplitVmaEff
<1>6. Lists'
  BY NullOut, ListTypes DEF CtxInv, Lists, Making, Unseen, SplitVmaEff
<1>7. CtxRefExact'
  <2>1. OpenFiles' = OpenFiles
    BY DEF OpenFiles, SplitVmaEff
  <2>2. LiveMems' = LiveMems
    BY DEF LiveMems, SplitVmaEff
  <2>3. CtxThreads' = CtxThreads
    BY DEF CtxThreads, RelRet, SplitVmaEff
  <2>4. UnmapThreads' = UnmapThreads
    BY DEF UnmapThreads, CtxInv, Ops, OpOK, RelPc, SplitVmaEff
  <2>5. ctxRef' = ctxRef 
    BY DEF SplitVmaEff
  <2>6. CtxRefExact
    BY DEF CtxInv
  <2> QED BY <2>1, <2>2, <2>3, <2>4, <2>5, <2>6, CtxCount, CtxCountNext
<1> QED BY <1>1, <1>2, <1>3, <1>4, <1>5, <1>6, <1>7 DEF CtxInv

LEMMA CloseStartCtx ==
  ASSUME Inv, CtxInv, NEW t \in Thread, NEW f \in File, CloseStartEff(t, f)
  PROVE  CtxInv'
<1>1. Ops'
  BY DEF CtxInv, Ops, OpOK, RelPc, CloseStartEff, Starts
<1>2. FilesOK'
  <2>1. /\ \A u \in Thread \ {t} : th'[u] = th[u] /\ th[u].f # f
        /\ th'[t].op = "close" /\ th'[t].f = f
        /\ \A g \in File : file'[g] = IF g = f THEN "closing" ELSE file[g]
        /\ \A a \in Addr : vma'[a] = vma[a] /\ vma[a].f # f
    BY DEF CloseStartEff, Starts
  <2>2. \A u \in Thread : th[u].op # "none" => th[u].f \in File
    BY OpFile DEF CtxInv
  <2>3. \A a \in Addr : vma[a] # NoVma => vma[a].f \in File
    BY VmaTypes
  <2>4. \A u \in Thread \ {t} : th[u].op # "none" => file'[th[u].f] = file[th[u].f]
    BY <2>1, <2>2
  <2>5. \A a \in Addr : vma[a] # NoVma => file'[vma[a].f] = file[vma[a].f]
    BY <2>1, <2>3
  <2>6. /\ FilesOK /\ file'[f] = "closing"
    BY <2>1 DEF CtxInv
  <2> QED BY <2>1, <2>4, <2>5, <2>6 DEF FilesOK
<1>3. Unused'
  BY NullOut DEF CtxInv, Unused, Unseen, CloseStartEff, Starts
<1>4. Making'
  BY NullOut DEF CtxInv, Making, Unused, Unseen, CloseStartEff, Starts
<1>5. Walks'
  BY NullOut DEF CtxInv, Walks, WalkPc, CloseStartEff, Starts
<1>6. Lists'
  BY NullOut, ListTypes DEF CtxInv, Lists, Making, Unseen, CloseStartEff, Starts
<1>7. CtxRefExact'
  <2>1. OpenFiles' = OpenFiles
    BY DEF OpenFiles, CloseStartEff, Starts
  <2>2. LiveMems' = LiveMems
    BY DEF LiveMems, CloseStartEff, Starts
  <2>3. CtxThreads' = CtxThreads
    BY DEF CtxThreads, RelRet, CloseStartEff, Starts
  <2>4. UnmapThreads' = UnmapThreads
    BY DEF UnmapThreads, CtxInv, Ops, OpOK, RelPc, CloseStartEff, Starts
  <2>5. ctxRef' = ctxRef 
    BY DEF CloseStartEff
  <2>6. CtxRefExact
    BY DEF CtxInv
  <2> QED BY <2>1, <2>2, <2>3, <2>4, <2>5, <2>6, CtxCount, CtxCountNext
<1> QED BY <1>1, <1>2, <1>3, <1>4, <1>5, <1>6, <1>7 DEF CtxInv

LEMMA CloseDoCtx ==
  ASSUME Inv, CtxInv, NEW t \in Thread, CloseDoEff(t)
  PROVE  CtxInv'
<1>1. Ops'
  BY DEF CtxInv, Ops, OpOK, RelPc, CloseDoEff, Moves, Keeps
<1>2. FilesOK'
  BY DEF CtxInv, FilesOK, CloseDoEff, Moves, Keeps
<1>3. Unused'
  BY NullOut DEF CtxInv, Unused, Unseen, CloseDoEff, Moves, Keeps, SameCounts, SameId
<1>4. Making'
  <2>1. \A n \in Mem : Unseen(n) => Unseen(n)' /\ mem'[n].heap = mem[n].heap
    <3> SUFFICES ASSUME NEW n \in Mem, Unseen(n) PROVE Unseen(n)' /\ mem'[n].heap = mem[n].heap
      OBVIOUS
    <3>1. mem'[n].heap = mem[n].heap
      BY DEF Unseen, Stale, CloseDoEff
    <3>2. n \notin memList' /\ \A i \in Id : memXa'[i] # n
      BY NullOut DEF Unseen, CloseDoEff
    <3> QED BY <3>1, <3>2 DEF Unseen, CloseDoEff
  <2>2. \A u \in Thread : /\ th'[u].m = th[u].m
                          /\ th'[u].pc = "reg_insert" => th[u].pc = "reg_insert"
    BY DEF CloseDoEff, Moves, Keeps
  <2> QED BY <2>1, <2>2 DEF CtxInv, Making
<1>5. Walks'
  BY NullOut DEF CtxInv, Walks, WalkPc, CloseDoEff, Moves, Keeps
<1>6. Lists'
  BY NullOut, ListTypes DEF CtxInv, Lists, Making, Unseen, CloseDoEff, Moves, Keeps,
     SameCounts, SameId
<1>7. CtxRefExact'
  <2>1. OpenFiles' = OpenFiles
    BY DEF OpenFiles, CloseDoEff, Moves, Keeps
  <2>2. LiveMems' = LiveMems \ Stale
    BY DEF LiveMems, CtxInv, Making, Unused, Lists, Stale, Gone, CloseDoEff, Moves, Keeps,
       SameCounts, SameId
  <2>3. CtxThreads' = CtxThreads
    BY DEF CtxThreads, RelRet, CloseDoEff, Moves, Keeps
  <2>4. UnmapThreads' = UnmapThreads
    BY DEF UnmapThreads, CtxInv, Ops, OpOK, RelPc, CloseDoEff, Moves, Keeps
  <2>5. ctxRef' = ctxRef - Cardinality(Stale)
    BY DEF CloseDoEff
  <2>6. Cardinality(LiveMems \ Stale) = Cardinality(LiveMems) - Cardinality(Stale)
    <3>1. Stale \subseteq LiveMems /\ LiveMems \in SUBSET Mem
      BY ListTypes, CtxCount DEF Stale, CtxInv, Lists, LiveMems
    <3>2. LiveMems \cap Stale = Stale /\ IsFiniteSet(LiveMems) /\ IsFiniteSet(Stale)
      BY <3>1, FS_Subset
    <3> QED BY <3>2, FS_Difference, FS_CardinalityType
  <2>7. CtxRefExact /\ Cardinality(Stale) \in Nat
    <3>1. Stale \in SUBSET Mem
      BY ListTypes DEF Stale
    <3> QED BY <3>1, CardType DEF CtxInv
  <2> QED BY <2>1, <2>2, <2>3, <2>4, <2>5, <2>6, <2>7, CtxCount, CtxCountNext
<1> QED BY <1>1, <1>2, <1>3, <1>4, <1>5, <1>6, <1>7 DEF CtxInv

LEMMA CloseReturnCtx ==
  ASSUME Inv, CtxInv, NEW t \in Thread, CloseReturnEff(t)
  PROVE  CtxInv'
<1>1. Ops'
  BY DEF CtxInv, Ops, OpOK, RelPc, CloseReturnEff, Ends
<1>2. FilesOK'
  <2>1. /\ \A u \in Thread \ {t} : th'[u] = th[u]
        /\ th'[t].op = "none" /\ th'[t].f = NULL /\ th[t].pc = "close_ctx"
        /\ \A g \in File : file'[g] = IF g = th[t].f THEN "closed" ELSE file[g]
        /\ \A a \in Addr : vma'[a] = vma[a]
    BY DEF CloseReturnEff, Ends
  <2>2. \A u \in Thread : th[u].op # "none" => th[u].f \in File
    BY OpFile DEF CtxInv
  <2>3. \A a \in Addr : vma[a] # NoVma => vma[a].f \in File
    BY VmaTypes
  <2>4. th[t].op = "close"
    BY <2>1 DEF CtxInv, Ops, OpOK
  <2> QED BY SMTT(30), <2>1, <2>2, <2>3, <2>4, NullOut DEF CtxInv, FilesOK
<1>3. Unused'
  BY NullOut DEF CtxInv, Unused, Unseen, CloseReturnEff, Ends
<1>4. Making'
  BY NullOut DEF CtxInv, Making, Unused, Unseen, CloseReturnEff, Ends
<1>5. Walks'
  BY NullOut DEF CtxInv, Walks, WalkPc, CloseReturnEff, Ends
<1>6. Lists'
  BY NullOut, ListTypes DEF CtxInv, Lists, Making, Unseen, CloseReturnEff, Ends
<1>7. CtxRefExact'
  <2>1. OpenFiles' = OpenFiles \ {th[t].f} /\ th[t].f \in OpenFiles
    BY OpFile DEF OpenFiles, CtxInv, FilesOK, Ops, OpOK, CloseReturnEff, Ends
  <2>2. LiveMems' = LiveMems
    BY DEF LiveMems, CloseReturnEff, Ends
  <2>3. CtxThreads' = CtxThreads
    BY DEF CtxThreads, RelRet, CloseReturnEff, Ends
  <2>4. UnmapThreads' = UnmapThreads
    BY DEF UnmapThreads, CtxInv, Ops, OpOK, RelPc, CloseReturnEff, Ends
  <2>5. ctxRef' = ctxRef - 1
    BY DEF CloseReturnEff
  <2>6. CtxRefExact
    BY DEF CtxInv
  <2>7. Cardinality(OpenFiles') = Cardinality(OpenFiles) - 1
    BY <2>1, CtxCount, CountRemove
  <2> QED BY <2>1, <2>2, <2>3, <2>4, <2>5, <2>6, <2>7, CtxCount, CtxCountNext
<1> QED BY <1>1, <1>2, <1>3, <1>4, <1>5, <1>6, <1>7 DEF CtxInv

LEMMA MapStartCtx ==
  ASSUME Inv, CtxInv, NEW t \in Thread, NEW f \in File, NEW a, MayMap(a), MapStartEff(t, f, a)
  PROVE  CtxInv'
<1>1. Ops'
  BY DEF CtxInv, Ops, OpOK, RelPc, MapStartEff, Starts
<1>2. FilesOK'
  BY FilesStart DEF CtxInv, MapStartEff, Starts
<1>3. Unused'
  BY NullOut DEF CtxInv, Unused, Unseen, MapStartEff, Starts
<1>4. Making'
  BY NullOut DEF CtxInv, Making, Unused, Unseen, MapStartEff, Starts
<1>5. Walks'
  BY NullOut DEF CtxInv, Walks, WalkPc, MapStartEff, Starts
<1>6. Lists'
  BY NullOut, ListTypes DEF CtxInv, Lists, Making, Unseen, MapStartEff, Starts
<1>7. CtxRefExact'
  <2>1. OpenFiles' = OpenFiles
    BY DEF OpenFiles, MapStartEff, Starts
  <2>2. LiveMems' = LiveMems
    BY DEF LiveMems, MapStartEff, Starts
  <2>3. CtxThreads' = CtxThreads
    BY DEF CtxThreads, RelRet, MapStartEff, Starts
  <2>4. UnmapThreads' = UnmapThreads
    BY DEF UnmapThreads, CtxInv, Ops, OpOK, RelPc, MapStartEff, Starts
  <2>5. ctxRef' = ctxRef 
    BY DEF MapStartEff
  <2>6. CtxRefExact
    BY DEF CtxInv
  <2> QED BY <2>1, <2>2, <2>3, <2>4, <2>5, <2>6, CtxCount, CtxCountNext
<1> QED BY <1>1, <1>2, <1>3, <1>4, <1>5, <1>6, <1>7 DEF CtxInv

LEMMA MapLockCtx ==
  ASSUME Inv, CtxInv, NEW t \in Thread, MapLockEff(t)
  PROVE  CtxInv'
<1>1. Ops'
  BY DEF CtxInv, Ops, OpOK, RelPc, MapLockEff, Looks
<1>2. FilesOK'
  BY DEF CtxInv, FilesOK, MapLockEff, Looks
<1>3. Unused'
  BY NullOut DEF CtxInv, Unused, Unseen, MapLockEff, Looks
<1>4. Making'
  BY NullOut DEF CtxInv, Making, Unused, Unseen, MapLockEff, Looks
<1>5. Walks'
  BY NullOut DEF CtxInv, Walks, WalkPc, MapLockEff, Looks
<1>6. Lists'
  BY NullOut, ListTypes DEF CtxInv, Lists, Making, Unseen, MapLockEff, Looks
<1>7. CtxRefExact'
  <2>1. OpenFiles' = OpenFiles
    BY DEF OpenFiles, MapLockEff, Looks
  <2>2. LiveMems' = LiveMems
    BY DEF LiveMems, MapLockEff, Looks
  <2>3. CtxThreads' = CtxThreads \cup {t} /\ t \notin CtxThreads
    BY DEF CtxThreads, RelRet, MapLockEff, Looks
  <2>4. UnmapThreads' = UnmapThreads
    BY DEF UnmapThreads, CtxInv, Ops, OpOK, RelPc, MapLockEff, Looks
  <2>5. ctxRef' = ctxRef + 1
    BY DEF MapLockEff
  <2>6. CtxRefExact
    BY DEF CtxInv
  <2>7. Cardinality(CtxThreads') = Cardinality(CtxThreads) + 1
    BY <2>3, CtxCount, CountAdd
  <2> QED BY <2>1, <2>2, <2>3, <2>4, <2>5, <2>6, <2>7, CtxCount, CtxCountNext
<1> QED BY <1>1, <1>2, <1>3, <1>4, <1>5, <1>6, <1>7 DEF CtxInv

LEMMA WalkMatchCtx ==
  ASSUME Inv, CtxInv, NEW t \in Thread, WalkMatchEff(t)
  PROVE  CtxInv'
<1>1. Ops'
  BY DEF CtxInv, Ops, OpOK, RelPc, WalkMatchEff
<1>2. FilesOK'
  <2>1. \A u \in Thread : th'[u].op = th[u].op /\ th'[u].f = th[u].f
    BY DEF WalkMatchEff
  <2> QED BY <2>1, FilesFrame DEF CtxInv, WalkMatchEff
<1>3. Unused'
  BY NullOut DEF CtxInv, Unused, Unseen, WalkMatchEff, RefTo, Only, SameUse, SameId
<1>4. Making'
  BY NullOut DEF CtxInv, Making, Unused, Unseen, WalkMatchEff, RefTo, Only, SameUse,
     SameId
<1>5. Walks'
  BY NullOut DEF CtxInv, Walks, WalkPc, WalkMatchEff
<1>6. Lists'
  BY NullOut, ListTypes DEF CtxInv, Lists, Making, Unseen, WalkMatchEff, RefTo, Only,
     SameUse, SameId
<1>7. CtxRefExact'
  <2>1. OpenFiles' = OpenFiles
    BY DEF OpenFiles, WalkMatchEff
  <2>2. LiveMems' = LiveMems
    BY DEF LiveMems, WalkMatchEff, RefTo, Only, SameUse, SameId
  <2>3. CtxThreads' = CtxThreads \ {t} /\ t \in CtxThreads
    BY DEF CtxThreads, RelRet, WalkMatchEff
  <2>4. UnmapThreads' = UnmapThreads
    BY DEF UnmapThreads, CtxInv, Ops, OpOK, RelPc, WalkMatchEff
  <2>5. ctxRef' = ctxRef - 1
    BY DEF WalkMatchEff
  <2>6. CtxRefExact
    BY DEF CtxInv
  <2>7. Cardinality(CtxThreads') = Cardinality(CtxThreads) - 1
    BY <2>3, CtxCount, CountRemove
  <2> QED BY <2>1, <2>2, <2>3, <2>4, <2>5, <2>6, <2>7, CtxCount, CtxCountNext
<1> QED BY <1>1, <1>2, <1>3, <1>4, <1>5, <1>6, <1>7 DEF CtxInv

LEMMA WalkSkipCtx ==
  ASSUME Inv, CtxInv, NEW t \in Thread, WalkSkipEff(t)
  PROVE  CtxInv'
<1>1. Ops'
  BY DEF CtxInv, Ops, OpOK, RelPc, WalkSkipEff, Moves, Keeps
<1>2. FilesOK'
  <2>1. \A u \in Thread : th'[u].op = th[u].op /\ th'[u].f = th[u].f
    BY DEF WalkSkipEff, Moves, Keeps
  <2> QED BY <2>1, FilesFrame DEF CtxInv, WalkSkipEff
<1>3. Unused'
  BY NullOut DEF CtxInv, Unused, Unseen, WalkSkipEff, Moves, Keeps, RefTo, Only,
     SameUse, SameId
<1>4. Making'
  BY NullOut DEF CtxInv, Making, Unused, Unseen, WalkSkipEff, Moves, Keeps, RefTo, Only,
     SameUse, SameId
<1>5. Walks'
  BY NullOut DEF CtxInv, Walks, WalkPc, WalkSkipEff, Moves, Keeps
<1>6. Lists'
  BY NullOut, ListTypes DEF CtxInv, Lists, Making, Unseen, WalkSkipEff, Moves, Keeps,
     RefTo, Only, SameUse, SameId
<1>7. CtxRefExact'
  <2>1. OpenFiles' = OpenFiles
    BY DEF OpenFiles, WalkSkipEff, Moves, Keeps
  <2>2. LiveMems' = LiveMems
    BY DEF LiveMems, WalkSkipEff, Moves, Keeps, RefTo, Only, SameUse, SameId
  <2>3. CtxThreads' = CtxThreads
    BY DEF CtxThreads, RelRet, WalkSkipEff, Moves, Keeps
  <2>4. UnmapThreads' = UnmapThreads
    BY DEF UnmapThreads, CtxInv, Ops, OpOK, RelPc, WalkSkipEff, Moves, Keeps
  <2>5. ctxRef' = ctxRef 
    BY DEF WalkSkipEff
  <2>6. CtxRefExact
    BY DEF CtxInv
  <2> QED BY <2>1, <2>2, <2>3, <2>4, <2>5, <2>6, CtxCount, CtxCountNext
<1> QED BY <1>1, <1>2, <1>3, <1>4, <1>5, <1>6, <1>7 DEF CtxInv

LEMMA WalkPutCtx ==
  ASSUME Inv, CtxInv, NEW t \in Thread, WalkPutEff(t)
  PROVE  CtxInv'
<1>1. Ops'
  BY DEF CtxInv, Ops, OpOK, RelPc, WalkPutEff, Looks
<1>2. FilesOK'
  <2>1. \A u \in Thread : th'[u].op = th[u].op /\ th'[u].f = th[u].f
    BY DEF WalkPutEff, Looks
  <2> QED BY <2>1, FilesFrame DEF CtxInv, WalkPutEff
<1>3. Unused'
  BY NullOut DEF CtxInv, Unused, Unseen, Walks, WalkPc, WalkPutEff, Looks, RefTo, Only,
     SameUse, SameId
<1>4. Making'
  BY NullOut DEF CtxInv, Making, Unused, Unseen, Walks, WalkPc, WalkPutEff, Looks,
     RefTo, Only, SameUse, SameId
<1>5. Walks'
  BY NullOut DEF CtxInv, Walks, WalkPc, WalkPutEff, Looks
<1>6. Lists'
  BY NullOut, ListTypes DEF CtxInv, Lists, Making, Unseen, WalkPutEff, Looks, RefTo,
     Only, SameUse, SameId
<1>7. CtxRefExact'
  <2>1. OpenFiles' = OpenFiles
    BY DEF OpenFiles, WalkPutEff, Looks
  <2>2. LiveMems' = LiveMems
    BY DEF LiveMems, WalkPutEff, Looks, RefTo, Only, SameUse, SameId
  <2>3. CtxThreads' = CtxThreads
    BY DEF CtxThreads, RelRet, WalkPutEff, Looks
  <2>4. UnmapThreads' = UnmapThreads
    BY DEF UnmapThreads, CtxInv, Ops, OpOK, RelPc, WalkPutEff, Looks
  <2>5. ctxRef' = ctxRef 
    BY DEF WalkPutEff
  <2>6. CtxRefExact
    BY DEF CtxInv
  <2> QED BY <2>1, <2>2, <2>3, <2>4, <2>5, <2>6, CtxCount, CtxCountNext
<1> QED BY <1>1, <1>2, <1>3, <1>4, <1>5, <1>6, <1>7 DEF CtxInv

LEMMA WalkEndCtx ==
  ASSUME Inv, CtxInv, NEW t \in Thread, WalkEndEff(t)
  PROVE  CtxInv'
<1>1. Ops'
  BY DEF CtxInv, Ops, OpOK, RelPc, WalkEndEff, Moves, Keeps
<1>2. FilesOK'
  <2>1. \A u \in Thread : th'[u].op = th[u].op /\ th'[u].f = th[u].f
    BY DEF WalkEndEff, Moves, Keeps
  <2> QED BY <2>1, FilesFrame DEF CtxInv, WalkEndEff
<1>3. Unused'
  BY NullOut DEF CtxInv, Unused, Unseen, WalkEndEff, Moves, Keeps
<1>4. Making'
  BY NullOut DEF CtxInv, Making, Unused, Unseen, WalkEndEff, Moves, Keeps
<1>5. Walks'
  BY NullOut DEF CtxInv, Walks, WalkPc, WalkEndEff, Moves, Keeps
<1>6. Lists'
  BY NullOut, ListTypes DEF CtxInv, Lists, Making, Unseen, WalkEndEff, Moves, Keeps
<1>7. CtxRefExact'
  <2>1. OpenFiles' = OpenFiles
    BY DEF OpenFiles, WalkEndEff, Moves, Keeps
  <2>2. LiveMems' = LiveMems
    BY DEF LiveMems, WalkEndEff, Moves, Keeps
  <2>3. CtxThreads' = CtxThreads \ {t} /\ t \in CtxThreads
    BY DEF CtxThreads, RelRet, WalkEndEff, Moves, Keeps
  <2>4. UnmapThreads' = UnmapThreads
    BY DEF UnmapThreads, CtxInv, Ops, OpOK, RelPc, WalkEndEff, Moves, Keeps
  <2>5. ctxRef' = ctxRef - 1
    BY DEF WalkEndEff
  <2>6. CtxRefExact
    BY DEF CtxInv
  <2>7. Cardinality(CtxThreads') = Cardinality(CtxThreads) - 1
    BY <2>3, CtxCount, CountRemove
  <2> QED BY <2>1, <2>2, <2>3, <2>4, <2>5, <2>6, <2>7, CtxCount, CtxCountNext
<1> QED BY <1>1, <1>2, <1>3, <1>4, <1>5, <1>6, <1>7 DEF CtxInv

LEMMA MapAllocCtx ==
  ASSUME Inv, CtxInv, NEW t \in Thread, NEW d \in Dma, MapAllocEff(t, d)
  PROVE  CtxInv'
<1>1. Ops'
  BY DEF CtxInv, Ops, OpOK, RelPc, MapAllocEff
<1>2. FilesOK'
  <2>1. \A u \in Thread : th'[u].op = th[u].op /\ th'[u].f = th[u].f
    BY DEF MapAllocEff
  <2> QED BY <2>1, FilesFrame DEF CtxInv, MapAllocEff
<1>3. Unused'
  BY NullOut DEF CtxInv, Unused, Unseen, MapAllocEff
<1>4. Making'
  BY NullOut DEF CtxInv, Making, Unused, Unseen, MapAllocEff
<1>5. Walks'
  BY NullOut DEF CtxInv, Walks, WalkPc, MapAllocEff
<1>6. Lists'
  BY NullOut, ListTypes DEF CtxInv, Lists, Making, Unseen, MapAllocEff
<1>7. CtxRefExact'
  <2>1. OpenFiles' = OpenFiles
    BY DEF OpenFiles, MapAllocEff
  <2>2. LiveMems' = LiveMems
    BY DEF LiveMems, MapAllocEff
  <2>3. CtxThreads' = CtxThreads
    BY DEF CtxThreads, RelRet, MapAllocEff
  <2>4. UnmapThreads' = UnmapThreads
    BY DEF UnmapThreads, CtxInv, Ops, OpOK, RelPc, MapAllocEff
  <2>5. ctxRef' = ctxRef 
    BY DEF MapAllocEff
  <2>6. CtxRefExact
    BY DEF CtxInv
  <2> QED BY <2>1, <2>2, <2>3, <2>4, <2>5, <2>6, CtxCount, CtxCountNext
<1> QED BY <1>1, <1>2, <1>3, <1>4, <1>5, <1>6, <1>7 DEF CtxInv

LEMMA MapDmaCtx ==
  ASSUME Inv, CtxInv, NEW t \in Thread, MapDmaEff(t)
  PROVE  CtxInv'
<1>1. Ops'
  BY DEF CtxInv, Ops, OpOK, RelPc, MapDmaEff, Moves, Keeps
<1>2. FilesOK'
  <2>1. \A u \in Thread : th'[u].op = th[u].op /\ th'[u].f = th[u].f
    BY DEF MapDmaEff, Moves, Keeps
  <2> QED BY <2>1, FilesFrame DEF CtxInv, MapDmaEff
<1>3. Unused'
  BY NullOut DEF CtxInv, Unused, Unseen, MapDmaEff, Moves, Keeps
<1>4. Making'
  <2>1. \A n \in Mem : Unseen(n)' <=> Unseen(n)
    <3>1. \A e \in Dma : dma'[e].mem = dma[e].mem
      BY DEF MapDmaEff
    <3> QED BY <3>1 DEF Unseen, MapDmaEff
  <2>2. \A u \in Thread : /\ th'[u].m = th[u].m
                          /\ th'[u].pc = "reg_insert" => th[u].pc = "reg_insert"
    BY DEF MapDmaEff, Moves, Keeps
  <2> QED BY <2>1, <2>2 DEF CtxInv, Making, MapDmaEff
<1>5. Walks'
  BY NullOut DEF CtxInv, Walks, WalkPc, MapDmaEff, Moves, Keeps
<1>6. Lists'
  BY NullOut, ListTypes DEF CtxInv, Lists, Making, Unseen, MapDmaEff, Moves, Keeps
<1>7. CtxRefExact'
  <2>1. OpenFiles' = OpenFiles
    BY DEF OpenFiles, MapDmaEff, Moves, Keeps
  <2>2. LiveMems' = LiveMems
    BY DEF LiveMems, MapDmaEff, Moves, Keeps
  <2>3. CtxThreads' = CtxThreads
    BY DEF CtxThreads, RelRet, MapDmaEff, Moves, Keeps
  <2>4. UnmapThreads' = UnmapThreads
    BY DEF UnmapThreads, CtxInv, Ops, OpOK, RelPc, MapDmaEff, Moves, Keeps
  <2>5. ctxRef' = ctxRef 
    BY DEF MapDmaEff
  <2>6. CtxRefExact
    BY DEF CtxInv
  <2> QED BY <2>1, <2>2, <2>3, <2>4, <2>5, <2>6, CtxCount, CtxCountNext
<1> QED BY <1>1, <1>2, <1>3, <1>4, <1>5, <1>6, <1>7 DEF CtxInv

LEMMA MapFailsCtx ==
  ASSUME Inv, CtxInv, NEW t \in Thread, MapFailsEff(t)
  PROVE  CtxInv'
<1>1. Ops'
  BY DEF CtxInv, Ops, OpOK, RelPc, MapFailsEff, Moves, Keeps, DmaPc
<1>2. FilesOK'
  <2>1. \A u \in Thread : th'[u].op = th[u].op /\ th'[u].f = th[u].f
    BY DEF MapFailsEff, Moves, Keeps, DmaPc
  <2> QED BY <2>1, FilesFrame DEF CtxInv, MapFailsEff
<1>3. Unused'
  BY NullOut DEF CtxInv, Unused, Unseen, MapFailsEff, Moves, Keeps, DmaPc
<1>4. Making'
  <2>1. \A n \in Mem : Unseen(n)' <=> Unseen(n)
    <3>1. \A e \in Dma : dma'[e].mem = dma[e].mem
      BY DEF MapFailsEff
    <3> QED BY <3>1 DEF Unseen, MapFailsEff
  <2>2. \A u \in Thread : /\ th'[u].m = th[u].m
                          /\ th'[u].pc = "reg_insert" => th[u].pc = "reg_insert"
    BY DEF MapFailsEff, Moves, Keeps, DmaPc
  <2> QED BY <2>1, <2>2 DEF CtxInv, Making, MapFailsEff
<1>5. Walks'
  BY NullOut DEF CtxInv, Walks, WalkPc, MapFailsEff, Moves, Keeps, DmaPc
<1>6. Lists'
  BY NullOut, ListTypes DEF CtxInv, Lists, Making, Unseen, MapFailsEff, Moves, Keeps,
     DmaPc
<1>7. CtxRefExact'
  <2>1. OpenFiles' = OpenFiles
    BY DEF OpenFiles, MapFailsEff, Moves, Keeps, DmaPc
  <2>2. LiveMems' = LiveMems
    BY DEF LiveMems, MapFailsEff, Moves, Keeps, DmaPc
  <2>3. CtxThreads' = CtxThreads
    BY DEF CtxThreads, RelRet, MapFailsEff, Moves, Keeps, DmaPc
  <2>4. UnmapThreads' = UnmapThreads
    BY DEF UnmapThreads, CtxInv, Ops, OpOK, RelPc, MapFailsEff, Moves, Keeps, DmaPc
  <2>5. ctxRef' = ctxRef 
    BY DEF MapFailsEff
  <2>6. CtxRefExact
    BY DEF CtxInv
  <2> QED BY <2>1, <2>2, <2>3, <2>4, <2>5, <2>6, CtxCount, CtxCountNext
<1> QED BY <1>1, <1>2, <1>3, <1>4, <1>5, <1>6, <1>7 DEF CtxInv

LEMMA MapLinkCtx ==
  ASSUME Inv, CtxInv, NEW t \in Thread, MapLinkEff(t)
  PROVE  CtxInv'
<1>1. Ops'
  BY DEF CtxInv, Ops, OpOK, RelPc, MapLinkEff
<1>2. FilesOK'
  <2>1. \A u \in Thread : th'[u].op = th[u].op /\ th'[u].f = th[u].f
    BY DEF MapLinkEff
  <2> QED BY <2>1, FilesFrame DEF CtxInv, MapLinkEff
<1>3. Unused'
  BY NullOut DEF CtxInv, Unused, Unseen, MapLinkEff, Only, SameUse, SameId
<1>4. Making'
  BY NullOut DEF CtxInv, Making, Unused, Unseen, MapLinkEff, Only, SameUse, SameId
<1>5. Walks'
  BY NullOut DEF CtxInv, Walks, WalkPc, MapLinkEff
<1>6. Lists'
  BY NullOut, ListTypes DEF CtxInv, Lists, Making, Unseen, MapLinkEff, Only, SameUse,
     SameId
<1>7. CtxRefExact'
  <2>1. OpenFiles' = OpenFiles
    BY DEF OpenFiles, MapLinkEff
  <2>2. LiveMems' = LiveMems
    BY DEF LiveMems, MapLinkEff, Only, SameUse, SameId
  <2>3. CtxThreads' = CtxThreads
    BY DEF CtxThreads, RelRet, MapLinkEff
  <2>4. UnmapThreads' = UnmapThreads
    BY DEF UnmapThreads, CtxInv, Ops, OpOK, RelPc, MapLinkEff
  <2>5. ctxRef' = ctxRef 
    BY DEF MapLinkEff
  <2>6. CtxRefExact
    BY DEF CtxInv
  <2> QED BY <2>1, <2>2, <2>3, <2>4, <2>5, <2>6, CtxCount, CtxCountNext
<1> QED BY <1>1, <1>2, <1>3, <1>4, <1>5, <1>6, <1>7 DEF CtxInv

LEMMA MapReturnCtx ==
  ASSUME Inv, CtxInv, NEW t \in Thread, MapReturnEff(t)
  PROVE  CtxInv'
<1>1. Ops'
  BY DEF CtxInv, Ops, OpOK, RelPc, MapReturnEff, Ends
<1>2. FilesOK'
  BY FilesEnd DEF CtxInv, MapReturnEff
<1>3. Unused'
  BY NullOut DEF CtxInv, Unused, Unseen, MapReturnEff, Ends
<1>4. Making'
  BY NullOut DEF CtxInv, Making, Unused, Unseen, MapReturnEff, Ends
<1>5. Walks'
  BY NullOut DEF CtxInv, Walks, WalkPc, MapReturnEff, Ends
<1>6. Lists'
  BY NullOut, ListTypes DEF CtxInv, Lists, Making, Unseen, MapReturnEff, Ends
<1>7. CtxRefExact'
  <2>1. OpenFiles' = OpenFiles
    BY DEF OpenFiles, MapReturnEff, Ends
  <2>2. LiveMems' = LiveMems
    BY DEF LiveMems, MapReturnEff, Ends
  <2>3. CtxThreads' = CtxThreads
    BY DEF CtxThreads, RelRet, MapReturnEff, Ends
  <2>4. UnmapThreads' = UnmapThreads
    BY DEF UnmapThreads, CtxInv, Ops, OpOK, RelPc, MapReturnEff, Ends
  <2>5. ctxRef' = ctxRef 
    BY DEF MapReturnEff
  <2>6. CtxRefExact
    BY DEF CtxInv
  <2> QED BY <2>1, <2>2, <2>3, <2>4, <2>5, <2>6, CtxCount, CtxCountNext
<1> QED BY <1>1, <1>2, <1>3, <1>4, <1>5, <1>6, <1>7 DEF CtxInv

LEMMA MapUndoCtx ==
  ASSUME Inv, CtxInv, NEW t \in Thread, NEW d, NEW m, MapUndoEff(t, d, m)
  PROVE  CtxInv'
<1>1. Ops'
  BY DEF CtxInv, Ops, OpOK, RelPc, MapUndoEff
<1>2. FilesOK'
  <2>1. \A u \in Thread : th'[u].op = th[u].op /\ th'[u].f = th[u].f
    BY DEF MapUndoEff
  <2> QED BY <2>1, FilesFrame DEF CtxInv, MapUndoEff
<1>3. Unused'
  BY NullOut DEF CtxInv, Unused, Unseen, MapUndoEff, Drops, Only, SameUse, SameId
<1>4. Making'
  <2>1. \A n \in Mem : Unseen(n)' <=> Unseen(n)
    <3>1. \A e \in Dma : dma'[e].mem = dma[e].mem
      BY DEF MapUndoEff, Drops
    <3> QED BY <3>1 DEF Unseen, MapUndoEff
  <2>2. ~Unseen(m)
    BY DEF Unseen, MapUndoEff
  <2>3. /\ \A u \in Thread \ {t} : th'[u] = th[u]
        /\ th'[t].m = m /\ th'[t].pc = "map_put"
    BY DEF MapUndoEff
  <2>4. \A n \in Mem : mem'[n].heap = mem[n].heap
    BY DEF MapUndoEff, Only, SameUse
  <2> QED BY <2>1, <2>2, <2>3, <2>4 DEF CtxInv, Making
<1>5. Walks'
  BY NullOut DEF CtxInv, Walks, WalkPc, MapUndoEff
<1>6. Lists'
  BY NullOut, ListTypes DEF CtxInv, Lists, Making, Unseen, MapUndoEff, Only, SameUse,
     SameId
<1>7. CtxRefExact'
  <2>1. OpenFiles' = OpenFiles
    BY DEF OpenFiles, MapUndoEff
  <2>2. LiveMems' = LiveMems
    BY DEF LiveMems, MapUndoEff, Only, SameUse, SameId
  <2>3. CtxThreads' = CtxThreads
    BY DEF CtxThreads, RelRet, MapUndoEff
  <2>4. UnmapThreads' = UnmapThreads
    BY DEF UnmapThreads, CtxInv, Ops, OpOK, RelPc, MapUndoEff
  <2>5. ctxRef' = ctxRef 
    BY DEF MapUndoEff
  <2>6. CtxRefExact
    BY DEF CtxInv
  <2> QED BY <2>1, <2>2, <2>3, <2>4, <2>5, <2>6, CtxCount, CtxCountNext
<1> QED BY <1>1, <1>2, <1>3, <1>4, <1>5, <1>6, <1>7 DEF CtxInv

LEMMA CbBeginCtx ==
  ASSUME Inv, CtxInv, NEW m \in Mem, CbBeginEff(m)
  PROVE  CtxInv'
<1>1. Ops'
  BY DEF CtxInv, Ops, OpOK, RelPc, CbBeginEff
<1>2. FilesOK'
  BY DEF CtxInv, FilesOK, CbBeginEff
<1>3. Unused'
  BY NullOut DEF CtxInv, Unused, Unseen, CbBeginEff
<1>4. Making'
  BY NullOut DEF CtxInv, Making, Unused, Unseen, CbBeginEff
<1>5. Walks'
  BY NullOut DEF CtxInv, Walks, WalkPc, CbBeginEff
<1>6. Lists'
  BY NullOut, ListTypes DEF CtxInv, Lists, Making, Unseen, CbBeginEff
<1>7. CtxRefExact'
  <2>1. OpenFiles' = OpenFiles
    BY DEF OpenFiles, CbBeginEff
  <2>2. LiveMems' = LiveMems
    BY DEF LiveMems, CbBeginEff
  <2>3. CtxThreads' = CtxThreads
    BY DEF CtxThreads, RelRet, CbBeginEff
  <2>4. UnmapThreads' = UnmapThreads
    BY DEF UnmapThreads, CtxInv, Ops, OpOK, RelPc, CbBeginEff
  <2>5. ctxRef' = ctxRef 
    BY DEF CbBeginEff
  <2>6. CtxRefExact
    BY DEF CtxInv
  <2> QED BY <2>1, <2>2, <2>3, <2>4, <2>5, <2>6, CtxCount, CtxCountNext
<1> QED BY <1>1, <1>2, <1>3, <1>4, <1>5, <1>6, <1>7 DEF CtxInv

LEMMA CbRunCtx ==
  ASSUME Inv, CtxInv, NEW m \in Mem, CbRunEff(m)
  PROVE  CtxInv'
<1>1. Ops'
  BY DEF CtxInv, Ops, OpOK, RelPc, CbRunEff
<1>2. FilesOK'
  BY DEF CtxInv, FilesOK, CbRunEff
<1>3. Unused'
  BY NullOut DEF CtxInv, Unused, Unseen, CbRunEff, Only, SameCounts, SameId
<1>4. Making'
  BY NullOut DEF CtxInv, Making, Unused, Unseen, CbRunEff, Only, SameCounts, SameId
<1>5. Walks'
  BY NullOut DEF CtxInv, Walks, WalkPc, CbRunEff
<1>6. Lists'
  BY NullOut, ListTypes DEF CtxInv, Lists, Making, Unseen, CbRunEff, Only, SameCounts,
     SameId
<1>7. CtxRefExact'
  <2>1. OpenFiles' = OpenFiles
    BY DEF OpenFiles, CbRunEff
  <2>2. LiveMems' = LiveMems
    BY DEF LiveMems, CbRunEff, Only, SameCounts, SameId
  <2>3. CtxThreads' = CtxThreads
    BY DEF CtxThreads, RelRet, CbRunEff
  <2>4. UnmapThreads' = UnmapThreads
    BY DEF UnmapThreads, CtxInv, Ops, OpOK, RelPc, CbRunEff
  <2>5. ctxRef' = ctxRef 
    BY DEF CbRunEff
  <2>6. CtxRefExact
    BY DEF CtxInv
  <2> QED BY <2>1, <2>2, <2>3, <2>4, <2>5, <2>6, CtxCount, CtxCountNext
<1> QED BY <1>1, <1>2, <1>3, <1>4, <1>5, <1>6, <1>7 DEF CtxInv

LEMMA GraceEndCtx ==
  ASSUME Inv, CtxInv, NEW m \in Mem, GraceEndEff(m)
  PROVE  CtxInv'
<1>1. Ops'
  BY DEF CtxInv, Ops, OpOK, RelPc, GraceEndEff
<1>2. FilesOK'
  BY DEF CtxInv, FilesOK, GraceEndEff
<1>3. Unused'
  BY NullOut DEF CtxInv, Unused, Unseen, GraceEndEff, HeapTo, Only, SameCounts, SameId
<1>4. Making'
  BY NullOut DEF CtxInv, Making, Unused, Unseen, GraceEndEff, HeapTo, Only, SameCounts,
     SameId
<1>5. Walks'
  BY NullOut DEF CtxInv, Walks, WalkPc, GraceEndEff
<1>6. Lists'
  BY NullOut, ListTypes DEF CtxInv, Lists, Making, Unseen, GraceEndEff, HeapTo, Only,
     SameCounts, SameId
<1>7. CtxRefExact'
  <2>1. OpenFiles' = OpenFiles
    BY DEF OpenFiles, GraceEndEff
  <2>2. LiveMems' = LiveMems
    BY DEF LiveMems, GraceEndEff, HeapTo, Only, SameCounts, SameId
  <2>3. CtxThreads' = CtxThreads
    BY DEF CtxThreads, RelRet, GraceEndEff
  <2>4. UnmapThreads' = UnmapThreads
    BY DEF UnmapThreads, CtxInv, Ops, OpOK, RelPc, GraceEndEff
  <2>5. ctxRef' = ctxRef 
    BY DEF GraceEndEff
  <2>6. CtxRefExact
    BY DEF CtxInv
  <2> QED BY <2>1, <2>2, <2>3, <2>4, <2>5, <2>6, CtxCount, CtxCountNext
<1> QED BY <1>1, <1>2, <1>3, <1>4, <1>5, <1>6, <1>7 DEF CtxInv

(* The invariant holds when the files have just been opened. *)
LEMMA CtxInit == Init => CtxInv
<1> SUFFICES ASSUME Init PROVE CtxInv
  OBVIOUS
<1> USE DEF Init
<1>1. Ops
  BY DEF Ops, OpOK, Idle, RelPc
<1>2. FilesOK
  BY DEF FilesOK, Idle, NoVma
<1>3. Unused /\ Making
  BY NullOut DEF Unused, Making, Unseen, UnusedMem, UnusedDma, Idle, NoVma
<1>4. Walks /\ Lists
  BY NullOut DEF Walks, WalkPc, Lists, Idle
<1>5. CtxRefExact
  <2>1. OpenFiles = File /\ LiveMems = {} /\ CtxThreads = {} /\ UnmapThreads = {}
    BY DEF OpenFiles, LiveMems, CtxThreads, UnmapThreads, UnusedMem, Idle
  <2> QED BY <2>1, CtxCount, FS_EmptySet
<1> QED BY <1>1, <1>2, <1>3, <1>4, <1>5 DEF CtxInv

LEMMA CtxNext ==
  ASSUME Inv, CtxInv, [Next]_vars
  PROVE  CtxInv'
<1>1. StepEff
  BY NextDoes
<1>2. ASSUME NEW t \in Thread, CallEff(t) PROVE CtxInv'
  BY <1>2, RegStartCtx, PinStartCtx, UnmapStartCtx, CloseStartCtx, MapStartCtx DEF
     CallEff
<1>3. ASSUME NEW t \in Thread, LockEff(t) PROVE CtxInv'
  BY <1>3, RegInsertCtx, RegInsertFailsCtx, RegCopyCtx, RegEraseCtx, GoesOnCtx,
     PinGetCtx, PinDoCtx, PinDoFailsCtx, PinReturnCtx, PutCtx, RelUnlinkCtx, RelFreeCtx,
     RelCtxCtx, UnmapDoCtx, UnmapReturnCtx, CloseDoCtx, CloseReturnCtx DEF LockEff
<1>4. ASSUME NEW t \in Thread, MapEff(t) PROVE CtxInv'
  BY <1>4, MapLockCtx, WalkMatchCtx, WalkSkipCtx, WalkPutCtx, WalkEndCtx, MapAllocCtx,
     MapDmaCtx, MapFailsCtx, MapLinkCtx, MapReturnCtx, MapUndoCtx DEF MapEff
<1>5. ASSUME NEW m \in Mem, CbBeginEff(m) \/ CbRunEff(m) \/ GraceEndEff(m) PROVE CtxInv'
  BY <1>5, CbBeginCtx, CbRunCtx, GraceEndCtx
<1>6. CASE Frozen
  BY <1>6 DEF Frozen, CtxInv, Ops, FilesOK, Unused, Making, Unseen, Walks, Lists, CtxRefExact, At
<1> QED BY <1>1, <1>2, <1>3, <1>4, <1>5, <1>6, SplitVmaCtx DEF StepEff

(* Every reachable state satisfies it. *)
LEMMA CtxAlways == Spec => []CtxInv
<1>1. Inv /\ CtxInv /\ [Next]_vars => CtxInv'
  BY CtxNext
<1> QED BY <1>1, CtxInit, InvAlways, PTL DEF Spec

(* The context is freed exactly when its last file, registration and call  *)
(* is gone: the kref of bafs_ctx is the number of those that hold it.      *)
THEOREM ContextCountExact == Spec => []CtxRefExact
<1>1. CtxInv => CtxRefExact
  BY DEF CtxInv
<1> QED BY <1>1, CtxAlways, PTL

----------------------------------------------------------------------------
(* What holds of locks, lists and releases whatever the process does. *)

(* A pin and an unmap hold mm->mmap_lock. *)
Mmap == \A t \in Thread : mmapLock = t <=> th[t].op \in {"pin", "unmap"}

(* A registration being released, or released, has no reference, and one   *)
(* thread releases it.                                                     *)
LastPc == {"rel_unlink", "rel_free"}

Releases ==
  \A t \in Thread : th[t].pc \in LastPc =>
    /\ th[t].m \in Mem /\ mem[th[t].m].ref = 0
    /\ \A u \in Thread : th[u].pc \in LastPc /\ th[u].m = th[t].m => u = t

DeadRefs == \A m \in Mem : mem[m].state = "DEAD" => mem[m].ref = 0

(* A live mapping object is in the list of its registration or in the      *)
(* hands of the thread that makes it.                                      *)
Placed(d) ==
  \/ d \in mem[dma[d].mem].dmas
  \/ \E t \in Thread : th[t].pc \in DmaPc /\ th[t].d = d

DmaPlaced == \A d \in Dma : dma[d].heap = "live" => dma[d].mem \in Mem /\ Placed(d)

(* Calls are in flight together only if they may be. *)
Overlaps ==
  \A t, u \in Thread : t # u /\ th[t].op # "none" /\ th[u].op # "none" =>
    {th[t].op, th[u].op} \in Overlap

(* A live registration is in mem_list, but between the two steps that make *)
(* it and between the two that release it.                                 *)
Listed ==
  \A m \in Mem : mem[m].heap = "live" =>
    m \in memList \/ \E t \in Thread : th[t].pc \in {"reg_insert", "rel_free"} /\ th[t].m = m

BaseInv == Mmap /\ Releases /\ DeadRefs /\ DmaPlaced /\ Overlaps /\ Listed

(* Steps that start, and put, no release. *)
LEMMA ReleasesFrame ==
  ASSUME Releases, \A m \in Mem : mem[m].ref = 0 => mem'[m].ref = 0,
         \A u \in Thread : th'[u].pc \in LastPc => th[u].pc \in LastPc /\ th'[u].m = th[u].m
  PROVE  Releases'
BY DEF Releases

(* Steps that take no mapping object out of a list or of a hand. *)
LEMMA PlacedFrame ==
  ASSUME DmaPlaced, \A m \in Mem : mem[m].dmas \subseteq mem'[m].dmas,
         \A d \in Dma : dma'[d].heap = "live" => dma[d].heap = "live" /\ dma'[d].mem = dma[d].mem,
         \A u \in Thread : th[u].pc \in DmaPc => th'[u].pc \in DmaPc /\ th'[u].d = th[u].d
  PROVE  DmaPlaced'
BY DEF DmaPlaced, Placed

LEMMA OverlapsFrame ==
  ASSUME Overlaps, \A u \in Thread : th'[u].op = th[u].op \/ th'[u].op = "none"
  PROVE  Overlaps'
BY DEF Overlaps

LEMMA OverlapsStart ==
  ASSUME Overlaps, NEW t \in Thread, NEW o, NEW pc, NEW f, NEW a, NEW m,
         Starts(t, o, pc, f, a, m)
  PROVE  Overlaps'
<1>1. /\ \A u \in Thread \ {t} : th'[u].op = th[u].op
      /\ \A u \in Thread \ {t} : th[u].op # "none" => {o, th[u].op} \in Overlap
      /\ th'[t].op = o
  BY DEF Starts
<1>2. \A x, y : {x, y} = {y, x}
  OBVIOUS
<1>3. \A u \in Thread \ {t} : th[u].op # "none" =>
        {o, th[u].op} \in Overlap /\ {th[u].op, o} \in Overlap
  BY <1>1, <1>2
<1> SUFFICES ASSUME NEW v \in Thread, NEW u \in Thread, v # u, th'[v].op # "none",
                    th'[u].op # "none"
             PROVE  {th'[v].op, th'[u].op} \in Overlap
  BY DEF Overlaps
<1>4. CASE v = t
  BY <1>1, <1>3, <1>4
<1>5. CASE u = t
  BY <1>1, <1>3, <1>5
<1>6. CASE v # t /\ u # t
  BY <1>1, <1>6 DEF Overlaps
<1> QED BY <1>4, <1>5, <1>6

(* Steps that list and unlist nothing. *)
LEMMA ListedFrame ==
  ASSUME Listed, memList' = memList, \A m \in Mem : mem'[m].heap = "live" => mem[m].heap = "live",
         \A u \in Thread : th[u].pc \in {"reg_insert", "rel_free"} =>
           th'[u].pc = th[u].pc /\ th'[u].m = th[u].m
  PROVE  Listed'
BY DEF Listed

LEMMA RegStartBase ==
  ASSUME Inv, CtxInv, BaseInv, NEW t \in Thread, NEW f \in File, NEW l \in Loc, NEW m \in Mem, RegStartEff(t, f, l, m)
  PROVE  BaseInv'
<1>1. Mmap'
  BY NullOut DEF BaseInv, Mmap, CtxInv, Ops, OpOK, RegStartEff, Starts
<1>2. Releases'
  <2>1. \A u \in Thread : th[u].m # m
    BY DEF CtxInv, Unused, RegStartEff
  <2>2. /\ \A u \in Thread \ {t} : th'[u] = th[u]
        /\ th'[t].pc = "reg_insert" /\ \A n \in Mem \ {m} : mem'[n] = mem[n]
    BY DEF RegStartEff, Starts, Only
  <2>3. Releases
    BY DEF BaseInv
  <2> SUFFICES ASSUME NEW v \in Thread, th'[v].pc \in LastPc
               PROVE  /\ th'[v].m \in Mem /\ mem'[th'[v].m].ref = 0
                      /\ \A u \in Thread : th'[u].pc \in LastPc /\ th'[u].m = th'[v].m => u = v
    BY DEF Releases
  <2>4. \A u \in Thread : th'[u].pc \in LastPc => u # t
    BY <2>2 DEF LastPc
  <2>5. v # t /\ th'[v] = th[v]
    BY <2>2, <2>4
  <2>6. /\ th[v].m \in Mem /\ mem[th[v].m].ref = 0
        /\ \A u \in Thread : th[u].pc \in LastPc /\ th[u].m = th[v].m => u = v
    BY <2>3, <2>5 DEF Releases
  <2>7. mem'[th[v].m].ref = 0
    BY <2>1, <2>2, <2>6
  <2> QED BY <2>2, <2>4, <2>5, <2>6, <2>7
<1>3. DeadRefs'
  BY DEF BaseInv, DeadRefs, RegStartEff, Starts, Only
<1>4. DmaPlaced'
  <2>1. \A d \in Dma : dma[d].mem # m
    BY DEF CtxInv, Unused, Unseen, RegStartEff
  <2>2. \A u \in Thread : th[u].pc \in DmaPc => th'[u].pc \in DmaPc /\ th'[u].d = th[u].d
    BY DEF RegStartEff, Starts, DmaPc
  <2>3. dma' = dma /\ \A n \in Mem \ {m} : mem'[n] = mem[n]
    BY DEF RegStartEff, Only
  <2> QED BY <2>1, <2>2, <2>3 DEF BaseInv, DmaPlaced, Placed
<1>5. Overlaps'
  BY OverlapsStart DEF BaseInv, RegStartEff
<1>6. Listed'
  BY SMTT(30) DEF BaseInv, Listed, CtxInv, Unused, RegStartEff, Starts, Only
<1> QED BY <1>1, <1>2, <1>3, <1>4, <1>5, <1>6 DEF BaseInv

LEMMA RegInsertBase ==
  ASSUME Inv, CtxInv, BaseInv, NEW t \in Thread, RegInsertEff(t)
  PROVE  BaseInv'
<1>1. Mmap'
  BY NullOut DEF BaseInv, Mmap, CtxInv, Ops, OpOK, RegInsertEff, Moves, Keeps
<1>2. Releases'
  <2>1. \A n \in Mem : mem[n].ref = 0 => mem'[n].ref = 0
    BY DEF RegInsertEff, Moves, Keeps, Only, SameUse, SameCounts
  <2>2. \A u \in Thread : th'[u].pc \in LastPc => th[u].pc \in LastPc /\ th'[u].m = th[u].m
    BY DEF LastPc, RegInsertEff, Moves, Keeps
  <2> QED BY <2>1, <2>2, ReleasesFrame DEF BaseInv
<1>3. DeadRefs'
  BY DEF BaseInv, DeadRefs, RegInsertEff, Moves, Keeps, Only, SameUse, SameCounts
<1>4. DmaPlaced'
  <2>1. \A n \in Mem : mem[n].dmas \subseteq mem'[n].dmas
    BY DEF RegInsertEff, Moves, Keeps, Only, SameUse, SameCounts
  <2>2. \A u \in Thread : th[u].pc \in DmaPc => th'[u].pc \in DmaPc /\ th'[u].d = th[u].d
    BY DEF DmaPc, RegInsertEff, Moves, Keeps
  <2>3. \A e \in Dma : dma'[e].heap = "live" => dma[e].heap = "live" /\ dma'[e].mem = dma[e].mem
    BY DEF RegInsertEff
  <2> QED BY <2>1, <2>2, <2>3, PlacedFrame DEF BaseInv
<1>5. Overlaps'
  <2>1. \A u \in Thread : th'[u].op = th[u].op \/ th'[u].op = "none"
    BY DEF RegInsertEff, Moves, Keeps
  <2> QED BY <2>1, OverlapsFrame DEF BaseInv
<1>6. Listed'
  BY DEF BaseInv, Listed, RegInsertEff, Moves, Keeps, Only, SameUse, SameCounts
<1> QED BY <1>1, <1>2, <1>3, <1>4, <1>5, <1>6 DEF BaseInv

LEMMA RegInsertFailsBase ==
  ASSUME Inv, CtxInv, BaseInv, NEW t \in Thread, RegInsertFailsEff(t)
  PROVE  BaseInv'
<1>1. Mmap'
  BY NullOut DEF BaseInv, Mmap, CtxInv, Ops, OpOK, RegInsertFailsEff, Ends
<1>2. Releases'
  <2>1. \A n \in Mem : mem[n].ref = 0 => mem'[n].ref = 0
    BY DEF RegInsertFailsEff, Ends, HeapTo, Only, SameCounts, SameId
  <2>2. \A u \in Thread : th'[u].pc \in LastPc => th[u].pc \in LastPc /\ th'[u].m = th[u].m
    BY DEF LastPc, RegInsertFailsEff, Ends
  <2> QED BY <2>1, <2>2, ReleasesFrame DEF BaseInv
<1>3. DeadRefs'
  BY DEF BaseInv, DeadRefs, RegInsertFailsEff, Ends, HeapTo, Only, SameCounts, SameId
<1>4. DmaPlaced'
  <2>1. \A n \in Mem : mem[n].dmas \subseteq mem'[n].dmas
    BY DEF RegInsertFailsEff, Ends, HeapTo, Only, SameCounts, SameId
  <2>2. \A u \in Thread : th[u].pc \in DmaPc => th'[u].pc \in DmaPc /\ th'[u].d = th[u].d
    BY DEF DmaPc, RegInsertFailsEff, Ends
  <2>3. \A e \in Dma : dma'[e].heap = "live" => dma[e].heap = "live" /\ dma'[e].mem = dma[e].mem
    BY DEF RegInsertFailsEff
  <2> QED BY <2>1, <2>2, <2>3, PlacedFrame DEF BaseInv
<1>5. Overlaps'
  <2>1. \A u \in Thread : th'[u].op = th[u].op \/ th'[u].op = "none"
    BY DEF RegInsertFailsEff, Ends
  <2> QED BY <2>1, OverlapsFrame DEF BaseInv
<1>6. Listed'
  BY DEF BaseInv, Listed, RegInsertFailsEff, Ends, HeapTo, Only, SameCounts, SameId
<1> QED BY <1>1, <1>2, <1>3, <1>4, <1>5, <1>6 DEF BaseInv

LEMMA RegCopyBase ==
  ASSUME Inv, CtxInv, BaseInv, NEW t \in Thread, RegCopyEff(t)
  PROVE  BaseInv'
<1>1. Mmap'
  BY NullOut DEF BaseInv, Mmap, CtxInv, Ops, OpOK, RegCopyEff, Ends
<1>2. Releases'
  <2>1. \A n \in Mem : mem[n].ref = 0 => mem'[n].ref = 0
    BY DEF RegCopyEff, Ends
  <2>2. \A u \in Thread : th'[u].pc \in LastPc => th[u].pc \in LastPc /\ th'[u].m = th[u].m
    BY DEF LastPc, RegCopyEff, Ends
  <2> QED BY <2>1, <2>2, ReleasesFrame DEF BaseInv
<1>3. DeadRefs'
  BY DEF BaseInv, DeadRefs, RegCopyEff, Ends
<1>4. DmaPlaced'
  <2>1. \A n \in Mem : mem[n].dmas \subseteq mem'[n].dmas
    BY DEF RegCopyEff, Ends
  <2>2. \A u \in Thread : th[u].pc \in DmaPc => th'[u].pc \in DmaPc /\ th'[u].d = th[u].d
    BY DEF DmaPc, RegCopyEff, Ends
  <2>3. \A e \in Dma : dma'[e].heap = "live" => dma[e].heap = "live" /\ dma'[e].mem = dma[e].mem
    BY DEF RegCopyEff
  <2> QED BY <2>1, <2>2, <2>3, PlacedFrame DEF BaseInv
<1>5. Overlaps'
  <2>1. \A u \in Thread : th'[u].op = th[u].op \/ th'[u].op = "none"
    BY DEF RegCopyEff, Ends
  <2> QED BY <2>1, OverlapsFrame DEF BaseInv
<1>6. Listed'
  BY DEF BaseInv, Listed, RegCopyEff, Ends
<1> QED BY <1>1, <1>2, <1>3, <1>4, <1>5, <1>6 DEF BaseInv

LEMMA GoesOnBase ==
  ASSUME Inv, CtxInv, BaseInv, NEW t \in Thread, NEW pc, NEW to, GoesOnPc(pc, to), GoesOn(t, pc, to)
  PROVE  BaseInv'
<1>1. Mmap'
  BY NullOut DEF BaseInv, Mmap, CtxInv, Ops, OpOK, GoesOnPc, GoesOn, Moves, Keeps
<1>2. Releases'
  <2>1. \A n \in Mem : mem[n].ref = 0 => mem'[n].ref = 0
    BY DEF GoesOnPc, GoesOn, Moves, Keeps
  <2>2. \A u \in Thread : th'[u].pc \in LastPc => th[u].pc \in LastPc /\ th'[u].m = th[u].m
    BY DEF LastPc, GoesOnPc, GoesOn, Moves, Keeps
  <2> QED BY <2>1, <2>2, ReleasesFrame DEF BaseInv
<1>3. DeadRefs'
  BY DEF BaseInv, DeadRefs, GoesOnPc, GoesOn, Moves, Keeps
<1>4. DmaPlaced'
  <2>1. \A n \in Mem : mem[n].dmas \subseteq mem'[n].dmas
    BY DEF GoesOnPc, GoesOn, Moves, Keeps
  <2>2. \A u \in Thread : th[u].pc \in DmaPc => th'[u].pc \in DmaPc /\ th'[u].d = th[u].d
    BY DEF DmaPc, GoesOnPc, GoesOn, Moves, Keeps
  <2>3. \A e \in Dma : dma'[e].heap = "live" => dma[e].heap = "live" /\ dma'[e].mem = dma[e].mem
    BY DEF GoesOn
  <2> QED BY <2>1, <2>2, <2>3, PlacedFrame DEF BaseInv
<1>5. Overlaps'
  <2>1. \A u \in Thread : th'[u].op = th[u].op \/ th'[u].op = "none"
    BY DEF GoesOnPc, GoesOn, Moves, Keeps
  <2> QED BY <2>1, OverlapsFrame DEF BaseInv
<1>6. Listed'
  BY DEF BaseInv, Listed, GoesOnPc, GoesOn, Moves, Keeps
<1> QED BY <1>1, <1>2, <1>3, <1>4, <1>5, <1>6 DEF BaseInv

LEMMA RegEraseBase ==
  ASSUME Inv, CtxInv, BaseInv, NEW t \in Thread, RegEraseEff(t)
  PROVE  BaseInv'
<1>1. Mmap'
  BY NullOut DEF BaseInv, Mmap, CtxInv, Ops, OpOK, RegEraseEff, Ends
<1>2. Releases'
  <2>1. \A n \in Mem : mem[n].ref = 0 => mem'[n].ref = 0
    BY DEF RegEraseEff, Ends, HeapTo, Only, SameCounts, SameId
  <2>2. \A u \in Thread : th'[u].pc \in LastPc => th[u].pc \in LastPc /\ th'[u].m = th[u].m
    BY DEF LastPc, RegEraseEff, Ends
  <2> QED BY <2>1, <2>2, ReleasesFrame DEF BaseInv
<1>3. DeadRefs'
  BY DEF BaseInv, DeadRefs, RegEraseEff, Ends, HeapTo, Only, SameCounts, SameId
<1>4. DmaPlaced'
  <2>1. \A n \in Mem : mem[n].dmas \subseteq mem'[n].dmas
    BY DEF RegEraseEff, Ends, HeapTo, Only, SameCounts, SameId
  <2>2. \A u \in Thread : th[u].pc \in DmaPc => th'[u].pc \in DmaPc /\ th'[u].d = th[u].d
    BY DEF DmaPc, RegEraseEff, Ends
  <2>3. \A e \in Dma : dma'[e].heap = "live" => dma[e].heap = "live" /\ dma'[e].mem = dma[e].mem
    BY DEF RegEraseEff
  <2> QED BY <2>1, <2>2, <2>3, PlacedFrame DEF BaseInv
<1>5. Overlaps'
  <2>1. \A u \in Thread : th'[u].op = th[u].op \/ th'[u].op = "none"
    BY DEF RegEraseEff, Ends
  <2> QED BY <2>1, OverlapsFrame DEF BaseInv
<1>6. Listed'
  BY DEF BaseInv, Listed, RegEraseEff, Ends, HeapTo, Only, SameCounts, SameId
<1> QED BY <1>1, <1>2, <1>3, <1>4, <1>5, <1>6 DEF BaseInv

LEMMA PinStartBase ==
  ASSUME Inv, CtxInv, BaseInv, NEW t \in Thread, NEW f \in File, NEW p \in Handle, NEW a \in Addr, MayPin(p, a), PinStartEff(t, f, p, a)
  PROVE  BaseInv'
<1>1. Mmap'
  BY NullOut DEF BaseInv, Mmap, CtxInv, Ops, OpOK, PinStartEff, Starts
<1>2. Releases'
  <2>1. \A n \in Mem : mem[n].ref = 0 => mem'[n].ref = 0
    BY DEF PinStartEff, Starts
  <2>2. \A u \in Thread : th'[u].pc \in LastPc => th[u].pc \in LastPc /\ th'[u].m = th[u].m
    BY DEF LastPc, PinStartEff, Starts
  <2> QED BY <2>1, <2>2, ReleasesFrame DEF BaseInv
<1>3. DeadRefs'
  BY DEF BaseInv, DeadRefs, PinStartEff, Starts
<1>4. DmaPlaced'
  <2>1. \A n \in Mem : mem[n].dmas \subseteq mem'[n].dmas
    BY DEF PinStartEff, Starts
  <2>2. \A u \in Thread : th[u].pc \in DmaPc => th'[u].pc \in DmaPc /\ th'[u].d = th[u].d
    BY DEF DmaPc, PinStartEff, Starts
  <2>3. \A e \in Dma : dma'[e].heap = "live" => dma[e].heap = "live" /\ dma'[e].mem = dma[e].mem
    BY DEF PinStartEff
  <2> QED BY <2>1, <2>2, <2>3, PlacedFrame DEF BaseInv
<1>5. Overlaps'
  BY OverlapsStart DEF BaseInv, PinStartEff
<1>6. Listed'
  BY DEF BaseInv, Listed, PinStartEff, Starts
<1> QED BY <1>1, <1>2, <1>3, <1>4, <1>5, <1>6 DEF BaseInv

LEMMA PinGetBase ==
  ASSUME Inv, CtxInv, BaseInv, NEW t \in Thread, PinGetEff(t)
  PROVE  BaseInv'
<1>1. Mmap'
  BY NullOut DEF BaseInv, Mmap, CtxInv, Ops, OpOK, PinGetEff, Moves, Keeps
<1>2. Releases'
  <2>1. \A n \in Mem : mem[n].ref = 0 => mem'[n].ref = 0
    BY DEF PinGetEff, Moves, Keeps, RefTo, Only, SameUse, SameId
  <2>2. \A u \in Thread : th'[u].pc \in LastPc => th[u].pc \in LastPc /\ th'[u].m = th[u].m
    BY DEF LastPc, PinGetEff, Moves, Keeps
  <2> QED BY <2>1, <2>2, ReleasesFrame DEF BaseInv
<1>3. DeadRefs'
  BY DEF BaseInv, DeadRefs, PinGetEff, Moves, Keeps, RefTo, Only, SameUse, SameId
<1>4. DmaPlaced'
  <2>1. \A n \in Mem : mem[n].dmas \subseteq mem'[n].dmas
    BY DEF PinGetEff, Moves, Keeps, RefTo, Only, SameUse, SameId
  <2>2. \A u \in Thread : th[u].pc \in DmaPc => th'[u].pc \in DmaPc /\ th'[u].d = th[u].d
    BY DEF DmaPc, PinGetEff, Moves, Keeps
  <2>3. \A e \in Dma : dma'[e].heap = "live" => dma[e].heap = "live" /\ dma'[e].mem = dma[e].mem
    BY DEF PinGetEff
  <2> QED BY <2>1, <2>2, <2>3, PlacedFrame DEF BaseInv
<1>5. Overlaps'
  <2>1. \A u \in Thread : th'[u].op = th[u].op \/ th'[u].op = "none"
    BY DEF PinGetEff, Moves, Keeps
  <2> QED BY <2>1, OverlapsFrame DEF BaseInv
<1>6. Listed'
  <2>1. \A n \in Mem : mem'[n].heap = "live" => mem[n].heap = "live"
    BY DEF PinGetEff, Moves, Keeps, RefTo, Only, SameUse, SameId
  <2>2. \A u \in Thread : th[u].pc \in {"reg_insert", "rel_free"} => th'[u].pc = th[u].pc /\ th'[u].m = th[u].m
    BY DEF PinGetEff, Moves, Keeps
  <2> QED BY <2>1, <2>2, ListedFrame DEF BaseInv, PinGetEff
<1> QED BY <1>1, <1>2, <1>3, <1>4, <1>5, <1>6 DEF BaseInv

LEMMA PinDoBase ==
  ASSUME Inv, CtxInv, BaseInv, NEW t \in Thread, PinDoEff(t)
  PROVE  BaseInv'
<1>1. Mmap'
  BY NullOut DEF BaseInv, Mmap, CtxInv, Ops, OpOK, PinDoEff, Moves, Keeps
<1>2. Releases'
  <2>1. \A n \in Mem : mem[n].ref = 0 => mem'[n].ref = 0
    BY DEF PinDoEff, Moves, Keeps, Only, SameCounts, SameId
  <2>2. \A u \in Thread : th'[u].pc \in LastPc => th[u].pc \in LastPc /\ th'[u].m = th[u].m
    BY DEF LastPc, PinDoEff, Moves, Keeps
  <2> QED BY <2>1, <2>2, ReleasesFrame DEF BaseInv
<1>3. DeadRefs'
  BY DEF BaseInv, DeadRefs, PinDoEff, Moves, Keeps, Only, SameCounts, SameId
<1>4. DmaPlaced'
  <2>1. \A n \in Mem : mem[n].dmas \subseteq mem'[n].dmas
    BY DEF PinDoEff, Moves, Keeps, Only, SameCounts, SameId
  <2>2. \A u \in Thread : th[u].pc \in DmaPc => th'[u].pc \in DmaPc /\ th'[u].d = th[u].d
    BY DEF DmaPc, PinDoEff, Moves, Keeps
  <2>3. \A e \in Dma : dma'[e].heap = "live" => dma[e].heap = "live" /\ dma'[e].mem = dma[e].mem
    BY DEF PinDoEff
  <2> QED BY <2>1, <2>2, <2>3, PlacedFrame DEF BaseInv
<1>5. Overlaps'
  <2>1. \A u \in Thread : th'[u].op = th[u].op \/ th'[u].op = "none"
    BY DEF PinDoEff, Moves, Keeps
  <2> QED BY <2>1, OverlapsFrame DEF BaseInv
<1>6. Listed'
  <2>1. \A n \in Mem : mem'[n].heap = "live" => mem[n].heap = "live"
    BY DEF PinDoEff, Moves, Keeps, Only, SameCounts, SameId
  <2>2. \A u \in Thread : th[u].pc \in {"reg_insert", "rel_free"} => th'[u].pc = th[u].pc /\ th'[u].m = th[u].m
    BY DEF PinDoEff, Moves, Keeps
  <2> QED BY <2>1, <2>2, ListedFrame DEF BaseInv, PinDoEff
<1> QED BY <1>1, <1>2, <1>3, <1>4, <1>5, <1>6 DEF BaseInv

LEMMA PinDoFailsBase ==
  ASSUME Inv, CtxInv, BaseInv, NEW t \in Thread, PinDoFailsEff(t)
  PROVE  BaseInv'
<1>1. Mmap'
  BY NullOut DEF BaseInv, Mmap, CtxInv, Ops, OpOK, PinDoFailsEff, Moves, Keeps
<1>2. Releases'
  <2>1. \A n \in Mem : mem[n].ref = 0 => mem'[n].ref = 0
    BY DEF PinDoFailsEff, Moves, Keeps, Only, SameCounts, SameId
  <2>2. \A u \in Thread : th'[u].pc \in LastPc => th[u].pc \in LastPc /\ th'[u].m = th[u].m
    BY DEF LastPc, PinDoFailsEff, Moves, Keeps
  <2> QED BY <2>1, <2>2, ReleasesFrame DEF BaseInv
<1>3. DeadRefs'
  BY DEF BaseInv, DeadRefs, PinDoFailsEff, Moves, Keeps, Only, SameCounts, SameId
<1>4. DmaPlaced'
  <2>1. \A n \in Mem : mem[n].dmas \subseteq mem'[n].dmas
    BY DEF PinDoFailsEff, Moves, Keeps, Only, SameCounts, SameId
  <2>2. \A u \in Thread : th[u].pc \in DmaPc => th'[u].pc \in DmaPc /\ th'[u].d = th[u].d
    BY DEF DmaPc, PinDoFailsEff, Moves, Keeps
  <2>3. \A e \in Dma : dma'[e].heap = "live" => dma[e].heap = "live" /\ dma'[e].mem = dma[e].mem
    BY DEF PinDoFailsEff
  <2> QED BY <2>1, <2>2, <2>3, PlacedFrame DEF BaseInv
<1>5. Overlaps'
  <2>1. \A u \in Thread : th'[u].op = th[u].op \/ th'[u].op = "none"
    BY DEF PinDoFailsEff, Moves, Keeps
  <2> QED BY <2>1, OverlapsFrame DEF BaseInv
<1>6. Listed'
  <2>1. \A n \in Mem : mem'[n].heap = "live" => mem[n].heap = "live"
    BY DEF PinDoFailsEff, Moves, Keeps, Only, SameCounts, SameId
  <2>2. \A u \in Thread : th[u].pc \in {"reg_insert", "rel_free"} => th'[u].pc = th[u].pc /\ th'[u].m = th[u].m
    BY DEF PinDoFailsEff, Moves, Keeps
  <2> QED BY <2>1, <2>2, ListedFrame DEF BaseInv, PinDoFailsEff
<1> QED BY <1>1, <1>2, <1>3, <1>4, <1>5, <1>6 DEF BaseInv

LEMMA PutBase ==
  ASSUME Inv, CtxInv, BaseInv, NEW t \in Thread, NEW pc, NEW next, PutPc(pc, next), PutEff(t, pc, next)
  PROVE  BaseInv'
<1>1. Mmap'
  BY NullOut DEF BaseInv, Mmap, CtxInv, Ops, OpOK, PutPc, PutEff, Puts, Keeps
<1>2. Releases'
  <2>1. /\ \A u \in Thread \ {t} : th'[u] = th[u]
        /\ th'[t].m = th[t].m /\ th[t].m \in Mem
        /\ \A n \in Mem \ {th[t].m} : mem'[n] = mem[n]
        /\ mem[th[t].m].ref > 0 /\ mem'[th[t].m].ref = mem[th[t].m].ref - 1
        /\ th'[t].pc \in LastPc => mem[th[t].m].ref = 1
    BY DEF LastPc, PutPc, PutEff, Puts, Keeps, RefTo, Only
  <2>2. \A u \in Thread \ {t} : th[u].pc \in LastPc => th[u].m # th[t].m
    BY <2>1 DEF BaseInv, Releases
  <2>3. Releases
    BY DEF BaseInv
  <2> SUFFICES ASSUME NEW v \in Thread, th'[v].pc \in LastPc
               PROVE  /\ th'[v].m \in Mem /\ mem'[th'[v].m].ref = 0
                      /\ \A u \in Thread : th'[u].pc \in LastPc /\ th'[u].m = th'[v].m => u = v
    BY DEF Releases
  <2>4. CASE v = t
    <3>1. mem'[th[t].m].ref = 0
      BY <2>1, <2>4
    <3> QED BY <2>1, <2>2, <2>4, <3>1
  <2>5. CASE v # t
    <3>1. /\ th[v].m \in Mem /\ mem[th[v].m].ref = 0 /\ th[v].m # th[t].m
          /\ \A u \in Thread : th[u].pc \in LastPc /\ th[u].m = th[v].m => u = v
      BY <2>1, <2>2, <2>3, <2>5 DEF Releases
    <3> QED BY <2>1, <2>5, <3>1
  <2> QED BY <2>4, <2>5
<1>3. DeadRefs'
  BY MemTypes DEF BaseInv, DeadRefs, PutPc, PutEff, Puts, Keeps, RefTo, Only, SameUse,
     SameId
<1>4. DmaPlaced'
  <2>1. \A n \in Mem : mem[n].dmas \subseteq mem'[n].dmas
    BY DEF PutPc, PutEff, Puts, Keeps, RefTo, Only, SameUse, SameId
  <2>2. \A u \in Thread : th[u].pc \in DmaPc => th'[u].pc \in DmaPc /\ th'[u].d = th[u].d
    BY DEF DmaPc, PutPc, PutEff, Puts, Keeps
  <2>3. \A e \in Dma : dma'[e].heap = "live" => dma[e].heap = "live" /\ dma'[e].mem = dma[e].mem
    BY DEF PutEff
  <2> QED BY <2>1, <2>2, <2>3, PlacedFrame DEF BaseInv
<1>5. Overlaps'
  <2>1. \A u \in Thread : th'[u].op = th[u].op \/ th'[u].op = "none"
    BY DEF PutPc, PutEff, Puts, Keeps
  <2> QED BY <2>1, OverlapsFrame DEF BaseInv
<1>6. Listed'
  <2>1. \A n \in Mem : mem'[n].heap = "live" => mem[n].heap = "live"
    BY DEF PutPc, PutEff, Puts, Keeps, RefTo, Only, SameUse, SameId
  <2>2. \A u \in Thread : th[u].pc \in {"reg_insert", "rel_free"} => th'[u].pc = th[u].pc /\ th'[u].m = th[u].m
    BY DEF PutPc, PutEff, Puts, Keeps
  <2> QED BY <2>1, <2>2, ListedFrame DEF BaseInv, PutEff
<1> QED BY <1>1, <1>2, <1>3, <1>4, <1>5, <1>6 DEF BaseInv

LEMMA PinReturnBase ==
  ASSUME Inv, CtxInv, BaseInv, NEW t \in Thread, PinReturnEff(t)
  PROVE  BaseInv'
<1>1. Mmap'
  BY NullOut DEF BaseInv, Mmap, CtxInv, Ops, OpOK, PinReturnEff, Ends
<1>2. Releases'
  <2>1. \A n \in Mem : mem[n].ref = 0 => mem'[n].ref = 0
    BY DEF PinReturnEff, Ends
  <2>2. \A u \in Thread : th'[u].pc \in LastPc => th[u].pc \in LastPc /\ th'[u].m = th[u].m
    BY DEF LastPc, PinReturnEff, Ends
  <2> QED BY <2>1, <2>2, ReleasesFrame DEF BaseInv
<1>3. DeadRefs'
  BY DEF BaseInv, DeadRefs, PinReturnEff, Ends
<1>4. DmaPlaced'
  <2>1. \A n \in Mem : mem[n].dmas \subseteq mem'[n].dmas
    BY DEF PinReturnEff, Ends
  <2>2. \A u \in Thread : th[u].pc \in DmaPc => th'[u].pc \in DmaPc /\ th'[u].d = th[u].d
    BY DEF DmaPc, PinReturnEff, Ends
  <2>3. \A e \in Dma : dma'[e].heap = "live" => dma[e].heap = "live" /\ dma'[e].mem = dma[e].mem
    BY DEF PinReturnEff
  <2> QED BY <2>1, <2>2, <2>3, PlacedFrame DEF BaseInv
<1>5. Overlaps'
  <2>1. \A u \in Thread : th'[u].op = th[u].op \/ th'[u].op = "none"
    BY DEF PinReturnEff, Ends
  <2> QED BY <2>1, OverlapsFrame DEF BaseInv
<1>6. Listed'
  BY DEF BaseInv, Listed, PinReturnEff, Ends
<1> QED BY <1>1, <1>2, <1>3, <1>4, <1>5, <1>6 DEF BaseInv

LEMMA RelUnlinkBase ==
  ASSUME Inv, CtxInv, BaseInv, NEW t \in Thread, RelUnlinkEff(t)
  PROVE  BaseInv'
<1>1. Mmap'
  BY NullOut DEF BaseInv, Mmap, CtxInv, Ops, OpOK, RelUnlinkEff, Moves, Keeps
<1>2. Releases'
  <2>1. \A n \in Mem : mem[n].ref = 0 => mem'[n].ref = 0
    BY DEF RelUnlinkEff, Moves, Keeps
  <2>2. \A u \in Thread : th'[u].pc \in LastPc => th[u].pc \in LastPc /\ th'[u].m = th[u].m
    BY DEF LastPc, RelUnlinkEff, Moves, Keeps
  <2> QED BY <2>1, <2>2, ReleasesFrame DEF BaseInv
<1>3. DeadRefs'
  BY DEF BaseInv, DeadRefs, RelUnlinkEff, Moves, Keeps
<1>4. DmaPlaced'
  <2>1. \A n \in Mem : mem[n].dmas \subseteq mem'[n].dmas
    BY DEF RelUnlinkEff, Moves, Keeps
  <2>2. \A u \in Thread : th[u].pc \in DmaPc => th'[u].pc \in DmaPc /\ th'[u].d = th[u].d
    BY DEF DmaPc, RelUnlinkEff, Moves, Keeps
  <2>3. \A e \in Dma : dma'[e].heap = "live" => dma[e].heap = "live" /\ dma'[e].mem = dma[e].mem
    BY DEF RelUnlinkEff
  <2> QED BY <2>1, <2>2, <2>3, PlacedFrame DEF BaseInv
<1>5. Overlaps'
  <2>1. \A u \in Thread : th'[u].op = th[u].op \/ th'[u].op = "none"
    BY DEF RelUnlinkEff, Moves, Keeps
  <2> QED BY <2>1, OverlapsFrame DEF BaseInv
<1>6. Listed'
  BY DEF BaseInv, Listed, RelUnlinkEff, Moves, Keeps
<1> QED BY <1>1, <1>2, <1>3, <1>4, <1>5, <1>6 DEF BaseInv

LEMMA RelFreeBase ==
  ASSUME Inv, CtxInv, BaseInv, NEW t \in Thread, RelFreeEff(t)
  PROVE  BaseInv'
<1>1. Mmap'
  BY NullOut DEF BaseInv, Mmap, CtxInv, Ops, OpOK, RelFreeEff, Moves, Keeps
<1>2. Releases'
  <2>1. \A n \in Mem : mem[n].ref = 0 => mem'[n].ref = 0
    BY DEF RelFreeEff, Moves, Keeps, Only, SameCounts, SameId
  <2>2. \A u \in Thread : th'[u].pc \in LastPc => th[u].pc \in LastPc /\ th'[u].m = th[u].m
    BY DEF LastPc, RelFreeEff, Moves, Keeps
  <2> QED BY <2>1, <2>2, ReleasesFrame DEF BaseInv
<1>3. DeadRefs'
  <2>1. mem[th[t].m].ref = 0
    BY DEF BaseInv, Releases, LastPc, RelFreeEff, Moves
  <2>2. \A n \in Mem : mem'[n].ref = mem[n].ref /\ (n = th[t].m \/ mem'[n] = mem[n])
    BY DEF RelFreeEff, SameCounts, Only
  <2> QED BY <2>1, <2>2 DEF BaseInv, DeadRefs
<1>4. DmaPlaced'
  <2>1. \A n \in Mem : mem[n].dmas \subseteq mem'[n].dmas
    BY DEF RelFreeEff, Moves, Keeps, Only, SameCounts, SameId
  <2>2. \A u \in Thread : th[u].pc \in DmaPc => th'[u].pc \in DmaPc /\ th'[u].d = th[u].d
    BY DEF DmaPc, RelFreeEff, Moves, Keeps
  <2>3. \A e \in Dma : dma'[e].heap = "live" => dma[e].heap = "live" /\ dma'[e].mem = dma[e].mem
    BY DEF RelFreeEff
  <2> QED BY <2>1, <2>2, <2>3, PlacedFrame DEF BaseInv
<1>5. Overlaps'
  <2>1. \A u \in Thread : th'[u].op = th[u].op \/ th'[u].op = "none"
    BY DEF RelFreeEff, Moves, Keeps
  <2> QED BY <2>1, OverlapsFrame DEF BaseInv
<1>6. Listed'
  <2>1. /\ \A u \in Thread \ {t} : th'[u] = th[u]
        /\ memList' = memList /\ mem'[th[t].m].heap = "limbo"
        /\ \A n \in Mem \ {th[t].m} : mem'[n] = mem[n]
    BY DEF RelFreeEff, Moves, Keeps, Only
  <2> QED BY <2>1 DEF BaseInv, Listed
<1> QED BY <1>1, <1>2, <1>3, <1>4, <1>5, <1>6 DEF BaseInv

LEMMA RelCtxBase ==
  ASSUME Inv, CtxInv, BaseInv, NEW t \in Thread, RelCtxEff(t)
  PROVE  BaseInv'
<1>1. Mmap'
  BY NullOut DEF BaseInv, Mmap, CtxInv, Ops, OpOK, RelCtxEff, Keeps, RelRet
<1>2. Releases'
  <2>1. \A n \in Mem : mem[n].ref = 0 => mem'[n].ref = 0
    BY DEF RelCtxEff, Keeps, RelRet
  <2>2. \A u \in Thread : th'[u].pc \in LastPc => th[u].pc \in LastPc /\ th'[u].m = th[u].m
    BY DEF LastPc, RelCtxEff, Keeps, RelRet
  <2> QED BY <2>1, <2>2, ReleasesFrame DEF BaseInv
<1>3. DeadRefs'
  BY DEF BaseInv, DeadRefs, RelCtxEff, Keeps, RelRet
<1>4. DmaPlaced'
  <2>1. \A n \in Mem : mem[n].dmas \subseteq mem'[n].dmas
    BY DEF RelCtxEff, Keeps, RelRet
  <2>2. \A u \in Thread : th[u].pc \in DmaPc => th'[u].pc \in DmaPc /\ th'[u].d = th[u].d
    BY DEF DmaPc, RelCtxEff, Keeps, RelRet
  <2>3. \A e \in Dma : dma'[e].heap = "live" => dma[e].heap = "live" /\ dma'[e].mem = dma[e].mem
    BY DEF RelCtxEff
  <2> QED BY <2>1, <2>2, <2>3, PlacedFrame DEF BaseInv
<1>5. Overlaps'
  <2>1. \A u \in Thread : th'[u].op = th[u].op \/ th'[u].op = "none"
    BY DEF RelCtxEff, Keeps, RelRet
  <2> QED BY <2>1, OverlapsFrame DEF BaseInv
<1>6. Listed'
  BY DEF BaseInv, Listed, RelCtxEff, Keeps, RelRet
<1> QED BY <1>1, <1>2, <1>3, <1>4, <1>5, <1>6 DEF BaseInv

LEMMA UnmapStartBase ==
  ASSUME Inv, CtxInv, BaseInv, NEW t \in Thread, NEW a \in Addr, UnmapStartEff(t, a)
  PROVE  BaseInv'
<1>1. Mmap'
  BY NullOut DEF BaseInv, Mmap, CtxInv, Ops, OpOK, UnmapStartEff, Starts
<1>2. Releases'
  <2>1. \A n \in Mem : mem[n].ref = 0 => mem'[n].ref = 0
    BY DEF UnmapStartEff, Starts
  <2>2. \A u \in Thread : th'[u].pc \in LastPc => th[u].pc \in LastPc /\ th'[u].m = th[u].m
    BY DEF LastPc, UnmapStartEff, Starts
  <2> QED BY <2>1, <2>2, ReleasesFrame DEF BaseInv
<1>3. DeadRefs'
  BY DEF BaseInv, DeadRefs, UnmapStartEff, Starts
<1>4. DmaPlaced'
  <2>1. \A n \in Mem : mem[n].dmas \subseteq mem'[n].dmas
    BY DEF UnmapStartEff, Starts
  <2>2. \A u \in Thread : th[u].pc \in DmaPc => th'[u].pc \in DmaPc /\ th'[u].d = th[u].d
    BY DEF DmaPc, UnmapStartEff, Starts
  <2>3. \A e \in Dma : dma'[e].heap = "live" => dma[e].heap = "live" /\ dma'[e].mem = dma[e].mem
    BY DEF UnmapStartEff
  <2> QED BY <2>1, <2>2, <2>3, PlacedFrame DEF BaseInv
<1>5. Overlaps'
  BY OverlapsStart DEF BaseInv, UnmapStartEff
<1>6. Listed'
  BY DEF BaseInv, Listed, UnmapStartEff, Starts
<1> QED BY <1>1, <1>2, <1>3, <1>4, <1>5, <1>6 DEF BaseInv

LEMMA UnmapDoBase ==
  ASSUME Inv, CtxInv, BaseInv, NEW t \in Thread, UnmapDoEff(t)
  PROVE  BaseInv'
<1>1. Mmap'
  BY NullOut DEF BaseInv, Mmap, CtxInv, Ops, OpOK, UnmapDoEff, Moves, Keeps
<1>2. Releases'
  <2>1. \A n \in Mem : mem[n].ref = 0 => mem'[n].ref = 0
    BY MemTypes, CardType DEF UnmapDoEff, Moves, Keeps, Only, SameUse, SameId
  <2>2. \A u \in Thread : th'[u].pc \in LastPc => th[u].pc \in LastPc /\ th'[u].m = th[u].m
    BY DEF LastPc, UnmapDoEff, Moves, Keeps
  <2> QED BY <2>1, <2>2, ReleasesFrame DEF BaseInv
<1>3. DeadRefs'
  BY MemTypes, CardType DEF BaseInv, DeadRefs, UnmapDoEff, Moves, Keeps, Only, SameUse,
     SameId
<1>4. DmaPlaced'
  <2>1. \A u \in Thread : th[u].pc \in DmaPc => th'[u].pc \in DmaPc /\ th'[u].d = th[u].d
    BY DEF DmaPc, UnmapDoEff, Moves, Keeps
  <2>2. /\ \A n \in Mem \ {th[t].m} : mem'[n] = mem[n]
        /\ \A e \in Dma : /\ dma'[e].mem = dma[e].mem
                          /\ dma'[e].heap = "live" =>
                               dma[e].heap = "live" /\ e \notin mem[th[t].m].dmas
    BY DEF UnmapDoEff, Drops, Only
  <2>3. DmaPlaced
    BY DEF BaseInv
  <2> SUFFICES ASSUME NEW e \in Dma, dma'[e].heap = "live"
               PROVE  dma'[e].mem \in Mem /\ Placed(e)'
    BY DEF DmaPlaced
  <2>4. dma'[e].mem = dma[e].mem /\ e \notin mem[th[t].m].dmas
    BY <2>2
  <2>5. dma[e].mem \in Mem /\ Placed(e)
    BY <2>2, <2>3 DEF DmaPlaced
  <2> QED BY <2>1, <2>2, <2>4, <2>5 DEF Placed
<1>5. Overlaps'
  <2>1. \A u \in Thread : th'[u].op = th[u].op \/ th'[u].op = "none"
    BY DEF UnmapDoEff, Moves, Keeps
  <2> QED BY <2>1, OverlapsFrame DEF BaseInv
<1>6. Listed'
  BY DEF BaseInv, Listed, UnmapDoEff, Moves, Keeps, Only, SameUse, SameId
<1> QED BY <1>1, <1>2, <1>3, <1>4, <1>5, <1>6 DEF BaseInv

LEMMA UnmapReturnBase ==
  ASSUME Inv, CtxInv, BaseInv, NEW t \in Thread, UnmapReturnEff(t)
  PROVE  BaseInv'
<1>1. Mmap'
  BY NullOut DEF BaseInv, Mmap, CtxInv, Ops, OpOK, UnmapReturnEff, Ends
<1>2. Releases'
  <2>1. \A n \in Mem : mem[n].ref = 0 => mem'[n].ref = 0
    BY DEF UnmapReturnEff, Ends
  <2>2. \A u \in Thread : th'[u].pc \in LastPc => th[u].pc \in LastPc /\ th'[u].m = th[u].m
    BY DEF LastPc, UnmapReturnEff, Ends
  <2> QED BY <2>1, <2>2, ReleasesFrame DEF BaseInv
<1>3. DeadRefs'
  BY DEF BaseInv, DeadRefs, UnmapReturnEff, Ends
<1>4. DmaPlaced'
  <2>1. \A n \in Mem : mem[n].dmas \subseteq mem'[n].dmas
    BY DEF UnmapReturnEff, Ends
  <2>2. \A u \in Thread : th[u].pc \in DmaPc => th'[u].pc \in DmaPc /\ th'[u].d = th[u].d
    BY DEF DmaPc, UnmapReturnEff, Ends
  <2>3. \A e \in Dma : dma'[e].heap = "live" => dma[e].heap = "live" /\ dma'[e].mem = dma[e].mem
    BY DEF UnmapReturnEff
  <2> QED BY <2>1, <2>2, <2>3, PlacedFrame DEF BaseInv
<1>5. Overlaps'
  <2>1. \A u \in Thread : th'[u].op = th[u].op \/ th'[u].op = "none"
    BY DEF UnmapReturnEff, Ends
  <2> QED BY <2>1, OverlapsFrame DEF BaseInv
<1>6. Listed'
  BY DEF BaseInv, Listed, UnmapReturnEff, Ends
<1> QED BY <1>1, <1>2, <1>3, <1>4, <1>5, <1>6 DEF BaseInv

LEMMA SplitVmaBase ==
  ASSUME Inv, CtxInv, BaseInv, NEW a \in Addr, NEW b \in Addr, SplitVmaEff(a, b)
  PROVE  BaseInv'
<1>1. Mmap'
  BY NullOut DEF BaseInv, Mmap, CtxInv, Ops, OpOK, SplitVmaEff
<1>2. Releases'
  <2>1. \A n \in Mem : mem[n].ref = 0 => mem'[n].ref = 0
    BY DEF SplitVmaEff
  <2>2. \A u \in Thread : th'[u].pc \in LastPc => th[u].pc \in LastPc /\ th'[u].m = th[u].m
    BY DEF LastPc, SplitVmaEff
  <2> QED BY <2>1, <2>2, ReleasesFrame DEF BaseInv
<1>3. DeadRefs'
  BY DEF BaseInv, DeadRefs, SplitVmaEff
<1>4. DmaPlaced'
  <2>1. \A n \in Mem : mem[n].dmas \subseteq mem'[n].dmas
    BY DEF SplitVmaEff
  <2>2. \A u \in Thread : th[u].pc \in DmaPc => th'[u].pc \in DmaPc /\ th'[u].d = th[u].d
    BY DEF DmaPc, SplitVmaEff
  <2>3. \A e \in Dma : dma'[e].heap = "live" => dma[e].heap = "live" /\ dma'[e].mem = dma[e].mem
    BY DEF SplitVmaEff
  <2> QED BY <2>1, <2>2, <2>3, PlacedFrame DEF BaseInv
<1>5. Overlaps'
  <2>1. \A u \in Thread : th'[u].op = th[u].op \/ th'[u].op = "none"
    BY DEF SplitVmaEff
  <2> QED BY <2>1, OverlapsFrame DEF BaseInv
<1>6. Listed'
  BY DEF BaseInv, Listed, SplitVmaEff
<1> QED BY <1>1, <1>2, <1>3, <1>4, <1>5, <1>6 DEF BaseInv

LEMMA CloseStartBase ==
  ASSUME Inv, CtxInv, BaseInv, NEW t \in Thread, NEW f \in File, CloseStartEff(t, f)
  PROVE  BaseInv'
<1>1. Mmap'
  BY NullOut DEF BaseInv, Mmap, CtxInv, Ops, OpOK, CloseStartEff, Starts
<1>2. Releases'
  <2>1. \A n \in Mem : mem[n].ref = 0 => mem'[n].ref = 0
    BY DEF CloseStartEff, Starts
  <2>2. \A u \in Thread : th'[u].pc \in LastPc => th[u].pc \in LastPc /\ th'[u].m = th[u].m
    BY DEF LastPc, CloseStartEff, Starts
  <2> QED BY <2>1, <2>2, ReleasesFrame DEF BaseInv
<1>3. DeadRefs'
  BY DEF BaseInv, DeadRefs, CloseStartEff, Starts
<1>4. DmaPlaced'
  <2>1. \A n \in Mem : mem[n].dmas \subseteq mem'[n].dmas
    BY DEF CloseStartEff, Starts
  <2>2. \A u \in Thread : th[u].pc \in DmaPc => th'[u].pc \in DmaPc /\ th'[u].d = th[u].d
    BY DEF DmaPc, CloseStartEff, Starts
  <2>3. \A e \in Dma : dma'[e].heap = "live" => dma[e].heap = "live" /\ dma'[e].mem = dma[e].mem
    BY DEF CloseStartEff
  <2> QED BY <2>1, <2>2, <2>3, PlacedFrame DEF BaseInv
<1>5. Overlaps'
  BY OverlapsStart DEF BaseInv, CloseStartEff
<1>6. Listed'
  BY DEF BaseInv, Listed, CloseStartEff, Starts
<1> QED BY <1>1, <1>2, <1>3, <1>4, <1>5, <1>6 DEF BaseInv

LEMMA CloseDoBase ==
  ASSUME Inv, CtxInv, BaseInv, NEW t \in Thread, CloseDoEff(t)
  PROVE  BaseInv'
<1>1. Mmap'
  BY NullOut DEF BaseInv, Mmap, CtxInv, Ops, OpOK, CloseDoEff, Moves, Keeps
<1>2. Releases'
  <2>1. \A n \in Mem : mem[n].ref = 0 => mem'[n].ref = 0
    BY DEF CloseDoEff, Moves, Keeps, SameCounts, SameId
  <2>2. \A u \in Thread : th'[u].pc \in LastPc => th[u].pc \in LastPc /\ th'[u].m = th[u].m
    BY DEF LastPc, CloseDoEff, Moves, Keeps
  <2> QED BY <2>1, <2>2, ReleasesFrame DEF BaseInv
<1>3. DeadRefs'
  BY DEF BaseInv, DeadRefs, CloseDoEff, Moves, Keeps, SameCounts, SameId
<1>4. DmaPlaced'
  <2>1. \A n \in Mem : mem[n].dmas \subseteq mem'[n].dmas
    BY DEF CloseDoEff, Moves, Keeps, SameCounts, SameId
  <2>2. \A u \in Thread : th[u].pc \in DmaPc => th'[u].pc \in DmaPc /\ th'[u].d = th[u].d
    BY DEF DmaPc, CloseDoEff, Moves, Keeps
  <2>3. \A e \in Dma : dma'[e].heap = "live" => dma[e].heap = "live" /\ dma'[e].mem = dma[e].mem
    BY DEF CloseDoEff
  <2> QED BY <2>1, <2>2, <2>3, PlacedFrame DEF BaseInv
<1>5. Overlaps'
  <2>1. \A u \in Thread : th'[u].op = th[u].op \/ th'[u].op = "none"
    BY DEF CloseDoEff, Moves, Keeps
  <2> QED BY <2>1, OverlapsFrame DEF BaseInv
<1>6. Listed'
  BY DEF BaseInv, Listed, CloseDoEff, Moves, Keeps, SameCounts, SameId
<1> QED BY <1>1, <1>2, <1>3, <1>4, <1>5, <1>6 DEF BaseInv

LEMMA CloseReturnBase ==
  ASSUME Inv, CtxInv, BaseInv, NEW t \in Thread, CloseReturnEff(t)
  PROVE  BaseInv'
<1>1. Mmap'
  BY NullOut DEF BaseInv, Mmap, CtxInv, Ops, OpOK, CloseReturnEff, Ends
<1>2. Releases'
  <2>1. \A n \in Mem : mem[n].ref = 0 => mem'[n].ref = 0
    BY DEF CloseReturnEff, Ends
  <2>2. \A u \in Thread : th'[u].pc \in LastPc => th[u].pc \in LastPc /\ th'[u].m = th[u].m
    BY DEF LastPc, CloseReturnEff, Ends
  <2> QED BY <2>1, <2>2, ReleasesFrame DEF BaseInv
<1>3. DeadRefs'
  BY DEF BaseInv, DeadRefs, CloseReturnEff, Ends
<1>4. DmaPlaced'
  <2>1. \A n \in Mem : mem[n].dmas \subseteq mem'[n].dmas
    BY DEF CloseReturnEff, Ends
  <2>2. \A u \in Thread : th[u].pc \in DmaPc => th'[u].pc \in DmaPc /\ th'[u].d = th[u].d
    BY DEF DmaPc, CloseReturnEff, Ends
  <2>3. \A e \in Dma : dma'[e].heap = "live" => dma[e].heap = "live" /\ dma'[e].mem = dma[e].mem
    BY DEF CloseReturnEff
  <2> QED BY <2>1, <2>2, <2>3, PlacedFrame DEF BaseInv
<1>5. Overlaps'
  <2>1. \A u \in Thread : th'[u].op = th[u].op \/ th'[u].op = "none"
    BY DEF CloseReturnEff, Ends
  <2> QED BY <2>1, OverlapsFrame DEF BaseInv
<1>6. Listed'
  BY DEF BaseInv, Listed, CloseReturnEff, Ends
<1> QED BY <1>1, <1>2, <1>3, <1>4, <1>5, <1>6 DEF BaseInv

LEMMA MapStartBase ==
  ASSUME Inv, CtxInv, BaseInv, NEW t \in Thread, NEW f \in File, NEW a, MayMap(a), MapStartEff(t, f, a)
  PROVE  BaseInv'
<1>1. Mmap'
  BY NullOut DEF BaseInv, Mmap, CtxInv, Ops, OpOK, MapStartEff, Starts
<1>2. Releases'
  <2>1. \A n \in Mem : mem[n].ref = 0 => mem'[n].ref = 0
    BY DEF MapStartEff, Starts
  <2>2. \A u \in Thread : th'[u].pc \in LastPc => th[u].pc \in LastPc /\ th'[u].m = th[u].m
    BY DEF LastPc, MapStartEff, Starts
  <2> QED BY <2>1, <2>2, ReleasesFrame DEF BaseInv
<1>3. DeadRefs'
  BY DEF BaseInv, DeadRefs, MapStartEff, Starts
<1>4. DmaPlaced'
  <2>1. \A n \in Mem : mem[n].dmas \subseteq mem'[n].dmas
    BY DEF MapStartEff, Starts
  <2>2. \A u \in Thread : th[u].pc \in DmaPc => th'[u].pc \in DmaPc /\ th'[u].d = th[u].d
    BY DEF DmaPc, MapStartEff, Starts
  <2>3. \A e \in Dma : dma'[e].heap = "live" => dma[e].heap = "live" /\ dma'[e].mem = dma[e].mem
    BY DEF MapStartEff
  <2> QED BY <2>1, <2>2, <2>3, PlacedFrame DEF BaseInv
<1>5. Overlaps'
  BY OverlapsStart DEF BaseInv, MapStartEff
<1>6. Listed'
  BY DEF BaseInv, Listed, MapStartEff, Starts
<1> QED BY <1>1, <1>2, <1>3, <1>4, <1>5, <1>6 DEF BaseInv

LEMMA MapLockBase ==
  ASSUME Inv, CtxInv, BaseInv, NEW t \in Thread, MapLockEff(t)
  PROVE  BaseInv'
<1>1. Mmap'
  BY NullOut DEF BaseInv, Mmap, CtxInv, Ops, OpOK, MapLockEff, Looks
<1>2. Releases'
  <2>1. \A n \in Mem : mem[n].ref = 0 => mem'[n].ref = 0
    BY DEF MapLockEff, Looks
  <2>2. \A u \in Thread : th'[u].pc \in LastPc => th[u].pc \in LastPc /\ th'[u].m = th[u].m
    BY DEF LastPc, MapLockEff, Looks
  <2> QED BY <2>1, <2>2, ReleasesFrame DEF BaseInv
<1>3. DeadRefs'
  BY DEF BaseInv, DeadRefs, MapLockEff, Looks
<1>4. DmaPlaced'
  <2>1. \A n \in Mem : mem[n].dmas \subseteq mem'[n].dmas
    BY DEF MapLockEff, Looks
  <2>2. \A u \in Thread : th[u].pc \in DmaPc => th'[u].pc \in DmaPc /\ th'[u].d = th[u].d
    BY DEF DmaPc, MapLockEff, Looks
  <2>3. \A e \in Dma : dma'[e].heap = "live" => dma[e].heap = "live" /\ dma'[e].mem = dma[e].mem
    BY DEF MapLockEff
  <2> QED BY <2>1, <2>2, <2>3, PlacedFrame DEF BaseInv
<1>5. Overlaps'
  <2>1. \A u \in Thread : th'[u].op = th[u].op \/ th'[u].op = "none"
    BY DEF MapLockEff, Looks
  <2> QED BY <2>1, OverlapsFrame DEF BaseInv
<1>6. Listed'
  BY DEF BaseInv, Listed, MapLockEff, Looks
<1> QED BY <1>1, <1>2, <1>3, <1>4, <1>5, <1>6 DEF BaseInv

LEMMA WalkMatchBase ==
  ASSUME Inv, CtxInv, BaseInv, NEW t \in Thread, WalkMatchEff(t)
  PROVE  BaseInv'
<1>1. Mmap'
  BY NullOut DEF BaseInv, Mmap, CtxInv, Ops, OpOK, WalkMatchEff
<1>2. Releases'
  <2>1. \A n \in Mem : mem[n].ref = 0 => mem'[n].ref = 0
    BY DEF WalkMatchEff, RefTo, Only, SameUse, SameId
  <2>2. \A u \in Thread : th'[u].pc \in LastPc => th[u].pc \in LastPc /\ th'[u].m = th[u].m
    BY DEF LastPc, WalkMatchEff
  <2> QED BY <2>1, <2>2, ReleasesFrame DEF BaseInv
<1>3. DeadRefs'
  BY DEF BaseInv, DeadRefs, WalkMatchEff, RefTo, Only, SameUse, SameId
<1>4. DmaPlaced'
  <2>1. \A n \in Mem : mem[n].dmas \subseteq mem'[n].dmas
    BY DEF WalkMatchEff, RefTo, Only, SameUse, SameId
  <2>2. \A u \in Thread : th[u].pc \in DmaPc => th'[u].pc \in DmaPc /\ th'[u].d = th[u].d
    BY DEF DmaPc, WalkMatchEff
  <2>3. \A e \in Dma : dma'[e].heap = "live" => dma[e].heap = "live" /\ dma'[e].mem = dma[e].mem
    BY DEF WalkMatchEff
  <2> QED BY <2>1, <2>2, <2>3, PlacedFrame DEF BaseInv
<1>5. Overlaps'
  <2>1. \A u \in Thread : th'[u].op = th[u].op \/ th'[u].op = "none"
    BY DEF WalkMatchEff
  <2> QED BY <2>1, OverlapsFrame DEF BaseInv
<1>6. Listed'
  <2>1. \A n \in Mem : mem'[n].heap = "live" => mem[n].heap = "live"
    BY DEF WalkMatchEff, RefTo, Only, SameUse, SameId
  <2>2. \A u \in Thread : th[u].pc \in {"reg_insert", "rel_free"} => th'[u].pc = th[u].pc /\ th'[u].m = th[u].m
    BY DEF WalkMatchEff
  <2> QED BY <2>1, <2>2, ListedFrame DEF BaseInv, WalkMatchEff
<1> QED BY <1>1, <1>2, <1>3, <1>4, <1>5, <1>6 DEF BaseInv

LEMMA WalkSkipBase ==
  ASSUME Inv, CtxInv, BaseInv, NEW t \in Thread, WalkSkipEff(t)
  PROVE  BaseInv'
<1>1. Mmap'
  BY NullOut DEF BaseInv, Mmap, CtxInv, Ops, OpOK, WalkSkipEff, Moves, Keeps
<1>2. Releases'
  <2>1. \A n \in Mem : mem[n].ref = 0 => mem'[n].ref = 0
    BY DEF WalkSkipEff, Moves, Keeps, RefTo, Only, SameUse, SameId
  <2>2. \A u \in Thread : th'[u].pc \in LastPc => th[u].pc \in LastPc /\ th'[u].m = th[u].m
    BY DEF LastPc, WalkSkipEff, Moves, Keeps
  <2> QED BY <2>1, <2>2, ReleasesFrame DEF BaseInv
<1>3. DeadRefs'
  BY DEF BaseInv, DeadRefs, WalkSkipEff, Moves, Keeps, RefTo, Only, SameUse, SameId
<1>4. DmaPlaced'
  <2>1. \A n \in Mem : mem[n].dmas \subseteq mem'[n].dmas
    BY DEF WalkSkipEff, Moves, Keeps, RefTo, Only, SameUse, SameId
  <2>2. \A u \in Thread : th[u].pc \in DmaPc => th'[u].pc \in DmaPc /\ th'[u].d = th[u].d
    BY DEF DmaPc, WalkSkipEff, Moves, Keeps
  <2>3. \A e \in Dma : dma'[e].heap = "live" => dma[e].heap = "live" /\ dma'[e].mem = dma[e].mem
    BY DEF WalkSkipEff
  <2> QED BY <2>1, <2>2, <2>3, PlacedFrame DEF BaseInv
<1>5. Overlaps'
  <2>1. \A u \in Thread : th'[u].op = th[u].op \/ th'[u].op = "none"
    BY DEF WalkSkipEff, Moves, Keeps
  <2> QED BY <2>1, OverlapsFrame DEF BaseInv
<1>6. Listed'
  <2>1. \A n \in Mem : mem'[n].heap = "live" => mem[n].heap = "live"
    BY DEF WalkSkipEff, Moves, Keeps, RefTo, Only, SameUse, SameId
  <2>2. \A u \in Thread : th[u].pc \in {"reg_insert", "rel_free"} => th'[u].pc = th[u].pc /\ th'[u].m = th[u].m
    BY DEF WalkSkipEff, Moves, Keeps
  <2> QED BY <2>1, <2>2, ListedFrame DEF BaseInv, WalkSkipEff
<1> QED BY <1>1, <1>2, <1>3, <1>4, <1>5, <1>6 DEF BaseInv

LEMMA WalkPutBase ==
  ASSUME Inv, CtxInv, BaseInv, NEW t \in Thread, WalkPutEff(t)
  PROVE  BaseInv'
<1>1. Mmap'
  BY NullOut DEF BaseInv, Mmap, CtxInv, Ops, OpOK, WalkPutEff, Looks
<1>2. Releases'
  <2>1. \A n \in Mem : mem[n].ref = 0 => mem'[n].ref = 0
    BY DEF WalkPutEff, Looks, RefTo, Only, SameUse, SameId
  <2>2. \A u \in Thread : th'[u].pc \in LastPc => th[u].pc \in LastPc /\ th'[u].m = th[u].m
    BY DEF LastPc, WalkPutEff, Looks
  <2> QED BY <2>1, <2>2, ReleasesFrame DEF BaseInv
<1>3. DeadRefs'
  BY DEF BaseInv, DeadRefs, WalkPutEff, Looks, RefTo, Only, SameUse, SameId
<1>4. DmaPlaced'
  <2>1. \A n \in Mem : mem[n].dmas \subseteq mem'[n].dmas
    BY DEF WalkPutEff, Looks, RefTo, Only, SameUse, SameId
  <2>2. \A u \in Thread : th[u].pc \in DmaPc => th'[u].pc \in DmaPc /\ th'[u].d = th[u].d
    BY DEF DmaPc, WalkPutEff, Looks
  <2>3. \A e \in Dma : dma'[e].heap = "live" => dma[e].heap = "live" /\ dma'[e].mem = dma[e].mem
    BY DEF WalkPutEff
  <2> QED BY <2>1, <2>2, <2>3, PlacedFrame DEF BaseInv
<1>5. Overlaps'
  <2>1. \A u \in Thread : th'[u].op = th[u].op \/ th'[u].op = "none"
    BY DEF WalkPutEff, Looks
  <2> QED BY <2>1, OverlapsFrame DEF BaseInv
<1>6. Listed'
  <2>1. \A n \in Mem : mem'[n].heap = "live" => mem[n].heap = "live"
    BY DEF WalkPutEff, Looks, RefTo, Only, SameUse, SameId
  <2>2. \A u \in Thread : th[u].pc \in {"reg_insert", "rel_free"} => th'[u].pc = th[u].pc /\ th'[u].m = th[u].m
    BY DEF WalkPutEff, Looks
  <2> QED BY <2>1, <2>2, ListedFrame DEF BaseInv, WalkPutEff
<1> QED BY <1>1, <1>2, <1>3, <1>4, <1>5, <1>6 DEF BaseInv

LEMMA WalkEndBase ==
  ASSUME Inv, CtxInv, BaseInv, NEW t \in Thread, WalkEndEff(t)
  PROVE  BaseInv'
<1>1. Mmap'
  BY NullOut DEF BaseInv, Mmap, CtxInv, Ops, OpOK, WalkEndEff, Moves, Keeps
<1>2. Releases'
  <2>1. \A n \in Mem : mem[n].ref = 0 => mem'[n].ref = 0
    BY DEF WalkEndEff, Moves, Keeps
  <2>2. \A u \in Thread : th'[u].pc \in LastPc => th[u].pc \in LastPc /\ th'[u].m = th[u].m
    BY DEF LastPc, WalkEndEff, Moves, Keeps
  <2> QED BY <2>1, <2>2, ReleasesFrame DEF BaseInv
<1>3. DeadRefs'
  BY DEF BaseInv, DeadRefs, WalkEndEff, Moves, Keeps
<1>4. DmaPlaced'
  <2>1. \A n \in Mem : mem[n].dmas \subseteq mem'[n].dmas
    BY DEF WalkEndEff, Moves, Keeps
  <2>2. \A u \in Thread : th[u].pc \in DmaPc => th'[u].pc \in DmaPc /\ th'[u].d = th[u].d
    BY DEF DmaPc, WalkEndEff, Moves, Keeps
  <2>3. \A e \in Dma : dma'[e].heap = "live" => dma[e].heap = "live" /\ dma'[e].mem = dma[e].mem
    BY DEF WalkEndEff
  <2> QED BY <2>1, <2>2, <2>3, PlacedFrame DEF BaseInv
<1>5. Overlaps'
  <2>1. \A u \in Thread : th'[u].op = th[u].op \/ th'[u].op = "none"
    BY DEF WalkEndEff, Moves, Keeps
  <2> QED BY <2>1, OverlapsFrame DEF BaseInv
<1>6. Listed'
  BY DEF BaseInv, Listed, WalkEndEff, Moves, Keeps
<1> QED BY <1>1, <1>2, <1>3, <1>4, <1>5, <1>6 DEF BaseInv

LEMMA MapAllocBase ==
  ASSUME Inv, CtxInv, BaseInv, NEW t \in Thread, NEW d \in Dma, MapAllocEff(t, d)
  PROVE  BaseInv'
<1>1. Mmap'
  BY NullOut DEF BaseInv, Mmap, CtxInv, Ops, OpOK, MapAllocEff
<1>2. Releases'
  <2>1. \A n \in Mem : mem[n].ref = 0 => mem'[n].ref = 0
    BY DEF MapAllocEff
  <2>2. \A u \in Thread : th'[u].pc \in LastPc => th[u].pc \in LastPc /\ th'[u].m = th[u].m
    BY DEF LastPc, MapAllocEff
  <2> QED BY <2>1, <2>2, ReleasesFrame DEF BaseInv
<1>3. DeadRefs'
  BY DEF BaseInv, DeadRefs, MapAllocEff
<1>4. DmaPlaced'
  <2>1. /\ \A u \in Thread \ {t} : th'[u] = th[u]
        /\ th[t].pc = "map_alloc" /\ th'[t].pc = "map_dma" /\ th'[t].d = d
        /\ dma'[d].mem \in Mem /\ \A e \in Dma \ {d} : dma'[e] = dma[e]
        /\ mem' = mem
    BY DEF MapAllocEff
  <2>2. DmaPlaced
    BY DEF BaseInv
  <2> SUFFICES ASSUME NEW e \in Dma, dma'[e].heap = "live"
               PROVE  dma'[e].mem \in Mem /\ Placed(e)'
    BY DEF DmaPlaced
  <2>3. CASE e = d
    BY <2>1, <2>3 DEF Placed, DmaPc
  <2>4. CASE e # d
    <3>1. dma'[e] = dma[e] /\ dma[e].mem \in Mem /\ Placed(e)
      BY <2>1, <2>2, <2>4 DEF DmaPlaced
    <3>2. \A u \in Thread : th[u].pc \in DmaPc => th'[u] = th[u]
      BY <2>1 DEF DmaPc
    <3> QED BY <2>1, <3>1, <3>2 DEF Placed
  <2> QED BY <2>3, <2>4
<1>5. Overlaps'
  <2>1. \A u \in Thread : th'[u].op = th[u].op \/ th'[u].op = "none"
    BY DEF MapAllocEff
  <2> QED BY <2>1, OverlapsFrame DEF BaseInv
<1>6. Listed'
  BY DEF BaseInv, Listed, MapAllocEff
<1> QED BY <1>1, <1>2, <1>3, <1>4, <1>5, <1>6 DEF BaseInv

LEMMA MapDmaBase ==
  ASSUME Inv, CtxInv, BaseInv, NEW t \in Thread, MapDmaEff(t)
  PROVE  BaseInv'
<1>1. Mmap'
  BY NullOut DEF BaseInv, Mmap, CtxInv, Ops, OpOK, MapDmaEff, Moves, Keeps
<1>2. Releases'
  <2>1. \A n \in Mem : mem[n].ref = 0 => mem'[n].ref = 0
    BY DEF MapDmaEff, Moves, Keeps
  <2>2. \A u \in Thread : th'[u].pc \in LastPc => th[u].pc \in LastPc /\ th'[u].m = th[u].m
    BY DEF LastPc, MapDmaEff, Moves, Keeps
  <2> QED BY <2>1, <2>2, ReleasesFrame DEF BaseInv
<1>3. DeadRefs'
  BY DEF BaseInv, DeadRefs, MapDmaEff, Moves, Keeps
<1>4. DmaPlaced'
  <2>1. \A n \in Mem : mem[n].dmas \subseteq mem'[n].dmas
    BY DEF MapDmaEff, Moves, Keeps
  <2>2. \A u \in Thread : th[u].pc \in DmaPc => th'[u].pc \in DmaPc /\ th'[u].d = th[u].d
    BY DEF DmaPc, MapDmaEff, Moves, Keeps
  <2>3. \A e \in Dma : dma'[e].heap = "live" => dma[e].heap = "live" /\ dma'[e].mem = dma[e].mem
    BY DEF MapDmaEff
  <2> QED BY <2>1, <2>2, <2>3, PlacedFrame DEF BaseInv
<1>5. Overlaps'
  <2>1. \A u \in Thread : th'[u].op = th[u].op \/ th'[u].op = "none"
    BY DEF MapDmaEff, Moves, Keeps
  <2> QED BY <2>1, OverlapsFrame DEF BaseInv
<1>6. Listed'
  BY DEF BaseInv, Listed, MapDmaEff, Moves, Keeps
<1> QED BY <1>1, <1>2, <1>3, <1>4, <1>5, <1>6 DEF BaseInv

LEMMA MapFailsBase ==
  ASSUME Inv, CtxInv, BaseInv, NEW t \in Thread, MapFailsEff(t)
  PROVE  BaseInv'
<1>1. Mmap'
  BY NullOut DEF BaseInv, Mmap, CtxInv, Ops, OpOK, MapFailsEff, Moves, Keeps, DmaPc
<1>2. Releases'
  <2>1. \A n \in Mem : mem[n].ref = 0 => mem'[n].ref = 0
    BY DEF MapFailsEff, Moves, Keeps, DmaPc
  <2>2. \A u \in Thread : th'[u].pc \in LastPc => th[u].pc \in LastPc /\ th'[u].m = th[u].m
    BY DEF LastPc, MapFailsEff, Moves, Keeps, DmaPc
  <2> QED BY <2>1, <2>2, ReleasesFrame DEF BaseInv
<1>3. DeadRefs'
  BY DEF BaseInv, DeadRefs, MapFailsEff, Moves, Keeps, DmaPc
<1>4. DmaPlaced'
  <2>1. /\ \A u \in Thread \ {t} : th'[u] = th[u]
        /\ \A e \in Dma \ {th[t].d} : dma'[e] = dma[e]
        /\ mem' = mem /\ dma'[th[t].d].heap = "freed"
    BY DEF MapFailsEff, Moves, Keeps
  <2> QED BY <2>1 DEF BaseInv, DmaPlaced, Placed, DmaPc
<1>5. Overlaps'
  <2>1. \A u \in Thread : th'[u].op = th[u].op \/ th'[u].op = "none"
    BY DEF MapFailsEff, Moves, Keeps, DmaPc
  <2> QED BY <2>1, OverlapsFrame DEF BaseInv
<1>6. Listed'
  BY DEF BaseInv, Listed, MapFailsEff, Moves, Keeps, DmaPc
<1> QED BY <1>1, <1>2, <1>3, <1>4, <1>5, <1>6 DEF BaseInv

LEMMA MapLinkBase ==
  ASSUME Inv, CtxInv, BaseInv, NEW t \in Thread, MapLinkEff(t)
  PROVE  BaseInv'
<1>1. Mmap'
  BY NullOut DEF BaseInv, Mmap, CtxInv, Ops, OpOK, MapLinkEff
<1>2. Releases'
  <2>1. \A n \in Mem : mem[n].ref = 0 => mem'[n].ref = 0
    BY DEF MapLinkEff, Only, SameUse, SameId
  <2>2. \A u \in Thread : th'[u].pc \in LastPc => th[u].pc \in LastPc /\ th'[u].m = th[u].m
    BY DEF LastPc, MapLinkEff
  <2> QED BY <2>1, <2>2, ReleasesFrame DEF BaseInv
<1>3. DeadRefs'
  BY DEF BaseInv, DeadRefs, MapLinkEff, Only, SameUse, SameId
<1>4. DmaPlaced'
  <2>1. /\ \A u \in Thread \ {t} : th'[u] = th[u]
        /\ th[t].pc = "map_link" /\ dma' = dma /\ th[t].m \in Mem
        /\ \A n \in Mem \ {th[t].m} : mem'[n] = mem[n]
        /\ mem'[th[t].m].dmas = mem[th[t].m].dmas \cup {th[t].d}
    BY DEF MapLinkEff, Only
  <2>2. dma[th[t].d].mem = th[t].m
    BY <2>1 DEF Inv, DmaInv, InFlight, DmaPc
  <2> QED BY <2>1, <2>2 DEF BaseInv, DmaPlaced, Placed, DmaPc
<1>5. Overlaps'
  <2>1. \A u \in Thread : th'[u].op = th[u].op \/ th'[u].op = "none"
    BY DEF MapLinkEff
  <2> QED BY <2>1, OverlapsFrame DEF BaseInv
<1>6. Listed'
  <2>1. \A n \in Mem : mem'[n].heap = "live" => mem[n].heap = "live"
    BY DEF MapLinkEff, Only, SameUse, SameId
  <2>2. \A u \in Thread : th[u].pc \in {"reg_insert", "rel_free"} => th'[u].pc = th[u].pc /\ th'[u].m = th[u].m
    BY DEF MapLinkEff
  <2> QED BY <2>1, <2>2, ListedFrame DEF BaseInv, MapLinkEff
<1> QED BY <1>1, <1>2, <1>3, <1>4, <1>5, <1>6 DEF BaseInv

LEMMA MapReturnBase ==
  ASSUME Inv, CtxInv, BaseInv, NEW t \in Thread, MapReturnEff(t)
  PROVE  BaseInv'
<1>1. Mmap'
  BY NullOut DEF BaseInv, Mmap, CtxInv, Ops, OpOK, MapReturnEff, Ends
<1>2. Releases'
  <2>1. \A n \in Mem : mem[n].ref = 0 => mem'[n].ref = 0
    BY DEF MapReturnEff, Ends
  <2>2. \A u \in Thread : th'[u].pc \in LastPc => th[u].pc \in LastPc /\ th'[u].m = th[u].m
    BY DEF LastPc, MapReturnEff, Ends
  <2> QED BY <2>1, <2>2, ReleasesFrame DEF BaseInv
<1>3. DeadRefs'
  BY DEF BaseInv, DeadRefs, MapReturnEff, Ends
<1>4. DmaPlaced'
  <2>1. \A n \in Mem : mem[n].dmas \subseteq mem'[n].dmas
    BY DEF MapReturnEff, Ends
  <2>2. \A u \in Thread : th[u].pc \in DmaPc => th'[u].pc \in DmaPc /\ th'[u].d = th[u].d
    BY DEF DmaPc, MapReturnEff, Ends
  <2>3. \A e \in Dma : dma'[e].heap = "live" => dma[e].heap = "live" /\ dma'[e].mem = dma[e].mem
    BY DEF MapReturnEff
  <2> QED BY <2>1, <2>2, <2>3, PlacedFrame DEF BaseInv
<1>5. Overlaps'
  <2>1. \A u \in Thread : th'[u].op = th[u].op \/ th'[u].op = "none"
    BY DEF MapReturnEff, Ends
  <2> QED BY <2>1, OverlapsFrame DEF BaseInv
<1>6. Listed'
  BY DEF BaseInv, Listed, MapReturnEff, Ends
<1> QED BY <1>1, <1>2, <1>3, <1>4, <1>5, <1>6 DEF BaseInv

LEMMA MapUndoBase ==
  ASSUME Inv, CtxInv, BaseInv, NEW t \in Thread, NEW d, NEW m, MapUndoEff(t, d, m)
  PROVE  BaseInv'
<1>1. Mmap'
  BY NullOut DEF BaseInv, Mmap, CtxInv, Ops, OpOK, MapUndoEff
<1>2. Releases'
  <2>1. \A n \in Mem : mem[n].ref = 0 => mem'[n].ref = 0
    BY DEF MapUndoEff, Only, SameUse, SameId
  <2>2. \A u \in Thread : th'[u].pc \in LastPc => th[u].pc \in LastPc /\ th'[u].m = th[u].m
    BY DEF LastPc, MapUndoEff
  <2> QED BY <2>1, <2>2, ReleasesFrame DEF BaseInv
<1>3. DeadRefs'
  BY DEF BaseInv, DeadRefs, MapUndoEff, Only, SameUse, SameId
<1>4. DmaPlaced'
  <2>1. \A u \in Thread : th[u].pc \in DmaPc => th'[u].pc \in DmaPc /\ th'[u].d = th[u].d
    BY DEF DmaPc, MapUndoEff
  <2>2. /\ \A n \in Mem \ {m} : mem'[n] = mem[n]
        /\ mem'[m].dmas = mem[m].dmas \ {d}
        /\ \A e \in Dma : /\ dma'[e].mem = dma[e].mem
                          /\ dma'[e].heap = "live" => dma[e].heap = "live" /\ e # d
    BY DEF MapUndoEff, Drops, Only
  <2> QED BY <2>1, <2>2 DEF BaseInv, DmaPlaced, Placed
<1>5. Overlaps'
  <2>1. \A u \in Thread : th'[u].op = th[u].op \/ th'[u].op = "none"
    BY DEF MapUndoEff
  <2> QED BY <2>1, OverlapsFrame DEF BaseInv
<1>6. Listed'
  <2>1. \A n \in Mem : mem'[n].heap = "live" => mem[n].heap = "live"
    BY DEF MapUndoEff, Only, SameUse, SameId
  <2>2. \A u \in Thread : th[u].pc \in {"reg_insert", "rel_free"} => th'[u].pc = th[u].pc /\ th'[u].m = th[u].m
    BY DEF MapUndoEff
  <2> QED BY <2>1, <2>2, ListedFrame DEF BaseInv, MapUndoEff
<1> QED BY <1>1, <1>2, <1>3, <1>4, <1>5, <1>6 DEF BaseInv

LEMMA CbBeginBase ==
  ASSUME Inv, CtxInv, BaseInv, NEW m \in Mem, CbBeginEff(m)
  PROVE  BaseInv'
<1>1. Mmap'
  BY NullOut DEF BaseInv, Mmap, CtxInv, Ops, OpOK, CbBeginEff
<1>2. Releases'
  <2>1. \A n \in Mem : mem[n].ref = 0 => mem'[n].ref = 0
    BY DEF CbBeginEff
  <2>2. \A u \in Thread : th'[u].pc \in LastPc => th[u].pc \in LastPc /\ th'[u].m = th[u].m
    BY DEF LastPc, CbBeginEff
  <2> QED BY <2>1, <2>2, ReleasesFrame DEF BaseInv
<1>3. DeadRefs'
  BY DEF BaseInv, DeadRefs, CbBeginEff
<1>4. DmaPlaced'
  <2>1. \A n \in Mem : mem[n].dmas \subseteq mem'[n].dmas
    BY DEF CbBeginEff
  <2>2. \A u \in Thread : th[u].pc \in DmaPc => th'[u].pc \in DmaPc /\ th'[u].d = th[u].d
    BY DEF DmaPc, CbBeginEff
  <2>3. \A e \in Dma : dma'[e].heap = "live" => dma[e].heap = "live" /\ dma'[e].mem = dma[e].mem
    BY DEF CbBeginEff
  <2> QED BY <2>1, <2>2, <2>3, PlacedFrame DEF BaseInv
<1>5. Overlaps'
  <2>1. \A u \in Thread : th'[u].op = th[u].op \/ th'[u].op = "none"
    BY DEF CbBeginEff
  <2> QED BY <2>1, OverlapsFrame DEF BaseInv
<1>6. Listed'
  BY DEF BaseInv, Listed, CbBeginEff
<1> QED BY <1>1, <1>2, <1>3, <1>4, <1>5, <1>6 DEF BaseInv

LEMMA CbRunBase ==
  ASSUME Inv, CtxInv, BaseInv, NEW m \in Mem, CbRunEff(m)
  PROVE  BaseInv'
<1>1. Mmap'
  BY NullOut DEF BaseInv, Mmap, CtxInv, Ops, OpOK, CbRunEff
<1>2. Releases'
  <2>1. \A n \in Mem : mem[n].ref = 0 => mem'[n].ref = 0
    BY DEF CbRunEff, Only, SameCounts, SameId
  <2>2. \A u \in Thread : th'[u].pc \in LastPc => th[u].pc \in LastPc /\ th'[u].m = th[u].m
    BY DEF LastPc, CbRunEff
  <2> QED BY <2>1, <2>2, ReleasesFrame DEF BaseInv
<1>3. DeadRefs'
  BY DEF BaseInv, DeadRefs, CbRunEff, Only, SameCounts, SameId
<1>4. DmaPlaced'
  <2>1. \A n \in Mem : mem[n].dmas \subseteq mem'[n].dmas
    BY DEF CbRunEff, Only, SameCounts, SameId
  <2>2. \A u \in Thread : th[u].pc \in DmaPc => th'[u].pc \in DmaPc /\ th'[u].d = th[u].d
    BY DEF DmaPc, CbRunEff
  <2>3. \A e \in Dma : dma'[e].heap = "live" => dma[e].heap = "live" /\ dma'[e].mem = dma[e].mem
    BY DEF CbRunEff
  <2> QED BY <2>1, <2>2, <2>3, PlacedFrame DEF BaseInv
<1>5. Overlaps'
  <2>1. \A u \in Thread : th'[u].op = th[u].op \/ th'[u].op = "none"
    BY DEF CbRunEff
  <2> QED BY <2>1, OverlapsFrame DEF BaseInv
<1>6. Listed'
  BY DEF BaseInv, Listed, CbRunEff, Only, SameCounts, SameId
<1> QED BY <1>1, <1>2, <1>3, <1>4, <1>5, <1>6 DEF BaseInv

LEMMA GraceEndBase ==
  ASSUME Inv, CtxInv, BaseInv, NEW m \in Mem, GraceEndEff(m)
  PROVE  BaseInv'
<1>1. Mmap'
  BY NullOut DEF BaseInv, Mmap, CtxInv, Ops, OpOK, GraceEndEff
<1>2. Releases'
  <2>1. \A n \in Mem : mem[n].ref = 0 => mem'[n].ref = 0
    BY DEF GraceEndEff, HeapTo, Only, SameCounts, SameId
  <2>2. \A u \in Thread : th'[u].pc \in LastPc => th[u].pc \in LastPc /\ th'[u].m = th[u].m
    BY DEF LastPc, GraceEndEff
  <2> QED BY <2>1, <2>2, ReleasesFrame DEF BaseInv
<1>3. DeadRefs'
  BY DEF BaseInv, DeadRefs, GraceEndEff, HeapTo, Only, SameCounts, SameId
<1>4. DmaPlaced'
  <2>1. \A n \in Mem : mem[n].dmas \subseteq mem'[n].dmas
    BY DEF GraceEndEff, HeapTo, Only, SameCounts, SameId
  <2>2. \A u \in Thread : th[u].pc \in DmaPc => th'[u].pc \in DmaPc /\ th'[u].d = th[u].d
    BY DEF DmaPc, GraceEndEff
  <2>3. \A e \in Dma : dma'[e].heap = "live" => dma[e].heap = "live" /\ dma'[e].mem = dma[e].mem
    BY DEF GraceEndEff
  <2> QED BY <2>1, <2>2, <2>3, PlacedFrame DEF BaseInv
<1>5. Overlaps'
  <2>1. \A u \in Thread : th'[u].op = th[u].op \/ th'[u].op = "none"
    BY DEF GraceEndEff
  <2> QED BY <2>1, OverlapsFrame DEF BaseInv
<1>6. Listed'
  BY DEF BaseInv, Listed, GraceEndEff, HeapTo, Only, SameCounts, SameId
<1> QED BY <1>1, <1>2, <1>3, <1>4, <1>5, <1>6 DEF BaseInv

(* The invariant holds when the files have just been opened. *)
LEMMA BaseInit == Init => BaseInv
<1> SUFFICES ASSUME Init PROVE BaseInv
  OBVIOUS
<1> USE DEF Init
<1>1. Mmap
  BY NullOut DEF Mmap, Idle
<1>2. Releases /\ Overlaps
  BY DEF Releases, Overlaps, LastPc, Idle
<1>3. DeadRefs /\ DmaPlaced /\ Listed
  BY DEF DeadRefs, DmaPlaced, Listed, UnusedMem, UnusedDma
<1> QED BY <1>1, <1>2, <1>3 DEF BaseInv

LEMMA BaseNext ==
  ASSUME Inv, CtxInv, BaseInv, [Next]_vars
  PROVE  BaseInv'
<1>1. StepEff
  BY NextDoes
<1>2. ASSUME NEW t \in Thread, CallEff(t) PROVE BaseInv'
  BY <1>2, RegStartBase, PinStartBase, UnmapStartBase, CloseStartBase, MapStartBase DEF
     CallEff
<1>3. ASSUME NEW t \in Thread, LockEff(t) PROVE BaseInv'
  BY <1>3, RegInsertBase, RegInsertFailsBase, RegCopyBase, RegEraseBase, GoesOnBase,
     PinGetBase, PinDoBase, PinDoFailsBase, PinReturnBase, PutBase, RelUnlinkBase,
     RelFreeBase, RelCtxBase, UnmapDoBase, UnmapReturnBase, CloseDoBase, CloseReturnBase
     DEF LockEff
<1>4. ASSUME NEW t \in Thread, MapEff(t) PROVE BaseInv'
  BY <1>4, MapLockBase, WalkMatchBase, WalkSkipBase, WalkPutBase, WalkEndBase,
     MapAllocBase, MapDmaBase, MapFailsBase, MapLinkBase, MapReturnBase, MapUndoBase DEF
     MapEff
<1>5. ASSUME NEW m \in Mem, CbBeginEff(m) \/ CbRunEff(m) \/ GraceEndEff(m) PROVE BaseInv'
  BY <1>5, CbBeginBase, CbRunBase, GraceEndBase
<1>6. CASE Frozen
  BY <1>6 DEF Frozen, BaseInv, Mmap, Releases, DeadRefs, DmaPlaced, Placed, Overlaps, Listed
<1> QED BY <1>1, <1>2, <1>3, <1>4, <1>5, <1>6, SplitVmaBase DEF StepEff

(* Every reachable state satisfies it. *)
LEMMA BaseAlways == Spec => []BaseInv
<1>1. Inv /\ CtxInv /\ BaseInv /\ [Next]_vars => BaseInv'
  BY BaseNext
<1> QED BY <1>1, BaseInit, InvAlways, CtxAlways, PTL DEF Spec

=============================================================================
