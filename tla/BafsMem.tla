------------------------------ MODULE BafsMem ------------------------------
(***************************************************************************)
(* The life of a memory registration in the bafs kernel module: mem.c, the *)
(* context lookups of core.c, and the DMA mapping paths of ctrl.c and      *)
(* group.c.                                                                *)
(*                                                                         *)
(* One process (one struct bafs_ctx) has opened the device files in File   *)
(* and its threads issue system calls on them concurrently.  A call is     *)
(* split into the steps between which another thread or the GPU driver's   *)
(* callback can run: one step per kref operation that is not covered by a  *)
(* spinlock and one per spinlock region.  ctx->lock is a variable, because *)
(* bafs_get_mem_with_ctx keeps it across several kref operations; a        *)
(* mem->lock region is always a single step.                               *)
(*                                                                         *)
(* Memory errors are explicit: a thread whose next step would dereference  *)
(* freed memory, get a reference from a dead kref or spin on a lock it     *)
(* holds itself moves the system to a fault (see Oops), after which        *)
(* nothing is said about the behaviour.                                    *)
(***************************************************************************)
EXTENDS Integers, FiniteSets, Sequences

CONSTANTS
  Thread,    \* threads of the process
  File,      \* its open files: core, controller and group files
  GroupFile, \* the files among them that belong to the group
  Ctrl,      \* controllers
  CtrlsOf,   \* CtrlsOf[f]: controllers a DMA_MAP_MEM ioctl on f maps for
  Mem,       \* struct bafs_mem objects; bounds the number of registrations
  Dma,       \* struct bafs_mem_dma objects; bounds the number of mappings
  Addr,      \* user addresses (vm_start) the process maps memory at
  MaxId,     \* largest index the bafs_mem_xa of the model holds
  Loc,       \* values of the loc field the process registers memory with
  Overlap,   \* {o1, o2} \in Overlap: calls o1 and o2 may be in flight at once
  Protocol,  \* TRUE: the process follows the usage protocol (see Client)
  NULL

Op     == {"reg", "pin", "map", "unmap", "close", "cb"}
Id     == 0 .. MaxId
Handle == 1 .. MaxId + 1

ASSUME ConstantsAssumption ==
  /\ IsFiniteSet(Thread) /\ IsFiniteSet(File) /\ IsFiniteSet(Mem)
  /\ IsFiniteSet(Dma)
  /\ GroupFile \subseteq File
  /\ CtrlsOf \in [File -> Seq(Ctrl)]
  /\ MaxId \in Nat
  /\ Loc \subseteq {"CPU", "CUDA", "OTHER"}
  /\ Overlap \subseteq SUBSET Op
  /\ Protocol \in BOOLEAN
  /\ NULL \notin Mem \cup Dma \cup Addr \cup File \cup Thread \cup Ctrl

VARIABLES
  ctxRef,    \* bafs_ctx.ref; the context is freed when it reaches 0
  ctxLock,   \* holder of bafs_ctx.lock, or NULL
  memList,   \* bafs_ctx.mem_list, as a set: born gives the order
  memXa,     \* bafs_ctx.bafs_mem_xa
  mem,       \* the bafs_mem objects
  pages,     \* page tables allocated for a bafs_mem and not given back
  dma,       \* the bafs_mem_dma objects
  ctrlRef,   \* references that DMA mappings hold on each bafs_ctrl
  vma,       \* the process's mappings of registered memory
  mmapLock,  \* holder of mm->mmap_lock, or NULL
  file,      \* "open", "closing" or "closed"
  cb,        \* state of the GPU driver's free callback for a bafs_mem
  known,     \* handles the process was given and has neither pinned nor lost
  th,        \* program counter and locals of each thread
  fault      \* "none", or the memory error that happened

ctxVars  == <<ctxRef, ctxLock, memList, memXa>>
dmaVars  == <<dma, ctrlRef>>
procVars == <<vma, mmapLock, file, known>>
vars     == <<ctxVars, mem, pages, dmaVars, procVars, cb, th, fault>>

----------------------------------------------------------------------------
(* Objects, as kzalloc leaves them. *)

Idle == [op |-> "none", pc |-> "idle", m |-> NULL, d |-> NULL, f |-> NULL,
         a |-> NULL, ret |-> "idle", rest |-> {}, left |-> <<>>,
         mine |-> <<>>]

UnusedMem == [heap |-> "unused", ref |-> 0, state |-> "STALE", loc |-> "CPU",
              vaddr |-> NULL, id |-> 0, born |-> 0, sized |-> FALSE,
              table |-> FALSE, dmas |-> {}]

UnusedDma == [heap |-> "unused", mem |-> NULL, ctrl |-> NULL, mapped |-> FALSE]

NoVma == [m |-> NULL, f |-> NULL]

Init ==
  /\ ctxRef   = Cardinality(File)
  /\ ctxLock  = NULL
  /\ memList  = {}
  /\ memXa    = [i \in Id |-> NULL]
  /\ mem      = [m \in Mem |-> UnusedMem]
  /\ pages    = [m \in Mem |-> 0]
  /\ dma      = [d \in Dma |-> UnusedDma]
  /\ ctrlRef  = [c \in Ctrl |-> 0]
  /\ vma      = [a \in Addr |-> NoVma]
  /\ mmapLock = NULL
  /\ file     = [f \in File |-> "open"]
  /\ cb       = [m \in Mem |-> "idle"]
  /\ known    = {}
  /\ th       = [t \in Thread |-> Idle]
  /\ fault    = "none"

----------------------------------------------------------------------------
(* Control. *)

At(t, pc)  == th[t].pc = pc

Goto(t, pc) == th' = [th EXCEPT ![t].pc = pc]

Return(t) == th' = [th EXCEPT ![t] = Idle]

(* A call may start when the calls in flight allow it. *)
MayStart(t, o) ==
  /\ At(t, "idle")
  /\ fault = "none"
  /\ \A u \in Thread \ {t} : th[u].op # "none" => {o, th[u].op} \in Overlap
  /\ (\E m \in Mem : cb[m] = "spinning") => {o, "cb"} \in Overlap

(* mem_list is walked from its head, and list_add inserts at the head. *)
Youngest(S) ==
  LET newest == {m \in S : \A n \in S : mem[n].born <= mem[m].born}
  IN IF newest = {} THEN NULL ELSE CHOOSE m \in newest : TRUE

CtxFree == ctxLock = NULL

----------------------------------------------------------------------------
(* Memory errors. *)

(* Steps that dereference the bafs_mem in th[t].m. *)
DerefsMem == {"reg_erase", "pin_get", "pin_do", "pin_put", "rel_unlink", "rel_free",
              "unmap_do", "unmap_put", "walk", "walk_put", "map_dma", "map_link",
              "map_put"}

(* Steps that dereference the context. *)
DerefsCtx == {"reg_insert", "reg_erase", "rel_unlink", "rel_ctx", "unmap_do",
              "unmap_ctx", "map_lock", "walk", "close_do", "close_ctx"}

(* The registrations of the context that were never pinned. *)
Stale == {m \in memList : mem[m].state = "STALE"}

(* The errors the next step of t may run into. *)

UseAfterFree(t) ==
  LET s == th[t]
  IN \/ s.pc \in DerefsMem /\ s.m # NULL /\ mem[s.m].heap = "freed"
     \/ s.pc \in DerefsCtx /\ ctxRef = 0
     \/ s.pc = "close_do" /\ ctxRef <= Cardinality(Stale)
     \/ /\ s.pc = "map_undo"
        /\ s.mine # <<>>
        /\ \/ dma[Head(s.mine)].heap = "freed"
           \/ mem[dma[Head(s.mine)].mem].heap = "freed"

DoubleFree(t) ==
  th[t].pc \in {"reg_erase", "rel_free"} /\ mem[th[t].m].heap = "limbo"

(* kref_get or kref_put on a count that is zero. *)
DeadRef(t) ==
  /\ th[t].pc \in {"pin_get", "walk", "pin_put", "unmap_put", "map_put"}
  /\ th[t].m # NULL
  /\ mem[th[t].m].ref = 0

(* Putting the last reference inside a ctx->lock region (walk_put) or a    *)
(* mem->lock region (unmap_do) runs __bafs_mem_release, which takes the    *)
(* same lock again.                                                        *)
SelfDeadlock(t) ==
  LET m == th[t].m
  IN \/ At(t, "walk_put") /\ mem[m].ref <= 1
     \/ At(t, "unmap_do") /\ mem[m].ref <= Cardinality(mem[m].dmas)

(* nvidia_p2p_dma_map_pages, and nvidia_p2p_dma_unmap_pages when the        *)
(* addresses cannot be copied out, read the page table without mem->lock:  *)
(* a callback that has begun may free it meanwhile.                        *)
TableFreed(t) ==
  LET m == th[t].m
  IN /\ th[t].pc \in {"map_dma", "map_link"}
     /\ mem[m].loc = "CUDA"
     /\ mem[m].table
     /\ cb[m] = "spinning"

(* The thread takes the step at pc: nothing has gone wrong and the step    *)
(* itself does not.                                                        *)
Runs(t, pc) ==
  /\ At(t, pc)
  /\ fault = "none"
  /\ ~UseAfterFree(t) /\ ~DoubleFree(t) /\ ~DeadRef(t) /\ ~SelfDeadlock(t)

----------------------------------------------------------------------------
(* bafs_core_reg_mem *)

RegStart(t, f, l, m) ==
  /\ MayStart(t, "reg")
  /\ file[f] = "open"
  /\ mem[m].heap = "unused"
  /\ mem' = [mem EXCEPT ![m] = [UnusedMem EXCEPT !.heap = "live",
                                                 !.ref  = 1,
                                                 !.loc  = l]]
  /\ ctxRef' = ctxRef + 1
  /\ th' = [th EXCEPT ![t] = [Idle EXCEPT !.op = "reg", !.pc = "reg_insert",
                                          !.f = f, !.m = m]]
  /\ UNCHANGED <<ctxLock, memList, memXa, pages, dmaVars, procVars, cb,
                 fault>>

FreeId == {i \in Id : memXa[i] = NULL}

(* Mutant: the index xa_alloc chose is not stored in mem. *)
RegInsert_noId(t) ==
  /\ Runs(t, "reg_insert")
  /\ CtxFree
  /\ \E i \in FreeId : /\ \A j \in FreeId : i <= j
                       /\ memXa' = [memXa EXCEPT ![i] = th[t].m]
  /\ memList' = memList \cup {th[t].m}
  /\ Goto(t, "reg_copy")
  /\ UNCHANGED <<ctxRef, ctxLock, mem, pages, dmaVars, procVars, cb, fault>>

(* xa_alloc takes the lowest free index. *)
RegInsert(t) ==
  /\ Runs(t, "reg_insert")
  /\ CtxFree
  /\ \E i \in FreeId :
       LET m == th[t].m
       IN /\ \A j \in FreeId : i <= j
          /\ memXa' = [memXa EXCEPT ![i] = m]
          /\ memList' = memList \cup {m}
          /\ mem' = [mem EXCEPT
                       ![m].id   = i,
                       ![m].born = Cardinality({n \in Mem : mem[n].born > 0}) + 1]
  /\ Goto(t, "reg_copy")
  /\ UNCHANGED <<ctxRef, ctxLock, pages, dmaVars, procVars, cb, fault>>

(* Mutant: the context is not put when xa_alloc fails. *)
RegInsertFails_noPut(t) ==
  /\ Runs(t, "reg_insert")
  /\ CtxFree
  /\ mem' = [mem EXCEPT ![th[t].m].heap = "freed"]
  /\ Return(t)
  /\ UNCHANGED <<ctxVars, pages, dmaVars, procVars, cb, fault>>

(* xa_alloc failed: out_delete_mem. *)
RegInsertFails(t) ==
  /\ Runs(t, "reg_insert")
  /\ CtxFree
  /\ ctxRef' = ctxRef - 1
  /\ mem' = [mem EXCEPT ![th[t].m].heap = "freed"]
  /\ Return(t)
  /\ UNCHANGED <<ctxLock, memList, memXa, pages, dmaVars, procVars, cb,
                 fault>>

RegCopy(t) ==
  /\ Runs(t, "reg_copy")
  /\ known' = known \cup {mem[th[t].m].id + 1}
  /\ Return(t)
  /\ UNCHANGED <<ctxVars, mem, pages, dmaVars, vma, mmapLock, file, cb,
                 fault>>

RegCopyFails(t) ==
  /\ Runs(t, "reg_copy")
  /\ Goto(t, "reg_erase")
  /\ UNCHANGED <<ctxVars, mem, pages, dmaVars, procVars, cb, fault>>

(* out_erase_xa_entry *)
RegErase(t) ==
  /\ Runs(t, "reg_erase")
  /\ CtxFree
  /\ LET m == th[t].m
     IN /\ memList' = memList \ {m}
        /\ memXa' = [memXa EXCEPT ![mem[m].id] = NULL]
        /\ mem' = [mem EXCEPT ![m].heap = "freed"]
  /\ ctxRef' = ctxRef - 1
  /\ Return(t)
  /\ UNCHANGED <<ctxLock, pages, dmaVars, procVars, cb, fault>>

----------------------------------------------------------------------------
(* bafs_mem_put.  When the last reference goes, the thread runs            *)
(* __bafs_mem_release (rel_unlink, rel_free, rel_ctx) before it continues. *)

MemPut(t, m, next) ==
  /\ mem' = [mem EXCEPT ![m].ref = @ - 1]
  /\ th' = IF mem[m].ref = 1
           THEN [th EXCEPT ![t].pc = "rel_unlink", ![t].m = m, ![t].ret = next]
           ELSE [th EXCEPT ![t].pc = next]

(* Mutant: the registration stays in mem_list. *)
RelUnlink_inList(t) ==
  /\ Runs(t, "rel_unlink")
  /\ CtxFree
  /\ memXa' = [memXa EXCEPT ![mem[th[t].m].id] = NULL]
  /\ Goto(t, "rel_free")
  /\ UNCHANGED <<ctxRef, ctxLock, memList, mem, pages, dmaVars, procVars, cb, fault>>

RelUnlink(t) ==
  /\ Runs(t, "rel_unlink")
  /\ CtxFree
  /\ memList' = memList \ {th[t].m}
  /\ memXa' = [memXa EXCEPT ![mem[th[t].m].id] = NULL]
  /\ Goto(t, "rel_free")
  /\ UNCHANGED <<ctxRef, ctxLock, mem, pages, dmaVars, procVars, cb, fault>>

(* Whether __bafs_mem_release gives the page table of m back. *)
ReleasesTable(m) ==
  /\ mem[m].state # "STALE"
  /\ mem[m].table
  /\ \/ mem[m].loc = "CPU"
     \/ mem[m].loc = "CUDA" /\ mem[m].state # "DEAD_CB"

(* The mem->lock region of __bafs_mem_release and kfree_rcu.               *)
(* cuda_page_table is cleared, cpu_page_table is not.                      *)
(* nvidia_p2p_put_pages also withdraws a callback that has not begun; it   *)
(* and nvidia_p2p_free_page_table, which a failing pin does not call, are  *)
(* one give-back here.                                                     *)
RelFree(t) ==
  /\ Runs(t, "rel_free")
  /\ LET m == th[t].m
     IN /\ pages' = [pages EXCEPT ![m] = IF ReleasesTable(m) THEN @ - 1 ELSE @]
        /\ cb' = [cb EXCEPT ![m] = IF ReleasesTable(m) /\ @ = "armed"
                                   THEN "idle" ELSE @]
        /\ mem' = [mem EXCEPT
                     ![m].heap  = "limbo",
                     ![m].table = @ /\ ~(ReleasesTable(m) /\ mem[m].loc = "CUDA"),
                     ![m].state = IF @ = "STALE" THEN @ ELSE "DEAD"]
  /\ Goto(t, "rel_ctx")
  /\ UNCHANGED <<ctxVars, dmaVars, procVars, fault>>

RelCtx(t) ==
  /\ Runs(t, "rel_ctx")
  /\ ctxRef' = ctxRef - 1
  /\ Goto(t, th[t].ret)
  /\ UNCHANGED <<ctxLock, memList, memXa, mem, pages, dmaVars, procVars,
                 cb, fault>>

----------------------------------------------------------------------------
(* mmap of a registered handle: pin_bafs_mem, under mm->mmap_lock.         *)
(* vm_pgoff carries the handle.  An unknown handle returns -EINVAL and     *)
(* changes nothing; the reference on the context is got and put again      *)
(* around the lookup, inside the same step.                                *)

MemOfPgoff(pgoff) == memXa[pgoff - 1]

PinStart(t, f, pgoff, a) ==
  /\ MayStart(t, "pin")
  /\ file[f] = "open"
  /\ vma[a] = NoVma
  /\ mmapLock = NULL
  /\ CtxFree
  /\ MemOfPgoff(pgoff) # NULL
  /\ mmapLock' = t
  /\ known' = known \ {pgoff}
  /\ th' = [th EXCEPT ![t] = [Idle EXCEPT !.op = "pin", !.pc = "pin_get",
                                          !.f = f, !.a = a,
                                          !.m = MemOfPgoff(pgoff)]]
  /\ UNCHANGED <<ctxVars, mem, pages, dmaVars, vma, file, cb, fault>>

PinGet(t) ==
  /\ Runs(t, "pin_get")
  /\ mem' = [mem EXCEPT ![th[t].m].ref = @ + 1]
  /\ Goto(t, "pin_do")
  /\ UNCHANGED <<ctxVars, pages, dmaVars, procVars, cb, fault>>

(* pin_bafs_cpu_mem and pin_bafs_cuda_mem succeed. *)
PinDo(t) ==
  /\ Runs(t, "pin_do")
  /\ LET m == th[t].m
     IN /\ mem[m].loc \in {"CPU", "CUDA"}
        /\ mem' = [mem EXCEPT ![m].vaddr = th[t].a,
                              ![m].sized = TRUE,
                              ![m].table = TRUE,
                              ![m].state = "LIVE"]
        /\ pages' = [pages EXCEPT ![m] = @ + 1]
        /\ vma' = [vma EXCEPT ![th[t].a] = [m |-> m, f |-> th[t].f]]
        /\ cb' = [cb EXCEPT ![m] = IF mem[m].loc = "CUDA" THEN "armed" ELSE @]
  /\ Goto(t, "pin_put")
  /\ UNCHANGED <<ctxVars, dmaVars, mmapLock, file, known, fault>>

(* They fail.  vaddr, and for CPU memory n_pages, keep their new values.   *)
(* cpu_page_table is NULL afterwards; cuda_page_table is NULL unless       *)
(* nvidia_p2p_get_pages itself failed.  If get_pages succeeded and a later *)
(* check failed, the GPU driver may have begun the callback, which now     *)
(* waits for mem->lock.                                                    *)
PinDoFails(t) ==
  /\ Runs(t, "pin_do")
  /\ LET m == th[t].m
     IN /\ \E kept \in {FALSE, mem[m].loc # "CPU" /\ mem[m].table},
              begun \in {FALSE, mem[m].loc = "CUDA" /\ {"cb", "pin"} \in Overlap} :
             /\ mem' = [mem EXCEPT ![m].vaddr = th[t].a,
                                   ![m].sized = @ \/ mem[m].loc = "CPU",
                                   ![m].table = kept]
             /\ cb' = [cb EXCEPT ![m] = IF begun /\ ~kept THEN "spinning" ELSE @]
        /\ known' = known \cup {mem[m].id + 1}
  /\ Goto(t, "pin_put")
  /\ UNCHANGED <<ctxVars, pages, dmaVars, vma, mmapLock, file, fault>>

PinPut(t) ==
  /\ Runs(t, "pin_put")
  /\ MemPut(t, th[t].m, "pin_ret")
  /\ UNCHANGED <<ctxVars, pages, dmaVars, procVars, cb, fault>>

PinReturn(t) ==
  /\ Runs(t, "pin_ret")
  /\ mmapLock' = NULL
  /\ Return(t)
  /\ UNCHANGED <<ctxVars, mem, pages, dmaVars, vma, file, cb, known, fault>>

----------------------------------------------------------------------------
(* unmap_dma.  For CUDA memory whose callback has run there is nothing to  *)
(* unmap any more; a mapping still present is then left as it is.          *)

(* Mutant: the location CPU is forgotten. *)
UnmapsNow_cudaOnly(m) == mem[m].loc = "CUDA" /\ mem[m].state # "DEAD_CB"

UnmapsNow(m) == mem[m].loc = "CPU" \/ mem[m].state # "DEAD_CB"

(* Mutant: the controllers keep the references of the mappings. *)
UnmapDma_noCtrlPut(S, m) ==
  /\ dma' = [d \in Dma |->
               IF d \in S
               THEN [dma[d] EXCEPT !.heap   = "freed",
                                   !.mapped = @ /\ ~UnmapsNow(m)]
               ELSE dma[d]]
  /\ UNCHANGED ctrlRef

UnmapDma(S, m) ==
  /\ dma' = [d \in Dma |->
               IF d \in S
               THEN [dma[d] EXCEPT !.heap   = "freed",
                                   !.mapped = @ /\ ~UnmapsNow(m)]
               ELSE dma[d]]
  /\ ctrlRef' = [c \in Ctrl |->
                   ctrlRef[c] - Cardinality({d \in S : dma[d].ctrl = c})]

----------------------------------------------------------------------------
(* munmap of a pinned range: bafs_mem_release, under mm->mmap_lock. *)

UnmapStart(t, a) ==
  /\ MayStart(t, "unmap")
  /\ vma[a] # NoVma
  /\ mmapLock = NULL
  /\ mmapLock' = t
  /\ th' = [th EXCEPT ![t] = [Idle EXCEPT !.op = "unmap", !.pc = "unmap_do",
                                          !.f = vma[a].f, !.a = a,
                                          !.m = vma[a].m]]
  /\ UNCHANGED <<ctxVars, mem, pages, dmaVars, vma, file, cb, known, fault>>

(* The mem->lock region: every DMA mapping goes, and its reference on mem. *)
UnmapDo(t) ==
  /\ Runs(t, "unmap_do")
  /\ LET m == th[t].m
     IN /\ UnmapDma(mem[m].dmas, m)
        /\ mem' = [mem EXCEPT ![m].dmas = {},
                              ![m].ref  = @ - Cardinality(mem[m].dmas)]
  /\ ctxRef' = ctxRef + 1
  /\ vma' = [vma EXCEPT ![th[t].a] = NoVma]
  /\ Goto(t, "unmap_put")
  /\ UNCHANGED <<ctxLock, memList, memXa, pages, mmapLock, file, cb, known,
                 fault>>

UnmapPut(t) ==
  /\ Runs(t, "unmap_put")
  /\ MemPut(t, th[t].m, "unmap_ctx")
  /\ UNCHANGED <<ctxVars, pages, dmaVars, procVars, cb, fault>>

UnmapReturn(t) ==
  /\ Runs(t, "unmap_ctx")
  /\ ctxRef' = ctxRef - 1
  /\ mmapLock' = NULL
  /\ Return(t)
  /\ UNCHANGED <<ctxLock, memList, memXa, mem, pages, dmaVars, vma, file,
                 cb, known, fault>>

(* Unmapping a part of a range splits the vma.  bafs_mem_ops has no open,  *)
(* so both halves carry the same vm_private_data.                          *)
SplitVma(a, b) ==
  /\ fault = "none"
  /\ ~Protocol
  /\ mmapLock = NULL
  /\ vma[a] # NoVma
  /\ vma[b] = NoVma
  /\ vma' = [vma EXCEPT ![b] = vma[a]]
  /\ UNCHANGED <<ctxVars, mem, pages, dmaVars, mmapLock, file, cb, known,
                 th, fault>>

----------------------------------------------------------------------------
(* The last reference to a file goes: bafs_core_release,                   *)
(* bafs_ctrl_file_release or bafs_group_release.  A vma and a call in      *)
(* flight each hold a reference to their file.                             *)

CloseStart(t, f) ==
  /\ MayStart(t, "close")
  /\ file[f] = "open"
  /\ \A a \in Addr : vma[a].f # f
  /\ \A u \in Thread : th[u].f # f
  /\ file' = [file EXCEPT ![f] = "closing"]
  /\ th' = [th EXCEPT ![t] = [Idle EXCEPT !.op = "close", !.pc = "close_do",
                                          !.f = f]]
  /\ UNCHANGED <<ctxVars, mem, pages, dmaVars, vma, mmapLock, cb, known,
                 fault>>

(* Mutant: registrations that were never pinned are left behind. *)
CloseDo_noSweep(t) ==
  /\ Runs(t, "close_do")
  /\ CtxFree
  /\ Goto(t, "close_ctx")
  /\ UNCHANGED <<ctxVars, mem, pages, dmaVars, procVars, cb, fault>>

(* The ctx->lock region drops every registration of the context that was   *)
(* never pinned, whichever file it was made through.                       *)
CloseDo(t) ==
  /\ Runs(t, "close_do")
  /\ CtxFree
  /\ memList' = memList \ Stale
  /\ memXa' = [i \in Id |-> IF \E m \in Stale : mem[m].id = i
                            THEN NULL ELSE memXa[i]]
  /\ mem' = [m \in Mem |-> IF m \in Stale
                           THEN [mem[m] EXCEPT !.heap = "limbo"]
                           ELSE mem[m]]
  /\ ctxRef' = ctxRef - Cardinality(Stale)
  /\ known' = {}
  /\ Goto(t, "close_ctx")
  /\ UNCHANGED <<ctxLock, pages, dmaVars, vma, mmapLock, file, cb, fault>>

CloseReturn(t) ==
  /\ Runs(t, "close_ctx")
  /\ ctxRef' = ctxRef - 1
  /\ file' = [file EXCEPT ![th[t].f] = "closed"]
  /\ Return(t)
  /\ UNCHANGED <<ctxLock, memList, memXa, mem, pages, dmaVars, vma,
                 mmapLock, cb, known, fault>>

----------------------------------------------------------------------------
(* The DMA_MAP_MEM ioctl: __bafs_ctrl_dma_map_mem on a controller file,    *)
(* bafs_group_dma_map_mem, which holds group->lock throughout, on a group  *)
(* file: that call begins here when it has the lock, and an mmap or munmap *)
(* when it has the mmap lock (BafsLocks has what waits for these).  left   *)
(* holds the controllers still to map for, mine the mappings made so far,  *)
(* last one first.                                                         *)

MapStart(t, f, a) ==
  /\ MayStart(t, "map")
  /\ file[f] = "open"
  /\ CtrlsOf[f] # <<>>
  /\ f \in GroupFile =>
       \A u \in Thread : ~(th[u].op = "map" /\ th[u].f \in GroupFile)
  /\ th' = [th EXCEPT ![t] = [Idle EXCEPT !.op = "map", !.pc = "map_lock",
                                          !.f = f, !.a = a,
                                          !.left = CtrlsOf[f]]]
  /\ UNCHANGED <<ctxVars, mem, pages, dmaVars, procVars, cb, fault>>

(* bafs_get_mem_with_ctx: walk mem_list under ctx->lock, with a reference  *)
(* on the element being looked at.                                         *)
MapLock(t) ==
  /\ Runs(t, "map_lock")
  /\ CtxFree
  /\ ctxLock' = t
  /\ ctxRef' = ctxRef + 1
  /\ th' = [th EXCEPT ![t].pc = "walk", ![t].rest = memList,
                      ![t].m = Youngest(memList)]
  /\ UNCHANGED <<memList, memXa, mem, pages, dmaVars, procVars, cb, fault>>

(* Mutant: the address is not compared. *)
Matches_anyAddr(m, a) == mem[m].state # "DEAD" /\ mem[m].state # "DEAD_CB"

Matches(m, a) ==
  /\ mem[m].vaddr = a
  /\ mem[m].state # "DEAD"
  /\ mem[m].state # "DEAD_CB"

WalkMatch(t) ==
  /\ Runs(t, "walk")
  /\ th[t].m # NULL
  /\ Matches(th[t].m, th[t].a)
  /\ mem' = [mem EXCEPT ![th[t].m].ref = @ + 1]
  /\ ctxLock' = NULL
  /\ ctxRef' = ctxRef - 1
  /\ th' = [th EXCEPT ![t].pc = "map_alloc", ![t].rest = {}]
  /\ UNCHANGED <<memList, memXa, pages, dmaVars, procVars, cb, fault>>

WalkSkip(t) ==
  /\ Runs(t, "walk")
  /\ th[t].m # NULL
  /\ ~Matches(th[t].m, th[t].a)
  /\ mem' = [mem EXCEPT ![th[t].m].ref = @ + 1]
  /\ Goto(t, "walk_put")
  /\ UNCHANGED <<ctxVars, pages, dmaVars, procVars, cb, fault>>

WalkPut(t) ==
  /\ Runs(t, "walk_put")
  /\ mem' = [mem EXCEPT ![th[t].m].ref = @ - 1]
  /\ LET rest == th[t].rest \ {th[t].m}
     IN th' = [th EXCEPT ![t].pc = "walk", ![t].rest = rest,
                         ![t].m = Youngest(rest)]
  /\ UNCHANGED <<ctxVars, pages, dmaVars, procVars, cb, fault>>

WalkEnd(t) ==
  /\ Runs(t, "walk")
  /\ th[t].m = NULL
  /\ ctxLock' = NULL
  /\ ctxRef' = ctxRef - 1
  /\ Goto(t, "map_undo")
  /\ UNCHANGED <<memList, memXa, mem, pages, dmaVars, procVars, cb, fault>>

(* bafs_ctrl_dma_map_mem with the memory found. *)
MapAlloc(t, d) ==
  /\ Runs(t, "map_alloc")
  /\ dma[d].heap = "unused"
  /\ LET c == Head(th[t].left)
     IN /\ dma' = [dma EXCEPT ![d] = [heap |-> "live", mem |-> th[t].m,
                                      ctrl |-> c, mapped |-> FALSE]]
        /\ ctrlRef' = [ctrlRef EXCEPT ![c] = @ + 1]
  /\ th' = [th EXCEPT ![t].pc = "map_dma", ![t].d = d]
  /\ UNCHANGED <<ctxVars, mem, pages, procVars, cb, fault>>

(* Mutant: the reference of the lookup is not put. *)
MapAllocFails_noPut(t) ==
  /\ Runs(t, "map_alloc")
  /\ Goto(t, "map_undo")
  /\ UNCHANGED <<ctxVars, mem, pages, dmaVars, procVars, cb, fault>>

MapAllocFails(t) ==
  /\ Runs(t, "map_alloc")
  /\ Goto(t, "map_put")
  /\ UNCHANGED <<ctxVars, mem, pages, dmaVars, procVars, cb, fault>>

(* dma_map_single on the pages of CPU memory that has a size and no page   *)
(* table.                                                                  *)
NullTable(t) ==
  /\ At(t, "map_dma")
  /\ mem[th[t].m].loc = "CPU"
  /\ mem[th[t].m].sized
  /\ ~mem[th[t].m].table

(* Every page is mapped.  CPU memory that was never given a size maps no   *)
(* page; the GPU driver maps through the page table it is handed.          *)
MapDma(t) ==
  /\ Runs(t, "map_dma")
  /\ ~NullTable(t)
  /\ LET m == th[t].m
     IN /\ \/ mem[m].loc = "CPU"
           \/ mem[m].loc = "CUDA" /\ mem[m].table
        /\ dma' = [dma EXCEPT ![th[t].d].mapped = mem[m].table]
  /\ Goto(t, "map_link")
  /\ UNCHANGED <<ctxVars, mem, pages, ctrlRef, procVars, cb, fault>>

(* out_delete_dma *)
DeleteDma(t, stillMapped) ==
  LET d == th[t].d
  IN /\ dma' = [dma EXCEPT ![d].heap = "freed", ![d].mapped = stillMapped]
     /\ ctrlRef' = [ctrlRef EXCEPT ![dma[d].ctrl] = @ - 1]
     /\ Goto(t, "map_put")

(* No memory, a mapping error or an unknown location: what was mapped is   *)
(* unmapped again.                                                         *)
MapDmaFails(t) ==
  /\ Runs(t, "map_dma")
  /\ DeleteDma(t, FALSE)
  /\ UNCHANGED <<ctxVars, mem, pages, procVars, cb, fault>>

(* The addresses cannot be copied to the user: out_unmap.  The GPU driver  *)
(* needs the page table to unmap.                                          *)
MapAddrsFail(t) ==
  /\ Runs(t, "map_link")
  /\ LET m == th[t].m
     IN DeleteDma(t, /\ dma[th[t].d].mapped
                     /\ mem[m].loc # "CPU"
                     /\ ~mem[m].table)
  /\ UNCHANGED <<ctxVars, mem, pages, procVars, cb, fault>>

(* list_add under mem->lock; the reference on mem now belongs to dma. *)
MapLink(t) ==
  /\ Runs(t, "map_link")
  /\ mem' = [mem EXCEPT ![th[t].m].dmas = @ \cup {th[t].d}]
  /\ LET left == Tail(th[t].left)
     IN th' = [th EXCEPT ![t].pc   = IF left = <<>> THEN "map_copy" ELSE "map_lock",
                         ![t].left = left,
                         ![t].mine = <<th[t].d>> \o @]
  /\ UNCHANGED <<ctxVars, pages, dmaVars, procVars, cb, fault>>

MapPut(t) ==
  /\ Runs(t, "map_put")
  /\ MemPut(t, th[t].m, "map_undo")
  /\ UNCHANGED <<ctxVars, pages, dmaVars, procVars, cb, fault>>

MapReturn(t) ==
  /\ \/ Runs(t, "map_copy")
     \/ Runs(t, "map_undo") /\ th[t].mine = <<>>
  /\ Return(t)
  /\ UNCHANGED <<ctxVars, mem, pages, dmaVars, procVars, cb, fault>>

(* copy_to_user of the result failed. *)
MapCopyFails(t) ==
  /\ Runs(t, "map_copy")
  /\ Goto(t, "map_undo")
  /\ UNCHANGED <<ctxVars, mem, pages, dmaVars, procVars, cb, fault>>

(* Mutant: the mapping is freed without list_del. *)
MapUndo_inList(t) ==
  /\ Runs(t, "map_undo")
  /\ th[t].mine # <<>>
  /\ LET d == Head(th[t].mine)
     IN /\ UnmapDma({d}, dma[d].mem)
        /\ th' = [th EXCEPT ![t].pc = "map_put", ![t].m = dma[d].mem,
                            ![t].mine = Tail(@)]
  /\ UNCHANGED <<ctxVars, mem, pages, procVars, cb, fault>>

(* bafs_ctrl_dma_unmap_mem for the mapping made last. *)
MapUndo(t) ==
  /\ Runs(t, "map_undo")
  /\ th[t].mine # <<>>
  /\ LET d == Head(th[t].mine)
         m == dma[d].mem
     IN /\ UnmapDma({d}, m)
        /\ mem' = [mem EXCEPT ![m].dmas = @ \ {d}]
        /\ th' = [th EXCEPT ![t].pc = "map_put", ![t].m = m,
                            ![t].mine = Tail(@)]
  /\ UNCHANGED <<ctxVars, pages, procVars, cb, fault>>

----------------------------------------------------------------------------
(* The GPU driver frees pinned memory: it begins the callback, which spins *)
(* on mem->lock with preemption off, and the callback runs.  Preemption is *)
(* taken to be off from the callback's entry on; the code has it off only  *)
(* from its spin_lock.                                                     *)

CbBegin(m) ==
  /\ fault = "none"
  /\ cb[m] = "armed"
  /\ \A t \in Thread : th[t].op # "none" => {"cb", th[t].op} \in Overlap
  /\ cb' = [cb EXCEPT ![m] = "spinning"]
  /\ UNCHANGED <<ctxVars, mem, pages, dmaVars, procVars, th, fault>>

(* Whether release_bafs_cuda_mem finds the memory not yet released. *)
CbActs(m) == mem[m].state # "DEAD"

(* Mutant: the callback gives the page table back and leaves the DMA       *)
(* mappings made from it.                                                  *)
CbRun_keepsMappings(m) ==
  /\ fault = "none"
  /\ cb[m] = "spinning"
  /\ mem[m].heap # "freed"
  /\ cb' = [cb EXCEPT ![m] = "idle"]
  /\ pages' = [pages EXCEPT ![m] = IF CbActs(m) /\ mem[m].table THEN @ - 1 ELSE @]
  /\ mem' = [mem EXCEPT ![m].state = IF CbActs(m) THEN "DEAD_CB" ELSE @,
                        ![m].table = @ /\ ~CbActs(m)]
  /\ UNCHANGED <<ctxVars, dmaVars, procVars, th, fault>>

(* Mutant: the callback leaves the pointer to the page table behind. *)
CbRun_keepsPointer(m) ==
  /\ fault = "none"
  /\ cb[m] = "spinning"
  /\ mem[m].heap # "freed"
  /\ cb' = [cb EXCEPT ![m] = "idle"]
  /\ dma' = [d \in Dma |-> IF CbActs(m) /\ d \in mem[m].dmas
                           THEN [dma[d] EXCEPT !.mapped = FALSE]
                           ELSE dma[d]]
  /\ pages' = [pages EXCEPT ![m] = IF CbActs(m) /\ mem[m].table THEN @ - 1 ELSE @]
  /\ mem' = [mem EXCEPT ![m].state = IF CbActs(m) THEN "DEAD_CB" ELSE @]
  /\ UNCHANGED <<ctxVars, ctrlRef, procVars, th, fault>>

CbRun(m) ==
  /\ fault = "none"
  /\ cb[m] = "spinning"
  /\ mem[m].heap # "freed"
  /\ cb' = [cb EXCEPT ![m] = "idle"]
  /\ dma' = [d \in Dma |-> IF CbActs(m) /\ d \in mem[m].dmas
                           THEN [dma[d] EXCEPT !.mapped = FALSE]
                           ELSE dma[d]]
  /\ pages' = [pages EXCEPT ![m] = IF CbActs(m) /\ mem[m].table THEN @ - 1 ELSE @]
  /\ mem' = [mem EXCEPT ![m].state = IF CbActs(m) THEN "DEAD_CB" ELSE @,
                        ![m].table = @ /\ ~CbActs(m)]
  /\ UNCHANGED <<ctxVars, ctrlRef, procVars, th, fault>>

(* Mutant: kfree in the place of kfree_rcu. *)
GraceEnd_atOnce(m) ==
  /\ fault = "none"
  /\ mem[m].heap = "limbo"
  /\ mem' = [mem EXCEPT ![m].heap = "freed"]
  /\ UNCHANGED <<ctxVars, pages, dmaVars, procVars, cb, th, fault>>

(* Mutant: the sweep of a closed file does not free what it drops. *)
GraceEnd_notSwept(m) ==
  /\ mem[m].state # "STALE"
  /\ cb[m] # "spinning"
  /\ GraceEnd_atOnce(m)

(* kfree_rcu frees mem once a callback spinning on its lock has run. *)
GraceEnd(m) ==
  /\ fault = "none"
  /\ mem[m].heap = "limbo"
  /\ cb[m] # "spinning"
  /\ mem' = [mem EXCEPT ![m].heap = "freed"]
  /\ UNCHANGED <<ctxVars, pages, dmaVars, procVars, cb, th, fault>>

----------------------------------------------------------------------------
(* A memory error happens. *)

Oops(t) ==
  /\ fault = "none"
  /\ \/ UseAfterFree(t) /\ fault' = "use_after_free"
     \/ DoubleFree(t) /\ fault' = "double_free"
     \/ DeadRef(t) /\ fault' = "dead_ref"
     \/ SelfDeadlock(t) /\ fault' = "self_deadlock"
     \/ TableFreed(t) /\ fault' = "use_after_free"
     \/ NullTable(t) /\ fault' = "null_deref"
  /\ UNCHANGED <<ctxVars, mem, pages, dmaVars, procVars, cb, th>>

CbOops(m) ==
  /\ fault = "none"
  /\ cb[m] = "spinning"
  /\ mem[m].heap = "freed"
  /\ fault' = "use_after_free"
  /\ UNCHANGED <<ctxVars, mem, pages, dmaVars, procVars, cb, th>>

----------------------------------------------------------------------------
(* The process.  Under the protocol it pins only a handle it was given and *)
(* has not pinned yet, never at an address an earlier failed pin left in   *)
(* another registration, maps only an address whose pin has returned, and  *)
(* unmaps whole ranges.                                                    *)

MayPin(pgoff, a) ==
  Protocol =>
    /\ pgoff \in known
    /\ \A m \in memList \ {MemOfPgoff(pgoff)} :
         ~(mem[m].state = "STALE" /\ mem[m].vaddr = a)

MayMap(a) ==
  Protocol =>
    /\ a \in Addr
    /\ vma[a] # NoVma
    /\ \A u \in Thread : th[u].op = "pin" => th[u].a # a

Client(t) ==
  \/ \E f \in File, l \in Loc, m \in Mem : RegStart(t, f, l, m)
  \/ \E f \in File, p \in Handle, a \in Addr : MayPin(p, a) /\ PinStart(t, f, p, a)
  \/ \E f \in File, a \in Addr \cup {NULL} : MayMap(a) /\ MapStart(t, f, a)
  \/ \E a \in Addr : UnmapStart(t, a)
  \/ \E f \in File : CloseStart(t, f)

(* The next step of a call in flight. *)
Step(t) ==
  \/ RegInsert(t) \/ RegInsertFails(t) \/ RegCopy(t) \/ RegCopyFails(t)
  \/ RegErase(t)
  \/ PinGet(t) \/ PinDo(t) \/ PinDoFails(t) \/ PinPut(t) \/ PinReturn(t)
  \/ RelUnlink(t) \/ RelFree(t) \/ RelCtx(t)
  \/ UnmapDo(t) \/ UnmapPut(t) \/ UnmapReturn(t)
  \/ CloseDo(t) \/ CloseReturn(t)
  \/ MapLock(t) \/ WalkMatch(t) \/ WalkSkip(t) \/ WalkPut(t) \/ WalkEnd(t)
  \/ \E d \in Dma : MapAlloc(t, d)
  \/ MapAllocFails(t)
  \/ MapDma(t)
  \/ MapDmaFails(t) \/ MapAddrsFail(t) \/ MapLink(t) \/ MapPut(t) \/ MapReturn(t)
  \/ MapCopyFails(t) \/ MapUndo(t)

ProcessGone ==
  /\ \A f \in File : file[f] = "closed"
  /\ \A t \in Thread : th[t] = Idle
  /\ \A m \in Mem : cb[m] # "spinning"

(* Nothing happens any more. *)
Halted ==
  /\ fault # "none" \/ ProcessGone
  /\ UNCHANGED vars

Next ==
  \/ \E t \in Thread : Client(t) \/ Step(t) \/ Oops(t)
  \/ \E m \in Mem : CbBegin(m) \/ CbRun(m) \/ CbOops(m) \/ GraceEnd(m)
  \/ \E a, b \in Addr : SplitVma(a, b)
  \/ Halted

Spec == Init /\ [][Next]_vars

(* RCU grace periods end and the GPU driver's callback is not suspended.   *)
(* Nothing is assumed about the threads: they may stop in the middle of a  *)
(* call.  What the calls themselves wait for is the matter of BafsLocks.   *)
FairSpec ==
  /\ Spec
  /\ \A m \in Mem : WF_vars(CbRun(m) \/ CbOops(m)) /\ WF_vars(GraceEnd(m))

----------------------------------------------------------------------------
(* Properties. *)

Pc == {"idle", "reg_insert", "reg_copy", "reg_erase", "pin_get", "pin_do", "pin_put",
       "pin_ret", "rel_unlink", "rel_free", "rel_ctx", "unmap_do", "unmap_put",
       "unmap_ctx", "close_do", "close_ctx", "map_lock", "walk", "walk_put",
       "map_alloc", "map_dma", "map_link", "map_put", "map_copy", "map_undo"}

Heap == {"unused", "live", "limbo", "freed"}

Fault == {"none", "use_after_free", "double_free", "dead_ref", "self_deadlock",
          "null_deref"}

MemRec == [heap : Heap, ref : Nat, state : {"STALE", "LIVE", "DEAD", "DEAD_CB"},
           loc : {"CPU", "CUDA", "OTHER"}, vaddr : Addr \cup {NULL}, id : Id,
           born : Nat, sized : BOOLEAN, table : BOOLEAN, dmas : SUBSET Dma]

DmaRec == [heap : {"unused", "live", "freed"}, mem : Mem \cup {NULL},
           ctrl : Ctrl \cup {NULL}, mapped : BOOLEAN]

ThreadRec == [op : Op \cup {"none"}, pc : Pc, m : Mem \cup {NULL},
              d : Dma \cup {NULL}, f : File \cup {NULL}, a : Addr \cup {NULL},
              ret : Pc, rest : SUBSET Mem, left : Seq(Ctrl), mine : Seq(Dma)]

(* Type correctness.  It says of the counts that a reference of the        *)
(* context or of a registration, and a page table, is never given back     *)
(* more often than it was taken.                                           *)
TypeOK ==
  /\ ctxRef \in Nat
  /\ ctxLock \in Thread \cup {NULL}
  /\ memList \subseteq Mem
  /\ memXa \in [Id -> Mem \cup {NULL}]
  /\ mem \in [Mem -> MemRec]
  /\ pages \in [Mem -> Nat]
  /\ dma \in [Dma -> DmaRec]
  /\ ctrlRef \in [Ctrl -> Int]
  /\ vma \in [Addr -> [m : Mem, f : File] \cup {NoVma}]
  /\ mmapLock \in Thread \cup {NULL}
  /\ file \in [File -> {"open", "closing", "closed"}]
  /\ cb \in [Mem -> {"idle", "armed", "spinning"}]
  /\ known \subseteq Handle
  /\ th \in [Thread -> ThreadRec]
  /\ fault \in Fault

(* No step of a call or of the GPU callback dereferences freed memory,     *)
(* frees twice, takes a reference from a count that is zero, drops one     *)
(* that nobody holds, or takes a spinlock its own thread holds.            *)
NoFault == fault = "none"

(* Threads whose call holds a reference on m. *)
Holders(m) ==
  {t \in Thread : th[t].m = m /\ th[t].pc \in {"pin_do", "pin_put", "walk_put",
                                               "map_alloc", "map_dma", "map_link",
                                               "map_put"}}

(* The reference kref_init made belongs to the registration until it is    *)
(* pinned, then to the vma until bafs_mem_release puts it.                 *)
Owned(m) ==
  \/ mem[m].state = "STALE"
  \/ \E a \in Addr : vma[a].m = m
  \/ \E t \in Thread : th[t].m = m /\ At(t, "unmap_put")

(* The count in bafs_mem.ref is the number of its holders at every moment: *)
(* the registration or its vma, the DMA mappings on its dma_list, and the  *)
(* calls between their kref_get and their kref_put.  What pin, map, unmap  *)
(* and their error paths take and give back adds up in every interleaving. *)
MemRefExact ==
  \A m \in Mem : mem[m].heap = "live" =>
    mem[m].ref = (IF Owned(m) THEN 1 ELSE 0)
                 + Cardinality(mem[m].dmas) + Cardinality(Holders(m))

(* The count in bafs_ctx.ref is the number of open files, of registrations *)
(* not yet released and of calls that hold the context for a moment, so    *)
(* the context is freed exactly when the last of them is gone.             *)
CtxRefExact ==
  ctxRef = Cardinality({f \in File : file[f] # "closed"})
         + Cardinality({m \in Mem : mem[m].heap = "live"})
         + Cardinality({t \in Thread : th[t].pc \in {"rel_ctx", "walk", "walk_put"}})
         + Cardinality({t \in Thread : th[t].op = "unmap" /\ ~At(t, "unmap_do")})

(* A controller has one reference for every DMA mapping object made for    *)
(* it, on the error paths of a group mapping too: it cannot be released    *)
(* under a mapping, and no mapping that is gone keeps it.                  *)
CtrlRefExact ==
  \A c \in Ctrl : ctrlRef[c] = Cardinality({d \in Dma : dma[d].heap = "live"
                                                       /\ dma[d].ctrl = c})

(* While a controller can reach memory by DMA, the pages of that memory    *)
(* have not been given back: neither the release of the registration nor   *)
(* the GPU callback frees pages under a mapping.                           *)
DmaPagesPinned ==
  \A d \in Dma : dma[d].mapped => pages[dma[d].mem] > 0

(* DmaPagesPinned for pages of the host, which no callback takes back.     *)
CpuDmaPagesPinned ==
  \A d \in Dma : dma[d].mapped /\ mem[dma[d].mem].loc = "CPU"
                   => pages[dma[d].mem] > 0

(* A handle that REG_MEM returned names the same live registration in      *)
(* bafs_mem_xa and mem_list until the process pins it or closes a file:    *)
(* the index is not handed out twice and not erased with another object's. *)
HandlesValid ==
  \A h \in known : \E m \in memList :
    memXa[h - 1] = m /\ mem[m].id = h - 1 /\ mem[m].heap = "live"

(* What bafs_get_mem_with_ctx finds for an address is the registration the *)
(* process has mapped there, whatever addresses failed pins and released   *)
(* registrations have left behind in the list.                             *)
LookupFindsMapped ==
  \A t \in Thread : th[t].pc \in {"map_alloc", "map_dma", "map_link"} =>
    vma[th[t].a].m = th[t].m

Reclaimed ==
  /\ ctxRef = 0
  /\ memList = {}
  /\ \A m \in Mem : mem[m].heap # "live" /\ pages[m] = 0
  /\ \A d \in Dma : dma[d].heap # "live" /\ ~dma[d].mapped
  /\ \A c \in Ctrl : ctrlRef[c] = 0

(* When the process has closed everything, nothing of it is left in the    *)
(* kernel: no context, registration, page, DMA mapping or reference on a   *)
(* controller.                                                             *)
NothingLeft == ProcessGone => Reclaimed

(* The GPU callback never runs on a freed registration: __bafs_mem_release *)
(* leaves the memory to kfree_rcu, which waits for a callback that is      *)
(* already spinning on mem->lock.                                          *)
CallbackSafe == \A m \in Mem : cb[m] = "spinning" => mem[m].heap # "freed"

(* Every entry of a dma_list is a live mapping object of that registration *)
(* (never one that unmap_dma has freed), and is in no other list.          *)
DmaListsSound ==
  \A m \in Mem : \A d \in mem[m].dmas :
    /\ dma[d].heap = "live"
    /\ dma[d].mem = m

(* A registration that has a page table pointer owns a page table that has *)
(* not been given back, unless it is itself released: the release and the  *)
(* GPU callback between them give it back once, and the callback clears    *)
(* the pointer that DMA_MAP_MEM and the release would use.                 *)
TablesBacked ==
  \A m \in Mem : mem[m].table => pages[m] > 0 \/ mem[m].state = "DEAD"

(* How far the life of a registration has come, and the mappings through   *)
(* which controllers reach its pages.                                      *)
PhaseOf(r, inVma) ==
  CASE r.heap = "unused" -> "new"
    [] r.heap \in {"limbo", "freed"} -> "gone"
    [] r.heap = "live" /\ r.state = "STALE" -> "registered"
    [] r.heap = "live" /\ r.state = "LIVE" /\ inVma -> "pinned"
    [] r.heap = "live" /\ r.state = "LIVE" /\ ~inVma -> "unmapped"
    [] OTHER -> "revoked"

Phase == [m \in Mem |-> PhaseOf(mem[m], \E a \in Addr : vma[a].m = m)]

Reached == [m \in Mem |-> {d \in Dma : dma[d].mapped /\ dma[d].mem = m}]

Buf == INSTANCE BafsMemAbs WITH phase <- Phase, reach <- Reached

(* Counts, lists, locks and the handshake with the GPU driver implement    *)
(* the promise of BafsMemAbs: controllers get at memory only while it is   *)
(* pinned and mapped by the process, no munmap or callback leaves a        *)
(* mapping behind, and a registration that has ended stays ended.          *)
MemImplementsAbs == Buf!Spec

(* A registration handed to kfree_rcu is freed in the end, also when the   *)
(* GPU callback is in progress at that moment.                             *)
ReleasedIsFreed ==
  \A m \in Mem : mem[m].heap = "limbo" ~> mem[m].heap = "freed" \/ fault # "none"

=============================================================================
