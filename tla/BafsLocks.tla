----------------------------- MODULE BafsLocks -----------------------------
(***************************************************************************)
(* Who waits for whom: the locks of the bafs kernel module and the mmap    *)
(* lock of a process, in the order in which the calls take them.  A call   *)
(* here is the waiting it may do: it stops before every spin_lock, before  *)
(* the mmap lock that the kernel takes around the mmap and vm_close        *)
(* handlers, and in every copy to or from the user, which may fault and    *)
(* then needs the mmap lock too.  What the calls do with the memory they   *)
(* lock is the matter of BafsMem; whether a lookup finds something, an     *)
(* allocation fails or a reference is the last one is left open.           *)
(*                                                                         *)
(* The last reference on a group is put when no other call has the group,  *)
(* so that __bafs_group_release never waits for group->lock; and BafsMem   *)
(* shows when the references put inside a ctx->lock or mem->lock region    *)
(* (core.c:305, mem.c:410) are never the last.  Neither is a step here.    *)
(***************************************************************************)
EXTENDS Integers, FiniteSets

CONSTANTS
  Thread,   \* threads of the processes
  Proc,     \* processes, each with one context
  Mem,      \* registrations
  Group,    \* groups of controllers
  ProcOf,   \* the process of a thread
  OwnerOf,  \* the process of a registration
  NCtrls,   \* controllers in a group
  NULL

ASSUME ConstantsAssumption ==
  /\ IsFiniteSet(Thread)
  /\ ProcOf \in [Thread -> Proc] /\ OwnerOf \in [Mem -> Proc]
  /\ NCtrls \in Nat \ {0}
  /\ NULL \notin Thread \cup Mem \cup Group

VARIABLES
  lock,  \* the thread that holds a lock, or NULL
  th     \* program counter and locals of each thread

vars == <<lock, th>>

MemLock(m)   == <<"mem", m>>
GroupLock(g) == <<"group", g>>
CtxLock(t)   == <<"ctx", ProcOf[t]>>
MmapLock(t)  == <<"mmap", ProcOf[t]>>

Lock == ({"mmap", "ctx"} \X Proc) \cup ({"mem"} \X Mem) \cup ({"group"} \X Group)

Idle == [op |-> "none", pc |-> "idle", m |-> NULL, g |-> NULL, at |-> NULL,
         rest |-> {}, left |-> 0, mine |-> 0, ret |-> "idle", faults |-> FALSE]

Init ==
  /\ lock = [l \in Lock |-> NULL]
  /\ th = [t \in Thread |-> Idle]

----------------------------------------------------------------------------
(* Control. *)

At(t, pc) == th[t].pc = pc

Goto(t, pc) == th' = [th EXCEPT ![t].pc = pc]

Go(t, pc) == Goto(t, pc) /\ UNCHANGED lock

Call(t, op, pc, m, g, left) ==
  /\ At(t, "idle")
  /\ th' = [th EXCEPT ![t] = [Idle EXCEPT !.op = op, !.pc = pc, !.m = m, !.g = g,
                                          !.left = left]]
  /\ UNCHANGED lock

Return(t) ==
  /\ At(t, "return")
  /\ th' = [th EXCEPT ![t] = Idle]
  /\ UNCHANGED lock

Hold(t, l) == lock[l] = NULL /\ lock' = [lock EXCEPT ![l] = t]

Drop(l) == lock' = [lock EXCEPT ![l] = NULL]

Take(t, l, pc, next) == At(t, pc) /\ Hold(t, l) /\ Goto(t, next)

Give(t, l, pc, next) == At(t, pc) /\ Drop(l) /\ Goto(t, next)

(* copy_to_user and copy_from_user succeed or fail, at once or after a     *)
(* page fault, which waits for the mmap lock and lets it go again.         *)
Copy(t, pc, ok, failed) ==
  /\ At(t, pc)
  /\ th[t].faults => lock[MmapLock(t)] = NULL
  /\ \E next \in {ok, failed} :
       th' = [th EXCEPT ![t].pc = next, ![t].faults = FALSE]
  /\ UNCHANGED lock

CopyPc == {"map_in", "map_dma", "map_copy", "reg_in", "reg_copy"}

Faults(t) ==
  /\ th[t].pc \in CopyPc
  /\ ~th[t].faults
  /\ th' = [th EXCEPT ![t].faults = TRUE]
  /\ UNCHANGED lock

Owned(t) == {m \in Mem : OwnerOf[m] = ProcOf[t]}

----------------------------------------------------------------------------
(* bafs_mem_put, and __bafs_mem_release when it is the last reference *)

Put(t, pc, next) ==
  /\ At(t, pc)
  /\ \E last \in BOOLEAN :
       th' = [th EXCEPT ![t].pc = IF last THEN "rel_ctx" ELSE next, ![t].ret = next]
  /\ UNCHANGED lock

RelCtx(t)    == Take(t, CtxLock(t), "rel_ctx", "rel_unlink")
RelUnlink(t) == Give(t, CtxLock(t), "rel_unlink", "rel_mem")
RelMem(t)    == Take(t, MemLock(th[t].m), "rel_mem", "rel_free")
RelFree(t)   == Give(t, MemLock(th[t].m), "rel_free", th[t].ret)

----------------------------------------------------------------------------
(* The list of a context: bafs_get_mem_with_ctx, and the release of a      *)
(* file, which looks at all of it                                          *)

WalkStart(t, pc) ==
  /\ At(t, pc)
  /\ Hold(t, CtxLock(t))
  /\ th' = [th EXCEPT ![t].pc = "walk", ![t].rest = Owned(t)]

(* Mutant: the walk goes on from the element it has just looked at, which  *)
(* may have been taken off the list by then.                               *)
WalkNext_fromRemoved(t) ==
  /\ At(t, "walk")
  /\ \E m \in th[t].rest :
       th' = [th EXCEPT ![t].pc = "walk_mem", ![t].at = m]
  /\ UNCHANGED lock

WalkNext(t) ==
  /\ At(t, "walk")
  /\ \E m \in th[t].rest :
       th' = [th EXCEPT ![t].pc = "walk_mem", ![t].at = m, ![t].rest = @ \ {m}]
  /\ UNCHANGED lock

WalkMem(t) == Take(t, MemLock(th[t].at), "walk_mem", "walk_look")

WalkLook(t) ==
  \E next \in {"walk"} \cup {pc \in {"walk_found"} : th[t].at = th[t].m} :
    Give(t, MemLock(th[t].at), "walk_look", next)

WalkFound(t) == Give(t, CtxLock(t), "walk_found", "map_dma")

WalkEnd(t) ==
  /\ th[t].rest = {}
  /\ Give(t, CtxLock(t), "walk", IF th[t].op = "close" THEN "return" ELSE "map_undo")

----------------------------------------------------------------------------
(* The DMA_MAP_MEM ioctl of a controller ("map") and of a group ("gmap"):  *)
(* m is the registration at the address, left counts the controllers still *)
(* to map for and mine the mappings made.                                  *)

MapStart(t, m, g) ==
  /\ OwnerOf[m] = ProcOf[t]
  /\ Call(t, IF g = NULL THEN "map" ELSE "gmap", "map_in", m, g,
          IF g = NULL THEN 1 ELSE NCtrls)

MapIn(t) == Copy(t, "map_in", IF th[t].g = NULL THEN "map_ctx" ELSE "map_group", "return")

MapGroup(t) == Take(t, GroupLock(th[t].g), "map_group", "map_alloc")

MapAlloc(t) ==
  /\ At(t, "map_alloc")
  /\ \E next \in {"map_ctx", "map_unlock"} : Go(t, next)

MapCtx(t) == WalkStart(t, "map_ctx")

(* The DMA mapping is made and its addresses are copied out. *)
MapDma(t) == Copy(t, "map_dma", "map_link", "map_put")

MapLink(t) == Take(t, MemLock(th[t].m), "map_link", "map_linked")

MapLinked(t) ==
  /\ At(t, "map_linked")
  /\ Drop(MemLock(th[t].m))
  /\ th' = [th EXCEPT ![t].pc = IF th[t].left = 1 THEN "map_copy" ELSE "map_ctx",
                      ![t].left = @ - 1, ![t].mine = @ + 1]

MapCopy(t) == Copy(t, "map_copy", "map_unlock", "map_undo")

(* bafs_ctrl_dma_unmap_mem of the mappings made *)
MapUndo(t) ==
  /\ th[t].mine > 0
  /\ Take(t, MemLock(th[t].m), "map_undo", "map_unmap")

MapUnmap(t) ==
  /\ At(t, "map_unmap")
  /\ Drop(MemLock(th[t].m))
  /\ th' = [th EXCEPT ![t].pc = "map_put", ![t].mine = @ - 1]

MapPut(t) == Put(t, "map_put", "map_undo")

MapUndone(t) == At(t, "map_undo") /\ th[t].mine = 0 /\ Go(t, "map_unlock")

MapUnlock(t) ==
  /\ At(t, "map_unlock")
  /\ IF th[t].g = NULL THEN UNCHANGED lock ELSE Drop(GroupLock(th[t].g))
  /\ Goto(t, "return")

----------------------------------------------------------------------------
(* mmap and munmap, under the mmap lock: of the BAR 0 of a group or of a   *)
(* controller (g = NULL), and of a registration                            *)

BarStart(t, g)   == Call(t, "bar", "mm_lock", NULL, g, 0)
PinStart(t, m)   == OwnerOf[m] = ProcOf[t] /\ Call(t, "pin", "mm_lock", m, NULL, 0)
UnmapStart(t, m) == OwnerOf[m] = ProcOf[t] /\ Call(t, "unmap", "mm_lock", m, NULL, 0)

MmLock(t) ==
  Take(t, MmapLock(t), "mm_lock",
       CASE th[t].op = "pin"   -> "pin_ctx"
         [] th[t].op = "unmap" -> "unmap_mem"
         [] th[t].op = "bar"   -> IF th[t].g = NULL THEN "mm_unlock" ELSE "bar_group")

BarGroup(t) == Take(t, GroupLock(th[t].g), "bar_group", "bar_map")
BarMap(t)   == Give(t, GroupLock(th[t].g), "bar_map", "mm_unlock")

(* The handle may be unknown. *)
PinCtx(t)  == Take(t, CtxLock(t), "pin_ctx", "pin_load")
PinLoad(t) == \E next \in {"pin_mem", "mm_unlock"} : Give(t, CtxLock(t), "pin_load", next)
PinMem(t)  == Take(t, MemLock(th[t].m), "pin_mem", "pin_do")
PinDo(t)   == Give(t, MemLock(th[t].m), "pin_do", "mm_put")

UnmapMem(t) == Take(t, MemLock(th[t].m), "unmap_mem", "unmap_do")
UnmapDo(t)  == Give(t, MemLock(th[t].m), "unmap_do", "mm_put")

MmPut(t)    == Put(t, "mm_put", "mm_unlock")
MmUnlock(t) == Give(t, MmapLock(t), "mm_unlock", "return")

----------------------------------------------------------------------------
(* The REG_MEM ioctl, the release of a file and the GPU driver's callback *)

RegStart(t)   == Call(t, "reg", "reg_in", NULL, NULL, 0)
CloseStart(t) == Call(t, "close", "close_ctx", NULL, NULL, 0)
CbStart(t, m) == Call(t, "cb", "cb_mem", m, NULL, 0)

RegIn(t)  == Copy(t, "reg_in", "reg_ctx", "return")
RegCtx(t) == Take(t, CtxLock(t), "reg_ctx", "reg_insert")

(* Mutant: the handle is copied out before ctx->lock is dropped. *)
RegInsert_locked(t) ==
  \/ Give(t, CtxLock(t), "reg_insert", "return")
  \/ At(t, "reg_insert") /\ Go(t, "reg_copy")

RegInsert(t) == \E next \in {"reg_copy", "return"} : Give(t, CtxLock(t), "reg_insert", next)

RegCopy(t)  == Copy(t, "reg_copy", "return", "reg_undo")
RegUndo(t)  == Take(t, CtxLock(t), "reg_undo", "reg_erase")
RegErase(t) == Give(t, CtxLock(t), "reg_erase", "return")

CloseCtx(t) == WalkStart(t, "close_ctx")

CbMem(t) == Take(t, MemLock(th[t].m), "cb_mem", "cb_run")
CbRun(t) == Give(t, MemLock(th[t].m), "cb_run", "return")

----------------------------------------------------------------------------

Client(t) ==
  \/ \E m \in Mem : \E g \in Group \cup {NULL} : MapStart(t, m, g)
  \/ \E g \in Group \cup {NULL} : BarStart(t, g)
  \/ \E m \in Mem : PinStart(t, m) \/ UnmapStart(t, m) \/ CbStart(t, m)
  \/ RegStart(t) \/ CloseStart(t)

(* The next step of a call in flight. *)
Step(t) ==
  \/ Faults(t) \/ Return(t)
  \/ RelCtx(t) \/ RelUnlink(t) \/ RelMem(t) \/ RelFree(t)
  \/ WalkNext(t) \/ WalkMem(t) \/ WalkLook(t) \/ WalkFound(t) \/ WalkEnd(t)
  \/ MapIn(t) \/ MapGroup(t) \/ MapAlloc(t) \/ MapCtx(t) \/ MapDma(t) \/ MapLink(t)
  \/ MapLinked(t) \/ MapCopy(t) \/ MapUndo(t) \/ MapUnmap(t) \/ MapPut(t)
  \/ MapUndone(t) \/ MapUnlock(t)
  \/ MmLock(t) \/ MmPut(t) \/ MmUnlock(t) \/ BarGroup(t) \/ BarMap(t)
  \/ PinCtx(t) \/ PinLoad(t) \/ PinMem(t) \/ PinDo(t) \/ UnmapMem(t) \/ UnmapDo(t)
  \/ RegIn(t) \/ RegCtx(t) \/ RegInsert(t) \/ RegCopy(t) \/ RegUndo(t) \/ RegErase(t)
  \/ CloseCtx(t) \/ CbMem(t) \/ CbRun(t)

Next == \E t \in Thread : Client(t) \/ Step(t)

Spec == Init /\ [][Next]_vars

(* A thread in a call is scheduled again and again, and the spinlocks and  *)
(* the mmap lock are handed over in the order of arrival, so it gets a     *)
(* lock that becomes free often enough.  Nothing is assumed about the      *)
(* processes: they need not make any call.                                 *)
FairSpec == Spec /\ \A t \in Thread : SF_vars(Step(t))

----------------------------------------------------------------------------
(* Properties. *)

(* The lock thread t needs for its next step. *)
Needs(t) ==
  CASE th[t].faults                                          -> MmapLock(t)
    [] At(t, "mm_lock")                                      -> MmapLock(t)
    [] th[t].pc \in {"map_ctx", "pin_ctx", "rel_ctx", "reg_ctx", "reg_undo",
                     "close_ctx"}                            -> CtxLock(t)
    [] At(t, "walk_mem")                                     -> MemLock(th[t].at)
    [] th[t].pc \in {"map_link", "pin_mem", "unmap_mem", "rel_mem", "cb_mem"}
                                                             -> MemLock(th[t].m)
    [] At(t, "map_undo") /\ th[t].mine > 0                   -> MemLock(th[t].m)
    [] th[t].pc \in {"map_group", "bar_group"}               -> GroupLock(th[t].g)
    [] OTHER                                                 -> NULL

(* The thread that has it. *)
Blocker(t) == IF Needs(t) = NULL THEN NULL ELSE lock[Needs(t)]

(* The threads t waits for, directly or through others. *)
WaitsFor(t) ==
  LET nth[k \in 1 .. Cardinality(Thread)] ==
        IF k = 1 THEN Blocker(t)
        ELSE IF nth[k - 1] = NULL THEN NULL ELSE Blocker(nth[k - 1])
  IN {nth[k] : k \in 1 .. Cardinality(Thread)} \ {NULL}

Deadlocked(t) == t \in WaitsFor(t)

(* Whatever calls overlap, threads wait for each other in a circle in one  *)
(* way only: an mmap of a group's BARs has the mmap lock and waits for     *)
(* group->lock (group.c:286), which a DMA_MAP_MEM on the group holds while *)
(* a copy to the user faults and waits for the mmap lock (group.c:71 to    *)
(* 96).  All other nestings of the five kinds of locks agree in their      *)
(* order, on all error paths too.                                          *)
OneInversion ==
  \A t \in Thread : Deadlocked(t) =>
    \/ At(t, "bar_group")
    \/ th[t].op = "gmap" /\ th[t].faults /\ At(Blocker(t), "bar_group")

(* Every system call and every GPU callback returns, whatever it overlaps, *)
(* unless threads have come to wait for each other in a circle, which      *)
(* OneInversion is about: no thread waits forever for a lock that an error *)
(* path forgot to drop, or in a walk that does not end.                    *)
CallsReturn ==
  \A t \in Thread :
    th[t].op # "none" ~> th[t].op = "none" \/ \E u \in Thread : Deadlocked(u)
=============================================================================
