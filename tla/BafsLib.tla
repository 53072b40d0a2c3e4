------------------------------ MODULE BafsLib ------------------------------
(***************************************************************************)
(* The user library (lib/src/bafs.c) in one process with several threads,  *)
(* on top of what the driver promises: the core device can be opened only  *)
(* by a process that has no other file of the driver open (BafsCtx), an    *)
(* ioctl must have the type of the file it is made on, a group gets the    *)
(* lowest free number, and a handle is looked up by the page offset of the *)
(* mapping (pin_bafs_mem).                                                 *)
(*                                                                         *)
(* The library's only state of its own is the descriptor bafs_core_fd,     *)
(* which the first call that needs it opens, without a lock.               *)
(***************************************************************************)
EXTENDS Integers, FiniteSets

CONSTANTS
  Thread,    \* threads of the process
  Ctrl,      \* controllers: /dev/bafsc<i>
  MaxGroup,  \* largest group number: /dev/bafsg<i>
  MaxFd,     \* largest descriptor
  MaxReg,    \* bound on the registrations of the process
  PageSize,  \* of mmap
  Careful,   \* TRUE: the process keeps to the contract (see MayCall)
  Failures,  \* TRUE: system calls may fail for want of memory
  NULL

ASSUME LibAssumption ==
  /\ IsFiniteSet(Thread)
  /\ {MaxGroup, MaxFd, MaxReg} \subseteq Nat /\ PageSize \in Nat \ {0}
  /\ Careful \in BOOLEAN /\ Failures \in BOOLEAN
  /\ NULL \notin [set : SUBSET Ctrl, deleted : BOOLEAN]

Fd    == 0 .. MaxFd
Group == 0 .. MaxGroup

VARIABLES
  bafs_core_fd,
  fd,      \* the open files of the process: their kind, and what they are for
  group,   \* the groups that exist: their controllers, and whether they are deleted
  reg,     \* registrations of the process by handle: "none", "stale" or "live"
  mine,    \* the groups a thread has created and not deleted, with their controllers
  handle,  \* a thread's bafs_ctrl_t, or NULL
  th       \* program counter, locals and last result of each thread

vars == <<bafs_core_fd, fd, group, reg, mine, handle, th>>

Idle == [pc |-> "idle", op |-> "none", ret |-> "0", got |-> -1, arg |-> NULL]

NoFile == [kind |-> "none", of |-> NULL]

Init ==
  /\ bafs_core_fd = -1
  /\ fd = [f \in Fd |-> NoFile]
  /\ group = [g \in Group |-> NULL]
  /\ reg = [h \in 1 .. MaxReg |-> "none"]
  /\ mine = [t \in Thread |-> {}]
  /\ handle = [t \in Thread |-> NULL]
  /\ th = [t \in Thread |-> Idle]

At(t, pc) == th[t].pc = pc

Goto(t, pc) == th' = [th EXCEPT ![t].pc = pc]

(* The result: "0", the name of an errno, or "-1" from bafs_core_init. *)
Return(t, r) == th' = [th EXCEPT ![t] = [Idle EXCEPT !.op = th[t].op, !.ret = r]]

Lowest(S) == CHOOSE n \in S : \A m \in S : n <= m

FreeFd == {f \in Fd : fd[f] = NoFile}

(* The process has no context: no file of the driver open, and no range    *)
(* pinned, which would keep the file it was mapped through.                *)
NoContext ==
  /\ \A f \in Fd : fd[f] = NoFile
  /\ \A h \in 1 .. MaxReg : reg[h] # "live"

(* The contract: the first call that needs the core device returns before  *)
(* anything else is called and comes before any controller is opened; and  *)
(* a handle is not opened again while it is in use.                        *)
CoreOp == {"create", "delete"}

MayCall(t, op) ==
  /\ At(t, "idle")
  /\ Careful =>
       \/ bafs_core_fd >= 0
       \/ op \in CoreOp /\ NoContext /\ \A u \in Thread : At(u, "idle")
       \/ op \notin CoreOp /\ \A u \in Thread : ~At(u, "idle") => th[u].op \notin CoreOp

MayOpen(t) == MayCall(t, "open") /\ (Careful => handle[t] = NULL)

Begin(t, op, pc, arg) ==
  th' = [th EXCEPT ![t] = [Idle EXCEPT !.op = op, !.pc = pc, !.arg = arg]]

----------------------------------------------------------------------------
(* bafs_core_create_group and bafs_core_delete_group, with bafs_core_init. *)

(* Mutant: the descriptor is opened by every call. *)
CoreCall_reopens(t, op, arg) ==
  /\ MayCall(t, op)
  /\ Begin(t, op, "open", arg)
  /\ UNCHANGED <<bafs_core_fd, fd, group, reg, mine, handle>>

CoreCall(t, op, arg) ==
  /\ MayCall(t, op)
  /\ Begin(t, op, IF bafs_core_fd < 0 THEN "open" ELSE "ioctl", arg)
  /\ UNCHANGED <<bafs_core_fd, fd, group, reg, mine, handle>>

CoreOpen(t) ==
  /\ At(t, "open")
  /\ NoContext
  /\ fd' = [fd EXCEPT ![Lowest(FreeFd)] = [kind |-> "core", of |-> NULL]]
  /\ th' = [th EXCEPT ![t].pc = "store", ![t].got = Lowest(FreeFd)]
  /\ UNCHANGED <<bafs_core_fd, group, reg, mine, handle>>

CoreOpenFails(t) ==
  /\ At(t, "open")
  /\ Failures \/ ~NoContext
  /\ th' = [th EXCEPT ![t].pc = "store", ![t].got = -1]
  /\ UNCHANGED <<bafs_core_fd, fd, group, reg, mine, handle>>

CoreStore(t) ==
  /\ At(t, "store")
  /\ bafs_core_fd' = th[t].got
  /\ Goto(t, "test")
  /\ UNCHANGED <<fd, group, reg, mine, handle>>

(* What bafs_core_init returns, its own value or what another thread has   *)
(* stored in between: the variable is not atomic.                          *)
CoreTest(t) ==
  /\ At(t, "test")
  /\ \E v \in {th[t].got, bafs_core_fd} :
       IF v < 0 THEN Return(t, "-1") ELSE Goto(t, "ioctl")
  /\ UNCHANGED <<bafs_core_fd, fd, group, reg, mine, handle>>

OnCore == bafs_core_fd >= 0

NewGroup(S) == [set |-> S, deleted |-> FALSE]

FreeGroup == {g \in Group : group[g] = NULL}

(* The group takes the lowest free number, and the name /dev/bafsg<number> *)
(* is returned.                                                            *)
CreateIoctl(t) ==
  /\ At(t, "ioctl") /\ th[t].op = "create"
  /\ OnCore
  /\ FreeGroup # {}
  /\ group' = [group EXCEPT ![Lowest(FreeGroup)] = NewGroup(th[t].arg)]
  /\ mine' = [mine EXCEPT ![t] = @ \cup {<<Lowest(FreeGroup), th[t].arg>>}]
  /\ Return(t, "0")
  /\ UNCHANGED <<bafs_core_fd, fd, reg, handle>>

(* No memory, no number, or the descriptor is gone. *)
IoctlFails(t) ==
  /\ At(t, "ioctl")
  /\ ~OnCore \/ (th[t].op = "create" /\ (Failures \/ FreeGroup = {}))
  /\ Return(t, IF OnCore THEN "ENOMEM" ELSE "EBADF")
  /\ UNCHANGED <<bafs_core_fd, fd, group, reg, mine, handle>>

(* The group is found by its name.  A group that a file has open lives on  *)
(* until the file is closed; its number is free then.                      *)
OpenOn(g) == {f \in Fd : fd[f].kind = "group" /\ fd[f].of[1] = g}

DeleteIoctl(t) ==
  LET g == th[t].arg[1]
  IN /\ At(t, "ioctl") /\ th[t].op = "delete"
     /\ OnCore
     /\ Return(t, IF group[g] = NULL THEN "EINVAL" ELSE "0")
     /\ group' = [group EXCEPT ![g] = IF @ # NULL /\ OpenOn(g) # {}
                                      THEN [@ EXCEPT !.deleted = TRUE] ELSE NULL]
     /\ mine' = [mine EXCEPT ![t] = @ \ {th[t].arg}]
     /\ UNCHANGED <<bafs_core_fd, fd, reg, handle>>

----------------------------------------------------------------------------
(* bafs_ctrl_open: the letter in the name decides the type of the handle.  *)

(* Mutant: the letters are mixed up. *)
TypeOf_swapped(letter) == IF letter = "g" THEN "ctrl" ELSE "group"

TypeOf(letter) == IF letter = "g" THEN "group" ELSE "ctrl"

CtrlOpen(t, letter, n, want) ==
  /\ MayOpen(t)
  /\ FreeFd # {}
  /\ letter = "g" => group[n] # NULL
  /\ LET f == Lowest(FreeFd)
     IN /\ fd' = [fd EXCEPT ![f] =
                    IF letter = "g" THEN [kind |-> "group", of |-> <<n, group[n].set>>]
                    ELSE [kind |-> "ctrl", of |-> <<n, {n}>>]]
        /\ handle' = [handle EXCEPT ![t] = [fd |-> f, type |-> TypeOf(letter),
                                            want |-> <<n, want>>]]
  /\ th' = [th EXCEPT ![t] = [Idle EXCEPT !.op = "open"]]
  /\ UNCHANGED <<bafs_core_fd, group, reg, mine>>

(* A name of another form. *)
CtrlOpenRefuses(t) ==
  /\ MayOpen(t)
  /\ th' = [th EXCEPT ![t] = [Idle EXCEPT !.op = "open", !.ret = "EINVAL"]]
  /\ UNCHANGED <<bafs_core_fd, fd, group, reg, mine, handle>>

(* The device does not exist: the type is set by then, also in a handle    *)
(* that keeps its file.                                                    *)
CtrlOpenFails(t) ==
  /\ MayOpen(t)
  /\ \E letter \in {"g", "c"} :
       handle' = IF handle[t] = NULL THEN handle
                 ELSE [handle EXCEPT ![t].type = TypeOf(letter)]
  /\ th' = [th EXCEPT ![t] = [Idle EXCEPT !.op = "open", !.ret = "ENOENT"]]
  /\ UNCHANGED <<bafs_core_fd, fd, group, reg, mine>>

(* The process closes the descriptor: the driver drops the registrations   *)
(* that are not pinned.                                                    *)
Close(t) ==
  /\ At(t, "idle")
  /\ handle[t] # NULL
  /\ \A u \in Thread : At(u, "idle")
  /\ fd' = [fd EXCEPT ![handle[t].fd] = NoFile]
  /\ reg' = [h \in 1 .. MaxReg |-> IF reg[h] = "stale" THEN "none" ELSE reg[h]]
  /\ group' = [g \in Group |->
                 IF /\ group[g] # NULL /\ group[g].deleted
                    /\ OpenOn(g) = {handle[t].fd}
                 THEN NULL ELSE group[g]]
  /\ handle' = [handle EXCEPT ![t] = NULL]
  /\ UNCHANGED <<bafs_core_fd, mine, th>>

----------------------------------------------------------------------------
(* bafs_ctrl_reg_mem, bafs_ctrl_pin_mem, bafs_ctrl_map and                 *)
(* bafs_ctrl_dma_map_mem.                                                  *)

(* The driver takes an ioctl only if its type is that of the file. *)
TypeMatches(t) == fd[handle[t].fd].kind = handle[t].type

FreeReg == {h \in 1 .. MaxReg : reg[h] = "none"}

(* bafs_ctrl_reg_mem on its own (op = "reg") or inside bafs_ctrl_map. *)
RegMem(t, op) ==
  /\ MayCall(t, op)
  /\ handle[t] # NULL
  /\ TypeMatches(t)
  /\ FreeReg # {}
  /\ reg' = [reg EXCEPT ![Lowest(FreeReg)] = "stale"]
  /\ IF op = "map" THEN Begin(t, op, "pin", Lowest(FreeReg))
     ELSE th' = [th EXCEPT ![t] = [Idle EXCEPT !.op = op]]
  /\ UNCHANGED <<bafs_core_fd, fd, group, mine, handle>>

RegMemFails(t, op) ==
  /\ MayCall(t, op)
  /\ handle[t] # NULL
  /\ Failures \/ ~TypeMatches(t)
  /\ th' = [th EXCEPT ![t] = [Idle EXCEPT !.op = op,
                              !.ret = IF TypeMatches(t) THEN "ENOMEM" ELSE "EINVAL"]]
  /\ UNCHANGED <<bafs_core_fd, fd, group, reg, mine, handle>>

PinMem(t, h) ==
  /\ MayCall(t, "pin")
  /\ handle[t] # NULL
  /\ reg[h] = "stale"
  /\ Begin(t, "pin", "pin", h)
  /\ UNCHANGED <<bafs_core_fd, fd, group, reg, mine, handle>>

(* The handle is the byte offset of mmap: the kernel wants a multiple of   *)
(* the page size and gives the driver the number of the page.              *)
Offset(h) == h

(* mmap: page 0 is the registers of the controller, page n the             *)
(* registration whose handle is n.                                         *)
Mmap(t) ==
  /\ At(t, "pin")
  /\ LET off   == Offset(th[t].arg)
         page  == off \div PageSize
         found == page > 0 /\ reg[page] # "none"
         ok    == off % PageSize = 0 /\ (page = 0 \/ found)
     IN /\ Return(t, IF ok THEN "0" ELSE "EINVAL")
        /\ reg' = [h \in 1 .. MaxReg |-> IF ok /\ h = page THEN "live" ELSE reg[h]]
  /\ UNCHANGED <<bafs_core_fd, fd, group, mine, handle>>

(* DMA_MAP_MEM of a range that is pinned; the mappings are in BafsDmaMap.  *)
DmaMapMem(t, h) ==
  /\ MayCall(t, "dma")
  /\ handle[t] # NULL
  /\ th' = [th EXCEPT ![t] = [Idle EXCEPT !.op = "dma",
                              !.ret = IF TypeMatches(t) /\ reg[h] = "live"
                                      THEN "0" ELSE "EINVAL"]]
  /\ UNCHANGED <<bafs_core_fd, fd, group, reg, mine, handle>>

----------------------------------------------------------------------------
(* The groups t may name: its own, or any that exists or has existed.      *)
Names(t) ==
  IF Careful THEN mine[t] ELSE UNION {mine[u] : u \in Thread}

(* What deleting a group twice does to it is in BafsDev: here no one does. *)
DeletedOnce(g) ==
  /\ group[g[1]] # NULL => ~group[g[1]].deleted
  /\ \A u \in Thread : ~At(u, "idle") /\ th[u].op = "delete" => th[u].arg[1] # g[1]

Call(t) ==
  \/ \E S \in (SUBSET Ctrl) \ {{}} : CoreCall(t, "create", S)
  \/ \E g \in Names(t) : CtrlOpen(t, "g", g[1], g[2])
  \/ \E g \in Names(t) : DeletedOnce(g) /\ CoreCall(t, "delete", g)
  \/ \E c \in Ctrl : CtrlOpen(t, "c", c, {c})
  \/ CtrlOpenRefuses(t) \/ CtrlOpenFails(t)
  \/ \E op \in {"reg", "map"} : RegMem(t, op) \/ RegMemFails(t, op)
  \/ \E h \in 1 .. MaxReg : PinMem(t, h) \/ DmaMapMem(t, h)
  \/ Close(t)

Step(t) ==
  \/ CoreOpen(t) \/ CoreOpenFails(t) \/ CoreStore(t) \/ CoreTest(t)
  \/ CreateIoctl(t) \/ DeleteIoctl(t) \/ IoctlFails(t) \/ Mmap(t)

Next == \E t \in Thread : Call(t) \/ Step(t)

Spec == Init /\ [][Next]_vars

----------------------------------------------------------------------------
(* Properties. *)

(* When no call is opening it, an open core file is the one bafs_core_fd   *)
(* names: no thread's first call leaves a descriptor that is lost, and     *)
(* with it a context that keeps the core device from being opened again.   *)
CoreKept ==
  (\A t \in Thread : th[t].pc \notin {"open", "store"}) =>
    \A f \in Fd : fd[f].kind = "core" => bafs_core_fd = f

(* A thread's handle has the type of the file it has open and stands for   *)
(* the controllers the thread asked for, though group numbers are used     *)
(* again as soon as they are free.                                         *)
HandleIsRight ==
  \A t \in Thread : handle[t] # NULL =>
    TypeMatches(t) /\ fd[handle[t].fd].of = handle[t].want

(* tests/dma_map_cpu_mem.c registers and pins memory with bafs_ctrl_map    *)
(* and goes on with "Successfully registered and pinned memory": the call  *)
(* succeeds when no system call runs out of memory.                        *)
MapSucceeds ==
  \A t \in Thread : At(t, "idle") /\ th[t].op = "map" => th[t].ret = "0"
=============================================================================
