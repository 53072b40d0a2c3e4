------------------------------ MODULE BafsDev ------------------------------
(***************************************************************************)
(* The life of the device objects of the bafs kernel module: controllers   *)
(* (struct bafs_ctrl, one per bound PCI function) and groups of them       *)
(* (struct bafs_group), with the character devices, minor numbers, PCI     *)
(* resources and references that come and go with them: the probe and      *)
(* remove handlers and the group ioctls of core.c, ctrl.c and group.c.     *)
(*                                                                         *)
(* Nothing but reference counts protects these objects, so a call is split *)
(* at every point where another thread may take or drop a reference, or    *)
(* see an object that is half made or half taken down.  As in BafsMem, a   *)
(* step that would touch freed memory or revive a count of zero is a fault *)
(* and ends the behaviour.                                                 *)
(***************************************************************************)
EXTENDS Integers, FiniteSets, Sequences

CONSTANTS
  Thread,   \* threads that make system calls or handle PCI events
  Pdev,     \* PCI functions with an NVMe controller
  Ctrl,     \* struct bafs_ctrl objects; bounds the number of probes
  Group,    \* struct bafs_group objects; bounds the number of groups made
  Names,    \* lists of controllers the CREATE_GROUP ioctl is called with
  File,     \* open files; bounds the number of opens
  Minor,    \* minor numbers of the model
  MaxKept,  \* bound on the references that outlive the calls, per object
  Overlap,  \* {o1, o2} \in Overlap: calls o1 and o2 may be in flight at once
  Protocol, \* TRUE: only devices that are ready are named (see Client)
  NULL

Op  == {"probe", "remove", "create", "delete", "open", "close", "ioctl", "mmap",
        "munmap"}
Dev == Ctrl \cup Group

ASSUME ConstantsAssumption ==
  /\ IsFiniteSet(Thread) /\ IsFiniteSet(File) /\ IsFiniteSet(Ctrl)
  /\ IsFiniteSet(Group) /\ IsFiniteSet(Minor)
  /\ Ctrl \cap Group = {}
  /\ Names \subseteq Seq(Ctrl)
  /\ Minor \subseteq Nat
  /\ MaxKept \in Nat
  /\ Overlap \subseteq SUBSET Op
  /\ Protocol \in BOOLEAN
  /\ NULL \notin Dev \cup Pdev \cup File \cup Minor

VARIABLES
  pci,     \* driver data, bus mastering, BAR 0 owner, enable count of a function
  dev,     \* the bafs_ctrl and bafs_group objects
  minors,  \* bafs_minor_ida
  coreRef, \* references that controllers and groups hold on the core device
  found,   \* references device_find_child_by_name left on a device
  kept,    \* references on an object that outlive the call that took them
  mapped,  \* those of them that a DMA mapping has: munmap puts them
  file,    \* the object file->private_data refers to, or NULL
  ready,   \* devices whose creation has returned and whose removal has not begun
  th,      \* program counter and locals of each thread
  fault    \* "none", or the memory error that happened

kernVars == <<pci, minors, coreRef, found>>
vars     == <<kernVars, dev, kept, mapped, file, ready, th, fault>>

----------------------------------------------------------------------------
(* Objects. *)

Idle == [op |-> "none", pc |-> "idle", o |-> NULL, p |-> NULL, f |-> NULL,
         left |-> <<>>, stack |-> <<>>]

Unused == [heap |-> "unused", ref |-> 0, cdev |-> FALSE, shown |-> FALSE,
           minor |-> NULL, pdev |-> NULL, ctrls |-> <<>>]

Init ==
  /\ pci     = [p \in Pdev |-> [drv |-> NULL, bound |-> FALSE, master |-> FALSE,
                                region |-> NULL, enabled |-> 0]]
  /\ dev     = [o \in Dev |-> Unused]
  /\ minors  = {}
  /\ coreRef = 0
  /\ found   = [o \in Dev |-> 0]
  /\ kept    = [o \in Dev |-> 0]
  /\ mapped  = [o \in Dev |-> 0]
  /\ file    = [f \in File |-> NULL]
  /\ ready   = {}
  /\ th      = [t \in Thread |-> Idle]
  /\ fault   = "none"

----------------------------------------------------------------------------
(* Control. *)

At(t, pc) == th[t].pc = pc

Goto(t, pc) == th' = [th EXCEPT ![t].pc = pc]

Return(t) == th' = [th EXCEPT ![t] = Idle]

Call(t, o, p, f, op, pc) ==
  th' = [th EXCEPT ![t] = [Idle EXCEPT !.op = op, !.pc = pc, !.o = o, !.p = p, !.f = f]]

MayStart(t, op) ==
  /\ At(t, "idle")
  /\ fault = "none"
  /\ \A u \in Thread \ {t} : th[u].op # "none" => {op, th[u].op} \in Overlap

(* The object whose count or fields the next step of t touches. *)
Target(t) ==
  CASE th[t].pc \in {"create_get", "create_undo", "rel_ctrls"} /\ th[t].left # <<>> ->
         Head(th[t].left)
    [] th[t].pc \in {"open_get", "put", "ioctl_get", "ioctl_map", "mmap_get",
                     "mmap_do"} -> th[t].o
    [] OTHER -> NULL

(* CREATE_GROUP reads the name of the new device, which a DELETE_GROUP may  *)
(* have destroyed by then.                                                 *)
UseAfterFree(t) ==
  \/ Target(t) # NULL /\ dev[Target(t)].heap = "freed"
  \/ At(t, "create_copy") /\ ~dev[th[t].o].shown

(* kref_get or kref_put on a count that is zero. *)
DeadRef(t) == Target(t) # NULL /\ dev[Target(t)].ref = 0

(* bafs_core_delete_group does not look at the class of the device. *)
WrongType(t) == th[t].op = "delete" /\ At(t, "put") /\ th[t].o \in Ctrl

Runs(t, pc) ==
  /\ At(t, pc)
  /\ fault = "none"
  /\ ~UseAfterFree(t) /\ ~DeadRef(t) /\ ~WrongType(t)

----------------------------------------------------------------------------
(* Minor numbers and references. *)

(* ida_simple_get takes the lowest free number. *)
FreeMinor(n) == n \in Minor \ minors /\ \A k \in Minor \ minors : n <= k

(* kref_put: the last reference runs the release handler of the object,    *)
(* which then comes back to the step next.                                 *)
Put(t, o, next, left) ==
  /\ dev' = [dev EXCEPT ![o].ref = @ - 1]
  /\ th' = IF dev[o].ref = 1
           THEN [th EXCEPT ![t].pc = IF o \in Ctrl THEN "rel_dev" ELSE "relg_dev",
                           ![t].o = o,
                           ![t].left = dev[o].ctrls,
                           ![t].stack = <<[pc |-> next, o |-> th[t].o,
                                           left |-> left]>> \o @]
           ELSE [th EXCEPT ![t].pc = next, ![t].left = left]

(* The end of a release handler. *)
Back(t) ==
  LET s == Head(th[t].stack)
  IN th' = [th EXCEPT ![t].pc = s.pc, ![t].o = s.o, ![t].left = s.left,
                      ![t].stack = Tail(@)]

(* The calls that end with a put go through this step. *)
PutLast(t) ==
  /\ Runs(t, "put")
  /\ Put(t, th[t].o, "ret", <<>>)
  /\ UNCHANGED <<kernVars, kept, mapped, file, ready, fault>>

ReturnLast(t) ==
  /\ Runs(t, "ret")
  /\ Return(t)
  /\ pci' = IF th[t].op = "remove"
            THEN [pci EXCEPT ![th[t].p].bound = FALSE, ![th[t].p].drv = NULL]
            ELSE pci
  /\ UNCHANGED <<minors, coreRef, found, dev, kept, mapped, file, ready, fault>>

----------------------------------------------------------------------------
(* __bafs_ctrl_release *)

(* device_destroy, put_device on the core device, cdev_del *)
RelDev(t) ==
  /\ Runs(t, "rel_dev")
  /\ dev' = [dev EXCEPT ![th[t].o].shown = FALSE, ![th[t].o].cdev = FALSE]
  /\ coreRef' = coreRef - 1
  /\ Goto(t, "rel_pci")
  /\ UNCHANGED <<pci, minors, found, kept, mapped, file, ready, fault>>

(* pci_disable_device, pci_release_region *)
RelPci(t) ==
  /\ Runs(t, "rel_pci")
  /\ LET p == dev[th[t].o].pdev
     IN pci' = [pci EXCEPT ![p].enabled = @ - 1, ![p].region = NULL]
  /\ Goto(t, "rel_free")
  /\ UNCHANGED <<minors, coreRef, found, dev, kept, mapped, file, ready, fault>>

(* pci_clear_master, the numbers and the memory *)
RelFree(t) ==
  /\ Runs(t, "rel_free")
  /\ LET o == th[t].o
     IN /\ pci' = [pci EXCEPT ![dev[o].pdev].master = FALSE]
        /\ minors' = minors \ {dev[o].minor}
        /\ dev' = [dev EXCEPT ![o].heap = "freed"]
  /\ Back(t)
  /\ UNCHANGED <<coreRef, found, kept, mapped, file, ready, fault>>

----------------------------------------------------------------------------
(* __bafs_group_release *)

RelGroupDev(t) ==
  /\ Runs(t, "relg_dev")
  /\ dev' = [dev EXCEPT ![th[t].o].shown = FALSE]
  /\ Goto(t, "rel_ctrls")
  /\ UNCHANGED <<kernVars, kept, mapped, file, ready, fault>>

RelGroupCtrl(t) ==
  /\ Runs(t, "rel_ctrls")
  /\ th[t].left # <<>>
  /\ Put(t, Head(th[t].left), "rel_ctrls", Tail(th[t].left))
  /\ UNCHANGED <<kernVars, kept, mapped, file, ready, fault>>

RelGroupFree(t) ==
  /\ Runs(t, "rel_ctrls")
  /\ th[t].left = <<>>
  /\ LET g == th[t].o
     IN /\ minors' = minors \ {dev[g].minor}
        /\ dev' = [dev EXCEPT ![g].heap = "freed", ![g].cdev = FALSE]
  /\ coreRef' = coreRef - 1
  /\ Back(t)
  /\ UNCHANGED <<pci, found, kept, mapped, file, ready, fault>>

----------------------------------------------------------------------------
(* bafs_ctrl_pci_probe and bafs_ctrl_alloc.  The driver core calls probe   *)
(* and remove of one function one after the other.                         *)

PciIdle(p) == \A u \in Thread : th[u].p # p

ProbeStart(t, p, c) ==
  /\ MayStart(t, "probe")
  /\ PciIdle(p)
  /\ ~pci[p].bound
  /\ dev[c].heap = "unused"
  /\ dev' = [dev EXCEPT ![c].heap = "live", ![c].pdev = p]
  /\ pci' = [pci EXCEPT ![p].master = TRUE, ![p].drv = c]
  /\ Call(t, c, p, NULL, "probe", "probe_region")
  /\ UNCHANGED <<minors, coreRef, found, kept, mapped, file, ready, fault>>

(* out_clear_pci_drvdata, after the steps above it. *)
ProbeUndo(t, region, enabled) ==
  LET p == th[t].p
  IN /\ pci' = [pci EXCEPT ![p].drv = NULL, ![p].master = FALSE,
                           ![p].region = region, ![p].enabled = enabled]
     /\ dev' = [dev EXCEPT ![th[t].o].heap = "freed", ![th[t].o].cdev = FALSE]
     /\ Return(t)

(* Mutant: the region is taken though another controller has it. *)
ProbeRegion_noCheck(t) ==
  /\ Runs(t, "probe_region")
  /\ pci' = [pci EXCEPT ![th[t].p].region = th[t].o]
  /\ Goto(t, "probe_add")
  /\ UNCHANGED <<minors, coreRef, found, dev, kept, mapped, file, ready, fault>>

ProbeRegion(t) ==
  /\ Runs(t, "probe_region")
  /\ pci[th[t].p].region = NULL
  /\ pci' = [pci EXCEPT ![th[t].p].region = th[t].o]
  /\ Goto(t, "probe_add")
  /\ UNCHANGED <<minors, coreRef, found, dev, kept, mapped, file, ready, fault>>

(* A controller of this function that is still in use has the region. *)
ProbeRegionFails(t) ==
  /\ Runs(t, "probe_region")
  /\ pci[th[t].p].region # NULL
  /\ ProbeUndo(t, pci[th[t].p].region, pci[th[t].p].enabled)
  /\ UNCHANGED <<minors, coreRef, found, kept, mapped, file, ready, fault>>

(* The function is enabled, the numbers are got, the cdev is added and the *)
(* reference on the core device is taken.                                  *)
ProbeAdd(t) ==
  /\ Runs(t, "probe_add")
  /\ \E n \in Minor :
       /\ FreeMinor(n)
       /\ minors' = minors \cup {n}
       /\ dev' = [dev EXCEPT ![th[t].o].minor = n, ![th[t].o].cdev = TRUE]
  /\ pci' = [pci EXCEPT ![th[t].p].enabled = @ + 1]
  /\ coreRef' = coreRef + 1
  /\ Goto(t, "probe_dev")
  /\ UNCHANGED <<found, kept, mapped, file, ready, fault>>

(* Mutant: the region is not released. *)
ProbeAddFails_keepsRegion(t) ==
  /\ Runs(t, "probe_add")
  /\ ProbeUndo(t, th[t].o, pci[th[t].p].enabled)
  /\ UNCHANGED <<minors, coreRef, found, kept, mapped, file, ready, fault>>

ProbeAddFails(t) ==
  /\ Runs(t, "probe_add")
  /\ ProbeUndo(t, NULL, pci[th[t].p].enabled)
  /\ UNCHANGED <<minors, coreRef, found, kept, mapped, file, ready, fault>>

ProbeDev(t) ==
  /\ Runs(t, "probe_dev")
  /\ dev' = [dev EXCEPT ![th[t].o].shown = TRUE]
  /\ Goto(t, "probe_ref")
  /\ UNCHANGED <<kernVars, kept, mapped, file, ready, fault>>

(* out_cdev_del and everything below it *)
ProbeDevFails(t) ==
  /\ Runs(t, "probe_dev")
  /\ ProbeUndo(t, NULL, pci[th[t].p].enabled - 1)
  /\ minors' = minors \ {dev[th[t].o].minor}
  /\ coreRef' = coreRef - 1
  /\ UNCHANGED <<found, kept, mapped, file, ready, fault>>

(* kref_init, when the device has been visible for a while *)
ProbeRef(t) ==
  /\ Runs(t, "probe_ref")
  /\ dev' = [dev EXCEPT ![th[t].o].ref = 1]
  /\ pci' = [pci EXCEPT ![th[t].p].bound = TRUE]
  /\ ready' = ready \cup {th[t].o}
  /\ Return(t)
  /\ UNCHANGED <<minors, coreRef, found, kept, mapped, file, fault>>

(* bafs_ctrl_pci_remove drops the reference of the probe. *)
RemoveStart(t, p) ==
  /\ MayStart(t, "remove")
  /\ PciIdle(p)
  /\ pci[p].bound
  /\ ready' = ready \ {pci[p].drv}
  /\ Call(t, pci[p].drv, p, NULL, "remove", "put")
  /\ UNCHANGED <<kernVars, dev, kept, mapped, file, fault>>

----------------------------------------------------------------------------
(* The CREATE_GROUP ioctl: bafs_core_create_group, bafs_group_alloc *)

Count(s, c) == Cardinality({i \in DOMAIN s : s[i] = c})

(* Every name is found and is a controller's. *)
CreateStart(t, g, names) ==
  /\ MayStart(t, "create")
  /\ dev[g].heap = "unused"
  /\ \A i \in DOMAIN names : dev[names[i]].shown
  /\ dev' = [dev EXCEPT ![g].heap = "live"]
  /\ coreRef' = coreRef + 1
  /\ found' = [o \in Dev |-> found[o] + Count(names, o)]
  /\ th' = [th EXCEPT ![t] = [Idle EXCEPT !.op = "create", !.pc = "create_get",
                                          !.o = g, !.left = names]]
  /\ UNCHANGED <<pci, minors, kept, mapped, file, ready, fault>>

(* One name belongs to a group: its device is found and never put. *)
CreateMismatch(t, g) ==
  /\ MayStart(t, "create")
  /\ dev[g].shown
  /\ found[g] < MaxKept
  /\ found' = [found EXCEPT ![g] = @ + 1]
  /\ UNCHANGED <<pci, minors, coreRef, dev, kept, mapped, file, ready, th, fault>>

(* Mutant: the group takes the controllers without a reference. *)
CreateGet_noRef(t) ==
  /\ Runs(t, "create_get")
  /\ th[t].left # <<>>
  /\ dev' = [dev EXCEPT ![th[t].o].ctrls = Append(@, Head(th[t].left))]
  /\ th' = [th EXCEPT ![t].left = Tail(@)]
  /\ UNCHANGED <<kernVars, kept, mapped, file, ready, fault>>

CreateGet(t) ==
  /\ Runs(t, "create_get")
  /\ th[t].left # <<>>
  /\ LET c == Head(th[t].left)
     IN dev' = [dev EXCEPT ![c].ref = @ + 1, ![th[t].o].ctrls = Append(@, c)]
  /\ th' = [th EXCEPT ![t].left = Tail(@)]
  /\ UNCHANGED <<kernVars, kept, mapped, file, ready, fault>>

(* The numbers are got and the cdev is added. *)
CreateAdd(t) ==
  /\ Runs(t, "create_get")
  /\ th[t].left = <<>>
  /\ \E n \in Minor :
       /\ FreeMinor(n)
       /\ minors' = minors \cup {n}
       /\ dev' = [dev EXCEPT ![th[t].o].minor = n, ![th[t].o].cdev = TRUE]
  /\ Goto(t, "create_dev")
  /\ UNCHANGED <<pci, coreRef, found, kept, mapped, file, ready, fault>>

Reverse(s) == [i \in DOMAIN s |-> s[Len(s) + 1 - i]]

(* Mutant: the loop starts one controller too far down. *)
CreateUndoes_offByOne(t) ==
  th' = [th EXCEPT ![t].pc = "create_undo",
                   ![t].left = Tail(Reverse(dev[th[t].o].ctrls))]

(* out_free_ctrls puts the controllers got so far, the last one first. *)
CreateUndoes(t) ==
  th' = [th EXCEPT ![t].pc = "create_undo", ![t].left = Reverse(dev[th[t].o].ctrls)]

CreateAddFails(t) ==
  /\ Runs(t, "create_get")
  /\ th[t].left = <<>>
  /\ CreateUndoes(t)
  /\ UNCHANGED <<kernVars, dev, kept, mapped, file, ready, fault>>

CreateDev(t) ==
  /\ Runs(t, "create_dev")
  /\ dev' = [dev EXCEPT ![th[t].o].shown = TRUE]
  /\ Goto(t, "create_ref")
  /\ UNCHANGED <<kernVars, kept, mapped, file, ready, fault>>

(* Mutant: the minor number is not put. *)
CreateDevFails_keepsMinor(t) ==
  /\ Runs(t, "create_dev")
  /\ dev' = [dev EXCEPT ![th[t].o].cdev = FALSE]
  /\ CreateUndoes(t)
  /\ UNCHANGED <<kernVars, kept, mapped, file, ready, fault>>

(* out_delete_cdev, out_minor_put *)
CreateDevFails(t) ==
  /\ Runs(t, "create_dev")
  /\ dev' = [dev EXCEPT ![th[t].o].cdev = FALSE]
  /\ minors' = minors \ {dev[th[t].o].minor}
  /\ CreateUndoes(t)
  /\ UNCHANGED <<pci, coreRef, found, kept, mapped, file, ready, fault>>

CreateUndo(t) ==
  /\ Runs(t, "create_undo")
  /\ th[t].left # <<>>
  /\ Put(t, Head(th[t].left), "create_undo", Tail(th[t].left))
  /\ UNCHANGED <<kernVars, kept, mapped, file, ready, fault>>

(* The devices found are put, whether the group was made or not. *)
PutFound(names) == found' = [o \in Dev |-> found[o] - Count(names, o)]

(* Mutant: the core device is not put. *)
CreateUndone_keepsCore(t) ==
  /\ Runs(t, "create_undo")
  /\ th[t].left = <<>>
  /\ PutFound(dev[th[t].o].ctrls)
  /\ dev' = [dev EXCEPT ![th[t].o].heap = "freed"]
  /\ Return(t)
  /\ UNCHANGED <<pci, minors, coreRef, kept, mapped, file, ready, fault>>

(* out_put_devices *)
CreateUndone(t) ==
  /\ Runs(t, "create_undo")
  /\ th[t].left = <<>>
  /\ PutFound(dev[th[t].o].ctrls)
  /\ coreRef' = coreRef - 1
  /\ dev' = [dev EXCEPT ![th[t].o].heap = "freed"]
  /\ Return(t)
  /\ UNCHANGED <<pci, minors, kept, mapped, file, ready, fault>>

(* kref_init, when the device has been visible for a while *)
CreateRef(t) ==
  /\ Runs(t, "create_ref")
  /\ dev' = [dev EXCEPT ![th[t].o].ref = 1]
  /\ PutFound(dev[th[t].o].ctrls)
  /\ Goto(t, "create_copy")
  /\ UNCHANGED <<pci, minors, coreRef, kept, mapped, file, ready, fault>>

(* The name is copied to the user. *)
CreateCopy(t) ==
  /\ Runs(t, "create_copy")
  /\ ready' = ready \cup {th[t].o}
  /\ Return(t)
  /\ UNCHANGED <<kernVars, dev, kept, mapped, file, fault>>

(* out_free_group *)
CreateCopyFails(t) ==
  /\ Runs(t, "create_copy")
  /\ Goto(t, "put")
  /\ UNCHANGED <<kernVars, dev, kept, mapped, file, ready, fault>>

(* The DELETE_GROUP ioctl finds the device by name, puts the device and    *)
(* then the group its driver data points to.                               *)
DeleteStart(t, o) ==
  /\ MayStart(t, "delete")
  /\ dev[o].shown
  /\ ready' = ready \ {o}
  /\ Call(t, o, NULL, NULL, "delete", "put")
  /\ UNCHANGED <<kernVars, dev, kept, mapped, file, fault>>

----------------------------------------------------------------------------
(* Files: bafs_ctrl_open and bafs_group_open, the ioctls, mmap of BAR 0    *)
(* and the release of a file.  The kernel calls release when no call on    *)
(* the file is in flight.                                                  *)

FileFree(f) == \A u \in Thread : th[u].f # f

(* chrdev_open has found the cdev. *)
OpenStart(t, o, f) ==
  /\ MayStart(t, "open")
  /\ dev[o].cdev
  /\ file[f] = NULL
  /\ FileFree(f)
  /\ Call(t, o, NULL, f, "open", "open_get")
  /\ UNCHANGED <<kernVars, dev, kept, mapped, file, ready, fault>>

OpenGet(t) ==
  /\ Runs(t, "open_get")
  /\ dev' = [dev EXCEPT ![th[t].o].ref = @ + 1]
  /\ Goto(t, "open_ctx")
  /\ UNCHANGED <<kernVars, kept, mapped, file, ready, fault>>

OpenDone(t) ==
  /\ Runs(t, "open_ctx")
  /\ file' = [file EXCEPT ![th[t].f] = th[t].o]
  /\ Return(t)
  /\ UNCHANGED <<kernVars, dev, kept, mapped, ready, fault>>

(* Mutant: a failed open keeps its reference. *)
OpenFails_noPut(t) ==
  /\ Runs(t, "open_ctx")
  /\ Return(t)
  /\ UNCHANGED <<kernVars, dev, kept, mapped, file, ready, fault>>

(* No memory or no context for the process *)
OpenFails(t) ==
  /\ Runs(t, "open_ctx")
  /\ Goto(t, "put")
  /\ UNCHANGED <<kernVars, dev, kept, mapped, file, ready, fault>>

CloseStart(t, f) ==
  /\ MayStart(t, "close")
  /\ file[f] # NULL
  /\ FileFree(f)
  /\ file' = [file EXCEPT ![f] = NULL]
  /\ Call(t, file[f], NULL, f, "close", "put")
  /\ UNCHANGED <<kernVars, dev, kept, mapped, ready, fault>>

(* A call on an open file that gets the object first. *)
FileCall(t, f, op, pc) ==
  /\ MayStart(t, op)
  /\ file[f] # NULL
  /\ Call(t, file[f], NULL, f, op, pc)
  /\ UNCHANGED <<kernVars, dev, kept, mapped, file, ready, fault>>

IoctlStart(t, f) == FileCall(t, f, "ioctl", "ioctl_get")

(* REG_MEM and unknown commands, or DMA_MAP_MEM *)
IoctlGet(t) ==
  /\ Runs(t, "ioctl_get")
  /\ dev' = [dev EXCEPT ![th[t].o].ref = @ + 1]
  /\ \E pc \in {"ioctl_do", "ioctl_map"} : Goto(t, pc)
  /\ UNCHANGED <<kernVars, kept, mapped, file, ready, fault>>

IoctlDone(t) ==
  /\ Runs(t, "ioctl_do")
  /\ Goto(t, "put")
  /\ UNCHANGED <<kernVars, dev, kept, mapped, file, ready, fault>>

(* REG_MEM failed: the call returns without the put. *)
IoctlRegFails(t) ==
  /\ Runs(t, "ioctl_do")
  /\ kept[th[t].o] < MaxKept
  /\ kept' = [kept EXCEPT ![th[t].o] = @ + 1]
  /\ Return(t)
  /\ UNCHANGED <<kernVars, mapped, dev, file, ready, fault>>

(* The controllers cs get one reference each that outlives the call. *)
Keep(cs) ==
  /\ \A c \in Ctrl : kept[c] + Count(cs, c) <= MaxKept
  /\ kept' = [o \in Dev |-> kept[o] + Count(cs, o)]
  /\ dev' = [o \in Dev |-> [dev[o] EXCEPT !.ref = @ + Count(cs, o)]]

(* The controllers a call on o is about. *)
Behind(o) == IF o \in Ctrl THEN <<o>> ELSE dev[o].ctrls

(* DMA_MAP_MEM leaves a mapping on every controller.  What is got and put  *)
(* again on the way, for a mapping that fails, is covered by the reference *)
(* of the call and of the group on the controller.                         *)
IoctlMaps(t) ==
  /\ Runs(t, "ioctl_map")
  /\ Keep(Behind(th[t].o))
  /\ mapped' = [o \in Dev |-> mapped[o] + Count(Behind(th[t].o), o)]
  /\ Goto(t, "put")
  /\ UNCHANGED <<kernVars, file, ready, fault>>

(* No mapping is left. *)
IoctlMapFails(t) ==
  /\ Runs(t, "ioctl_map")
  /\ Goto(t, "put")
  /\ UNCHANGED <<kernVars, dev, kept, mapped, file, ready, fault>>

(* bafs_mem_release puts the controller of a DMA mapping of the range; a   *)
(* range with several mappings is several of these calls.                  *)
MunmapStart(t, c) ==
  /\ MayStart(t, "munmap")
  /\ mapped[c] > 0
  /\ mapped' = [mapped EXCEPT ![c] = @ - 1]
  /\ kept' = [kept EXCEPT ![c] = @ - 1]
  /\ Call(t, c, NULL, NULL, "munmap", "put")
  /\ UNCHANGED <<kernVars, dev, file, ready, fault>>

MmapStart(t, f) ==
  FileCall(t, f, "mmap", IF file[f] \in Group THEN "mmap_get" ELSE "mmap_do")

(* __bafs_ctrl_mmap with offset 0: bafs_ctrl_mmap keeps a reference for    *)
(* the mapping, which no one puts when the range is unmapped.  A failing   *)
(* io_remap_pfn_range puts the reference again: nothing changes.           *)
MmapCtrl(t) ==
  /\ Runs(t, "mmap_do")
  /\ th[t].o \in Ctrl
  /\ Keep(<<th[t].o>>) \/ UNCHANGED <<dev, kept>>
  /\ Return(t)
  /\ UNCHANGED <<kernVars, mapped, file, ready, fault>>

MmapGet(t) ==
  /\ Runs(t, "mmap_get")
  /\ dev' = [dev EXCEPT ![th[t].o].ref = @ + 1]
  /\ Goto(t, "mmap_do")
  /\ UNCHANGED <<kernVars, kept, mapped, file, ready, fault>>

(* The group->lock region of bafs_group_mmap maps the first k controllers. *)
MmapGroup(t) ==
  /\ Runs(t, "mmap_do")
  /\ th[t].o \in Group
  /\ \E k \in 0 .. Len(dev[th[t].o].ctrls) :
       Keep(SubSeq(dev[th[t].o].ctrls, 1, k))
  /\ Goto(t, "put")
  /\ UNCHANGED <<kernVars, mapped, file, ready, fault>>

----------------------------------------------------------------------------
(* A memory error happens. *)
Oops(t) ==
  /\ fault = "none"
  /\ \/ UseAfterFree(t) /\ fault' = "use_after_free"
     \/ DeadRef(t) /\ fault' = "dead_ref"
     \/ WrongType(t) /\ fault' = "wrong_type"
  /\ UNCHANGED <<kernVars, dev, kept, mapped, file, ready, th>>

(* Users and the administrator.  Under the protocol they name a device     *)
(* only after its creation has returned and before its removal has begun,  *)
(* and they delete only groups.                                            *)
MayName(o) == Protocol => o \in ready

Client(t) ==
  \/ \E p \in Pdev, c \in Ctrl : ProbeStart(t, p, c)
  \/ \E p \in Pdev : RemoveStart(t, p)
  \/ \E g \in Group, names \in Names :
       (\A i \in DOMAIN names : MayName(names[i])) /\ CreateStart(t, g, names)
  \/ \E g \in Group : MayName(g) /\ CreateMismatch(t, g)
  \/ \E o \in IF Protocol THEN Group ELSE Dev : MayName(o) /\ DeleteStart(t, o)
  \/ \E o \in Dev, f \in File : MayName(o) /\ OpenStart(t, o, f)
  \/ \E f \in File : CloseStart(t, f) \/ IoctlStart(t, f) \/ MmapStart(t, f)
  \/ \E c \in Ctrl : MunmapStart(t, c)

(* The next step of a call in flight. *)
Step(t) ==
  \/ PutLast(t) \/ ReturnLast(t)
  \/ RelDev(t) \/ RelPci(t) \/ RelFree(t)
  \/ RelGroupDev(t) \/ RelGroupCtrl(t) \/ RelGroupFree(t)
  \/ ProbeRegion(t) \/ ProbeRegionFails(t) \/ ProbeAdd(t) \/ ProbeAddFails(t)
  \/ ProbeDev(t) \/ ProbeDevFails(t) \/ ProbeRef(t)
  \/ CreateGet(t) \/ CreateAdd(t) \/ CreateAddFails(t) \/ CreateDev(t)
  \/ CreateDevFails(t) \/ CreateUndo(t) \/ CreateUndone(t) \/ CreateRef(t)
  \/ CreateCopy(t) \/ CreateCopyFails(t)
  \/ OpenGet(t) \/ OpenDone(t) \/ OpenFails(t)
  \/ IoctlGet(t) \/ IoctlDone(t) \/ IoctlRegFails(t)
  \/ IoctlMaps(t) \/ IoctlMapFails(t)
  \/ MmapCtrl(t) \/ MmapGet(t) \/ MmapGroup(t)

(* Nobody calls, or an error has happened. *)
Halted ==
  /\ fault # "none" \/ \A t \in Thread : th[t] = Idle
  /\ UNCHANGED vars

Next ==
  \/ \E t \in Thread : Client(t) \/ Step(t) \/ Oops(t)
  \/ Halted

Spec == Init /\ [][Next]_vars

----------------------------------------------------------------------------
(* Properties. *)

Pc == {"idle", "put", "ret", "rel_dev", "rel_pci", "rel_free", "relg_dev", "rel_ctrls",
       "probe_region", "probe_add", "probe_dev", "probe_ref", "create_get",
       "create_dev", "create_undo", "create_ref", "create_copy", "open_get",
       "open_ctx", "ioctl_get", "ioctl_do", "ioctl_map", "mmap_get", "mmap_do"}

Fault == {"none", "use_after_free", "dead_ref", "wrong_type"}

Frame == [pc : Pc, o : Dev \cup {NULL}, left : Seq(Ctrl)]

(* Type correctness: no count of references on a device, on the core       *)
(* device or of enabled functions falls below zero.                        *)
TypeOK ==
  /\ pci \in [Pdev -> [drv : Ctrl \cup {NULL}, bound : BOOLEAN, master : BOOLEAN,
                       region : Ctrl \cup {NULL}, enabled : Nat]]
  /\ dev \in [Dev -> [heap : {"unused", "live", "freed"}, ref : Nat, cdev : BOOLEAN,
                      shown : BOOLEAN, minor : Minor \cup {NULL},
                      pdev : Pdev \cup {NULL}, ctrls : Seq(Ctrl)]]
  /\ minors \subseteq Minor
  /\ coreRef \in Nat
  /\ found \in [Dev -> Nat]
  /\ kept \in [Dev -> 0 .. MaxKept]
  /\ mapped \in [Dev -> Nat]
  /\ file \in [File -> Dev \cup {NULL}]
  /\ ready \subseteq Dev
  /\ th \in [Thread -> [op : Op \cup {"none"}, pc : Pc, o : Dev \cup {NULL},
                        p : Pdev \cup {NULL}, f : File \cup {NULL},
                        left : Seq(Ctrl), stack : Seq(Frame)]]
  /\ fault \in Fault

(* No call touches a controller or a group that has been freed, takes a    *)
(* reference from one that is being released, or takes one for the other.  *)
NoFault == fault = "none"

(* What thread t is doing, innermost first. *)
Frames(t) == {[pc |-> th[t].pc, o |-> th[t].o, left |-> th[t].left]}
             \cup {th[t].stack[i] : i \in DOMAIN th[t].stack}

(* The frames in which group g gives its controllers back. *)
Undoing(g) == {fr \in UNION {Frames(t) : t \in Thread} :
                 fr.o = g /\ fr.pc \in {"relg_dev", "rel_ctrls", "create_undo"}}

(* The places of c among the controllers that g holds a reference on. *)
Held(g, c) ==
  LET cs == IF Undoing(g) = {} THEN dev[g].ctrls
            ELSE (CHOOSE fr \in Undoing(g) : TRUE).left
  IN IF dev[g].heap = "live" THEN {<<g, i>> : i \in {j \in DOMAIN cs : cs[j] = c}}
     ELSE {}

Holders(o) ==
  {t \in Thread : /\ th[t].o = o
                  /\ \/ th[t].pc \in {"put", "open_ctx", "ioctl_do", "ioctl_map",
                                     "create_copy"}
                     \/ th[t].pc = "mmap_do" /\ o \in Group}

(* The count of a device that is in use is the number of its holders: the  *)
(* binding of its PCI function or the existence of the group, its open     *)
(* files, its memberships in groups, the calls in flight, the DMA mappings *)
(* made for it, and the references that BAR mappings and failed REG_MEM    *)
(* calls left behind.                                                      *)
RefExact ==
  \A o \in Dev : dev[o].ref > 0 =>
    dev[o].ref = Cardinality({o} \cap ready)
                 + Cardinality({f \in File : file[f] = o})
                 + Cardinality(UNION {Held(g, o) : g \in Group})
                 + Cardinality(Holders(o))
                 + kept[o]

(* Devices that have a minor number. *)
Numbered == {o \in Dev : /\ dev[o].heap = "live"
                         /\ dev[o].minor # NULL
                         /\ \A fr \in Undoing(o) : fr.pc # "create_undo"}

(* Controllers and groups draw minor numbers from one pool: no two of them *)
(* have the same, so that a device node always opens the device it was     *)
(* made for, and every number is back in the pool when its device is gone, *)
(* on all error paths of probe and CREATE_GROUP too.                       *)
MinorsExact ==
  /\ minors = {dev[o].minor : o \in Numbered}
  /\ \A o1, o2 \in Numbered : dev[o1].minor = dev[o2].minor => o1 = o2

(* The core device has one reference for every controller whose cdev was   *)
(* added and for every group, until their device is taken down.            *)
CoreRefExact ==
  coreRef = Cardinality({c \in Ctrl : dev[c].cdev})
            + Cardinality({g \in Group : dev[g].heap = "live"})

(* The function of a bound controller is enabled once, is a bus master and *)
(* its BAR 0 is the controller's: the late release of the function's       *)
(* earlier controller, which open files, groups or DMA mappings had kept,  *)
(* does not take them away.                                                *)
BoundIsUsable ==
  \A c \in Ctrl \cap ready :
    LET p == pci[dev[c].pdev]
    IN p.bound /\ p.drv = c /\ p.region = c /\ p.enabled = 1 /\ p.master

(* BAR 0 of a function belongs to a controller of that function which has  *)
(* not been freed: the next probe is refused exactly as long as the        *)
(* earlier controller is in use, and no longer.                            *)
RegionOwned ==
  \A p \in Pdev : pci[p].region # NULL =>
    dev[pci[p].region].heap = "live" /\ dev[pci[p].region].pdev = p

AllDown ==
  /\ \A t \in Thread : th[t] = Idle
  /\ \A f \in File : file[f] = NULL
  /\ ready = {}
  /\ \A o \in Dev : kept[o] = 0

(* When no function is bound, every group is deleted, every file is closed *)
(* and every DMA mapping is gone, every controller and group is freed and  *)
(* all that they took is given back, unless a BAR mapping or a failed      *)
(* REG_MEM has left a reference behind.                                    *)
NothingLeft ==
  AllDown =>
    /\ \A o \in Dev : dev[o].heap # "live" /\ ~dev[o].cdev /\ ~dev[o].shown
    /\ \A c \in Ctrl : found[c] = 0
    /\ minors = {} /\ coreRef = 0
    /\ \A p \in Pdev : /\ pci[p].region = NULL /\ pci[p].drv = NULL
                       /\ pci[p].enabled = 0 /\ ~pci[p].master
=============================================================================
