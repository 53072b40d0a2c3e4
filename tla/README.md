# Verification of the bafs driver

bafs is a Linux kernel module that gives user processes direct access to NVMe
controllers: a process maps the registers of a controller (or of a group of
controllers) and hands the controllers host or GPU memory to do DMA with. The
module has no data path of its own. What it has to get right is the life of its
objects: who holds a reference, when a page may be unpinned, what an error path
has to give back, and what a concurrent call can see in between.

This directory has TLA+ models of that, the TLC configurations that check them
and proofs that TLAPS checks.

## 1. Inventory

| Part | Source | State | Operations |
|---|---|---|---|
| memory registration | `mem.c`, `core.c` | `struct bafs_mem`: `ref`, `state` (STALE, LIVE, DEAD, DEAD_CB), `vaddr`, `mem_id`, page table, `dma_list` | REG_MEM, `mmap` of a handle (pin), vma close, release, sweep on file close |
| DMA mapping | `ctrl.c`, `group.c`, `mem.c` | `struct bafs_mem_dma` | DMA_MAP_MEM on a controller or group, undo, `unmap_dma` |
| GPU callback | `mem.c` | the registration and its mappings | `release_bafs_cuda_mem`, called by the GPU driver at any time |
| process context | `core.c` | `struct bafs_ctx`: `ref`, `lock`, `mem_list`, `bafs_mem_xa`; the global table of contexts | `bafs_core_open`, `bafs_get_ctx`, `bafs_put_ctx`, `__bafs_core_ctx_release`, `bafs_get_mem_with_ctx` |
| controllers | `ctrl.c`, `core.c` | `struct bafs_ctrl`, its cdev, device, minor number; the PCI function's region, enable count, bus mastering | probe, remove, open, close, ioctl, `mmap` of BAR 0, release |
| groups | `group.c`, `core.c` | `struct bafs_group`, its controllers, cdev, device, minor number | CREATE_GROUP, DELETE_GROUP, open, close, ioctl, `mmap`, release |
| module load, unload | `core.c`, class set-up in `ctrl.c`, `group.c` | device numbers, classes, the core device and its minor number, the PCI driver, the global table | `bafs_init` with its error labels, `bafs_exit` |
| user library | `lib/src/bafs.c` | `bafs_core_fd`, one descriptor for all threads of a process; a `bafs_ctrl_t` per opened device | wrappers for the calls above, `bafs_ctrl_map` (registration and pin in one) |
| ioctl numbers, id table, macros, tests | headers, `data.c`, `tests/` | none | none |

How they interact. All files a process opens share one context. A registration
holds a reference on the context; a DMA mapping holds one on the registration
and one on the controller; a group holds one on each of its controllers; an open
file holds one on its controller or group and one on the context; controllers
and groups hold the core device. Three things run against the system calls
without being asked for: the GPU driver's callback, the hot-unplug of a PCI
function, and the close of a vma when a process exits. The context of a process
is found by its number, so files a child inherits and numbers that are used again
matter. Devices can be opened from the moment `bafs_init` has made them, before it
has returned. The library opens the core device on the first call that needs it,
without a lock, and the driver lets a process open it only while the process has
no context.

What is hard. `ctx->lock` and `mem->lock` cover the lists, and nothing else:
references are taken before, after and between the locked regions, so the order
of steps of two calls matters everywhere. Error paths undo work that other
threads may already have seen. The GPU callback and the release of a
registration compete for one page table. Three kinds of spinlocks nest, and the mmap
lock with them, since `mmap` handlers run under it and copies to the user may fault.
`PROJECT.json` lists the hazards one by
one, with the line where each bites and the properties that cover it.

What makes each part correct: counts equal the number of holders; no step
touches a freed object; pages stay pinned while a controller can reach them;
handles and minor numbers name one object; when everybody is gone nothing is
left; and every call returns.

## 2. Modules

| Module | Models | Extends |
|---|---|---|
| `BafsMemAbs` | what registered memory promises to a process: the abstract specification | |
| `BafsMem` | registrations, DMA mappings, GPU callback, context of one process | `BafsMemAbs` (instance) |
| `BafsMemProofs` | what each step of `BafsMem` does; theorems for every use of the driver | `BafsMem` |
| `BafsMemRaceProofs` | theorems about `BafsMem` for a process that keeps to the contract or part of it, the refinement included | `BafsMemProofs` |
| `MCBafsMem` | instances of `BafsMem` for TLC | `BafsMem` |
| `BafsLocks` | the order in which calls take spinlocks and the mmap lock, and what they wait for | |
| `BafsDev` | controllers, groups, their files, minor numbers and PCI resources | |
| `BafsDevShape` | the inductive invariant of `BafsDev`, frame and counting lemmas | `BafsDev` |
| `BafsDevProofs` | every kind of step keeps that invariant; theorems about `BafsDev` | `BafsDevShape` |
| `MCBafsDev` | instances of `BafsDev` for TLC | `BafsDev` |
| `BafsCtxAbs` | what contexts promise to files: the abstract specification | |
| `BafsCtx` | processes, their contexts, the global table | `BafsCtxAbs` (instance) |
| `BafsCtxProofs` | theorems about `BafsCtx`, the refinement included | `BafsCtx` |
| `BafsLoad` | load and unload, composed with the contexts | `BafsCtx` |
| `BafsLoadProofs` | theorems about `BafsLoad` | `BafsLoad`, `BafsCtxProofs` |
| `BafsDmaMap` | page counts, lengths, address arrays, page-by-page undo | |
| `BafsDmaMapProofs` | theorems about `BafsDmaMap` | `BafsDmaMap` |
| `BafsLib` | the user library in a process with several threads | |
| `BafsLibProofs` | theorems about `BafsLib` | `BafsLib` |
| `MCBafsLocks`, `MCBafsCtx`, `MCBafsLoad`, `MCBafsDmaMap`, `MCBafsLib` | instances for TLC | the module of that name |

An operator with an underscore in its name (`RegInsert_noId`) is a wrong version
of the definition that follows it. It is used nowhere in the specifications; it
serves to see that a property fails when the code has that mistake.

### BafsMem and BafsMemAbs

A thread in a call has a program counter `th[t].pc`, the pointers the C function
has in its local variables (`m` the registration, `d` the mapping object, `f`
the file, `a` the address) and the loop state (`rest` of the list walk, `left`
controllers of a group, `mine` mappings made so far). A step of the model is
what the code does between two points where another thread can come in:

| C | Steps |
|---|---|
| `bafs_core_reg_mem` | `RegStart` `RegInsert` `RegInsertFails` `RegCopy` `RegCopyFails` `RegErase` |
| `pin_bafs_mem`, `pin_bafs_cpu_mem`, `pin_bafs_cuda_mem` | `PinStart` `PinGet` `PinDo` `PinDoFails` `PinPut` `PinReturn` |
| `bafs_mem_put`, `__bafs_mem_release` | `MemPut`, `RelUnlink` `RelFree` `RelCtx` |
| `bafs_mem_release` (vma close) | `UnmapStart` `UnmapDo` `UnmapPut` `UnmapReturn`; `SplitVma` is the kernel's |
| `bafs_core_release`, `bafs_ctrl_file_release`, `bafs_group_release` | `CloseStart` `CloseDo` `CloseReturn` |
| `bafs_get_mem_with_ctx` | `MapLock` `WalkMatch` `WalkSkip` `WalkPut` `WalkEnd` |
| `bafs_ctrl_dma_map_mem` | `MapAlloc` `MapAllocFails` `MapDma` `MapDmaFails` `MapAddrsFail` `MapLink` `MapPut` |
| `__bafs_ctrl_dma_map_mem`, `bafs_group_dma_map_mem` | `MapStart` `MapReturn` `MapCopyFails` `MapUndo` |
| `unmap_dma` | `UnmapDma` |
| `release_bafs_cuda_mem` | `CbBegin` `CbRun` |
| `kfree_rcu` | `heap = "limbo"`, then `GraceEnd` |

`ctx->lock` is a variable, because the list walk holds it over several kref
operations; a `mem->lock` region is one step. A release that is triggered by a
put runs in the thread that did the put, which continues at `ret` afterwards. A call
that has to wait for `group->lock` or for the mmap lock begins here when it has it; the
waiting is in `BafsLocks`. The GPU page table is read without `mem->lock` from `MapDma`
until the mapping is linked (`ctrl.c:164`, `ctrl.c:200`): a callback that is about to
free it then is a use after free (`TableFreed`).

Memory errors are part of the model. A thread whose next step would dereference
freed memory, use a count of zero, free twice, read through a NULL page table or
take a spinlock it holds takes the step `Oops` instead and `fault` names the
error. After that nothing happens: what the kernel does then is nobody's
promise. So `NoFault` is the property that no such thing happens, and every other
safety property is about the behaviour up to the first error.

Left out, because the state does not change: calls that fail before they have
done anything (a failed `copy_from_user`, an unknown handle, no memory for the
first object) and an empty group. Sizes, page numbers and addresses are
abstracted to what the control flow tests: whether a registration has a size,
whether it has a page table. The variable `pages` counts page tables allocated
and not given back. `ctrlRef` counts only the references of DMA mappings; the
other references on a controller are the subject of `BafsDev`. The files are
open at the beginning; opening them is in `BafsDev` and `BafsCtx`.

`BafsMemAbs` says what a user of the memory relies on, without handles, counts, lists and
locks. A registration is new, registered, pinned, unmapped or revoked by the GPU driver,
and gone; `reach` is the set of mappings through which controllers get at its pages. It
is pinned at most once; a controller is given the pages only while they are pinned and
the process has them mapped (`Reach`); the one step that unmaps or revokes them takes
them from all controllers (`Unmap`, `Revoke`); and memory that is pinned, or that a
controller still reaches, does not end (`End`). `BafsMem` implements it for a process
that keeps to the contract (`MemImplementsAbs`), under the mapping of a registration to
its phase by `heap`, `state` and its vma (`Phase`), and of `reach` to the mapping objects
whose pages are mapped for it (`Reached`). Without the contract it does not: a lookup
that a munmap overtakes still maps, and a callback that waits while a pin fails
revokes memory that was never pinned.

### BafsLocks

`lock` says which thread has a lock: the `ctx->lock` and the mmap lock of each process,
the `mem->lock` of each registration, the lock of each group. A call is reduced to its
waiting: it stops before every lock it takes, on its error paths too, and in every copy
to or from the user, which may fault (`Faults`) and then waits for the mmap lock. What a
call finds and whether it fails is left open.

| C | Steps |
|---|---|
| `bafs_group_dma_map_mem`, `__bafs_ctrl_dma_map_mem` | `MapStart` `MapIn` `MapGroup` `MapAlloc` `MapCopy` `MapUndone` `MapUnlock` |
| `bafs_ctrl_dma_map_mem` | `MapCtx` `MapDma` `MapLink` `MapLinked` `MapPut` |
| `bafs_get_mem_with_ctx`, sweeps of `bafs_core_release`, `bafs_ctrl_file_release`, `bafs_group_release` | `CloseCtx`, `WalkNext` `WalkMem` `WalkLook` `WalkFound` `WalkEnd` |
| `bafs_ctrl_dma_unmap_mem` | `MapUndo` `MapUnmap` `MapPut` |
| `bafs_group_mmap` of the BARs, `bafs_ctrl_mmap` | `BarStart` `MmLock` `BarGroup` `BarMap` `MmUnlock` |
| `pin_bafs_mem` | `PinStart` `MmLock` `PinCtx` `PinLoad` `PinMem` `PinDo` `MmPut` `MmUnlock` |
| `bafs_mem_release` (vma close) | `UnmapStart` `MmLock` `UnmapMem` `UnmapDo` `MmPut` `MmUnlock` |
| `__bafs_mem_release` | `RelCtx` `RelUnlink` `RelMem` `RelFree` |
| `bafs_core_reg_mem` | `RegStart` `RegIn` `RegCtx` `RegInsert` `RegCopy` `RegUndo` `RegErase` |
| `release_bafs_cuda_mem` | `CbStart` `CbMem` `CbRun` |

The code can deadlock. An `mmap` of a group's BARs takes `group->lock` under the mmap
lock (`group.c:286`); a DMA_MAP_MEM on the group has `group->lock` from `group.c:71` to
`group.c:96`, and its copies to the user (`group.c:91`, `ctrl.c:156`, `ctrl.c:175`) take the
mmap lock when they fault. `OneInversion` says that this is the only circle, `CallsReturn`
that every call returns unless threads have come into it. The model is apart from `BafsMem` because neither
question depends on what the calls do with the objects, save that a put in a locked
region is never the last: that is `SelfDeadlock` of `BafsMem`, under `NoFault`.

### BafsDev

Objects are controllers and groups (`dev`); `pci` has what a function keeps
across bindings: the driver data, bus mastering, the owner of BAR 0, the enable
count. A release handler runs on a stack, since the release of a group may
release controllers.

| C | Steps |
|---|---|
| `bafs_ctrl_pci_probe`, `bafs_ctrl_alloc` | `ProbeStart` `ProbeRegion` `ProbeRegionFails` `ProbeAdd` `ProbeAddFails` `ProbeDev` `ProbeDevFails` `ProbeRef` |
| `bafs_ctrl_pci_remove` | `RemoveStart`, `PutLast`, `ReturnLast` |
| `bafs_ctrl_release`, `__bafs_ctrl_release` | `Put`, `RelDev` `RelPci` `RelFree` |
| `bafs_put_group`, `__bafs_group_release` | `Put`, `RelGroupDev` `RelGroupCtrl` `RelGroupFree` |
| `bafs_core_create_group`, `bafs_group_alloc` | `CreateStart` `CreateMismatch` `CreateGet` `CreateAdd` `CreateAddFails` `CreateDev` `CreateDevFails` `CreateUndo` `CreateUndone` `CreateRef` `CreateCopy` `CreateCopyFails` |
| `bafs_core_delete_group` | `DeleteStart`, `PutLast` |
| `bafs_ctrl_open`, `bafs_group_open` | `OpenStart` `OpenGet` `OpenDone` `OpenFails` |
| `bafs_ctrl_file_release`, `bafs_group_release` | `CloseStart`, `PutLast` (the sweep is `CloseDo` of `BafsMem`) |
| `bafs_ctrl_ioctl`, `bafs_group_ioctl` | `IoctlStart` `IoctlGet` `IoctlDone` `IoctlRegFails`, for DMA_MAP_MEM `IoctlMaps` `IoctlMapFails` |
| `bafs_mem_release`, `unmap_dma`: the put of the controller (`mem.c:386`) | `MunmapStart` |
| `__bafs_ctrl_mmap`, `bafs_group_mmap`, `bafs_ctrl_mmap` | `MmapStart` `MmapCtrl` `MmapGet` `MmapGroup` |

References that outlive the call that took them are counted in `kept`. Those of DMA
mappings (`ctrl.c:119`) are in `mapped` too: a munmap puts them, and may so drop the last
reference of a controller whose function has been unbound. Two kinds are never given
back: one for every mapping of BAR 0 (`ctrl.c:427` gets, nobody puts when the range is
unmapped) and one for every failed REG_MEM on a controller or group file
(`ctrl.c:298`, `group.c:147` return without the put). `RefExact` says that there
is no further one, and `NothingLeft` is stated for behaviours that have left none.
A mapping that DMA_MAP_MEM takes down again on an error path changes nothing here: the
call and the group have references on the controller meanwhile; what happens to the
mapping itself is in `BafsMem`. The ioctls on the core file do not touch controllers.

CREATE_GROUP reads the name of the new device after the group can be deleted
(`core.c:119`): a use after free when a DELETE_GROUP was faster, which `Protocol` excludes.

All names of a CREATE_GROUP are looked up in one step, the controller and group
ids are got together with the minor number, and a freed object is freed at once
(nothing of a controller is used under RCU).

### BafsCtx and BafsCtxAbs

`BafsMem` is the inside of one context; `BafsCtx` is how processes come by theirs.
A process `p` has the number `PidOf[p]`, and two processes may have the same number
one after the other. `slot` is the global table, `ctx` the contexts, `file` the open
files with their context, the process that opened them and the processes that have
them open, `pidRef` the references on the `struct pid` of a process.

| C | Steps |
|---|---|
| `bafs_core_open` | `CoreOpen` (the `xa_insert` decides; a failure changes nothing) |
| `bafs_get_ctx`, from `bafs_ctrl_open` and `bafs_group_open` | `DevOpen` `GetNew` `GetFound` `GetNoMemory` `GetFails` `GetRef` `Opened` |
| `bafs_core_release`, `bafs_ctrl_file_release`, `bafs_group_release` | `Release`, `PutCtx` |
| `__bafs_core_ctx_release` | `Erase` `Free` |
| fork, exit, close of a shared file | `Start` `Fork` `Exit` `Unshare` (the kernel's) |

The table operations are atomic. Between `xa_cmpxchg` and `kref_get` of a context
that was found, and between the last put and `xa_erase`, anything can happen; a
`kref_get` on a count of zero or on freed memory is a fault, as in `BafsMem`.
`GetFails` keeps the reference on the `struct pid` (`core.c:463`), counted in `leak`.

`BafsCtxAbs` says what a user of the contexts relies on, without counts and table:
open files of one process number share one context, files of different numbers never
do, and a context that has ended is not given to a file again. `BafsCtx` implements
it (`ImplementsAbs`) under the mapping of a file to its context and its opener's
number (`Member`), and of the ended contexts to those whose count has reached zero
(`Over`).

### BafsLoad

`held` is what `bafs_init` has taken so far, `todo` what the running `bafs_init` or
`bafs_exit` has still to do, `mod` the state the kernel gives the module. `InitOrder`
and `ExitOrder` are the orders of the calls in the two functions. `Undo` is what the
error labels give back, in their order, `Label[r]` the place in it that is jumped to
when `r` fails, and `UndoOf(r)` what is given back from there on. `Acquire`, `AcquireFails`,
`DriverFails` (the registration fails after controllers have been bound) and
`TableInit` are the steps of `bafs_init`, `GiveBack` those of its labels and of
`bafs_exit`. `OpenDevice` is `CoreOpen` and `DevOpen` of `BafsCtx` when there is a
device to open; all other steps of the contexts, a fault included (`Oops`), are
`CtxStep`, so `NoFault` and `OwnContext` of `BafsCtx` are questions about `LoadSpec` too,
and its run asks them. Controllers and groups are sets
here: `bound` has the controllers the driver has bound, `group` those of each group, `used`
those an open file or a DMA mapping refers to, `lost` those with a reference that nobody
puts (`LoseReference`: `ctrl.c:427`, `ctrl.c:298`, `group.c:147`). A controller in any of
them has a device (`Node`), also when the driver has let it go (`Unbind`) or the
module is gone. `DevicesBacked` speaks of the first three: a device that only a lost
reference keeps does outlive its class in the code, and the model shows it doing so. A
load after that makes new devices. To give back what was not taken, as `cdev_del`
does after a failed `cdev_add`, changes nothing. No error label gives the
core minor number back, and `AllGivenBack` allows that one exception.

### BafsDmaMap

One call at a time on one registration, page by page: `pages` the pages allocated
or pinned, `bus` the DMA mappings with the length each was mapped with, `user` the
entries of the caller's address array that were written, `arrays` the `addrs` and
`dmas` arrays allocated, `lost` those nobody will free (the `addrs` of a mapping that
failed, the `dmas` of a group call that succeeded). 32-bit arithmetic is modelled
with `% U32`; the instance has `U32 = 16`, so that products wrap within reach.

| C | Steps |
|---|---|
| `bafs_core_reg_mem` | `Register` |
| `pin_bafs_cpu_mem`, `pin_bafs_cuda_mem` | `PinStart` `PinPage` `PinCpu` `PinCuda` `PinFails` |
| `bafs_mem_release`, `unmap_dma` | `Unpin`, `UnmapDma` |
| `bafs_ctrl_dma_map_mem` | `MapAlloc` `MapAllocFails` `MapPage` `MapGpuPages` `MapFails` `MapLink` |
| `bafs_group_dma_map_mem`, `__bafs_ctrl_dma_map_mem` | `MapStart` `MapReturn` `MapCopyFails` `MapUndo` |

### BafsLib

The threads of one process call the library. `fd` is the descriptor table, `group`
the groups of the driver, `reg` the registrations by handle, `mine` the group names a
thread has got and not deleted, `handle` its `bafs_ctrl_t`. `bafs_core_init` is
`CoreOpen` (or `CoreOpenFails`), `CoreStore` and `CoreTest`, three steps, since other
threads read and write `bafs_core_fd` in between. Descriptors and group numbers are
the lowest that are free. The driver is present by its promises: the core device
opens only without a context, an ioctl's type must be that of the file (`TypeMatches`),
`mmap` takes the handle from the page offset. A range that is pinned keeps its file and so
the context when the descriptor is closed (`NoContext`). Opening a name of another form
changes nothing (`CtrlOpenRefuses`); one of a device that does not exist has set the
handle's type by then, also in a handle in use (`CtrlOpenFails`). The handle is passed as byte offset
(`Offset`), and the kernel refuses one that is no multiple of the page size.

## 3. The usage contract

The code relies on its callers. The constants `Overlap` (which calls may be in
flight together) and `Protocol` say how much. With the contract the runs find no
memory error and no leak; each exclusion is necessary: without it TLC finds the
property named here violated.

| Calls that must not overlap | Otherwise | Place |
|---|---|---|
| DMA_MAP_MEM and munmap, of one process | `NoFault`: lookup revives a count of zero, or the mapping is linked after the list was drained | `core.c:296`, `ctrl.c:187` |
| pin and the close of another file | `HandlesValid`: the registration is swept under the pin | `mem.c:450` |
| REG_MEM and the close of another file | `HandlesValid`: the handle is gone when it is returned; `CallbackSafe`: it then names the next registration, which is pinned while its failing REG_MEM frees it | `mem.c:316` |
| freeing GPU memory and DMA_MAP_MEM | `NoFault`: the page table is read without the lock; `DmaPagesPinned`: the mapping is not yet in the list | `ctrl.c:164` |
| freeing GPU memory and pinning it | `MemRefExact`: a failing pin leaves DEAD_CB | `mem.c:117` |
| open and remove, open and DELETE_GROUP | `NoFault`: the cdev was found, the count is zero | `ctrl.c:336`, `group.c:185` |
| CREATE_GROUP and remove | `NoFault`: the device was found, the controller is freed | `group.c:381` |
| probe and close, probe and DELETE_GROUP, probe and munmap | `BoundIsUsable`: the old controller's release clears the new one's bus mastering | `ctrl.c:68` |
| `mmap` of a group's BARs and DMA_MAP_MEM on a group | the deadlock `OneInversion` describes: each waits for the other's lock | `group.c:286`, `group.c:71` |
| open and close of files, by one process | `NoFault`: the context found in the table has lost its last reference | `core.c:467` |
| the first call of the library that needs the core device, and any other call | `CoreKept`: the second open fails and its -1 overwrites the good descriptor | `lib/src/bafs.c:26` |
| loading the module and opening a device | `CodeUnused`: a failing load takes the code away | `core.c:603` |

Besides: a process leaves no open files to a child (`Inherit`, otherwise `OwnContext`
fails: `core.c:459` gives a later process of the same number the old context), and
groups are deleted before the module is unloaded (`KeepGroups`, otherwise
`DevicesBacked` fails: `core.c:642` destroys the classes under them). The threads of a
program name only groups they created themselves (`Careful`, otherwise `HandleIsRight`
fails: a number is used again), and open no handle that is in use (otherwise a failed open
changes its type, `lib/src/bafs.c:121`).

`Protocol` in `BafsMem`: a handle is pinned only by the process that got it and
once at a time, not at an address where another registration's pin failed; only
an address whose pin has returned is mapped for DMA; ranges are unmapped whole.
In `BafsDev`: a device is named only after its creation has returned and before
its removal begins (so before `kref_init` nobody opens it), and DELETE_GROUP is
called once and only for groups.

## 4. Runs

| Run | Question | Distinct states |
|---|---|---|
| `MCBafsMemContract` | Under the contract: no fault, exact counts of registration and context, DMA only into pinned pages, valid handles, right lookups, nothing left, `BafsMemAbs` implemented | 910 000 |
| `MCBafsMemRaces` | With munmap and the callback racing the other calls (REG_MEM and pin kept apart from close): host pages pinned under DMA, callback never on freed memory; what is released is freed after its grace period | 152 000 |
| `MCBafsMemMisuse` | Without any contract, up to the first fault: controller counts, lists, page tables | 356 000 |
| `MCBafsLocks` | Any calls of two threads of a process overlapping: one way only to wait in a circle; under fairness every call returns unless threads wait so | 216 000 |
| `MCBafsDevContract` | Under the contract: no fault, exact counts, bound functions usable | 1 500 000 |
| `MCBafsDevMisuse` | Without any contract: minor numbers, core references, region ownership, nothing left | 724 000 |
| `MCBafsCtxMisuse` | Everything overlapping, files inherited: table, counts and pid references exact, `BafsCtxAbs` implemented | 269 000 |
| `MCBafsLoad` | Two loads failing anywhere, contexts under the contract: no fault, every file has its own process's context, devices in use backed, no code gone under a file, all given back | 318 000 |
| `MCBafsDmaMap` | All sizes and targets, failing anywhere: unmaps match maps, mappings cover the memory, the address array has no gap, pages and arrays accounted for | 552 000 |
| `MCBafsDmaCapacity` | (violation) the capacity passed in `n_dma_addrs` bounds what is written | |
| `MCBafsLib` | Under the contract: the core descriptor is not lost, a handle stands for the controllers asked for | 397 000 |
| `MCBafsLibMap` | (violation) `bafs_ctrl_map` succeeds when no resource is missing | |

Two runs show a disagreement. `src/module/include/linux/bafs.h:29` declares
`n_dma_addrs` "in-out", and the library passes its capacity (`lib/src/bafs.c:247`);
the driver never reads it and writes the addresses of all pages of all controllers
(`ctrl.c:150`, `group.c:81`). And `bafs_ctrl_pin_mem` passes the handle as the byte
offset of `mmap` (`lib/src/bafs.c:198`) where the driver takes it from the page offset
(`mem.c:437`), so that `tests/dma_map_cpu_mem.c`, which expects its `bafs_ctrl_map` to
succeed, cannot.

Bounds. Two threads: every hazard found is between two calls, or a call and the
callback, which is an actor of its own. Two registrations and two addresses make
the list walk pass an element and a handle be reused. Two mapping objects and a
group of two controllers make a group mapping fail at its second controller and
undo the first. `Mem`, `Dma`, `Ctrl`, `Group` and `File` also bound how many
objects are ever made, since a used object is not made again; `MaxId + 1`
indices are enough for every registration of an instance, and `RegInsertFails`
is possible at any time all the same. In `BafsDev` two functions with two probes in
all cover two bound controllers and a re-probe; the lists of names are all
pairs of controllers in the misuse run, where a controller named twice must be put
twice (`NothingLeft`), and the pairs of two different ones in the contract run; three minor numbers are enough for two
controllers and a group and are reused; `MaxKept = 1` lets one reference per
object outlive its call, of a DMA mapping that a munmap ends or of one that nobody does. In
`BafsLocks` two threads of one process share every kind of lock there is, with two
registrations for the walk and a group of two controllers; a circle of more threads, or
through two processes that use one group, is not in the run. The misuse and race runs use smaller sets, since they have
more interleavings. Symmetry is over sets whose members are interchangeable; runs
with a liveness property have none. In `BafsCtx` three processes, the third with the
number of the first, and three files let a context end while another is made for the same
number; three contexts bound how many are made. In `BafsLoad` two loads let a second one
meet what a first, failed one left; it has two controllers and one group, two processes
with one number, the second after the first is gone, and two files. In `BafsDmaMap` the
sizes are zero, one, and those below, at and above page boundaries up to the largest
number of the 4-bit word that stands for 32 bits; groups have up to three controllers
and four mapping objects are enough for a group of three after a mapping of one. In
`BafsLib` two groups, three descriptors and one registration are enough for numbers
to be used again.

Fairness (`FairSpec`). In `BafsLocks` a thread in a call is scheduled again, and kernel
spinlocks and the mmap lock are queued, so a thread that waits for one gets it when it is
released again and again: strong fairness of the thread's next step. In `BafsMem` a
callback that has begun is not suspended and RCU grace periods end: weak fairness of `CbRun`
(or of the fault it meets, `CbOops`) and of `GraceEnd`, and none of the threads, which may
stop in the middle of a call. `ReleasedIsFreed` says "or a memory error has happened",
since its run allows overlaps that can end in one. No fairness is assumed of the process: it
need not make any call.

No run checks the type invariants: they are theorems (`TypeCorrect` of `BafsMem`,
`BafsDev` and `BafsCtx`), and so hold in every instance.

Deadlock is checked in all runs but one; `Halted` (`LoadHalted`) is the legitimate end (the process is
gone, nobody calls, or a fault). `MCBafsLocks` allows the overlap in which threads do
stop, so it does not check deadlock; `OneInversion` says which threads may.

## 5. Proofs

Each theorem holds for all values of the constants: any number of threads, files,
controllers, registrations and processes, any sizes. The assumptions on the constants
are the `ASSUME` of the component's module: sets of objects that are counted are
finite, `NULL` is none of the objects, bounds are natural numbers. Where a theorem
needs the usage contract of section 3 it has it as a hypothesis, which is a condition
on the constant that lets the model leave the contract. Without one, a theorem is about
every use of the driver, up to the first memory error.

### BafsMemProofs

| Theorem | Statement |
|---|---|
| `TypeCorrect` | `Spec => []TypeOK` |
| `ControllerCountExact` | `Spec => []CtrlRefExact` |
| `ContextCountExact` | `Spec => []CtxRefExact` |
| `ListsSound` | `Spec => []DmaListsSound` |
| `TablesAlwaysBacked` | `Spec => []TablesBacked` |

None of the properties is inductive alone. `TypeOK` needs that a count about to
be dropped is positive, which comes from the guards that turn every other case
into a fault (`RunsFacts`), and for page tables from `TableInv`: a page table
pointer is backed by a table until the object is DEAD, and only an object that
has been handed to `kfree_rcu` is DEAD, so a release that may still run finds its
table. `CtrlRefExact` needs to know that an object that is freed was live and was
counted once. That is `DmaInv`: a mapping object a thread is filling in is live,
in no list and in no other thread's hands (`InFlight`); an object in a list is
live and of that registration (`DmaListsSound`); what a thread has already made
was made for a registration and a controller (`DmaMade`). `Locals` says which
local variables are set at which step. `Inv` is the conjunction.

The argument: `InitInv`, one lemma per call (`RegSteps`, `PinSteps`, `RelSteps`,
`CloseSteps`, `UnmapSteps`, `WalkSteps`, `MapSteps` and so on), most of them
through frame lemmas for steps that leave mapping objects or page tables alone
(`FrameStep`, `TableStep`, `FreeStep`), put together in `InvNext`.

The other invariants of `BafsMem` are proved from what the steps do and no longer
from the actions: `NextDoes` turns a step into one of the effects in `StepEff`, each
of which says, with the guards used, what changes in which object and thread. One
effect may stand for several actions (`LockEff`, `MapEff` collect those of the calls;
`Frozen` is a fault). `CtxRefExact` is part of `CtxInv`, which needs no
contract: a step belongs to the call the thread is in (`Ops`), a call and a vma keep
their file open (`FilesOK`), nothing leads to an object nobody has made (`Unused`), or
to one before `xa_alloc` but from its maker (`Making`), the walk stays within `mem_list`
while it has the lock (`Walks`), and the list holds live registrations only (`Lists`).
`BaseInv`, also for every process, has what concerns locks and releases: `mmap_lock`, one
releaser per registration, a live mapping object is in a list or in one thread's hands
(`DmaPlaced`), calls in flight may overlap (`Overlaps`).

### BafsMemRaceProofs

`Races` is `Protocol` and {REG_MEM, close} and {pin, close} kept apart. All other pairs
may overlap but those a theorem names.

| Theorem | Hypothesis | Statement |
|---|---|---|
| `HandlesAlwaysValid` | `Races` | `Spec => []HandlesValid` |
| `CallbackAlwaysSafe` | `Races` | `Spec => []CallbackSafe` |
| `CpuPagesAlwaysPinned` | `Races` | `Spec => []CpuDmaPagesPinned` |
| `PagesAlwaysPinned` | `Races`, {callback, map} apart | `Spec => []DmaPagesPinned` |
| `MemCountExact` | `Races`, {callback, pin} apart | `Spec => []MemRefExact` |
| `LookupAlwaysRight` | `Races`, {map, munmap} apart | `Spec => []LookupFindsMapped` |
| `NeverFaults` | `Races`, {map, munmap} and {callback, map} apart | `Spec => []NoFault` |
| `NothingIsLeft` | all five pairs of section 3 apart | `Spec => []NothingLeft` |
| `MemRefinement` | all five pairs of section 3 apart | `Spec => MemImplementsAbs` |

So each property of `MCBafsMemContract` needs less than the contract, and no property
needs a pair apart that section 3 does not name for it or for what it rests on.

- `RaceInv` is `NameInv` and `CountInv`. `NameInv` follows a registration through its
  names: the handle the process has, the array, the list, the vma, the call that pins or
  unmaps it. Two of them name one registration only where the protocol says so. `CountInv`
  is about references. An exact count is not inductive here, because a callback between a
  pin's `kref_get` and its failure leaves a registration that nobody owns with one
  reference too many. What is inductive is a bound: `Slack(m)`, the references that neither
  a mapping nor a call has, is 0 or 1, and it is 1 as long as somebody is going to drop it
  (`Token`). From that the last put comes after the last mapping is off the list, so
  page tables outlive mappings (`Mapped`) and a callback finds its object (`Callbacks`).
- `OwnInv` closes the gap when callback and pin are apart: a `Slack` of 1 has an owner
  (`Owns`). With the token this is `MemRefExact`.
- `MapInv` is for {map, munmap} apart: the vma a DMA_MAP_MEM started from stays, its lookup
  finds that vma's registration and no stale one that has kept the address (`MapsOK`,
  `StaleAddr`, `LiveAddr`), and only a munmap releases (`RelsOK`). `NeverFaults` takes the
  kinds of error one by one. With {callback, map} apart no callback frees the page table a
  DMA_MAP_MEM is reading (`NoTableFreed`); for the others that pair need not be apart: whatever a step dereferences is live (`HeldLive`), since a
  live registration has its slack (`LiveSlack`) and a put that is not the last leaves a
  positive count (`RefsCover`).
- `EndInv` is what `NothingLeft` needs in addition: a registration that was never pinned
  implies a file that will sweep it (`StalesHeld`), and one that is not LIVE has neither
  mappings nor pages (`NoDmas`, `PagesOf`).
- `MemRefinement` needs no invariant beyond these. Eleven effects are steps of `BafsMemAbs`
  (`RegStartRef`, `PinDoRef` and so on), the others change neither `Phase` nor `Reached`
  (`Unseeing`). Two lemmas carry most of it: a mapping that controllers reach belongs to a
  registration that is LIVE, before and after every step (`ReachesLive`,
  `ReachesLiveNext`), so nothing reaches what ends or is revoked; and the registration a
  DMA_MAP_MEM is mapping has its vma (`MakesMapping`). The munmap also uses that no
  mapping is being made beside it.

### BafsDevProofs

| Theorem | Hypothesis | Statement |
|---|---|---|
| `TypeCorrect` | | `Spec => []TypeOK` |
| `MinorsAlwaysExact` | | `Spec => []MinorsExact` |
| `CoreRefAlwaysExact` | | `Spec => []CoreRefExact` |
| `RegionAlwaysOwned` | | `Spec => []RegionOwned` |
| `NothingIsLeft` | | `Spec => []NothingLeft` |
| `RefAlwaysExact` | `Protocol` | `Spec => []RefExact` |
| `NeverFaults` | `Contract` | `Spec => []NoFault` |
| `BoundAlwaysUsable` | `Contract` | `Spec => []BoundIsUsable` |

`Contract` is `Protocol` and the six pairs of section 3 about devices that may not
overlap, the ones `MCBafsDevContract` leaves out.

`Inv` (in `BafsDevShape`) holds with or without a protocol. A call may be a whole
stack: CREATE_GROUP puts a controller, whose last put releases it, in the middle of the
undo of a group, so the invariant speaks of the frame in which a call makes or takes
down a group (`GroupFrame`) and of the controller it is at (`CtrlOf`). Its parts need
each other:

- `Threads`: which stacks and locals a call has at each step. `Owners`: one thread at a
  time makes or takes down an object. `Stages`: what there is of the object (number,
  cdev, device, region) at each of those steps. `Objects`: an object that lives without
  references is in some thread's hands; a freed one has no cdev.
- `Driver`: one call at a time probes or removes a function. `Regions`: BAR 0 and the
  enable count belong to the controller that has got that far and not given them back.
- `MinorsExact`, `CoreRefExact`, and `FoundExact`: the references `class_find_device`
  took are those of the names a CREATE_GROUP call has still to pass on.
- `Counts`: `Uses(o)` adds up the binding or announcement of `o`, its files, its
  memberships in groups, the calls about to put it and the references that outlive a call
  (`kept`). The count
  of a controller is exactly that. That of a group is at most that, since without the
  protocol a group may be deleted twice.
- `Creators`, `Opening`: nobody else has a group before CREATE_GROUP returns, or a file
  before its open does.

`BafsDevProofs` has one lemma per kind of step. Each shows that the step fits
(`Fits`: its thread, its objects and its ownership are as the invariant says), from
which frame conditions give the invariant for everybody else, and counts what the step
moved. `InvNext` puts the calls together; `Invariance` is the theorem.

Under `Protocol`, `ProtocolInv` makes the count of a group exact too, and `DeletesOK`
says that DELETE_GROUP drops the reference of a group. `NoFault` is proved from
`ContractInv`: `Overlaps`, and `CallsOK`, that the devices of a call stay in use until
it is over. A device that somebody uses has a positive count, so no other call frees it
and the call itself never drops its last reference. `BoundIsUsable` needs `Masters`:
while a function is bound, no earlier controller of it is on its way through
`bafs_ctrl_release`, since probe does not overlap close, DELETE_GROUP and munmap, the
calls that may drop a removed controller's last reference.

### BafsCtxProofs

| Theorem | Hypothesis | Statement |
|---|---|---|
| `TypeCorrect` | | `Spec => []TypeOK` |
| `TableAlwaysExact` | | `Spec => []TableExact` |
| `CtxCountExact` | | `Spec => []RefExact` |
| `PidCountExact` | | `Spec => []PidRefExact` |
| `ContractPreventsFaults` | no open overlaps a close | `Spec => []NoFault` |
| `ContextIsOwn` | no file is inherited | `Spec => []OwnContext` |
| `Refinement` | | `Spec => ImplementsAbs` |

`Invariance` proves the inductive invariant `Inv` the first four are parts of. They
need each other and four things more: what a thread has in its locals (`Locals`), that
two calls never work on one file and that the file of a call is not open
(`FilesApart`, `FilesOK`), that a context with a count is in the table
(`CountedIsFound`) and that a context whose count is zero and that still exists is in
the hands of exactly one thread that releases it (`ReleasedOnce`). The last one is why
no release is lost or done twice.

`NoFault` is not a matter of the counts: a context found in the table whose count is
zero is what a close leaves there between its put and its erase. `ContractInv` says
that two calls for one process number were let in together, so that an open that has
found a context knows of no close, and the context is still counted (`FoundIsCounted`).
`OwnContext` needs in addition that of two living processes with one number there is
only one, and that the file's opener is alive as long as the file is open (`OwnInv`).

The refinement needs `Inv` only: every step of `BafsCtx` but three leaves `Member` and
`Over` alone; the step that completes an open adds a file to the context that the
others of the number have, since both are the table's; a put removes the file; the last
put ends a context which no file has.

### BafsLoadProofs

| Theorem | Hypothesis | Statement |
|---|---|---|
| `AlwaysGivenBack` | | `LoadSpec => []AllGivenBack` |
| `CodeNeverUsed` | no device is opened before the load is over | `LoadSpec => []CodeUnused` |
| `DevicesAlwaysBacked` | the same, and no group outlives its owner at unload | `LoadSpec => []DevicesBacked` |
| `NoFaultAcrossLoads` | no device is opened before the load is over, no open overlaps a close | `LoadSpec => []NoFault` |
| `OwnContextAcrossLoads` | no device is opened before the load is over, no file is inherited | `LoadSpec => []OwnContext` |

`HeldInv` (`HeldInvariance`) says what is held at every place of `bafs_init`, of its
error labels and of `bafs_exit`: what is held while the labels run is contained in what
they have still to give back, plus the minor number. `CodeUnused` adds `UsersGone`
(nobody uses the module unless it is live) and the invariant of the contexts, from
which it follows that without files and calls there is no context (`NoneLeft`): a step
of the composed system is a step of the contexts or leaves them alone (`LoadIsCtxStep`).
`DevicesBacked` adds that nothing is bound, open, DMA mapped or grouped once `bafs_exit` or an
error label has taken the driver away (`BoundGone`), and that the core device goes before
what it needs (`CoreBacked`). It does not speak of devices kept by a lost reference alone.
`NoFaultAcrossLoads` and `OwnContextAcrossLoads` carry the theorems of `BafsCtx` over: by
`LoadIsCtxStep` its inductive invariants hold under `LoadSpec`, since the step that sets up the table
finds it empty.

### BafsDmaMapProofs

| Theorem | Hypothesis | Statement |
|---|---|---|
| `UnmapsWhatIsMapped` | | `Spec => []UnmapMatches` |
| `BusAlwaysExact` | | `Spec => []BusExact` |
| `MappingsAlwaysCover` | | `Spec => []MappingsCover` |
| `MemoryAlwaysExact` | | `Spec => []MemoryExact` |
| `ArrayAlwaysFilled` | `Countable` | `Spec => []ArrayFilled` |

The arithmetic is in `NPagesFacts` and the lemmas after it: for every size below
`U32` and every page size, the pages cover the size, one page less does not, and the
offset of no page wraps. `Inv` (`Invariance`) then says which pages the call in progress has
mapped (`BusIs`), that mapping objects that are complete have distinct controllers'
mappings with the length they will be unmapped with, and which arrays are in use
(`ArraysOK`). `ArrayFilled` is about consecutive slices of the caller's array;
`Slices` and the lemmas about it show that one more controller fills exactly the next
slice. `Countable` says that the addresses of a group's mappings can be counted in 32
bits. The code does not check it, but 2^20 pages of 4096 bytes and less than 4096
controllers satisfy it.

### BafsLibProofs

| Theorem | Hypothesis | Statement |
|---|---|---|
| `CoreAlwaysKept` | `Careful` | `Spec => []CoreKept` |
| `HandlesAlwaysRight` | `Careful` | `Spec => []HandleIsRight` |

`Careful` is the library's contract: the first call is over before a second thread
calls, a thread names only groups it created itself and has not deleted, and opens no
handle that is in use. `Inv` says that a
number a thread has for a group it created is still that group's (`GroupsOK`), which is
what makes the name of a device file that is opened later right, that only the first
call finds the core device closed (`CoreOK`, `FirstOK`) and that the type field of a
handle agrees with its descriptor (`HandlesOK`). That a number is not used again while
its group exists rests on `LowestIn`: the number the kernel gives is free.

### Only model-checked

Every invariant and every refinement the runs check is stated by a theorem, but
`OneInversion` of `BafsLocks`. The rest is liveness (`CallsReturn`,
`ReleasedIsFreed`), which is outside what the proof system can do.

## 6. Not modelled

- Sleeping calls under spinlocks, which need a model of the scheduler: under
  `group->lock` at `group.c:25`, `group.c:72`, and the allocations (`ctrl.c:109`, `ctrl.c:134`)
  and copies to the user of a group mapping; under `ctx->lock` at `mem.c:304`; under
  `mem->lock` the allocations of a pin (`mem.c:30`, `mem.c:38`). A sleeper is just a slow
  holder of its lock in `BafsLocks`.
- The locks of the GPU driver, which may be held around its callback and in
  `nvidia_p2p_get_pages` (under `mem->lock`).
- The callback before its `spin_lock` (`mem.c:108`): it is taken to be non-preemptible from its
  entry on, which `CallbackSafe` rests on.
- `nvidia_p2p_put_pages` and `nvidia_p2p_free_page_table` (`mem.c:248`, `mem.c:249`) one by one:
  they are one give-back of a page table. A failing pin calls the first only
  (`mem.c:212`); what the GPU driver does with the table then is its own.
- What becomes of a controller that is still used after its function was unbound: a
  later probe that finds the region taken clears the function's bus mastering
  (`ctrl.c:585`), a step of the model (`ProbeUndo`) that no property judges.
- Devices kept by a lost reference, as objects of their own in a later load of the
  module.
- Debug output, some of which reads an object after its last put (`ctrl.c:84`,
  `group.c:49`).
- The reference on a group's `struct device` that a mismatched name leaves behind
  (`group.c:357`): the step is `CreateMismatch`, but devices of the driver core are not
  counted.
- The length of a GPU range against the pages remapped into it (`mem.c:199`): the
  loop remaps all pages of the registration whatever the range is.
- Which bytes of BAR 0 a mapping reaches (`ctrl.c:431`): data of the device.
- `bafs_get_mem`, which has no caller.
- The numbers of the ioctls and the PCI ids, constants without behaviour, the debug
  macros, and the test programs, whose expectations are quoted where a run is about
  them.

## 7. Plan

What was planned is done: all but what section 6 names is modelled, and every invariant and
refinement that the runs check is a theorem. Worth adding next:

1. A model of the scheduler for the calls that may sleep under a spinlock (section 6).
2. A proof of `OneInversion`, by an order of the locks that all nestings but one respect.
3. `BafsMem` with the contexts of `BafsCtx` in one composition, so that the files a
   child inherits meet the registrations of its parent.
