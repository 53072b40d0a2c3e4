------------------------------ MODULE BafsLoad ------------------------------
(***************************************************************************)
(* Loading and unloading the module (bafs_init and bafs_exit of core.c,    *)
(* with the class set-up of ctrl.c and group.c), composed with the         *)
(* contexts of BafsCtx: while bafs_init still runs, the devices it has     *)
(* made so far can be opened, and its last step initialises the table that *)
(* those opens have already used.                                          *)
(*                                                                         *)
(* The devices of controllers and groups are here only to be there or not: *)
(* BafsDev has their life in detail.                                       *)
(***************************************************************************)
EXTENDS BafsCtx, Sequences

CONSTANTS
  Ctrl,       \* controllers of the machine
  Group,      \* groups; bounds how many there are at a time
  MaxLoads,   \* bound on the number of loads
  EarlyOpen,  \* TRUE: devices are opened while the module is being loaded
  KeepGroups  \* TRUE: the module is unloaded without deleting the groups first

ASSUME LoadAssumption ==
  /\ MaxLoads \in Nat
  /\ EarlyOpen \in BOOLEAN /\ KeepGroups \in BOOLEAN

VARIABLES
  mod,    \* "out", "coming", "live", "undo", "going" or, after a failed load, "failed"
  held,   \* what bafs_init has taken and nobody has given back
  todo,   \* what the running bafs_init or bafs_exit has still to take or give back
  bound,  \* controllers the driver has bound
  used,   \* controllers that an open file or a DMA mapping refers to
  lost,   \* controllers with a reference that nobody puts any more
  group,  \* group[g]: the controllers of g, {} if there is no such group
  loads   \* number of loads so far

devVars  == <<bound, used, lost, group>>
loadVars == <<mod, held, todo, devVars, loads>>
allVars  == <<vars, loadVars>>

----------------------------------------------------------------------------
(* The order in which bafs_init takes things. *)
InitOrder == <<"region", "core_class", "ctrl_class", "group_class", "minor", "cdev",
               "core_dev", "driver", "table">>

(* What its error labels give back, in the order of the labels: none puts  *)
(* the minor number of the core device.                                    *)
Undo == <<"core_dev", "cdev", "group_class", "ctrl_class", "core_class", "region">>

(* The label that a failure to take r jumps to.  A failed cdev_add goes to *)
(* cdev_del like a failed device_create.                                   *)
Label == [driver |-> 1, core_dev |-> 2, cdev |-> 2, minor |-> 3, group_class |-> 4,
          ctrl_class |-> 5, core_class |-> 6, region |-> 7]

(* Mutant: a failure jumps to the label after the right one. *)
UndoOf_short(r) == SubSeq(Undo, Label[r] + 1, Len(Undo))

UndoOf(r) == SubSeq(Undo, Label[r], Len(Undo))

(* Mutant: the classes go before the driver. *)
ExitOrder_classesFirst ==
  <<"group_class", "ctrl_class", "driver", "core_dev", "cdev", "core_class", "region",
    "table", "minor">>

ExitOrder == <<"driver", "core_dev", "cdev", "group_class", "ctrl_class", "core_class",
               "region", "table", "minor">>

(* The code of the module is in memory. *)
Loaded == mod \notin {"out", "failed"}

Grouped == UNION {group[g] : g \in Group}

(* What keeps a device that the driver has let go of: an open file or a    *)
(* DMA mapping, a group, and for ever a reference that was lost.           *)
Unbound == used \cup lost \cup Grouped

(* The controllers that have a device. *)
Node == bound \cup Unbound

----------------------------------------------------------------------------
(* bafs_init *)

Insmod ==
  /\ ~Loaded
  /\ loads < MaxLoads
  /\ mod' = "coming"
  /\ todo' = InitOrder
  /\ held' = {}
  /\ loads' = loads + 1
  /\ UNCHANGED <<devVars, vars>>

Acquire ==
  /\ mod = "coming"
  /\ Head(todo) # "table"
  /\ held' = held \cup {Head(todo)}
  /\ todo' = Tail(todo)
  /\ UNCHANGED <<mod, devVars, loads, vars>>

(* The step fails and bafs_init jumps to its label. *)
AcquireFails ==
  /\ mod = "coming"
  /\ Head(todo) # "table"
  /\ todo' = UndoOf(Head(todo))
  /\ mod' = IF todo' = <<>> THEN "failed" ELSE "undo"
  /\ UNCHANGED <<held, devVars, loads, vars>>

(* pci_register_driver fails after it has bound controllers. *)
DriverFails ==
  /\ mod = "coming"
  /\ Head(todo) = "table"
  /\ held' = held \ {"driver"}
  /\ bound' = {}
  /\ todo' = UndoOf("driver")
  /\ mod' = "undo"
  /\ UNCHANGED <<used, lost, group, loads, vars>>

(* xa_init_flags: whatever was in the table is out of it. *)
TableInit ==
  /\ mod = "coming"
  /\ Head(todo) = "table"
  /\ slot' = [n \in Pid |-> NULL]
  /\ held' = held \cup {"table"}
  /\ todo' = <<>>
  /\ mod' = "live"
  /\ UNCHANGED <<devVars, loads, ctx, file, proc, pidRef, leak, th, fault>>

----------------------------------------------------------------------------
(* bafs_exit and the error labels of bafs_init.  Unloading needs the       *)
(* reference count of the module to be zero: every open file and every     *)
(* call in progress has one, and so has what a file keeps in use: its      *)
(* controller, and the DMA mappings of its pinned ranges, which end before *)
(* the file does.                                                          *)

ModuleUnused ==
  /\ \A f \in File : file[f] = NoFile
  /\ \A t \in Thread : th[t] = Idle
  /\ used = {}

(* Mutant: the file operations have no owner. *)
Rmmod_noOwner ==
  /\ mod = "live"
  /\ KeepGroups \/ \A g \in Group : group[g] = {}
  /\ mod' = "going"
  /\ todo' = ExitOrder
  /\ UNCHANGED <<held, devVars, loads, vars>>

Rmmod ==
  /\ mod = "live"
  /\ ModuleUnused
  /\ KeepGroups \/ \A g \in Group : group[g] = {}
  /\ mod' = "going"
  /\ todo' = ExitOrder
  /\ UNCHANGED <<held, devVars, loads, vars>>

(* To give back what was never taken changes nothing: cdev_del after a     *)
(* failed cdev_add finds no entry to remove.                               *)
GiveBack ==
  /\ mod \in {"undo", "going"}
  /\ held' = held \ {Head(todo)}
  /\ todo' = Tail(todo)
  /\ bound' = IF Head(todo) = "driver" THEN {} ELSE bound
  /\ mod' = CASE Tail(todo) # <<>> -> mod
              [] Tail(todo) = <<>> /\ mod = "going" -> "out"
              [] Tail(todo) = <<>> /\ mod = "undo" -> "failed"
  /\ UNCHANGED <<used, lost, group, loads, vars>>

----------------------------------------------------------------------------
(* Controllers and groups come and go, by hot plugging and by ioctls on a  *)
(* file; that it has to be one of the core device is left out, since       *)
(* BafsCtx does not tell the files apart.                                  *)

Probe(c) ==
  /\ "driver" \in held
  /\ mod \in {"coming", "live"}
  /\ bound' = bound \cup {c}
  /\ UNCHANGED <<mod, held, todo, used, lost, group, loads, vars>>

(* The device goes with the last reference: see Unbound. *)
Unbind(c) ==
  /\ mod \in {"coming", "live"}
  /\ bound' = bound \ {c}
  /\ UNCHANGED <<mod, held, todo, used, lost, group, loads, vars>>

AFileIsOpen == \E f \in File : file[f] # NoFile

(* A file of the controller is opened, or a range DMA mapped through it. *)
Use(c) ==
  /\ AFileIsOpen
  /\ c \in Node
  /\ used' = used \cup {c}
  /\ UNCHANGED <<mod, held, todo, bound, lost, group, loads, vars>>

Unuse(c) ==
  /\ used' = used \ {c}
  /\ UNCHANGED <<mod, held, todo, bound, lost, group, loads, vars>>

(* A mapping of the controller's registers takes a reference that no       *)
(* munmap puts, and so does a registration that fails.                     *)
LoseReference(c) ==
  /\ AFileIsOpen
  /\ c \in Node
  /\ lost' = lost \cup {c}
  /\ UNCHANGED <<mod, held, todo, bound, used, group, loads, vars>>

CreateGroup(g, S) ==
  /\ AFileIsOpen
  /\ group[g] = {}
  /\ S # {} /\ S \subseteq Node
  /\ group' = [group EXCEPT ![g] = S]
  /\ UNCHANGED <<mod, held, todo, bound, used, lost, loads, vars>>

DeleteGroup(g) ==
  /\ AFileIsOpen
  /\ group[g] # {}
  /\ group' = [group EXCEPT ![g] = {}]
  /\ UNCHANGED <<mod, held, todo, bound, used, lost, loads, vars>>

(* The kernel gets a reference on the module for every open, which works   *)
(* unless the module is being unloaded or its load has failed.             *)
MayOpen == mod = "live" \/ (EarlyOpen /\ mod = "coming")

OpenDevice(t) ==
  /\ MayOpen
  /\ \E p \in Proc, f \in File :
       \/ "cdev" \in held /\ \E c \in Ctx : CoreOpen(t, p, f, c)
       \/ Node # {} /\ DevOpen(t, p, f)
  /\ UNCHANGED loadVars

(* Everything else that happens to the contexts.  Their memory errors are  *)
(* the subject of BafsCtx and are not repeated here.                       *)
CtxStep ==
  /\ \/ Loaded /\ \E t \in Thread : Close(t) \/ Step(t) \/ Oops(t)
     \/ Processes
  /\ UNCHANGED loadVars

LoadStep == Acquire \/ AcquireFails \/ DriverFails \/ TableInit \/ GiveBack

LoadInit ==
  /\ Init
  /\ mod = "out" /\ held = {} /\ todo = <<>>
  /\ bound = {} /\ used = {} /\ lost = {} /\ group = [g \in Group |-> {}]
  /\ loads = 0

(* Nothing is in progress, or an error has happened. *)
LoadHalted ==
  /\ fault # "none" \/ (todo = <<>> /\ \A t \in Thread : th[t] = Idle)
  /\ UNCHANGED allVars

LoadNext ==
  \/ /\ fault = "none"
     /\ \/ Insmod \/ Rmmod \/ LoadStep
        \/ \E c \in Ctrl : Probe(c) \/ Unbind(c) \/ Use(c) \/ Unuse(c) \/ LoseReference(c)
        \/ \E g \in Group, S \in SUBSET Ctrl : CreateGroup(g, S)
        \/ \E g \in Group : DeleteGroup(g)
        \/ \E t \in Thread : OpenDevice(t)
        \/ CtxStep
  \/ LoadHalted

LoadSpec == LoadInit /\ [][LoadNext]_allVars

----------------------------------------------------------------------------
(* Properties. *)

(* A failed load gives back everything but the minor number of the core    *)
(* device, at whatever step it failed, and an unload everything.           *)
AllGivenBack ==
  /\ mod = "failed" => held \subseteq {"minor"}
  /\ mod = "out" => held = {}

(* Whoever is in use finds what it needs: the core device its cdev, its    *)
(* number and its class; a controller that is bound, open, DMA mapped or   *)
(* in a group its class as well, and a group its own.  A device that only  *)
(* a lost reference keeps is not among them: it outlives all of this.      *)
DevicesBacked ==
  LET core == {"region", "core_class", "minor", "cdev"}
  IN /\ "core_dev" \in held => core \subseteq held
     /\ bound \cup used \cup Grouped # {} => core \cup {"core_dev", "ctrl_class"} \subseteq held
     /\ Grouped # {} => "group_class" \in held

(* No file of the driver is open, no call in progress and no context left  *)
(* when the code is gone.                                                  *)
CodeUnused ==
  ~Loaded => ModuleUnused /\ \A c \in Ctx : ctx[c].heap # "live"
=============================================================================
