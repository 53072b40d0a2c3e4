--------------------------- MODULE BafsLoadProofs ---------------------------
(***************************************************************************)
(* Proofs about BafsLoad, for every number of loads, controllers, groups,  *)
(* threads, processes and files.                                           *)
(*                                                                         *)
(* HeldInv ties what the module holds to the place that bafs_init, its     *)
(* error labels or bafs_exit have reached; it needs no assumption.         *)
(* UsersGone says that nobody uses the module unless it is live, which is  *)
(* so when no device is opened while it is being loaded.  The contexts     *)
(* then keep the invariant of BafsCtxProofs: the table is empty when       *)
(* bafs_init initialises it.                                               *)
(***************************************************************************)
EXTENDS BafsLoad, BafsCtxProofs, SequenceTheorems

----------------------------------------------------------------------------
(* The inductive invariants. *)

(* What bafs_init takes before its i-th step, and all of it. *)
TakenBefore(i) == {InitOrder[j] : j \in 1 .. (i - 1)}

Everything == {InitOrder[j] : j \in 1 .. 9}

Part == {"region", "core_class", "ctrl_class", "group_class", "minor", "cdev", "core_dev",
         "driver", "table"}

(* The part of a sequence of steps that is left from the i-th on. *)
From(order, i) == SubSeq(order, i, Len(order))

(* What the core device needs; it is the first that the labels take back.  *)
CoreParts == {"region", "core_class", "minor", "cdev"}

(* What is held at each place of bafs_init, its error labels and bafs_exit. *)
HeldInv ==
  /\ mod \in {"out", "coming", "live", "undo", "going", "failed"}
  /\ mod \in {"out", "failed", "live"} => todo = <<>>
  /\ mod = "out" => held = {}
  /\ mod = "failed" => held \subseteq {"minor"}
  /\ mod = "coming" => \E i \in 1 .. 9 : todo = From(InitOrder, i) /\ held = TakenBefore(i)
  /\ mod = "live" => held = Everything
  /\ mod = "undo" => \E i \in 1 .. 6 :
       /\ todo = From(Undo, i) /\ held \subseteq {Undo[j] : j \in i .. 6} \cup {"minor"}
       /\ i = 1 => CoreParts \subseteq held
  /\ mod = "going" => \E i \in 1 .. 9 :
       todo = From(ExitOrder, i) /\ held = {ExitOrder[j] : j \in i .. 9}

(* Nobody uses the module unless it is live. *)
UsersGone == mod # "live" => ModuleUnused

(* There are no groups then either, and nothing bound once the driver is   *)
(* gone.                                                                   *)
BoundGone ==
  /\ mod # "live" => \A g \in Group : group[g] = {}
  /\ "driver" \notin held \/ mod = "undo" => bound = {}

----------------------------------------------------------------------------
(* The orders of bafs_init, its labels and bafs_exit. *)

(* They are finite sequences of names. *)
LEMMA OrderFacts ==
  /\ InitOrder \in Seq(Part) /\ Len(InitOrder) = 9
  /\ Undo \in Seq(Part) /\ Len(Undo) = 6
  /\ ExitOrder \in Seq(Part) /\ Len(ExitOrder) = 9
<1>1. InitOrder \in Seq(Part) /\ Len(InitOrder) = 9
  BY DEF InitOrder, Part
<1>2. Undo \in Seq(Part) /\ Len(Undo) = 6
  BY DEF Undo, Part
<1>3. ExitOrder \in Seq(Part) /\ Len(ExitOrder) = 9
  BY DEF ExitOrder, Part
<1> QED BY <1>1, <1>2, <1>3

(* Taking the first of the steps that are left. *)
LEMMA FromFacts ==
  ASSUME NEW o \in Seq(Part), NEW i \in 1 .. Len(o)
  PROVE  /\ Head(From(o, i)) = o[i]
         /\ Tail(From(o, i)) = From(o, i + 1)
         /\ (From(o, i + 1) = <<>>) <=> (i = Len(o))
<1>1. Len(o) \in Nat /\ \A j \in 1 .. Len(o) : o[j] \in Part
  BY LenProperties, ElementOfSeq
<1>2. Head(From(o, i)) = o[i] /\ Tail(From(o, i)) = From(o, i + 1)
  BY <1>1, HeadTailOfSubSeq DEF From
<1>4. CASE i = Len(o)
  <2>1. From(o, i + 1) = <<>>
    BY <1>1, <1>4, SubSeqEmpty DEF From
  <2> QED BY <1>2, <1>4, <2>1
<1>5. CASE i # Len(o)
  <2>1. Len(From(o, i + 1)) = Len(o) - i
    BY <1>1, <1>5, SubSeqProperties DEF From
  <2>2. Len(From(o, i + 1)) # 0
    BY <1>1, <1>5, <2>1
  <2>3. From(o, i + 1) # <<>>
    BY <2>2
  <2> QED BY <1>2, <1>5, <2>3
<1> QED BY <1>4, <1>5

(* Where the labels begin when the i-th step of bafs_init fails: what was  *)
(* taken before is given back by the labels that follow, but the minor     *)
(* number.                                                                 *)
LEMMA LabelFacts ==
  ASSUME NEW i \in 1 .. 8
  PROVE  LET l == Label[InitOrder[i]]
         IN  /\ l \in 1 .. 7
             /\ l = 7 <=> i = 1
             /\ l = 1 => CoreParts \subseteq TakenBefore(i)
             /\ TakenBefore(i) \subseteq {Undo[j] : j \in l .. 6} \cup {"minor"}
<1>1. ASSUME NEW j \in 1 .. (i - 1), InitOrder[j] # "minor"
      PROVE  \E k \in Label[InitOrder[i]] .. 6 : Undo[k] = InitOrder[j]
  BY <1>1 DEF InitOrder, Label, Undo
<1>2. Label[InitOrder[i]] \in 1 .. 7 /\ (Label[InitOrder[i]] = 7 <=> i = 1)
  BY DEF InitOrder, Label
<1>3. Label[InitOrder[i]] = 1 => i = 8
  BY DEF InitOrder, Label
<1>4. CoreParts \subseteq TakenBefore(8)
  BY DEF CoreParts, TakenBefore, InitOrder
<1> QED BY <1>1, <1>2, <1>3, <1>4 DEF TakenBefore

----------------------------------------------------------------------------
(* What is held. *)

(* Every step of the module keeps what it holds in line with its place. *)
LEMMA HeldNext ==
  ASSUME HeldInv, [LoadNext]_allVars
  PROVE  HeldInv'
<1>1. CASE UNCHANGED <<mod, held, todo>>
  BY <1>1 DEF HeldInv
<1>2. CASE Insmod
  <2>1. mod' = "coming" /\ todo' = InitOrder /\ held' = {}
    BY <1>2 DEF Insmod
  <2>2. From(InitOrder, 1) = InitOrder
    BY OrderFacts, SubSeqFull DEF From
  <2>3. TakenBefore(1) = {}
    BY DEF TakenBefore
  <2> QED BY <2>1, <2>2, <2>3 DEF HeldInv
<1>3. CASE mod = "coming" /\ (Acquire \/ AcquireFails \/ DriverFails \/ TableInit)
  <2>1. PICK i \in 1 .. 9 : todo = From(InitOrder, i) /\ held = TakenBefore(i)
    BY <1>3 DEF HeldInv
  <2>2. Head(todo) = InitOrder[i] /\ Tail(todo) = From(InitOrder, i + 1)
    BY <2>1, OrderFacts, FromFacts
  <2>3. Head(todo) = "table" <=> i = 9
    BY <2>2 DEF InitOrder
  <2>4. CASE Acquire
    <3>1. /\ i \in 1 .. 8 /\ mod' = "coming"
          /\ todo' = From(InitOrder, i + 1) /\ held' = TakenBefore(i) \cup {InitOrder[i]}
      BY <1>3, <2>1, <2>2, <2>3, <2>4 DEF Acquire
    <3>2. TakenBefore(i + 1) = TakenBefore(i) \cup {InitOrder[i]}
      <4>1. 1 .. ((i + 1) - 1) = 1 .. (i - 1) \cup {i}
        BY <3>1
      <4> QED BY <4>1 DEF TakenBefore
    <3>3. i + 1 \in 1 .. 9
      BY <3>1
    <3> QED BY <3>1, <3>2, <3>3 DEF HeldInv
  <2>5. CASE AcquireFails
    <3> DEFINE l == Label[InitOrder[i]]
    <3>1. /\ i \in 1 .. 8 /\ held' = held
          /\ todo' = From(Undo, l) /\ mod' = IF todo' = <<>> THEN "failed" ELSE "undo"
      <4>1. UndoOf(InitOrder[i]) = From(Undo, l)
        BY DEF UndoOf, From
      <4> QED BY <1>3, <2>1, <2>2, <2>3, <2>5, <4>1 DEF AcquireFails
    <3>2. /\ l \in 1 .. 7 /\ (l = 7 <=> i = 1)
          /\ l = 1 => CoreParts \subseteq held
          /\ held \subseteq {Undo[j] : j \in l .. 6} \cup {"minor"}
      BY <2>1, <3>1, LabelFacts
    <3> HIDE DEF l
    <3>3. CASE l = 7
      <4>1. todo' = <<>>
        <5>1. From(Undo, 6 + 1) = <<>>
          BY OrderFacts, SubSeqEmpty DEF From
        <5> QED BY <3>1, <3>3, <5>1
      <4>2. held = {}
        BY <2>1, <3>2, <3>3 DEF TakenBefore
      <4> QED BY <3>1, <4>1, <4>2 DEF HeldInv
    <3>4. CASE l # 7
      <4>1. l \in 1 .. 6
        BY <3>2, <3>4
      <4>2. todo' # <<>>
        <5>1. Len(From(Undo, l)) # 0
          BY <4>1, OrderFacts, SubSeqProperties, ElementOfSeq DEF From
        <5> QED BY <3>1, <5>1
      <4> QED BY <3>1, <3>2, <4>1, <4>2 DEF HeldInv
    <3> QED BY <3>3, <3>4
  <2>6. CASE DriverFails
    <3>1. /\ i = 9 /\ held' = TakenBefore(9) \ {"driver"}
          /\ todo' = From(Undo, 1) /\ mod' = "undo"
      BY <2>1, <2>3, <2>6 DEF DriverFails, UndoOf, From, Label
    <3>2. TakenBefore(9) \ {"driver"} \subseteq {Undo[j] : j \in 1 .. 6} \cup {"minor"}
      BY DEF TakenBefore, InitOrder, Undo
    <3>3. CoreParts \subseteq TakenBefore(9) \ {"driver"}
      BY DEF CoreParts, TakenBefore, InitOrder
    <3> QED BY <3>1, <3>2, <3>3 DEF HeldInv
  <2>7. CASE TableInit
    <3>1. /\ i = 9 /\ held' = TakenBefore(9) \cup {"table"} /\ todo' = <<>> /\ mod' = "live"
      BY <2>1, <2>3, <2>7 DEF TableInit
    <3>2. TakenBefore(9) \cup {"table"} = Everything
      BY DEF TakenBefore, Everything, InitOrder
    <3> QED BY <3>1, <3>2 DEF HeldInv
  <2> QED BY <1>3, <2>4, <2>5, <2>6, <2>7
<1>4. CASE Rmmod
  <2>1. held' = held /\ held = Everything /\ mod' = "going" /\ todo' = ExitOrder
    BY <1>4 DEF Rmmod, HeldInv
  <2>2. From(ExitOrder, 1) = ExitOrder
    BY OrderFacts, SubSeqFull DEF From
  <2>3. {ExitOrder[j] : j \in 1 .. 9} = Everything
    BY DEF ExitOrder, Everything, InitOrder
  <2> QED BY <2>1, <2>2, <2>3 DEF HeldInv
<1>5. CASE GiveBack /\ mod = "undo"
  <2>1. PICK i \in 1 .. 6 :
          todo = From(Undo, i) /\ held \subseteq {Undo[j] : j \in i .. 6} \cup {"minor"}
    BY <1>5 DEF HeldInv
  <2>2. /\ Head(todo) = Undo[i] /\ Tail(todo) = From(Undo, i + 1)
        /\ (From(Undo, i + 1) = <<>>) <=> (i = 6)
    <3>1. Undo \in Seq(Part) /\ Len(Undo) = 6 /\ i \in 1 .. Len(Undo)
      BY OrderFacts
    <3>2. (From(Undo, i + 1) = <<>>) <=> (i = Len(Undo))
      BY <3>1, FromFacts, Zenon
    <3> QED BY <2>1, <3>1, <3>2, FromFacts
  <2>3. /\ held' = held \ {Undo[i]} /\ todo' = From(Undo, i + 1)
        /\ mod' = IF i = 6 THEN "failed" ELSE "undo"
    BY <1>5, <2>2 DEF GiveBack
  <2>4. held' \subseteq {Undo[j] : j \in (i + 1) .. 6} \cup {"minor"}
    <3>1. i .. 6 = {i} \cup (i + 1) .. 6
      OBVIOUS
    <3> QED BY <2>1, <2>3, <3>1
  <2>5. CASE i = 6
    <3>1. held' \subseteq {"minor"}
      BY <2>4, <2>5
    <3> QED BY <2>2, <2>3, <2>5, <3>1 DEF HeldInv
  <2>6. CASE i # 6
    <3>1. i + 1 \in 1 .. 6 /\ i + 1 # 1
      BY <2>6
    <3> QED BY <2>3, <2>4, <2>6, <3>1 DEF HeldInv
  <2> QED BY <2>5, <2>6
<1>6. CASE GiveBack /\ mod = "going"
  <2>1. PICK i \in 1 .. 9 : todo = From(ExitOrder, i) /\ held = {ExitOrder[j] : j \in i .. 9}
    BY <1>6 DEF HeldInv
  <2>2. /\ Head(todo) = ExitOrder[i] /\ Tail(todo) = From(ExitOrder, i + 1)
        /\ (From(ExitOrder, i + 1) = <<>>) <=> (i = 9)
    <3>1. ExitOrder \in Seq(Part) /\ Len(ExitOrder) = 9 /\ i \in 1 .. Len(ExitOrder)
      BY OrderFacts
    <3>2. (From(ExitOrder, i + 1) = <<>>) <=> (i = Len(ExitOrder))
      BY <3>1, FromFacts, Zenon
    <3> QED BY <2>1, <3>1, <3>2, FromFacts
  <2>3. /\ held' = held \ {ExitOrder[i]} /\ todo' = From(ExitOrder, i + 1)
        /\ mod' = IF i = 9 THEN "out" ELSE "going"
    BY <1>6, <2>2 DEF GiveBack
  <2>4. held' = {ExitOrder[j] : j \in (i + 1) .. 9}
    <3>1. i .. 9 = {i} \cup (i + 1) .. 9
      OBVIOUS
    <3>2. \A j \in (i + 1) .. 9 : ExitOrder[j] # ExitOrder[i]
      BY DEF ExitOrder
    <3> QED BY <2>1, <2>3, <3>1, <3>2
  <2>5. CASE i = 9
    <3>1. held' = {}
      BY <2>4, <2>5
    <3> QED BY <2>2, <2>3, <2>5, <3>1 DEF HeldInv
  <2>6. CASE i # 9
    <3>1. i + 1 \in 1 .. 9
      BY <2>6
    <3> QED BY <2>3, <2>4, <2>6, <3>1 DEF HeldInv
  <2> QED BY <2>5, <2>6
<1> QED
  BY <1>1, <1>2, <1>3, <1>4, <1>5, <1>6 DEF LoadNext, LoadStep, Acquire, AcquireFails,
     DriverFails, TableInit, GiveBack, Probe, Unbind, Use, Unuse, LoseReference, CreateGroup,
     DeleteGroup, OpenDevice, CtxStep, LoadHalted, loadVars, allVars

(* The inductive invariant holds, whenever devices are opened and groups   *)
(* left behind.                                                            *)
THEOREM HeldInvariance == LoadSpec => []HeldInv
<1>1. LoadInit => HeldInv
  BY DEF LoadInit, HeldInv
<1>2. HeldInv /\ [LoadNext]_allVars => HeldInv'
  BY HeldNext
<1> QED BY <1>1, <1>2, PTL DEF LoadSpec

(* A load that fails, at whatever step, has given back everything but the  *)
(* minor number of the core device, and an unload everything.              *)
THEOREM AlwaysGivenBack == LoadSpec => []AllGivenBack
<1>1. HeldInv => AllGivenBack
  BY DEF HeldInv, AllGivenBack
<1> QED BY <1>1, HeldInvariance, PTL

----------------------------------------------------------------------------
(* The contexts while the module is loaded and unloaded. *)

(* Without files and calls there is no context, and nothing in the table. *)
LEMMA NoneLeft ==
  ASSUME Inv, ModuleUnused
  PROVE  (\A c \in Ctx : ctx[c].heap # "live") /\ slot = [n \in Pid |-> NULL]
<1>1. ASSUME NEW c \in Ctx, ctx[c].heap = "live" PROVE FALSE
  <2>1. FilesOf(c) = {} /\ Holders(c) = {}
    <3>1. NoFile.c = NULL /\ Idle.c = NULL /\ NULL # c
      BY ConstantsAssumption DEF NoFile, Idle
    <3> QED BY <3>1 DEF ModuleUnused, FilesOf, Holders
  <2>2. Cardinality(FilesOf(c)) = 0 /\ Cardinality(Holders(c)) = 0
    BY <2>1, FS_EmptySet, Zenon
  <2>3. ctx[c].ref = 0
    BY <2>2 DEF Inv, RefExact
  <2> QED BY <1>1, <2>3 DEF Inv, ReleasedOnce, Releasing, ModuleUnused, Idle
<1>2. \A n \in Pid : slot[n] = NULL
  BY <1>1 DEF Inv, TypeOK, TableExact
<1> QED BY <1>1, <1>2 DEF Inv, TypeOK

(* Nobody gets into the module before it is live, and it stops being live  *)
(* only when nobody is in it.                                              *)
LEMMA UsersNext ==
  ASSUME ~EarlyOpen, HeldInv, UsersGone, [LoadNext]_allVars
  PROVE  UsersGone'
<1> SUFFICES ASSUME mod' # "live" PROVE ModuleUnused'
  BY DEF UsersGone
<1>1. CASE UNCHANGED <<vars, used>> /\ mod # "live"
  BY <1>1 DEF UsersGone, ModuleUnused, vars
<1>2. CASE Rmmod
  BY <1>2 DEF Rmmod, ModuleUnused, devVars, vars
<1>3. CASE CtxStep
  <2>1. ModuleUnused /\ UNCHANGED <<mod, used>>
    BY <1>3 DEF CtxStep, loadVars, devVars, UsersGone
  <2>2. ASSUME NEW t \in Thread, Close(t) PROVE FALSE
    BY <2>1, <2>2 DEF Close, Release, ModuleUnused, NoFile
  <2>3. ASSUME NEW t \in Thread, Step(t) PROVE FALSE
    BY <2>1, <2>3 DEF Step, GetNew, GetFound, GetNoMemory, GetFails, GetRef, Opened, PutCtx,
       Erase, Free, Runs, At, ModuleUnused, Idle
  <2>4. ASSUME NEW t \in Thread, Oops(t) PROVE ModuleUnused'
    BY <2>1, <2>4 DEF Oops, ModuleUnused
  <2>5. CASE Processes
    <3>1. \A f \in File : file[f] = NoFile /\ file[f].users = {}
      BY <2>1 DEF ModuleUnused, NoFile
    <3> QED BY <2>1, <2>5, <3>1 DEF Processes, Start, Exit, Fork, Unshare, ModuleUnused
  <2> QED BY <1>3, <2>2, <2>3, <2>4, <2>5 DEF CtxStep
<1>4. ASSUME NEW t \in Thread, OpenDevice(t) PROVE FALSE
  BY <1>4 DEF OpenDevice, MayOpen, loadVars
<1>5. ASSUME NEW c \in Ctrl, Use(c) PROVE FALSE
  BY <1>5 DEF Use, AFileIsOpen, UsersGone, ModuleUnused
<1>6. ASSUME NEW c \in Ctrl, Unuse(c) PROVE ModuleUnused'
  BY <1>6 DEF Unuse, UsersGone, ModuleUnused, vars
<1> QED
  BY <1>1, <1>2, <1>3, <1>4, <1>5, <1>6 DEF LoadNext, LoadStep, Insmod, Acquire, AcquireFails,
     DriverFails, TableInit, GiveBack, Loaded, Probe, Unbind, LoseReference, CreateGroup,
     DeleteGroup, LoadHalted, devVars, loadVars, allVars

(* To the contexts, loading and unloading are nothing: the table is empty  *)
(* when bafs_init initialises it.                                          *)
LEMMA LoadIsCtxStep ==
  ASSUME Inv, HeldInv, UsersGone, [LoadNext]_allVars
  PROVE  [Next]_vars
<1>1. CASE TableInit
  <2>1. mod # "live"
    BY <1>1 DEF TableInit
  <2> QED BY <1>1, <2>1, NoneLeft DEF TableInit, UsersGone, vars
<1>2. ASSUME NEW t \in Thread, OpenDevice(t) PROVE Next
  BY <1>2 DEF OpenDevice, Next, Open
<1>3. CASE CtxStep
  BY <1>3 DEF CtxStep, Next
<1> QED
  BY <1>1, <1>2, <1>3 DEF LoadNext, LoadStep, Insmod, Rmmod, Acquire, AcquireFails,
     DriverFails, GiveBack, Probe, Unbind, Use, Unuse, LoseReference, CreateGroup, DeleteGroup,
     LoadHalted, allVars

LoadInv == Inv /\ HeldInv /\ UsersGone

(* The contexts keep their invariant across loads and unloads. *)
LEMMA LoadInvariance ==
  ASSUME ~EarlyOpen
  PROVE  LoadSpec => []LoadInv
<1>1. LoadInit => LoadInv
  <2> SUFFICES ASSUME LoadInit PROVE LoadInv
    OBVIOUS
  <2>1. Inv
    BY InitInv DEF LoadInit
  <2>2. HeldInv /\ UsersGone
    BY DEF LoadInit, Init, HeldInv, UsersGone, ModuleUnused
  <2> QED BY <2>1, <2>2 DEF LoadInv
<1>2. LoadInv /\ [LoadNext]_allVars => LoadInv'
  BY HeldNext, UsersNext, LoadIsCtxStep, InvNext DEF LoadInv
<1> QED BY <1>1, <1>2, PTL DEF LoadSpec

(* If no device is opened before the load is over, no file of the driver   *)
(* is open, no call in progress and no context left when its code is gone, *)
(* after a failed load as after an unload.                                 *)
THEOREM CodeNeverUsed ==
  ASSUME ~EarlyOpen
  PROVE  LoadSpec => []CodeUnused
<1>1. LoadInv => CodeUnused
  BY NoneLeft DEF LoadInv, UsersGone, CodeUnused, Loaded
<1> QED BY <1>1, LoadInvariance, PTL

(* No call uses a freed context or takes a reference on a dead one, across *)
(* loads, when opens and closes of one process do not overlap.             *)
THEOREM NoFaultAcrossLoads ==
  ASSUME ~EarlyOpen, {"open", "close"} \notin Overlap
  PROVE  LoadSpec => []NoFault
<1>1. LoadInit => ContractInv
  BY DEF LoadInit, Init, Idle, ContractInv, PairsMayOverlap, FoundIsCounted, NoFault
<1>2. LoadInv /\ LoadInv' /\ ContractInv /\ [LoadNext]_allVars => ContractInv'
  BY LoadIsCtxStep, ContractNext DEF LoadInv
<1>3. ContractInv => NoFault
  BY DEF ContractInv
<1> QED BY <1>1, <1>2, <1>3, LoadInvariance, PTL DEF LoadSpec

(* A process gets the context of its own across loads, when no child       *)
(* inherits a file.                                                        *)
THEOREM OwnContextAcrossLoads ==
  ASSUME ~EarlyOpen, ~Inherit
  PROVE  LoadSpec => []OwnContext
<1>1. LoadInit => OwnInv
  BY DEF LoadInit, Init, OwnInv, Idle
<1>2. LoadInv /\ OwnInv /\ [LoadNext]_allVars => OwnInv'
  BY LoadIsCtxStep, OwnNext DEF LoadInv
<1>3. OwnInv => OwnContext
  BY DEF OwnInv, OwnContext
<1> QED BY <1>1, <1>2, <1>3, LoadInvariance, PTL DEF LoadSpec

----------------------------------------------------------------------------
(* The devices. *)

(* No group outlives the time the module is live, nor a binding the driver. *)
LEMMA BoundNext ==
  ASSUME ~KeepGroups, LoadInv, BoundGone, [LoadNext]_allVars
  PROVE  BoundGone'
<1>1. CASE UNCHANGED loadVars
  BY <1>1 DEF BoundGone, loadVars, devVars
<1>2. CASE Insmod
  BY <1>2 DEF Insmod, Loaded, BoundGone, LoadInv, HeldInv, devVars
<1>3. CASE Acquire \/ TableInit
  BY <1>3 DEF Acquire, TableInit, BoundGone, devVars
<1>4. CASE AcquireFails
  <2>1. PICK i \in 1 .. 9 : todo = From(InitOrder, i) /\ held = TakenBefore(i)
    BY <1>4 DEF AcquireFails, LoadInv, HeldInv
  <2>2. InitOrder[i] # "table"
    BY <1>4, <2>1, OrderFacts, FromFacts DEF AcquireFails
  <2>3. "driver" \notin TakenBefore(i)
    BY <2>2 DEF TakenBefore, InitOrder
  <2> QED BY <1>4, <2>1, <2>3 DEF AcquireFails, BoundGone, devVars
<1>5. CASE DriverFails \/ GiveBack
  <2>1. mod # "live" /\ UNCHANGED group
    BY <1>5 DEF DriverFails, GiveBack
  <2> QED BY <1>5, <2>1 DEF DriverFails, GiveBack, BoundGone
<1>6. CASE Rmmod
  BY <1>6 DEF Rmmod, BoundGone, LoadInv, HeldInv, devVars
<1>7. ASSUME NEW c \in Ctrl, \/ Probe(c) \/ Unbind(c) \/ Use(c) \/ Unuse(c) \/ LoseReference(c)
      PROVE  BoundGone'
  BY <1>7 DEF Probe, Unbind, Use, Unuse, LoseReference, BoundGone
<1>8. ASSUME NEW g \in Group, NEW S \in SUBSET Ctrl, CreateGroup(g, S) \/ DeleteGroup(g)
      PROVE  BoundGone'
  <2>1. mod = "live"
    BY <1>8 DEF CreateGroup, DeleteGroup, AFileIsOpen, LoadInv, UsersGone, ModuleUnused
  <2> QED BY <1>8, <2>1 DEF CreateGroup, DeleteGroup, BoundGone
<1> QED
  BY <1>1, <1>2, <1>3, <1>4, <1>5, <1>6, <1>7, <1>8 DEF LoadNext, LoadStep, OpenDevice,
     CtxStep, LoadHalted, allVars

(* The core device has its cdev, its number, its class and the region.     *)
LEMMA CoreBacked ==
  ASSUME HeldInv, "core_dev" \in held
  PROVE  CoreParts \subseteq held
<1>1. CASE mod = "live"
  BY <1>1 DEF HeldInv, CoreParts, Everything, InitOrder
<1>2. CASE mod = "coming"
  <2>1. PICK i \in 1 .. 9 : held = TakenBefore(i)
    BY <1>2 DEF HeldInv
  <2>2. i \in 8 .. 9
    BY <2>1 DEF TakenBefore, InitOrder
  <2>3. CoreParts \subseteq TakenBefore(i)
    BY <2>2 DEF CoreParts, TakenBefore, InitOrder
  <2> QED BY <2>1, <2>3
<1>3. CASE mod = "going"
  <2>1. PICK i \in 1 .. 9 : held = {ExitOrder[j] : j \in i .. 9}
    BY <1>3 DEF HeldInv
  <2>2. i \in 1 .. 2
    BY <2>1 DEF ExitOrder
  <2>3. CoreParts \subseteq {ExitOrder[j] : j \in i .. 9}
    BY <2>2 DEF CoreParts, ExitOrder
  <2> QED BY <2>1, <2>3
<1>4. CASE mod = "undo"
  <2>1. PICK i \in 1 .. 6 :
          /\ held \subseteq {Undo[j] : j \in i .. 6} \cup {"minor"}
          /\ i = 1 => CoreParts \subseteq held
    BY <1>4 DEF HeldInv
  <2>2. i = 1
    BY <2>1 DEF Undo
  <2> QED BY <2>1, <2>2
<1> QED BY <1>1, <1>2, <1>3, <1>4 DEF HeldInv

(* If no device is opened before the load is over and the groups are       *)
(* deleted before the unload, a controller that is bound, open, DMA mapped *)
(* or in a group never lacks its class, the region, the core device or the *)
(* core cdev, nor the core device its own: neither in the middle of        *)
(* bafs_exit nor behind the error labels of bafs_init, whatever controllers *)
(* have lost a reference.                                                  *)
THEOREM DevicesAlwaysBacked ==
  ASSUME ~EarlyOpen, ~KeepGroups
  PROVE  LoadSpec => []DevicesBacked
<1>1. LoadInit => BoundGone
  BY DEF LoadInit, BoundGone
<1>2. LoadInv /\ BoundGone /\ [LoadNext]_allVars => BoundGone'
  BY BoundNext
<1>3. LoadInv /\ BoundGone => DevicesBacked
  <2> SUFFICES ASSUME LoadInv, BoundGone PROVE DevicesBacked
    OBVIOUS
  <2>1. "core_dev" \in held => {"region", "core_class", "minor", "cdev"} \subseteq held
    BY CoreBacked DEF LoadInv, CoreParts
  <2> DEFINE Needs == {"region", "core_class", "minor", "cdev", "core_dev", "ctrl_class",
                       "group_class"}
  <2>2. Needs \subseteq Everything /\ Needs \subseteq TakenBefore(9)
    BY DEF Everything, TakenBefore, InitOrder
  <2>3. mod # "live" => used = {} /\ Grouped = {}
    BY DEF LoadInv, UsersGone, ModuleUnused, BoundGone, Grouped
  <2>4. CASE mod = "live"
    <3>1. Needs \subseteq held
      BY <2>2, <2>4 DEF LoadInv, HeldInv
    <3> QED BY <2>1, <3>1 DEF DevicesBacked
  <2>5. CASE mod = "coming" /\ bound # {}
    <3>1. PICK i \in 1 .. 9 : held = TakenBefore(i)
      BY <2>5 DEF LoadInv, HeldInv
    <3>2. i = 9
      BY <2>5, <3>1 DEF BoundGone, TakenBefore, InitOrder
    <3>3. Needs \subseteq held
      BY <2>2, <3>1, <3>2
    <3> QED BY <2>5, <2>1, <2>3, <3>3 DEF DevicesBacked
  <2>6. CASE mod = "going" /\ bound # {}
    <3>1. PICK i \in 1 .. 9 : held = {ExitOrder[j] : j \in i .. 9}
      BY <2>6 DEF LoadInv, HeldInv
    <3>2. i = 1
      BY <2>6, <3>1 DEF BoundGone, ExitOrder
    <3>3. Needs \subseteq held
      BY <3>1, <3>2 DEF ExitOrder
    <3> QED BY <2>6, <2>1, <2>3, <3>3 DEF DevicesBacked
  <2>7. CASE mod # "live" /\ bound = {}
    BY <2>1, <2>7, <2>3 DEF DevicesBacked
  <2>8. CASE mod \in {"out", "failed", "undo"}
    BY <2>7, <2>8 DEF LoadInv, HeldInv, BoundGone
  <2> QED BY <2>4, <2>5, <2>6, <2>7, <2>8 DEF LoadInv, HeldInv
<1> QED BY <1>1, <1>2, <1>3, LoadInvariance, PTL DEF LoadSpec

=============================================================================
