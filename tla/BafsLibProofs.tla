--------------------------- MODULE BafsLibProofs ---------------------------
(***************************************************************************)
(* Proofs about BafsLib: a process that keeps to the contract (Careful)    *)
(* never loses the core device's descriptor, and its handles are what its  *)
(* threads asked for, whatever the number of threads, of controllers, of   *)
(* groups and of descriptors.                                              *)
(***************************************************************************)
EXTENDS BafsLib, FiniteSetTheorems, WellFoundedInduction, TLAPS

----------------------------------------------------------------------------
(* The inductive invariant. *)

GroupRec == [set : SUBSET Ctrl, deleted : BOOLEAN]

(* What a group file or a controller's file is for: its number, and its    *)
(* controllers.                                                            *)
Of == (Group \X (SUBSET Ctrl)) \cup (Ctrl \X (SUBSET Ctrl))

FileRec == [kind : {"none", "core", "group", "ctrl"}, of : Of \cup {NULL}]

HandleRec == [fd : Fd, type : {"group", "ctrl"}, want : Of]

Arg == {NULL} \cup (SUBSET Ctrl) \cup (Group \X (SUBSET Ctrl)) \cup (1 .. MaxReg)

ThreadRec ==
  [pc : {"idle", "open", "store", "test", "ioctl", "pin"},
   op : {"none", "create", "delete", "open", "reg", "map", "pin", "dma"},
   ret : {"0", "-1", "EINVAL", "ENOENT", "ENOMEM", "EBADF"},
   got : Fd \cup {-1},
   arg : Arg]

Types ==
  /\ bafs_core_fd \in Fd \cup {-1}
  /\ fd \in [Fd -> FileRec]
  /\ group \in [Group -> GroupRec \cup {NULL}]
  /\ mine \in [Thread -> SUBSET (Group \X (SUBSET Ctrl))]
  /\ handle \in [Thread -> HandleRec \cup {NULL}]
  /\ th \in [Thread -> ThreadRec]

(* The only core file is the one bafs_core_fd names, or the one that the   *)
(* thread that is about to store its descriptor has got.                   *)
CoreOK ==
  /\ bafs_core_fd >= 0 => fd[bafs_core_fd].kind = "core"
  /\ \A f \in Fd : fd[f].kind = "core" =>
       bafs_core_fd = f \/ \E t \in Thread : At(t, "store") /\ th[t].got = f

NoFiles == \A f \in Fd : fd[f] = NoFile

(* Until the descriptor is stored, the thread that opens it is alone and   *)
(* nothing else is open.                                                   *)
FirstOf(t) ==
  /\ At(t, "ioctl") => bafs_core_fd >= 0
  /\ th[t].pc \in {"open", "store"} => bafs_core_fd = -1
  /\ th[t].pc \in {"open", "store", "test", "ioctl"} => th[t].op \in CoreOp
  /\ th[t].pc \in {"open", "store", "test"} /\ bafs_core_fd = -1 =>
       \A u \in Thread : u # t => At(u, "idle")
  /\ At(t, "open") => NoFiles
  /\ At(t, "store") =>
       /\ th[t].got >= 0 => fd[th[t].got].kind = "core"
       /\ \A f \in Fd : fd[f] # NoFile => f = th[t].got
  /\ At(t, "test") => th[t].got = bafs_core_fd \/ th[t].got = -1

FirstOK == \A t \in Thread : FirstOf(t)

(* Open handles are what was asked for, and no two share a file. *)
HandlesOK ==
  /\ \A t \in Thread : handle[t] # NULL =>
       /\ fd[handle[t].fd].kind = handle[t].type
       /\ fd[handle[t].fd].of = handle[t].want
  /\ \A t, u \in Thread : handle[t] # NULL /\ handle[u] # NULL /\ t # u =>
       handle[t].fd # handle[u].fd

(* A thread's groups exist, with the controllers it created them with, and *)
(* are its own.                                                            *)
GroupsOK ==
  /\ \A t \in Thread : \A g \in mine[t] : group[g[1]] = NewGroup(g[2])
  /\ \A t, u \in Thread : \A g \in mine[t], h \in mine[u] : g[1] = h[1] => t = u /\ g = h
  /\ \A t \in Thread : ~At(t, "idle") /\ th[t].op = "delete" => th[t].arg \in mine[t]
  /\ \A t \in Thread : ~At(t, "idle") /\ th[t].op = "create" => th[t].arg \in SUBSET Ctrl

Inv == Types /\ CoreOK /\ FirstOK /\ HandlesOK /\ GroupsOK

----------------------------------------------------------------------------
(* The lowest number of a set of numbers is in the set. *)
LEMMA LowestIn ==
  ASSUME NEW S, S \subseteq Nat, S # {}
  PROVE  Lowest(S) \in S
<1>1. \E x \in S : \A y \in S : ~ (<<y, x>> \in OpToRel(<, Nat))
  BY WFMin, NatLessThanWellFounded, Zenon
<1>2. \A x, y \in Nat : x < y => <<x, y>> \in OpToRel(<, Nat)
  BY DEF OpToRel
<1>3. \E x \in S : \A y \in S : x \in Nat /\ y \in Nat /\ ~ (y < x)
  BY <1>1, <1>2, Zenon
<1>4. \E x \in S : \A y \in S : x <= y
  BY <1>3
<1> QED BY <1>4 DEF Lowest

(* The initial state satisfies the invariant. *)
LEMMA InitInv == Init => Inv
<1> SUFFICES ASSUME Init PROVE Inv
  OBVIOUS
<1>1. Idle \in ThreadRec /\ Idle.pc = "idle" /\ NoFile \in FileRec /\ NoFile.kind = "none"
  BY DEF Idle, ThreadRec, Arg, NoFile, FileRec
<1>2. Types
  BY <1>1 DEF Init, Types
<1>3. \A t \in Thread : th[t].pc = "idle" /\ handle[t] = NULL /\ mine[t] = {}
  BY <1>1 DEF Init
<1>4. \A f \in Fd : fd[f].kind = "none"
  BY <1>1 DEF Init
<1>5. bafs_core_fd = -1
  BY DEF Init
<1>6. CoreOK /\ FirstOK /\ HandlesOK /\ GroupsOK
  BY <1>3, <1>4, <1>5 DEF CoreOK, FirstOK, FirstOf, HandlesOK, GroupsOK, At
<1> QED BY <1>2, <1>6 DEF Inv

(* Descriptors and group numbers are numbers; a new file gets a descriptor *)
(* that is free, a new group a number that is.                             *)
LEMMA FreeFacts ==
  /\ Fd \subseteq Nat /\ Group \subseteq Nat /\ 0 \in Fd
  /\ FreeFd # {} => Lowest(FreeFd) \in Fd /\ fd[Lowest(FreeFd)] = NoFile
  /\ FreeGroup # {} => Lowest(FreeGroup) \in Group /\ group[Lowest(FreeGroup)] = NULL
  /\ FreeReg # {} => Lowest(FreeReg) \in 1 .. MaxReg
<1>1. MaxFd \in Nat /\ MaxGroup \in Nat /\ MaxReg \in Nat
  BY LibAssumption
<1>2. Fd \subseteq Nat /\ Group \subseteq Nat /\ 0 \in Fd /\ 1 .. MaxReg \subseteq Nat
  BY <1>1 DEF Fd, Group
<1>3. FreeFd \subseteq Nat /\ FreeGroup \subseteq Nat /\ FreeReg \subseteq Nat
  BY <1>2 DEF FreeFd, FreeGroup, FreeReg
<1>4. FreeFd # {} => Lowest(FreeFd) \in FreeFd
  BY <1>3, LowestIn
<1>5. FreeGroup # {} => Lowest(FreeGroup) \in FreeGroup
  BY <1>3, LowestIn
<1>6. FreeReg # {} => Lowest(FreeReg) \in FreeReg
  BY <1>3, LowestIn
<1> QED BY <1>2, <1>4, <1>5, <1>6 DEF FreeFd, FreeGroup, FreeReg

(* What a careful process may call, and which groups it names. *)
LEMMA CarefulFacts ==
  ASSUME Careful, NEW t \in Thread
  PROVE  /\ \A op : MayCall(t, op) =>
              /\ At(t, "idle")
              /\ \/ bafs_core_fd >= 0
                 \/ op \in CoreOp /\ NoContext /\ \A u \in Thread : At(u, "idle")
                 \/ op \notin CoreOp /\ \A u \in Thread : ~At(u, "idle") => th[u].op \notin CoreOp
         /\ Names(t) = mine[t]
BY Zenon DEF MayCall, Names

(* A step that changes the record of one thread. *)
LEMMA OneThread ==
  ASSUME Types, NEW t \in Thread, NEW r \in ThreadRec, th' = [th EXCEPT ![t] = r]
  PROVE  /\ th' \in [Thread -> ThreadRec] /\ th'[t] = r
         /\ \A u \in Thread : u # t => th'[u] = th[u]
BY DEF Types

----------------------------------------------------------------------------
(* Calls that have nothing to do with the core device or with groups. *)

(* A step of such a call leaves files, groups and handles alone. *)
LEMMA Elsewhere ==
  ASSUME Inv, NEW t \in Thread, NEW r \in ThreadRec, th' = [th EXCEPT ![t] = r],
         UNCHANGED <<bafs_core_fd, fd, group, mine, handle>>,
         th[t].pc \in {"idle", "pin"}, r.pc \in {"idle", "pin"},
         r.pc = "pin" =>
           /\ r.op \notin CoreOp
           /\ \/ bafs_core_fd >= 0
              \/ \A u \in Thread : ~At(u, "idle") => th[u].op \notin CoreOp
  PROVE  Inv'
<1>1. /\ th' \in [Thread -> ThreadRec] /\ th'[t] = r
      /\ \A u \in Thread : u # t => th'[u] = th[u]
  BY OneThread DEF Inv
<1>2. /\ bafs_core_fd' = bafs_core_fd /\ fd' = fd /\ group' = group /\ mine' = mine
      /\ handle' = handle
  OBVIOUS
<1>3. Types'
  BY <1>1, <1>2 DEF Inv, Types
<1>4. CoreOK'
  <2>1. \A u \in Thread : th[u].pc = "store" => th'[u].pc = "store" /\ th'[u].got = th[u].got
    BY <1>1
  <2> QED BY <1>2, <2>1 DEF Inv, CoreOK, At
<1>5. FirstOK'
  <2> SUFFICES ASSUME NEW u \in Thread PROVE FirstOf(u)'
    BY DEF FirstOK
  <2>1. CASE u = t
    BY <1>1, <2>1 DEF FirstOf, At
  <2>2. CASE u # t
    <3>1. th'[u] = th[u] /\ FirstOf(u)
      BY <1>1, <2>2 DEF Inv, FirstOK
    <3>2. ASSUME th[u].pc \in {"open", "store", "test"}, bafs_core_fd = -1, NEW v \in Thread, v # u
          PROVE  th'[v].pc = "idle"
      <4>1. ~(bafs_core_fd >= 0) /\ th[u].op \in CoreOp
        BY <3>1, <3>2 DEF FirstOf
      <4>2. r.pc # "pin"
        BY <3>2, <4>1 DEF At
      <4> QED BY <1>1, <3>1, <3>2, <4>2 DEF FirstOf, At
    <3> QED BY <1>2, <3>1, <3>2 DEF FirstOf, At, NoFiles
  <2> QED BY <2>1, <2>2
<1>6. HandlesOK'
  BY <1>2 DEF Inv, HandlesOK
<1>7. GroupsOK'
  BY <1>1, <1>2 DEF Inv, GroupsOK, At, CoreOp
<1> QED BY <1>3, <1>4, <1>5, <1>6, <1>7 DEF Inv

(* Opening that fails, registering, pinning and mapping. *)
LEMMA MemorySteps ==
  ASSUME Careful, Inv, NEW t \in Thread,
         \/ CtrlOpenRefuses(t) \/ CtrlOpenFails(t)
         \/ \E op \in {"reg", "map"} : RegMem(t, op) \/ RegMemFails(t, op)
         \/ \E h \in 1 .. MaxReg : PinMem(t, h) \/ DmaMapMem(t, h)
         \/ Mmap(t)
  PROVE  Inv'
<1>0. th[t] \in ThreadRec /\ NULL \in Arg /\ 1 .. MaxReg \subseteq Arg
  <2>1. th[t] \in ThreadRec
    BY DEF Inv, Types
  <2>2. NULL \in Arg /\ 1 .. MaxReg \subseteq Arg
    BY Zenon DEF Arg
  <2> QED BY <2>1, <2>2
<1>1. ASSUME NEW op \in {"open", "reg", "map", "dma"},
             NEW ret \in {"0", "EINVAL", "ENOENT", "ENOMEM"},
             MayCall(t, op), UNCHANGED <<bafs_core_fd, fd, group, mine, handle>>,
             th' = [th EXCEPT ![t] = [Idle EXCEPT !.op = op, !.ret = ret]]
      PROVE  Inv'
  <2> DEFINE r == [Idle EXCEPT !.op = op, !.ret = ret]
  <2>1. r \in ThreadRec /\ r.pc = "idle"
    BY <1>0 DEF Idle, ThreadRec
  <2>2. th[t].pc = "idle"
    BY <1>1 DEF MayCall, At
  <2>3. th' = [th EXCEPT ![t] = r]
    BY <1>1
  <2> HIDE DEF r
  <2> QED BY <1>1, <2>1, <2>2, <2>3, Elsewhere
<1>2. ASSUME NEW op \in {"map", "pin"}, NEW h \in 1 .. MaxReg, MayCall(t, op),
             Begin(t, op, "pin", h), UNCHANGED <<bafs_core_fd, fd, group, mine, handle>>
      PROVE  Inv'
  <2> DEFINE r == [Idle EXCEPT !.op = op, !.pc = "pin", !.arg = h]
  <2>1. r \in ThreadRec /\ r.pc = "pin" /\ r.op = op
    BY <1>0 DEF Idle, ThreadRec
  <2>2. th[t].pc = "idle" /\ op \notin CoreOp
    BY <1>2 DEF MayCall, At, CoreOp
  <2>3. \/ bafs_core_fd >= 0
        \/ \A u \in Thread : ~At(u, "idle") => th[u].op \notin CoreOp
    BY <1>2, <2>2, CarefulFacts
  <2>4. th' = [th EXCEPT ![t] = r]
    BY <1>2 DEF Begin
  <2> HIDE DEF r
  <2> QED BY <1>2, <2>1, <2>2, <2>3, <2>4, Elsewhere
<1>3. CASE CtrlOpenRefuses(t) \/ CtrlOpenFails(t)
  BY <1>1, <1>3 DEF CtrlOpenRefuses, CtrlOpenFails, MayOpen
<1>4. ASSUME NEW op \in {"reg", "map"}, RegMem(t, op) PROVE Inv'
  <2>1. CASE op = "map"
    <3>1. Lowest(FreeReg) \in 1 .. MaxReg
      BY <1>4, FreeFacts DEF RegMem
    <3> QED BY <1>2, <1>4, <2>1, <3>1 DEF RegMem
  <2>2. CASE op = "reg"
    <3> DEFINE r == [Idle EXCEPT !.op = op]
    <3>1. r \in ThreadRec /\ r.pc = "idle"
      BY <1>0 DEF Idle, ThreadRec
    <3>2. th[t].pc = "idle" /\ th' = [th EXCEPT ![t] = r]
      BY <1>4, <2>2 DEF RegMem, MayCall, At
    <3> HIDE DEF r
    <3> QED BY <1>4, <3>1, <3>2, Elsewhere DEF RegMem
  <2> QED BY <2>1, <2>2
<1>5. ASSUME NEW op \in {"reg", "map"}, RegMemFails(t, op) PROVE Inv'
  BY <1>1, <1>5 DEF RegMemFails
<1>6. ASSUME NEW h \in 1 .. MaxReg, PinMem(t, h) PROVE Inv'
  BY <1>2, <1>6 DEF PinMem
<1>7. ASSUME NEW h \in 1 .. MaxReg, DmaMapMem(t, h) PROVE Inv'
  BY <1>1, <1>7 DEF DmaMapMem
<1>8. CASE Mmap(t)
  <2>1. PICK ret \in {"0", "EINVAL"} : Return(t, ret)
    BY <1>8 DEF Mmap
  <2> DEFINE r == [Idle EXCEPT !.op = th[t].op, !.ret = ret]
  <2>2. r \in ThreadRec /\ r.pc = "idle"
    BY <1>0 DEF Idle, ThreadRec
  <2>3. th' = [th EXCEPT ![t] = r] /\ th[t].pc = "pin"
    BY <1>8, <2>1 DEF Return, Mmap, At
  <2> HIDE DEF r
  <2> QED BY <1>8, <2>2, <2>3, Elsewhere DEF Mmap
<1> QED BY <1>3, <1>4, <1>5, <1>6, <1>7, <1>8

----------------------------------------------------------------------------
(* The first call that needs the core device. *)

(* bafs_core_create_group and bafs_core_delete_group start. *)
LEMMA CoreCallInv ==
  ASSUME Careful, Inv, NEW t \in Thread, NEW op \in CoreOp, NEW arg \in Arg, CoreCall(t, op, arg),
         op = "delete" => arg \in mine[t], op = "create" => arg \in SUBSET Ctrl
  PROVE  Inv'
<1> DEFINE pc == IF bafs_core_fd < 0 THEN "open" ELSE "ioctl"
           r == [Idle EXCEPT !.op = op, !.pc = pc, !.arg = arg]
<1>1. /\ MayCall(t, op) /\ th' = [th EXCEPT ![t] = r]
      /\ bafs_core_fd' = bafs_core_fd /\ fd' = fd /\ group' = group /\ mine' = mine
      /\ handle' = handle
  BY DEF CoreCall, Begin
<1>2. bafs_core_fd \in Nat \/ bafs_core_fd = -1
  BY FreeFacts DEF Inv, Types
<1>3. pc \in {"open", "ioctl"} /\ op \in {"create", "delete"} /\ CoreOp = {"create", "delete"}
  BY DEF CoreOp
<1>4. r \in ThreadRec /\ r.pc = pc /\ r.op = op /\ r.arg = arg /\ r.got = -1
  <2> HIDE DEF pc
  <2> QED BY <1>3 DEF Idle, ThreadRec
<1>5. /\ th[t].pc = "idle"
      /\ bafs_core_fd >= 0 \/ (NoFiles /\ \A u \in Thread : At(u, "idle"))
  BY <1>1, CarefulFacts DEF At, NoContext, NoFiles
<1> HIDE DEF r
<1>6. /\ th' \in [Thread -> ThreadRec] /\ th'[t] = r
      /\ \A u \in Thread : u # t => th'[u] = th[u]
  BY <1>1, <1>4, OneThread DEF Inv
<1>7. Types'
  BY <1>1, <1>6 DEF Inv, Types
<1>8. CoreOK'
  <2>1. \A u \in Thread : th[u].pc = "store" => th'[u].pc = "store" /\ th'[u].got = th[u].got
    BY <1>5, <1>6
  <2> QED BY <1>1, <2>1 DEF Inv, CoreOK, At
<1>9. FirstOK'
  <2> SUFFICES ASSUME NEW u \in Thread PROVE FirstOf(u)'
    BY DEF FirstOK
  <2>1. CASE u = t
    BY <1>1, <1>2, <1>4, <1>5, <1>6, <2>1 DEF FirstOf, At, NoFiles
  <2>2. CASE u # t /\ bafs_core_fd >= 0
    <3>1. th'[u] = th[u] /\ FirstOf(u)
      BY <1>6, <2>2 DEF Inv, FirstOK
    <3> QED BY <1>1, <2>2, <3>1 DEF FirstOf, At
  <2>3. CASE u # t /\ ~(bafs_core_fd >= 0)
    BY <1>5, <1>6, <2>3 DEF FirstOf, At
  <2> QED BY <2>1, <2>2, <2>3
<1>10. HandlesOK'
  BY <1>1 DEF Inv, HandlesOK
<1>11. GroupsOK'
  <2>1. th'[t].op = op /\ th'[t].arg = arg
    BY <1>4, <1>6
  <2> QED BY <1>1, <1>6, <2>1 DEF Inv, GroupsOK, At
<1> QED BY <1>7, <1>8, <1>9, <1>10, <1>11 DEF Inv

(* While the descriptor is being opened nothing else is going on. *)
LEMMA Alone ==
  ASSUME Inv, NEW t \in Thread, th[t].pc \in {"open", "store"}
  PROVE  /\ bafs_core_fd = -1 /\ th[t] \in ThreadRec /\ th[t].op \in CoreOp
         /\ \A u \in Thread : u # t => th[u].pc = "idle"
         /\ \A u \in Thread : handle[u] = NULL
<1>1. /\ FirstOf(t) /\ th[t] \in ThreadRec
  BY DEF Inv, FirstOK, Types
<1>2. /\ bafs_core_fd = -1 /\ th[t].op \in CoreOp
      /\ \A u \in Thread : u # t => th[u].pc = "idle"
  BY <1>1 DEF FirstOf, At
<1>3. \A f \in Fd : fd[f].kind \in {"none", "core"}
  <2>1. th[t].got \in Fd \cup {-1}
    BY <1>1 DEF ThreadRec
  <2>2. \A f \in Fd : fd[f] = NoFile \/ (f = th[t].got /\ fd[f].kind = "core")
    <3>1. CASE th[t].pc = "open"
      BY <1>1, <3>1 DEF FirstOf, At, NoFiles
    <3>2. CASE th[t].pc = "store"
      <4> SUFFICES ASSUME NEW f \in Fd, fd[f] # NoFile PROVE f = th[t].got /\ fd[f].kind = "core"
        OBVIOUS
      <4>1. f = th[t].got /\ f >= 0
        BY <1>1, <3>2, FreeFacts DEF FirstOf, At
      <4> QED BY <1>1, <3>2, <4>1 DEF FirstOf, At
    <3> QED BY <3>1, <3>2
  <2> QED BY <2>2 DEF NoFile
<1>4. ASSUME NEW u \in Thread, handle[u] # NULL PROVE FALSE
  <2>1. handle[u] \in HandleRec /\ fd[handle[u].fd].kind = handle[u].type
    BY <1>4 DEF Inv, Types, HandlesOK
  <2> QED BY <1>3, <2>1 DEF HandleRec
<1> QED BY <1>1, <1>2, <1>4

(* open("/dev/bafs") succeeds or fails. *)
LEMMA CoreOpenInv ==
  ASSUME Inv, NEW t \in Thread, CoreOpen(t) \/ CoreOpenFails(t)
  PROVE  Inv'
<1>1. /\ th[t].pc = "open" /\ bafs_core_fd' = bafs_core_fd /\ group' = group /\ mine' = mine
      /\ handle' = handle
  BY DEF CoreOpen, CoreOpenFails, At
<1>2. /\ bafs_core_fd = -1 /\ th[t] \in ThreadRec /\ th[t].op \in CoreOp
      /\ \A u \in Thread : u # t => th[u].pc = "idle"
      /\ \A u \in Thread : handle[u] = NULL
  BY <1>1, Alone
<1>3. NoFiles
  BY <1>1 DEF Inv, FirstOK, FirstOf, At
<1>4. PICK n \in Fd \cup {-1} :
        /\ th' = [th EXCEPT ![t] = [th[t] EXCEPT !.pc = "store", !.got = n]]
        /\ \/ n = -1 /\ fd' = fd
           \/ n \in Fd /\ fd' = [fd EXCEPT ![n] = [kind |-> "core", of |-> NULL]]
  <2>1. th \in [Thread -> ThreadRec]
    BY DEF Inv, Types
  <2>2. CASE CoreOpen(t)
    <3>1. FreeFd # {}
      BY <1>3, FreeFacts DEF FreeFd, NoFiles
    <3>2. Lowest(FreeFd) \in Fd
      BY <3>1, FreeFacts
    <3> QED BY <2>1, <2>2, <3>2 DEF CoreOpen
  <2>3. CASE CoreOpenFails(t)
    BY <2>1, <2>3 DEF CoreOpenFails
  <2> QED BY <2>2, <2>3
<1> DEFINE r == [th[t] EXCEPT !.pc = "store", !.got = n]
<1>5. /\ r \in ThreadRec /\ r.pc = "store" /\ r.op = th[t].op /\ r.arg = th[t].arg /\ r.got = n
  BY <1>2 DEF ThreadRec
<1>6. /\ th' \in [Thread -> ThreadRec] /\ th'[t] = r
      /\ \A u \in Thread : u # t => th'[u] = th[u]
  BY <1>4, <1>5, OneThread DEF Inv
<1> HIDE DEF r
<1>7. /\ fd' \in [Fd -> FileRec]
      /\ \A f \in Fd : fd'[f] # NoFile => f = n
      /\ n >= 0 => fd'[n].kind = "core"
      /\ \A f \in Fd : fd'[f].kind = "core" => f = n
  <2>1. /\ fd \in [Fd -> FileRec] /\ \A f \in Fd : fd[f] = NoFile
    BY <1>3 DEF Inv, Types, NoFiles
  <2>2. NoFile.kind = "none" /\ [kind |-> "core", of |-> NULL] \in FileRec
    BY DEF NoFile, FileRec
  <2> QED BY <1>4, <2>1, <2>2, FreeFacts
<1>8. Types'
  BY <1>1, <1>6, <1>7 DEF Inv, Types
<1>9. CoreOK'
  BY <1>1, <1>2, <1>5, <1>6, <1>7 DEF CoreOK, At
<1>10. FirstOK'
  <2> SUFFICES ASSUME NEW u \in Thread PROVE FirstOf(u)'
    BY DEF FirstOK
  <2>1. CASE u = t
    BY <1>1, <1>2, <1>5, <1>6, <1>7, <2>1 DEF FirstOf, At
  <2>2. CASE u # t
    BY <1>2, <1>6, <2>2 DEF FirstOf, At
  <2> QED BY <2>1, <2>2
<1>11. HandlesOK'
  BY <1>1, <1>2 DEF HandlesOK
<1>12. GroupsOK'
  BY <1>1, <1>5, <1>6 DEF Inv, GroupsOK, At
<1> QED BY <1>8, <1>9, <1>10, <1>11, <1>12 DEF Inv

(* The descriptor is stored. *)
LEMMA CoreStoreInv ==
  ASSUME Inv, NEW t \in Thread, CoreStore(t)
  PROVE  Inv'
<1>1. /\ th[t].pc = "store" /\ bafs_core_fd' = th[t].got /\ fd' = fd /\ group' = group
      /\ mine' = mine /\ handle' = handle
      /\ th' = [th EXCEPT ![t] = [th[t] EXCEPT !.pc = "test"]]
  BY DEF CoreStore, Goto, At, Inv, Types
<1>2. /\ th[t] \in ThreadRec /\ th[t].op \in CoreOp
      /\ \A u \in Thread : u # t => th[u].pc = "idle"
      /\ FirstOf(t) /\ CoreOK /\ bafs_core_fd = -1
  BY <1>1, Alone DEF Inv, FirstOK
<1> DEFINE r == [th[t] EXCEPT !.pc = "test"]
<1>3. /\ r \in ThreadRec /\ r.pc = "test" /\ r.op = th[t].op /\ r.arg = th[t].arg
      /\ r.got = th[t].got /\ th[t].got \in Fd \cup {-1}
  BY <1>2 DEF ThreadRec
<1>4. /\ th' \in [Thread -> ThreadRec] /\ th'[t] = r
      /\ \A u \in Thread : u # t => th'[u] = th[u]
  BY <1>1, <1>3, OneThread DEF Inv
<1> HIDE DEF r
<1>5. Types'
  BY <1>1, <1>3, <1>4 DEF Inv, Types
<1>6. CoreOK'
  <2>1. ASSUME NEW f \in Fd, fd[f].kind = "core" PROVE f = th[t].got
    <3>1. fd[f] # NoFile
      BY <2>1 DEF NoFile
    <3> QED BY <1>1, <1>2, <3>1 DEF FirstOf, At
  <2>2. th[t].got >= 0 => fd[th[t].got].kind = "core"
    BY <1>1, <1>2 DEF FirstOf, At
  <2> QED BY <1>1, <2>1, <2>2 DEF CoreOK
<1>7. FirstOK'
  <2> SUFFICES ASSUME NEW u \in Thread PROVE FirstOf(u)'
    BY DEF FirstOK
  <2>1. CASE u = t
    BY <1>1, <1>2, <1>3, <1>4, <2>1 DEF FirstOf, At
  <2>2. CASE u # t
    BY <1>2, <1>4, <2>2 DEF FirstOf, At
  <2> QED BY <2>1, <2>2
<1>8. HandlesOK'
  BY <1>1 DEF Inv, HandlesOK
<1>9. GroupsOK'
  BY <1>1, <1>3, <1>4 DEF Inv, GroupsOK, At
<1> QED BY <1>5, <1>6, <1>7, <1>8, <1>9 DEF Inv

----------------------------------------------------------------------------
(* The ioctls on the core device. *)

(* A thread that has the core device open, or failed to, goes on or        *)
(* returns: the files and the descriptor stay.                             *)
LEMMA CoreGoesOn ==
  ASSUME Inv, NEW t \in Thread, NEW r \in ThreadRec, th' = [th EXCEPT ![t] = r],
         UNCHANGED <<bafs_core_fd, fd, handle>>,
         th[t].pc \in {"test", "ioctl"}, r.pc \in {"idle", "ioctl"}, r.op = th[t].op,
         r.pc = "ioctl" => bafs_core_fd >= 0
  PROVE  /\ th' \in [Thread -> ThreadRec] /\ th'[t] = r
         /\ \A u \in Thread : u # t => th'[u] = th[u]
         /\ CoreOK' /\ FirstOK' /\ HandlesOK'
<1>1. /\ th' \in [Thread -> ThreadRec] /\ th'[t] = r
      /\ \A u \in Thread : u # t => th'[u] = th[u]
  BY OneThread DEF Inv
<1>2. bafs_core_fd' = bafs_core_fd /\ fd' = fd /\ handle' = handle
  OBVIOUS
<1>3. CoreOK'
  <2>1. \A u \in Thread : th[u].pc = "store" => th'[u].pc = "store" /\ th'[u].got = th[u].got
    BY <1>1
  <2> QED BY <1>2, <2>1 DEF Inv, CoreOK, At
<1>4. FirstOK'
  <2> SUFFICES ASSUME NEW u \in Thread PROVE FirstOf(u)'
    BY DEF FirstOK
  <2>1. FirstOf(u) /\ FirstOf(t)
    BY DEF Inv, FirstOK
  <2>2. CASE u = t
    BY <1>1, <1>2, <2>1, <2>2 DEF FirstOf, At
  <2>3. CASE u # t
    <3>1. th'[u] = th[u]
      BY <1>1, <2>3
    <3>2. ASSUME th[u].pc \in {"open", "store", "test"}, bafs_core_fd = -1 PROVE FALSE
      <4>1. th[t].pc = "idle"
        BY <2>1, <2>3, <3>2 DEF FirstOf, At
      <4> QED BY <4>1
    <3> QED BY <1>2, <2>1, <3>1, <3>2 DEF FirstOf, At, NoFiles
  <2> QED BY <2>2, <2>3
<1>5. HandlesOK'
  BY <1>2 DEF Inv, HandlesOK
<1> QED BY <1>1, <1>3, <1>4, <1>5

(* bafs_core_init has returned, or an ioctl fails. *)
LEMMA CoreTestInv ==
  ASSUME Inv, NEW t \in Thread, CoreTest(t) \/ IoctlFails(t)
  PROVE  Inv'
<1>1. /\ th[t].pc \in {"test", "ioctl"} /\ UNCHANGED <<bafs_core_fd, fd, group, mine, handle>>
  BY DEF CoreTest, IoctlFails, At
<1>2. th[t] \in ThreadRec /\ FirstOf(t) /\ th \in [Thread -> ThreadRec]
  BY DEF Inv, Types, FirstOK
<1>3. PICK r \in ThreadRec : /\ th' = [th EXCEPT ![t] = r] /\ r.op = th[t].op
                             /\ \/ r.pc = "idle"
                                \/ r.pc = "ioctl" /\ bafs_core_fd >= 0 /\ r.arg = th[t].arg
  <2>1. ASSUME NEW ret \in {"-1", "ENOMEM", "EBADF"}, Return(t, ret)
        PROVE  \E r \in ThreadRec : /\ th' = [th EXCEPT ![t] = r] /\ r.op = th[t].op
                                    /\ r.pc = "idle"
    <3> DEFINE r == [Idle EXCEPT !.op = th[t].op, !.ret = ret]
    <3>1. NULL \in Arg
      BY Zenon DEF Arg
    <3>2. r \in ThreadRec /\ r.op = th[t].op /\ r.pc = "idle"
      BY <1>2, <3>1 DEF Idle, ThreadRec
    <3>3. th' = [th EXCEPT ![t] = r]
      BY <2>1 DEF Return
    <3> HIDE DEF r
    <3> QED BY <3>2, <3>3
  <2>2. CASE IoctlFails(t)
    BY <2>1, <2>2 DEF IoctlFails
  <2>3. CASE CoreTest(t)
    <3>1. PICK v \in {th[t].got, bafs_core_fd} :
            IF v < 0 THEN Return(t, "-1") ELSE Goto(t, "ioctl")
      BY <2>3 DEF CoreTest
    <3>2. CASE v < 0
      BY <2>1, <3>1, <3>2
    <3>3. CASE ~(v < 0)
      <4> DEFINE r == [th[t] EXCEPT !.pc = "ioctl"]
      <4>1. r \in ThreadRec /\ r.op = th[t].op /\ r.pc = "ioctl" /\ r.arg = th[t].arg
        BY <1>2 DEF ThreadRec
      <4>2. th' = [th EXCEPT ![t] = r]
        BY <1>2, <3>1, <3>3 DEF Goto
      <4>3. v = bafs_core_fd
        BY <1>2, <2>3, <3>1, <3>3 DEF FirstOf, CoreTest, At
      <4>4. bafs_core_fd >= 0
        BY <3>3, <4>3, FreeFacts DEF Inv, Types
      <4> HIDE DEF r
      <4> QED BY <4>1, <4>2, <4>4
    <3> QED BY <3>2, <3>3
  <2> QED BY <2>2, <2>3
<1>4. /\ th' \in [Thread -> ThreadRec] /\ th'[t] = r
      /\ \A u \in Thread : u # t => th'[u] = th[u]
      /\ CoreOK' /\ FirstOK' /\ HandlesOK'
  BY <1>1, <1>3, CoreGoesOn
<1>5. Types'
  BY <1>1, <1>4 DEF Inv, Types
<1>6. GroupsOK'
  BY <1>1, <1>3, <1>4 DEF Inv, GroupsOK, At
<1> QED BY <1>4, <1>5, <1>6 DEF Inv

(* The record of a thread whose ioctl has returned. *)
LEMMA Returned ==
  ASSUME Inv, NEW t \in Thread, NEW ret \in {"0", "EINVAL"}, Return(t, ret), th[t].pc = "ioctl",
         UNCHANGED <<bafs_core_fd, fd, handle>>
  PROVE  /\ th' \in [Thread -> ThreadRec] /\ th'[t].pc = "idle"
         /\ \A u \in Thread : u # t => th'[u] = th[u]
         /\ CoreOK' /\ FirstOK' /\ HandlesOK'
<1> DEFINE r == [Idle EXCEPT !.op = th[t].op, !.ret = ret]
<1>1. NULL \in Arg
  BY Zenon DEF Arg
<1>2. th[t] \in ThreadRec
  BY DEF Inv, Types
<1>3. r \in ThreadRec /\ r.op = th[t].op /\ r.pc = "idle"
  BY <1>1, <1>2 DEF Idle, ThreadRec
<1>4. th' = [th EXCEPT ![t] = r]
  BY DEF Return
<1> HIDE DEF r
<1> QED BY <1>3, <1>4, CoreGoesOn

(* A group is created with a number that no group has. *)
LEMMA CreateInv ==
  ASSUME Inv, NEW t \in Thread, CreateIoctl(t)
  PROVE  Inv'
<1> DEFINE n == Lowest(FreeGroup)
           S == th[t].arg
<1>1. /\ th[t].pc = "ioctl" /\ th[t].op = "create" /\ FreeGroup # {}
      /\ group' = [group EXCEPT ![n] = NewGroup(S)]
      /\ mine' = [mine EXCEPT ![t] = mine[t] \cup {<<n, S>>}]
      /\ Return(t, "0") /\ UNCHANGED <<bafs_core_fd, fd, handle>>
  BY DEF CreateIoctl, At
<1>2. n \in Group /\ group[n] = NULL
  BY <1>1, FreeFacts
<1>3. /\ th' \in [Thread -> ThreadRec] /\ th'[t].pc = "idle"
      /\ \A u \in Thread : u # t => th'[u] = th[u]
      /\ CoreOK' /\ FirstOK' /\ HandlesOK'
  BY <1>1, Returned
<1>4. S \in SUBSET Ctrl /\ NewGroup(S) \in GroupRec /\ NULL \notin GroupRec
  <2>1. S \in SUBSET Ctrl
    BY <1>1 DEF Inv, GroupsOK, At
  <2> QED BY <2>1, LibAssumption DEF NewGroup, GroupRec
<1> HIDE DEF n, S
<1>5. /\ group \in [Group -> GroupRec \cup {NULL}]
      /\ mine \in [Thread -> SUBSET (Group \X (SUBSET Ctrl))]
  BY DEF Inv, Types
<1>6. Types'
  <2>1. group' \in [Group -> GroupRec \cup {NULL}]
    BY <1>1, <1>2, <1>4, <1>5
  <2>2. mine' \in [Thread -> SUBSET (Group \X (SUBSET Ctrl))]
    BY <1>1, <1>2, <1>4, <1>5
  <2> QED BY <1>1, <1>3, <2>1, <2>2 DEF Inv, Types
<1>7. \A u \in Thread : \A g \in mine[u] :
        /\ g \in Group \X (SUBSET Ctrl) /\ group[g[1]] = NewGroup(g[2]) /\ g[1] # n
  <2> SUFFICES ASSUME NEW u \in Thread, NEW g \in mine[u]
               PROVE  /\ g \in Group \X (SUBSET Ctrl) /\ group[g[1]] = NewGroup(g[2]) /\ g[1] # n
    OBVIOUS
  <2>1. g \in Group \X (SUBSET Ctrl) /\ group[g[1]] = NewGroup(g[2])
    BY <1>5 DEF Inv, GroupsOK
  <2>2. NewGroup(g[2]) \in GroupRec
    BY <2>1 DEF NewGroup, GroupRec
  <2> QED BY <1>2, <1>4, <2>1, <2>2
<1>8. GroupsOK'
  <2>1. \A u \in Thread : \A g \in mine'[u] : g \in mine[u] \/ (u = t /\ g = <<n, S>>)
    BY <1>1, <1>5
  <2>2. ASSUME NEW u \in Thread, NEW g \in mine'[u] PROVE group'[g[1]] = NewGroup(g[2])
    <3>1. CASE g \in mine[u]
      BY <1>1, <1>5, <1>7, <3>1
    <3>2. CASE g = <<n, S>>
      BY <1>1, <1>2, <1>5, <3>2
    <3> QED BY <2>1, <3>1, <3>2
  <2>3. ASSUME NEW u \in Thread, NEW v \in Thread, NEW g \in mine'[u], NEW h \in mine'[v],
               g[1] = h[1]
        PROVE  u = v /\ g = h
    <3>1. CASE g \in mine[u] /\ h \in mine[v]
      BY <2>3, <3>1 DEF Inv, GroupsOK
    <3>2. CASE g = <<n, S>> \/ h = <<n, S>>
      BY <1>7, <2>1, <2>3, <3>2
    <3> QED BY <2>1, <3>1, <3>2
  <2>4. \A u \in Thread : u # t => mine'[u] = mine[u]
    BY <1>1, <1>5
  <2> QED BY <1>3, <2>2, <2>3, <2>4 DEF Inv, GroupsOK, At
<1> QED BY <1>3, <1>6, <1>8 DEF Inv

(* A group is deleted: it was the thread's own. *)
LEMMA DeleteInv ==
  ASSUME Inv, NEW t \in Thread, DeleteIoctl(t)
  PROVE  Inv'
<1> DEFINE a == th[t].arg
           n == th[t].arg[1]
<1>1. /\ th[t].pc = "ioctl" /\ th[t].op = "delete"
      /\ group' = [group EXCEPT ![n] = IF group[n] # NULL /\ OpenOn(n) # {}
                                       THEN [group[n] EXCEPT !.deleted = TRUE] ELSE NULL]
      /\ mine' = [mine EXCEPT ![t] = mine[t] \ {a}]
      /\ UNCHANGED <<bafs_core_fd, fd, handle>>
  BY DEF DeleteIoctl, At
<1>2. /\ th' \in [Thread -> ThreadRec] /\ th'[t].pc = "idle"
      /\ \A u \in Thread : u # t => th'[u] = th[u]
      /\ CoreOK' /\ FirstOK' /\ HandlesOK'
  <2>1. PICK ret \in {"0", "EINVAL"} : Return(t, ret)
    BY DEF DeleteIoctl
  <2> QED BY <1>1, <2>1, Returned
<1>3. a \in mine[t]
  BY <1>1 DEF Inv, GroupsOK, At
<1>4. /\ group \in [Group -> GroupRec \cup {NULL}]
      /\ mine \in [Thread -> SUBSET (Group \X (SUBSET Ctrl))]
  BY DEF Inv, Types
<1>5. n \in Group
  BY <1>3, <1>4
<1> HIDE DEF a, n
<1>6. Types'
  <2>1. group' \in [Group -> GroupRec \cup {NULL}]
    <3>1. group[n] # NULL => [group[n] EXCEPT !.deleted = TRUE] \in GroupRec
      BY <1>4, <1>5 DEF GroupRec
    <3> QED BY <1>1, <1>4, <1>5, <3>1
  <2>2. mine' \in [Thread -> SUBSET (Group \X (SUBSET Ctrl))]
    BY <1>1, <1>4
  <2> QED BY <1>1, <1>2, <2>1, <2>2 DEF Inv, Types
<1>7. GroupsOK'
  <2>1. \A u \in Thread : mine'[u] \subseteq mine[u] /\ (u # t => mine'[u] = mine[u])
    BY <1>1, <1>4
  <2>2. ASSUME NEW u \in Thread, NEW g \in mine'[u] PROVE group'[g[1]] = NewGroup(g[2])
    <3>1. g \in mine[u] /\ group[g[1]] = NewGroup(g[2]) /\ g[1] \in Group
      BY <1>4, <2>1 DEF Inv, GroupsOK
    <3>2. g[1] # n
      <4> SUFFICES ASSUME g[1] = n PROVE FALSE
        OBVIOUS
      <4>1. u = t /\ g = a
        BY <1>3, <3>1 DEF Inv, GroupsOK, a, n
      <4> QED BY <1>1, <1>4, <4>1
    <3> QED BY <1>1, <1>4, <3>1, <3>2
  <2>3. \A u, v \in Thread : \A g \in mine'[u], h \in mine'[v] : g[1] = h[1] => u = v /\ g = h
    BY <2>1 DEF Inv, GroupsOK
  <2> QED BY <1>2, <2>1, <2>2, <2>3 DEF Inv, GroupsOK, At
<1> QED BY <1>2, <1>6, <1>7 DEF Inv

----------------------------------------------------------------------------
(* Handles. *)

(* bafs_ctrl_open: the file is that of the group or controller asked for,  *)
(* because the group still is the one the thread has created.              *)
LEMMA CtrlOpenInv ==
  ASSUME Careful, Inv, NEW t \in Thread, NEW letter \in {"g", "c"}, NEW n, NEW want,
         CtrlOpen(t, letter, n, want),
         letter = "g" => <<n, want>> \in mine[t], letter = "c" => n \in Ctrl /\ want = {n}
  PROVE  Inv'
<1> DEFINE f == Lowest(FreeFd)
           new == IF letter = "g" THEN [kind |-> "group", of |-> <<n, group[n].set>>]
                  ELSE [kind |-> "ctrl", of |-> <<n, {n}>>]
           hd == [fd |-> f, type |-> TypeOf(letter), want |-> <<n, want>>]
           r == [Idle EXCEPT !.op = "open"]
<1>1. /\ MayCall(t, "open") /\ FreeFd # {}
      /\ fd' = [fd EXCEPT ![f] = new] /\ handle' = [handle EXCEPT ![t] = hd]
      /\ th' = [th EXCEPT ![t] = r]
      /\ bafs_core_fd' = bafs_core_fd /\ group' = group /\ mine' = mine
  BY DEF CtrlOpen, MayOpen
<1>2. f \in Fd /\ fd[f] = NoFile /\ NoFile.kind = "none"
  BY <1>1, FreeFacts DEF NoFile
<1>3. /\ <<n, want>> \in Of
      /\ new \in FileRec /\ new.kind \in {"group", "ctrl"} /\ new.kind = TypeOf(letter)
      /\ new.of = <<n, want>>
  <2>1. CASE letter = "g"
    <3>1. <<n, want>> \in Group \X (SUBSET Ctrl) /\ group[n] = NewGroup(want)
      BY <2>1 DEF Inv, Types, GroupsOK
    <3>2. group[n].set = want
      BY <3>1 DEF NewGroup
    <3> QED BY <2>1, <3>1, <3>2 DEF FileRec, Of, TypeOf
  <2>2. CASE letter = "c"
    <3>1. <<n, want>> \in Ctrl \X (SUBSET Ctrl) /\ want = {n}
      BY <2>2
    <3> QED BY <2>2, <3>1 DEF FileRec, Of, TypeOf
  <2> QED BY <2>1, <2>2
<1> HIDE DEF f, new
<1>4. /\ hd \in HandleRec /\ hd.fd = f /\ hd.type = new.kind /\ hd.want = new.of
  BY <1>2, <1>3 DEF HandleRec
<1>5. r \in ThreadRec /\ r.pc = "idle"
  <2>1. NULL \in Arg
    BY Zenon DEF Arg
  <2> QED BY <2>1 DEF Idle, ThreadRec
<1>6. /\ th[t].pc = "idle"
      /\ \A u \in Thread : th[u].pc \in {"open", "store", "test"} => bafs_core_fd # -1
  <2>1. /\ At(t, "idle")
        /\ \/ bafs_core_fd >= 0
           \/ \A u \in Thread : ~At(u, "idle") => th[u].op \notin CoreOp
    <3>1. "open" \notin CoreOp
      BY DEF CoreOp
    <3> QED BY <1>1, <3>1, CarefulFacts
  <2>2. \A u \in Thread :
          th[u].pc \in {"open", "store", "test"} => th[u].op \in CoreOp /\ th[u].pc # "idle"
    BY DEF Inv, FirstOK, FirstOf
  <2> QED BY <2>1, <2>2 DEF At
<1> HIDE DEF hd, r
<1>7. /\ th' \in [Thread -> ThreadRec] /\ th'[t] = r
      /\ \A u \in Thread : u # t => th'[u] = th[u]
  BY <1>1, <1>5, OneThread DEF Inv
<1>8. /\ fd \in [Fd -> FileRec] /\ handle \in [Thread -> HandleRec \cup {NULL}]
  BY DEF Inv, Types
<1>9. /\ fd' \in [Fd -> FileRec] /\ handle' \in [Thread -> HandleRec \cup {NULL}]
      /\ fd'[f] = new /\ handle'[t] = hd
      /\ \A e \in Fd : e # f => fd'[e] = fd[e]
      /\ \A u \in Thread : u # t => handle'[u] = handle[u]
  BY <1>1, <1>2, <1>3, <1>4, <1>8
<1>10. Types'
  BY <1>1, <1>7, <1>9 DEF Inv, Types
<1>11. CoreOK'
  <2>1. \A u \in Thread : th[u].pc = "store" => th'[u].pc = "store" /\ th'[u].got = th[u].got
    BY <1>6, <1>7
  <2>2. bafs_core_fd >= 0 => bafs_core_fd # f /\ bafs_core_fd \in Fd
    BY <1>2 DEF Inv, CoreOK, Types
  <2>3. bafs_core_fd >= 0 => fd'[bafs_core_fd].kind = "core"
    BY <1>9, <2>2 DEF Inv, CoreOK
  <2>4. \A e \in Fd : fd'[e].kind = "core" => fd[e].kind = "core"
    BY <1>3, <1>9
  <2> QED BY <1>1, <2>1, <2>3, <2>4 DEF Inv, CoreOK, At
<1>12. FirstOK'
  <2> SUFFICES ASSUME NEW u \in Thread PROVE FirstOf(u)'
    BY DEF FirstOK
  <2>1. CASE u = t
    BY <1>5, <1>7, <2>1 DEF FirstOf, At
  <2>2. CASE u # t
    <3>1. th'[u] = th[u] /\ FirstOf(u)
      BY <1>7, <2>2 DEF Inv, FirstOK
    <3>2. th[u].pc \notin {"open", "store"}
      BY <1>6, <3>1 DEF FirstOf
    <3> QED BY <1>1, <1>6, <3>1, <3>2 DEF FirstOf, At
  <2> QED BY <2>1, <2>2
<1>13. HandlesOK'
  <2>1. ASSUME NEW u \in Thread, u # t, handle[u] # NULL
        PROVE  /\ handle'[u] = handle[u] /\ handle[u].fd \in Fd /\ handle[u].fd # f
               /\ fd[handle[u].fd].kind = handle[u].type /\ fd[handle[u].fd].of = handle[u].want
    <3>1. handle[u] \in HandleRec /\ handle'[u] = handle[u]
      BY <1>8, <1>9, <2>1
    <3>2. /\ handle[u].fd \in Fd /\ handle[u].type \in {"group", "ctrl"}
      BY <3>1 DEF HandleRec
    <3>3. /\ fd[handle[u].fd].kind = handle[u].type /\ fd[handle[u].fd].of = handle[u].want
      BY <2>1 DEF Inv, HandlesOK
    <3>4. handle[u].fd # f
      BY <1>2, <3>2, <3>3
    <3> QED BY <3>1, <3>2, <3>3, <3>4
  <2>2. ASSUME NEW u \in Thread, handle'[u] # NULL
        PROVE  fd'[handle'[u].fd].kind = handle'[u].type /\ fd'[handle'[u].fd].of = handle'[u].want
    <3>1. CASE u = t
      BY <1>4, <1>9, <3>1
    <3>2. CASE u # t
      BY <1>9, <2>1, <2>2, <3>2
    <3> QED BY <3>1, <3>2
  <2>3. ASSUME NEW u \in Thread, NEW v \in Thread, handle'[u] # NULL, handle'[v] # NULL, u # v
        PROVE  handle'[u].fd # handle'[v].fd
    <3>1. CASE u # t /\ v # t
      BY <1>9, <2>3, <3>1 DEF Inv, HandlesOK
    <3>2. CASE u = t
      BY <1>4, <1>9, <2>1, <2>3, <3>2
    <3>3. CASE v = t
      BY <1>4, <1>9, <2>1, <2>3, <3>3
    <3> QED BY <3>1, <3>2, <3>3
  <2> QED BY <2>2, <2>3 DEF HandlesOK
<1>14. GroupsOK'
  BY <1>1, <1>5, <1>7 DEF Inv, GroupsOK, At
<1> QED BY <1>10, <1>11, <1>12, <1>13, <1>14 DEF Inv

(* A handle is closed while no call is in progress: its file is not the    *)
(* core device's, nor another handle's.                                    *)
LEMMA CloseInv ==
  ASSUME Inv, NEW t \in Thread, Close(t)
  PROVE  Inv'
<1> DEFINE f == handle[t].fd
<1>1. /\ handle[t] # NULL /\ \A u \in Thread : th[u].pc = "idle"
      /\ fd' = [fd EXCEPT ![f] = NoFile] /\ handle' = [handle EXCEPT ![t] = NULL]
      /\ group' = [g \in Group |-> IF group[g] # NULL /\ group[g].deleted /\ OpenOn(g) = {f}
                                   THEN NULL ELSE group[g]]
      /\ bafs_core_fd' = bafs_core_fd /\ mine' = mine /\ th' = th
  BY DEF Close, At
<1>2. /\ fd \in [Fd -> FileRec] /\ handle \in [Thread -> HandleRec \cup {NULL}]
      /\ group \in [Group -> GroupRec \cup {NULL}]
      /\ mine \in [Thread -> SUBSET (Group \X (SUBSET Ctrl))]
  BY DEF Inv, Types
<1>3. f \in Fd /\ fd[f].kind \in {"group", "ctrl"}
  <2>1. handle[t] \in HandleRec /\ fd[f].kind = handle[t].type
    BY <1>1, <1>2 DEF Inv, HandlesOK
  <2> QED BY <2>1 DEF HandleRec
<1>4. NoFile \in FileRec /\ NoFile.kind = "none"
  BY DEF NoFile, FileRec
<1> HIDE DEF f
<1>5. /\ fd' \in [Fd -> FileRec] /\ handle' \in [Thread -> HandleRec \cup {NULL}]
      /\ group' \in [Group -> GroupRec \cup {NULL}]
      /\ \A e \in Fd : e # f => fd'[e] = fd[e]
      /\ fd'[f] = NoFile /\ handle'[t] = NULL
      /\ \A u \in Thread : u # t => handle'[u] = handle[u]
  BY <1>1, <1>2, <1>3, <1>4
<1>6. Types'
  BY <1>1, <1>5 DEF Inv, Types
<1>7. CoreOK'
  <2>1. bafs_core_fd >= 0 => bafs_core_fd # f /\ bafs_core_fd \in Fd
    BY <1>3 DEF Inv, CoreOK, Types
  <2>2. bafs_core_fd >= 0 => fd'[bafs_core_fd].kind = "core"
    BY <1>5, <2>1 DEF Inv, CoreOK
  <2>3. \A e \in Fd : fd'[e].kind = "core" => fd[e].kind = "core"
    BY <1>4, <1>5
  <2> QED BY <1>1, <2>2, <2>3 DEF Inv, CoreOK, At
<1>8. FirstOK'
  BY <1>1 DEF FirstOK, FirstOf, At
<1>9. HandlesOK'
  <2>1. ASSUME NEW u \in Thread, handle'[u] # NULL
        PROVE  /\ u # t /\ handle'[u] = handle[u] /\ handle[u].fd \in Fd /\ handle[u].fd # f
    <3>1. u # t /\ handle'[u] = handle[u] /\ handle[u] \in HandleRec
      BY <1>2, <1>5, <2>1
    <3>2. handle[u].fd # f
      BY <1>1, <2>1, <3>1 DEF Inv, HandlesOK, f
    <3> QED BY <3>1, <3>2 DEF HandleRec
  <2> QED BY <1>5, <2>1 DEF Inv, HandlesOK
<1>10. GroupsOK'
  <2>1. ASSUME NEW u \in Thread, NEW g \in mine[u] PROVE group'[g[1]] = NewGroup(g[2])
    <3>1. g[1] \in Group /\ group[g[1]] = NewGroup(g[2])
      BY <1>2 DEF Inv, GroupsOK
    <3>2. ~group[g[1]].deleted
      BY <3>1 DEF NewGroup
    <3> QED BY <1>1, <3>1, <3>2
  <2>2. mine' = mine /\ \A u \in Thread : th'[u].pc = "idle"
    BY <1>1
  <2>3. \A u, v \in Thread : \A g \in mine[u], h \in mine[v] : g[1] = h[1] => u = v /\ g = h
    BY DEF Inv, GroupsOK
  <2> QED BY <2>1, <2>2, <2>3 DEF GroupsOK, At
<1> QED BY <1>6, <1>7, <1>8, <1>9, <1>10 DEF Inv

----------------------------------------------------------------------------
(* The theorems. *)

(* Every step of a careful process keeps the invariant. *)
LEMMA InvNext ==
  ASSUME Careful
  PROVE  Inv /\ [Next]_vars => Inv'
<1> SUFFICES ASSUME Inv, [Next]_vars PROVE Inv'
  OBVIOUS
<1>1. CASE UNCHANGED vars
  BY <1>1 DEF vars, Inv, Types, CoreOK, FirstOK, FirstOf, NoFiles, HandlesOK, GroupsOK, At
<1>2. ASSUME NEW t \in Thread, Call(t) PROVE Inv'
  <2>1. ASSUME NEW S \in (SUBSET Ctrl) \ {{}}, CoreCall(t, "create", S) PROVE Inv'
    <3>1. S \in SUBSET Ctrl /\ S \in Arg /\ "create" \in CoreOp
      BY DEF Arg, CoreOp
    <3> QED BY <2>1, <3>1, CoreCallInv
  <2>2. ASSUME NEW g \in Names(t), CoreCall(t, "delete", g) PROVE Inv'
    <3>1. g \in mine[t] /\ g \in Arg /\ "delete" \in CoreOp
      BY CarefulFacts DEF Inv, Types, Arg, CoreOp
    <3> QED BY <2>2, <3>1, CoreCallInv
  <2>3. ASSUME NEW g \in Names(t), CtrlOpen(t, "g", g[1], g[2]) PROVE Inv'
    <3>1. g \in mine[t] /\ g = <<g[1], g[2]>>
      BY CarefulFacts DEF Inv, Types
    <3> QED BY <2>3, <3>1, CtrlOpenInv
  <2>4. ASSUME NEW c \in Ctrl, CtrlOpen(t, "c", c, {c}) PROVE Inv'
    BY <2>4, CtrlOpenInv
  <2>5. CASE Close(t)
    BY <2>5, CloseInv
  <2>6. CASE \/ CtrlOpenRefuses(t) \/ CtrlOpenFails(t)
             \/ \E op \in {"reg", "map"} : RegMem(t, op) \/ RegMemFails(t, op)
             \/ \E h \in 1 .. MaxReg : PinMem(t, h) \/ DmaMapMem(t, h)
    BY <2>6, MemorySteps
  <2> QED BY <1>2, <2>1, <2>2, <2>3, <2>4, <2>5, <2>6 DEF Call
<1>3. ASSUME NEW t \in Thread, Step(t) PROVE Inv'
  BY <1>3, CoreOpenInv, CoreStoreInv, CoreTestInv, CreateInv, DeleteInv, MemorySteps DEF Step
<1> QED BY <1>1, <1>2, <1>3 DEF Next

(* In a process that keeps to the contract, with any number of threads,    *)
(* bafs_core_init never loses the descriptor of the core device.           *)
THEOREM CoreAlwaysKept ==
  ASSUME Careful
  PROVE  Spec => []CoreKept
<1>1. Init => Inv
  BY InitInv
<1>2. Inv /\ [Next]_vars => Inv'
  BY InvNext
<1>3. Inv => CoreKept
  BY DEF Inv, CoreOK, CoreKept, At
<1> QED BY <1>1, <1>2, <1>3, PTL DEF Spec

(* In such a process a handle has the type of its file and stands for the  *)
(* controllers the thread asked for, however group numbers are used again. *)
THEOREM HandlesAlwaysRight ==
  ASSUME Careful
  PROVE  Spec => []HandleIsRight
<1>1. Init => Inv
  BY InitInv
<1>2. Inv /\ [Next]_vars => Inv'
  BY InvNext
<1>3. Inv => HandleIsRight
  BY DEF Inv, HandlesOK, HandleIsRight, TypeMatches
<1> QED BY <1>1, <1>2, <1>3, PTL DEF Spec

=============================================================================
