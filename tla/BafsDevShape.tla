---------------------------- MODULE BafsDevShape ----------------------------
(***************************************************************************)
(* The inductive invariant of BafsDev, and what its proof rests on: which  *)
(* objects a call is making or taking down, how each kind of step moves    *)
(* them, and how references, minor numbers and PCI resources are counted.  *)
(* For any number of threads, PCI functions, controllers, groups and files. *)
(***************************************************************************)
EXTENDS BafsDev, FiniteSetTheorems, SequenceTheorems, TLAPS

----------------------------------------------------------------------------
(* The inductive invariant. *)

PciRec == [drv : Ctrl \cup {NULL}, bound : BOOLEAN, master : BOOLEAN,
           region : Ctrl \cup {NULL}, enabled : Nat]

DevRec == [heap : {"unused", "live", "freed"}, ref : Nat, cdev : BOOLEAN,
           shown : BOOLEAN, minor : Minor \cup {NULL},
           pdev : Pdev \cup {NULL}, ctrls : Seq(Ctrl)]

ThreadRec == [op : Op \cup {"none"}, pc : Pc, o : Dev \cup {NULL},
              p : Pdev \cup {NULL}, f : File \cup {NULL},
              left : Seq(Ctrl), stack : Seq(Frame)]

ProbePc  == {"probe_region", "probe_add", "probe_dev", "probe_ref"}
RelPc    == {"rel_dev", "rel_pci", "rel_free"}
CreatePc == {"create_get", "create_dev", "create_undo", "create_ref"}
RelgPc   == {"relg_dev", "rel_ctrls"}
CtrlPc   == ProbePc \cup RelPc
GroupPc  == CreatePc \cup RelgPc

(* The frame in which a thread makes or takes down a group. *)
NoFrame == [pc |-> "idle", o |-> NULL, left |-> <<>>]

GroupFrame(r) ==
  IF r.pc \in GroupPc THEN [pc |-> r.pc, o |-> r.o, left |-> r.left]
  ELSE IF r.stack # <<>> /\ Head(r.stack).pc \in {"rel_ctrls", "create_undo"}
       THEN Head(r.stack) ELSE NoFrame

Above(r, pc) == r.stack # <<>> /\ Head(r.stack).pc = pc

(* Where a call can be, and what it has in its locals there. *)
StackOK(r) ==
  /\ r.pc \notin RelPc \cup RelgPc => r.stack = <<>>
  /\ r.pc \in RelgPc => Above(r, "ret") /\ Head(r.stack).o = r.o /\ Tail(r.stack) = <<>>
  /\ r.pc \in RelPc =>
       \/ Above(r, "ret") /\ Head(r.stack).o = r.o /\ Tail(r.stack) = <<>>
       \/ /\ Above(r, "create_undo") /\ r.op = "create"
          /\ Head(r.stack).o \in Group /\ Tail(r.stack) = <<>>
       \/ /\ Above(r, "rel_ctrls") /\ r.op # "remove"
          /\ Head(r.stack).o \in Group /\ Tail(r.stack) # <<>>
          /\ Head(Tail(r.stack)).pc = "ret" /\ Head(Tail(r.stack)).o = Head(r.stack).o
          /\ Tail(Tail(r.stack)) = <<>>

LocalsOK(r) ==
  /\ r.pc = "idle" => r = Idle
  /\ r.op = "none" => r.pc = "idle"
  /\ r.pc # "idle" => r.o \in Dev
  /\ r.pc \in CtrlPc => r.o \in Ctrl
  /\ r.pc \in GroupPc \cup {"create_copy", "mmap_get"} => r.o \in Group
  /\ r.pc \in ProbePc <=> r.op = "probe"
  /\ r.pc \in CreatePc \cup {"create_copy"} => r.op = "create"
  /\ r.pc \in {"open_get", "open_ctx"} => r.op = "open"
  /\ r.pc \in {"ioctl_get", "ioctl_do", "ioctl_map"} => r.op = "ioctl"
  /\ r.pc \in {"mmap_get", "mmap_do"} => r.op = "mmap"
  /\ r.op \in {"probe", "remove"} <=> r.p # NULL
  /\ r.op \in {"open", "close", "ioctl", "mmap"} <=> r.f # NULL
  /\ r.op = "remove" => /\ r.pc \in {"put", "ret"} \cup RelPc
                        /\ r.o \in Ctrl

Threads == \A t \in Thread : StackOK(th[t]) /\ LocalsOK(th[t])

(* One thread at a time makes or takes down an object. *)
CtrlOf(r)  == IF r.pc \in CtrlPc THEN r.o ELSE NULL
GroupOf(r) == GroupFrame(r).o

Owners ==
  \A t, u \in Thread : t # u =>
    /\ CtrlOf(th[t]) # NULL => CtrlOf(th[t]) # CtrlOf(th[u])
    /\ GroupOf(th[t]) # NULL => GroupOf(th[t]) # GroupOf(th[u])

(* What is there of an object while it is made or taken down. *)
CtrlStage(r) ==
  r.pc \in CtrlPc =>
    LET d == dev[r.o]
    IN /\ d.heap = "live" /\ d.ref = 0
       /\ r.pc \in ProbePc => d.pdev = r.p
       /\ r.pc \in {"probe_region", "probe_add"} => ~d.cdev /\ d.minor = NULL
       /\ r.pc \in {"probe_dev", "probe_ref", "rel_dev"} => d.cdev
       /\ r.pc \in {"rel_pci", "rel_free"} => ~d.cdev
       /\ r.pc \in {"probe_dev", "probe_ref"} \cup RelPc => d.minor # NULL
       /\ d.shown => r.pc \in {"probe_ref", "rel_dev"}
       /\ r.pc = "probe_ref" => d.shown

GroupStage(r) ==
  GroupOf(r) # NULL =>
    LET d  == dev[GroupOf(r)]
        fr == GroupFrame(r)
    IN /\ d.heap = "live" /\ d.ref = 0
       /\ fr.pc = "create_get" => ~d.cdev /\ d.minor = NULL
       /\ fr.pc \in {"create_undo"} => ~d.cdev
       /\ fr.pc \in {"create_dev", "create_ref"} \cup RelgPc => d.cdev /\ d.minor # NULL
       /\ fr.pc = "relg_dev" => fr.left = d.ctrls
       /\ d.shown => fr.pc \in {"create_ref", "relg_dev"}
       /\ fr.pc = "create_ref" => d.shown

Stages == \A t \in Thread : CtrlStage(th[t]) /\ GroupStage(th[t])

Owned(o) == \E t \in Thread : CtrlOf(th[t]) = o \/ GroupOf(th[t]) = o

ObjectOK(d, o) ==
  /\ d.heap = "unused" => d = Unused
  /\ d.heap = "freed" => d.ref = 0 /\ ~d.cdev /\ ~d.shown
  /\ d.ref > 0 => d.heap = "live" /\ d.cdev /\ d.shown /\ d.minor # NULL
  /\ o \in Ctrl => d.ctrls = <<>> /\ (d.heap # "unused" => d.pdev \in Pdev)

Objects ==
  \A o \in Dev : /\ ObjectOK(dev[o], o)
                 /\ dev[o].heap = "live" /\ dev[o].ref = 0 => Owned(o)

(* PCI functions: who probes or removes, whose BAR 0 and enable count.     *)
Driver ==
  /\ \A t, u \in Thread : th[t].p # NULL /\ th[t].p = th[u].p => t = u
  /\ \A t \in Thread :
       /\ th[t].op = "probe" => ~pci[th[t].p].bound /\ pci[th[t].p].drv = th[t].o
       /\ th[t].op = "remove" =>
            /\ pci[th[t].p].bound
            /\ At(t, "put") => pci[th[t].p].drv = th[t].o
  /\ \A p \in Pdev :
       /\ pci[p].bound => pci[p].drv # NULL /\ dev[pci[p].drv].pdev = p
       /\ ~pci[p].bound /\ PciIdle(p) => pci[p].drv = NULL
       /\ pci[p].bound /\ PciIdle(p) =>
            \/ pci[p].drv \in ready
            \/ \E t \in Thread : /\ th[t].op = "delete" /\ At(t, "put")
                                 /\ th[t].o = pci[p].drv

NoRegion(r, c) == CtrlOf(r) = c /\ r.pc \in {"probe_region", "rel_free"}

HasRegion(c) == dev[c].heap = "live" /\ \A t \in Thread : ~NoRegion(th[t], c)

Regions ==
  /\ \A p \in Pdev : pci[p].region # NULL =>
       HasRegion(pci[p].region) /\ dev[pci[p].region].pdev = p
  /\ \A c \in Ctrl : HasRegion(c) => pci[dev[c].pdev].region = c
  /\ \A p \in Pdev :
       pci[p].enabled = (IF pci[p].region # NULL /\ dev[pci[p].region].minor # NULL
                         THEN 1 ELSE 0)
  /\ \A p \in Pdev : pci[p].master =>
       \E c \in Ctrl : dev[c].heap = "live" /\ dev[c].pdev = p

(* Lists of controllers: those the groups hold, and those named in the     *)
(* running CREATE_GROUP calls.                                             *)
Places(x, s, c) == {<<x, i>> : i \in {j \in DOMAIN s : s[j] = c}}

Total(L, c) == Cardinality(UNION {Places(x, L[x], c) : x \in DOMAIN L})

Members ==
  [g \in Group |->
     IF dev[g].heap # "live" THEN <<>>
     ELSE IF Undoing(g) = {} THEN dev[g].ctrls
          ELSE (CHOOSE fr \in Undoing(g) : TRUE).left]

NamesOf(r) ==
  LET fr == GroupFrame(r)
  IN IF fr.pc = "create_get" THEN dev[fr.o].ctrls \o fr.left
     ELSE IF fr.pc \in CreatePc THEN dev[fr.o].ctrls ELSE <<>>

FoundExact ==
  \A c \in Ctrl : found[c] = Total([t \in Thread |-> NamesOf(th[t])], c)

(* The references on an object. *)
Bound(c) == \E p \in Pdev : pci[p].bound /\ pci[p].drv = c /\ PciIdle(p)

One(P) == IF P THEN 1 ELSE 0

Base(o) == One(IF o \in Ctrl THEN Bound(o) ELSE o \in ready)

FilesOf(o) == {f \in File : file[f] = o}

IsPut(r, o) ==
  /\ r.o = o
  /\ \/ r.pc \in {"put", "open_ctx", "ioctl_do", "ioctl_map", "create_copy"}
     \/ r.pc = "mmap_do" /\ o \in Group
  /\ ~(o \in Ctrl /\ r.op = "delete")

Puts(o) == {t \in Thread : IsPut(th[t], o)}

Uses(o) == Base(o) + Cardinality(FilesOf(o)) + Total(Members, o)
           + Cardinality(Puts(o)) + kept[o]

Counts ==
  /\ \A c \in Ctrl : dev[c].ref = Uses(c)
  /\ \A g \in Group : dev[g].ref <= Uses(g)

(* Every DMA mapping has one of the references that outlive the calls. *)
MappedOK == \A o \in Dev : mapped[o] <= kept[o]

(* A CREATE_GROUP call and the group it makes: no one else has it, and it  *)
(* is announced when the call returns.                                     *)
Makes(r, g) ==
  r.op = "create" /\ (r.o = g \/ (r.stack # <<>> /\ Head(r.stack).o = g))

Creators ==
  /\ \A t \in Thread, g \in Group : Makes(th[t], g) =>
       /\ dev[g].heap # "unused" /\ g \notin ready
       /\ \A u \in Thread : Makes(th[u], g) => u = t
  /\ \A g \in Group : g \in ready => dev[g].heap # "unused"

(* The file of a call that opens it is no one else's yet. *)
IsOpening(r) == r.pc \in {"open_get", "open_ctx"}

Opening ==
  \A t \in Thread : IsOpening(th[t]) =>
    /\ file[th[t].f] = NULL
    /\ \A u \in Thread : th[u].f = th[t].f => u = t

Inv ==
  /\ TypeOK /\ Threads /\ Owners /\ Stages /\ Objects /\ Driver /\ Regions
  /\ MinorsExact /\ CoreRefExact /\ FoundExact /\ Counts /\ Creators /\ Opening
  /\ MappedOK

(* Under the protocol: what is announced as ready is bound, and the count  *)
(* of a group is exact.                                                    *)
ReadyOK == \A c \in Ctrl : c \in ready <=> Bound(c)

GroupsExact == \A g \in Group : dev[g].ref = Uses(g)

ProtocolInv == Protocol => ReadyOK /\ GroupsExact

----------------------------------------------------------------------------
(* Constants and sequences. *)

(* What the proofs use of the assumptions on the constants. *)
LEMMA Consts ==
  /\ \A c \in Ctrl : c \notin Group /\ c # NULL /\ c \in Dev
  /\ \A g \in Group : g \notin Ctrl /\ g # NULL /\ g \in Dev
  /\ NULL \notin Dev /\ NULL \notin Pdev /\ NULL \notin File /\ NULL \notin Minor
BY ConstantsAssumption DEF Dev

(* Pushing a frame. *)
LEMMA Push ==
  ASSUME NEW F, NEW s \in Seq(F), NEW x \in F
  PROVE  /\ <<x>> \o s \in Seq(F) /\ <<x>> \o s # <<>>
         /\ Head(<<x>> \o s) = x /\ Tail(<<x>> \o s) = s
OBVIOUS

(* Popping a frame. *)
LEMMA Pop ==
  ASSUME NEW F, NEW s \in Seq(F), s # <<>>
  PROVE  Head(s) \in F /\ Tail(s) \in Seq(F)
OBVIOUS

----------------------------------------------------------------------------
(* What a step of thread t may do to the objects: it touches those that    *)
(* are in use or unused and those t is making or taking down, and it takes *)
(* over an object only from those that nobody is at.                       *)

Takeable(o) == o \in Dev /\ (dev[o].ref > 0 \/ dev[o].heap = "unused")

Mine(t, o) == CtrlOf(th[t]) = o \/ GroupOf(th[t]) = o

ThreadFits(t) ==
  /\ th' \in [Thread -> ThreadRec]
  /\ \A u \in Thread : u # t => th'[u] = th[u]
  /\ StackOK(th'[t]) /\ LocalsOK(th'[t])

ObjectFits(t, o) ==
  dev'[o] # dev[o] =>
    /\ Takeable(o) \/ Mine(t, o)
    /\ ObjectOK(dev'[o], o)
    /\ dev'[o].heap = "live" /\ dev'[o].ref = 0 => Mine(t, o)'

ObjectsFit(t) == dev' \in [Dev -> DevRec] /\ \A o \in Dev : ObjectFits(t, o)

OwnsFit(t) ==
  /\ CtrlOf(th'[t]) # NULL => CtrlOf(th'[t]) = CtrlOf(th[t]) \/ Takeable(CtrlOf(th'[t]))
  /\ GroupOf(th'[t]) # NULL => GroupOf(th'[t]) = GroupOf(th[t]) \/ Takeable(GroupOf(th'[t]))
  /\ \A o \in Dev : Mine(t, o) /\ ~Mine(t, o)' => dev'[o].heap # "live" \/ dev'[o].ref > 0

StageFits(t) == CtrlStage(th[t])' /\ GroupStage(th[t])'

Fits(t) == ThreadFits(t) /\ ObjectsFit(t) /\ OwnsFit(t) /\ StageFits(t)

(* The objects a thread is at, from its locals. *)
Frames1(r) ==
  /\ r.pc \in GroupPc =>
       GroupFrame(r) = [pc |-> r.pc, o |-> r.o, left |-> r.left]
  /\ r.pc \notin GroupPc \cup RelPc => GroupFrame(r) = NoFrame /\ GroupOf(r) = NULL
  /\ GroupFrame(r) \in Frame
  /\ GroupOf(r) \in Group \cup {NULL}
  /\ GroupOf(r) # NULL <=> GroupFrame(r).pc \in GroupPc
  /\ CtrlOf(r) \in Ctrl \cup {NULL}
  /\ CtrlOf(r) = IF r.pc \in CtrlPc THEN r.o ELSE NULL
  /\ CtrlOf(r) # NULL <=> r.pc \in CtrlPc

(* The objects a call is at follow from its locals. *)
LEMMA RecordFrames ==
  ASSUME NEW r \in ThreadRec, StackOK(r), LocalsOK(r)
  PROVE  Frames1(r)
<1>1. /\ r.pc \in Pc /\ r.o \in Dev \cup {NULL} /\ r.left \in Seq(Ctrl)
      /\ r.stack \in Seq(Frame)
  BY DEF ThreadRec
<1>2. r.stack # <<>> => Head(r.stack) \in Frame
  BY <1>1
<1>3. NoFrame \in Frame
  BY DEF NoFrame, Frame, Pc
<1>4. GroupFrame(r) \in Frame
  BY <1>1, <1>2, <1>3 DEF GroupFrame, Frame
<1>5. (r.pc \in CtrlPc => r.o \in Ctrl) /\ (r.pc \in GroupPc => r.o \in Group)
  BY DEF LocalsOK
<1>6. CtrlOf(r) \in Ctrl \cup {NULL} /\ (CtrlOf(r) # NULL <=> r.pc \in CtrlPc)
  BY <1>5, Consts DEF CtrlOf
<1>7. CASE r.pc \in GroupPc
  <2>1. GroupFrame(r) = [pc |-> r.pc, o |-> r.o, left |-> r.left]
    BY <1>7 DEF GroupFrame
  <2> QED BY <1>4, <1>5, <1>6, <1>7, <2>1, Consts DEF GroupOf, Frames1, CtrlOf
<1>8. CASE r.pc \notin GroupPc
  <2>1. r.stack # <<>> /\ Head(r.stack).pc \in {"rel_ctrls", "create_undo"} =>
          Head(r.stack).o \in Group /\ r.pc \in RelPc
    BY <1>8 DEF StackOK, Above, GroupPc, RelPc, RelgPc
  <2>2. {"rel_ctrls", "create_undo"} \subseteq GroupPc /\ "idle" \notin GroupPc
    BY DEF GroupPc, CreatePc, RelgPc
  <2>3. \/ GroupFrame(r) = NoFrame
        \/ /\ GroupFrame(r) = Head(r.stack) /\ Head(r.stack).pc \in GroupPc
           /\ Head(r.stack).o \in Group /\ r.pc \in RelPc
    BY <1>8, <2>1, <2>2 DEF GroupFrame
  <2>4. NoFrame.o = NULL /\ NoFrame.pc \notin GroupPc
    BY <2>2 DEF NoFrame
  <2> QED BY <1>4, <1>6, <1>8, <2>3, <2>4, Consts DEF GroupOf, Frames1, CtrlOf
<1> QED BY <1>7, <1>8

(* The same for a thread of the current state. *)
LEMMA ThreadFrames ==
  ASSUME TypeOK, Threads, NEW t \in Thread
  PROVE  th[t] \in ThreadRec /\ Frames1(th[t])
<1>1. th[t] \in ThreadRec
  BY DEF TypeOK, ThreadRec
<1> QED BY <1>1, RecordFrames DEF Threads

(* The same after a step. *)
LEMMA NextFrames ==
  ASSUME NEW t \in Thread, ThreadFits(t)
  PROVE  th'[t] \in ThreadRec /\ Frames1(th'[t])
<1>1. th'[t] \in ThreadRec
  BY DEF ThreadFits
<1> QED BY <1>1, RecordFrames DEF ThreadFits

(* A step that fits keeps the objects and their owners in order. *)
LEMMA FitsInv ==
  ASSUME TypeOK, Threads, Owners, Stages, Objects, NEW t \in Thread, Fits(t)
  PROVE  Threads' /\ Owners' /\ Stages' /\ Objects'
<1>1. Threads'
  BY DEF Threads, Fits, ThreadFits
<1>2. \A u \in Thread : u # t => th'[u] = th[u]
  BY DEF Fits, ThreadFits
<1>3. ASSUME NEW u \in Thread, u # t, NEW o \in Dev, Mine(u, o)
      PROVE  dev'[o] = dev[o] /\ ~Takeable(o) /\ ~Mine(t, o)
  <2>1. dev[o].heap = "live" /\ dev[o].ref = 0
    BY <1>3, ThreadFrames, Consts DEF Frames1, Mine, Stages, CtrlStage, GroupStage, CtrlOf
  <2>2. ~Mine(t, o)
    BY <1>3, ThreadFrames, Consts DEF Frames1, Mine, Owners
  <2> QED BY <2>1, <2>2 DEF Fits, ObjectsFit, ObjectFits, Takeable
<1>4. /\ \A u \in Thread : CtrlOf(th[u]) \in Ctrl \cup {NULL} /\ GroupOf(th[u]) \in Group \cup {NULL}
  BY ThreadFrames DEF Frames1
<1>5. Owners'
  <2> SUFFICES ASSUME NEW u \in Thread, u # t
               PROVE  /\ CtrlOf(th[u]) # NULL => CtrlOf(th'[t]) # CtrlOf(th[u])
                      /\ GroupOf(th[u]) # NULL => GroupOf(th'[t]) # GroupOf(th[u])
    BY <1>2 DEF Owners
  <2>1. CtrlOf(th[u]) # NULL =>
          /\ CtrlOf(th[u]) \in Dev /\ ~Takeable(CtrlOf(th[u])) /\ CtrlOf(th[t]) # CtrlOf(th[u])
    BY <1>3, <1>4, Consts DEF Mine
  <2>2. GroupOf(th[u]) # NULL =>
          /\ GroupOf(th[u]) \in Dev /\ ~Takeable(GroupOf(th[u])) /\ GroupOf(th[t]) # GroupOf(th[u])
    BY <1>3, <1>4, Consts DEF Mine
  <2> QED BY <2>1, <2>2 DEF Fits, OwnsFit
<1>6. Stages'
  <2> SUFFICES ASSUME NEW u \in Thread, u # t PROVE CtrlStage(th[u])' /\ GroupStage(th[u])'
    BY DEF Stages, Fits, StageFits
  <2>1. CtrlStage(th[u]) /\ GroupStage(th[u]) /\ th'[u] = th[u]
    BY <1>2 DEF Stages
  <2>2. CtrlStage(th[u])'
    <3>1. th[u].pc \in CtrlPc => th[u].o \in Dev /\ dev'[th[u].o] = dev[th[u].o]
      BY <1>3, <1>4, ThreadFrames, Consts DEF Frames1, Mine, CtrlOf
    <3> QED BY <2>1, <3>1 DEF CtrlStage
  <2>3. GroupStage(th[u])'
    <3>1. GroupOf(th[u]) # NULL => dev'[GroupOf(th[u])] = dev[GroupOf(th[u])]
      BY <1>3, <1>4, Consts DEF Mine
    <3> QED BY <2>1, <3>1 DEF GroupStage
  <2> QED BY <2>2, <2>3
<1>7. Objects'
  <2> SUFFICES ASSUME NEW o \in Dev
               PROVE  /\ ObjectOK(dev'[o], o)
                      /\ dev'[o].heap = "live" /\ dev'[o].ref = 0 =>
                           \E u \in Thread : Mine(u, o)'
    BY DEF Objects, Owned, Mine
  <2>1. ObjectOK(dev'[o], o)
    BY DEF Objects, Fits, ObjectsFit, ObjectFits
  <2>2. ASSUME dev'[o].heap = "live", dev'[o].ref = 0, dev'[o] = dev[o]
        PROVE  \E u \in Thread : Mine(u, o)'
    <3>1. PICK u \in Thread : Mine(u, o)
      BY <2>2 DEF Objects, Owned, Mine
    <3>2. u # t => Mine(u, o)'
      BY <3>1, <1>2 DEF Mine
    <3>3. u = t => Mine(u, o)'
      BY <3>1, <2>2 DEF Fits, OwnsFit, ObjectsFit, DevRec
    <3> QED BY <3>2, <3>3
  <2>3. ASSUME dev'[o].heap = "live", dev'[o].ref = 0, dev'[o] # dev[o]
        PROVE  \E u \in Thread : Mine(u, o)'
    BY <2>3 DEF Fits, ObjectsFit, ObjectFits
  <2> QED BY <2>1, <2>2, <2>3
<1> QED BY <1>1, <1>5, <1>6, <1>7

----------------------------------------------------------------------------
(* The kinds of steps. *)

(* What is known where a thread is. *)
Here(t) == TypeOK /\ Threads /\ Owners /\ Stages /\ Objects /\ t \in Thread

(* The types and the invariants of one thread and of the objects. *)
LEMMA HereFacts ==
  ASSUME NEW t, Here(t)
  PROVE  /\ t \in Thread
         /\ th \in [Thread -> ThreadRec] /\ th[t] \in ThreadRec /\ dev \in [Dev -> DevRec]
         /\ StackOK(th[t]) /\ LocalsOK(th[t]) /\ CtrlStage(th[t]) /\ GroupStage(th[t])
         /\ \A o \in Dev : dev[o] \in DevRec /\ ObjectOK(dev[o], o)
BY DEF Here, TypeOK, ThreadRec, DevRec, Threads, Stages, Objects

(* An object in use whose count changes and stays above zero. *)
Counted(o) ==
  /\ dev[o].ref > 0 /\ dev'[o].ref > 0
  /\ dev'[o] = [dev[o] EXCEPT !.ref = dev'[o].ref]

(* An object in use whose count changes stays well formed. *)
LEMMA CountedOK ==
  ASSUME NEW o \in Dev, dev[o] \in DevRec, dev'[o] \in DevRec, ObjectOK(dev[o], o), Counted(o)
  PROVE  ObjectOK(dev'[o], o)
<1> DEFINE d == dev[o]  e == dev'[o]
<1>1. d \in DevRec /\ e \in DevRec /\ d.ref > 0 /\ e.ref > 0 /\ e = [d EXCEPT !.ref = e.ref]
  BY DEF Counted
<1>2. /\ e.heap = d.heap /\ e.cdev = d.cdev /\ e.shown = d.shown /\ e.minor = d.minor /\ e.ctrls = d.ctrls
      /\ e.pdev = d.pdev
  BY <1>1 DEF DevRec
<1>3. ObjectOK(d, o)
  OBVIOUS
<1> HIDE DEF d, e
<1>4. e.heap = "live" /\ ObjectOK(e, o)
  BY <1>1, <1>2, <1>3 DEF ObjectOK
<1> QED BY <1>4 DEF e

(* A step on the controller that t makes or takes down. *)
LEMMA CtrlStep ==
  ASSUME NEW t, Here(t), ThreadFits(t), NEW c \in Ctrl, CtrlOf(th[t]) = c,
         \/ CtrlOf(th'[t]) = c
         \/ CtrlOf(th'[t]) = NULL /\ (dev'[c].heap # "live" \/ dev'[c].ref > 0),
         GroupFrame(th'[t]) = GroupFrame(th[t]),
         dev' \in [Dev -> DevRec],
         \A o \in Dev : o # c => dev'[o] = dev[o],
         ObjectOK(dev'[c], c),
         CtrlStage(th[t])'
  PROVE  Fits(t)
<1>1. c \in Dev /\ c \notin Group /\ dev'[c] \in DevRec
  BY Consts
<1>2. ObjectsFit(t)
  <2> SUFFICES ASSUME NEW o \in Dev PROVE ObjectFits(t, o)
    BY DEF ObjectsFit
  <2> QED BY <1>1 DEF ObjectFits, Mine, DevRec
<1>3. GroupOf(th'[t]) = GroupOf(th[t]) /\ (GroupOf(th[t]) \in Group \cup {NULL})
  BY ThreadFrames DEF Frames1, GroupOf, Here
<1>4. OwnsFit(t)
  BY <1>1, <1>3, Consts DEF OwnsFit, Mine
<1>5. GroupStage(th[t])'
  BY <1>1, <1>3, HereFacts, Consts DEF GroupStage
<1> QED BY <1>2, <1>4, <1>5 DEF Fits, StageFits

(* A step on the group that t makes or takes down, and on objects in use. *)
LEMMA GroupStep ==
  ASSUME NEW t, Here(t), ThreadFits(t), NEW g \in Group, GroupOf(th[t]) = g,
         CtrlOf(th[t]) = NULL, CtrlOf(th'[t]) = NULL,
         \/ GroupOf(th'[t]) = g
         \/ GroupOf(th'[t]) = NULL /\ (dev'[g].heap # "live" \/ dev'[g].ref > 0),
         dev' \in [Dev -> DevRec],
         \A o \in Dev : o # g => dev'[o] = dev[o] \/ Counted(o),
         ObjectOK(dev'[g], g),
         GroupStage(th[t])'
  PROVE  Fits(t)
<1>1. g \in Dev /\ dev'[g] \in DevRec
  BY Consts
<1>2. ObjectsFit(t)
  <2> SUFFICES ASSUME NEW o \in Dev PROVE ObjectFits(t, o)
    BY DEF ObjectsFit
  <2>1. CASE o = g
    BY <1>1, <2>1 DEF ObjectFits, Mine, DevRec
  <2>2. CASE dev'[o] = dev[o]
    BY <2>2 DEF ObjectFits
  <2>3. CASE Counted(o)
    BY <2>3, CountedOK, HereFacts DEF ObjectFits, Takeable, Counted
  <2> QED BY <2>1, <2>2, <2>3
<1>3. OwnsFit(t)
  BY <1>1, Consts DEF OwnsFit, Mine
<1>4. CtrlStage(th[t])'
  <2>1. th'[t].pc \in CtrlPc => th'[t].o \in Ctrl
    BY DEF ThreadFits, LocalsOK
  <2> QED BY <2>1, Consts DEF CtrlStage, CtrlOf
<1> QED BY <1>2, <1>3, <1>4 DEF Fits, StageFits

(* A step of a thread that makes and takes down nothing. *)
LEMMA UserStep ==
  ASSUME NEW t, Here(t), ThreadFits(t),
         CtrlOf(th[t]) = NULL, CtrlOf(th'[t]) = NULL,
         GroupOf(th[t]) = NULL, GroupOf(th'[t]) = NULL,
         dev' \in [Dev -> DevRec],
         \A o \in Dev : dev'[o] = dev[o] \/ Counted(o)
  PROVE  Fits(t)
<1>1. ObjectsFit(t)
  <2> SUFFICES ASSUME NEW o \in Dev PROVE ObjectFits(t, o)
    BY DEF ObjectsFit
  <2>1. CASE dev'[o] = dev[o]
    BY <2>1 DEF ObjectFits
  <2>2. CASE Counted(o)
    BY <2>2, CountedOK, HereFacts DEF ObjectFits, Takeable, Counted
  <2> QED BY <2>1, <2>2
<1>2. OwnsFit(t)
  BY Consts DEF OwnsFit, Mine
<1>3. StageFits(t)
  <2>1. th'[t].pc \in CtrlPc => th'[t].o \in Ctrl
    BY DEF ThreadFits, LocalsOK
  <2> QED BY <2>1, Consts DEF StageFits, CtrlStage, CtrlOf, GroupStage
<1> QED BY <1>1, <1>2, <1>3 DEF Fits

(* A step in which t begins to make or to take down a controller. *)
LEMMA TakeCtrl ==
  ASSUME NEW t, Here(t), ThreadFits(t), NEW c \in Ctrl, Takeable(c),
         CtrlOf(th[t]) = NULL, CtrlOf(th'[t]) = c,
         GroupOf(th'[t]) = GroupOf(th[t]),
         dev' \in [Dev -> DevRec],
         \A o \in Dev : o # c => dev'[o] = dev[o],
         ObjectOK(dev'[c], c),
         CtrlStage(th[t])', GroupStage(th[t])'
  PROVE  Fits(t)
<1>1. ObjectsFit(t)
  BY DEF ObjectsFit, ObjectFits, Mine
<1>2. OwnsFit(t)
  BY Consts DEF OwnsFit, Mine
<1> QED BY <1>1, <1>2 DEF Fits, StageFits

(* The same for a group. *)
LEMMA TakeGroup ==
  ASSUME NEW t, Here(t), ThreadFits(t), NEW g \in Group, Takeable(g),
         CtrlOf(th[t]) = NULL, CtrlOf(th'[t]) = NULL,
         GroupOf(th[t]) = NULL, GroupOf(th'[t]) = g,
         dev' \in [Dev -> DevRec],
         \A o \in Dev : o # g => dev'[o] = dev[o],
         ObjectOK(dev'[g], g),
         GroupStage(th[t])'
  PROVE  Fits(t)
<1>1. ObjectsFit(t)
  BY DEF ObjectsFit, ObjectFits, Mine
<1>2. OwnsFit(t)
  BY Consts DEF OwnsFit, Mine
<1>3. CtrlStage(th[t])'
  <2>1. th'[t].pc \in CtrlPc => th'[t].o \in Ctrl
    BY DEF ThreadFits, LocalsOK
  <2> QED BY <2>1, Consts DEF CtrlStage, CtrlOf
<1> QED BY <1>1, <1>2, <1>3 DEF Fits, StageFits

(* A step that only moves the program counter. *)
LEMMA GotoFacts ==
  ASSUME NEW t, Here(t), NEW pc \in Pc, Goto(t, pc)
  PROVE  /\ th' \in [Thread -> ThreadRec]
         /\ \A u \in Thread : u # t => th'[u] = th[u]
         /\ th'[t].pc = pc /\ th'[t].o = th[t].o /\ th'[t].op = th[t].op
         /\ th'[t].p = th[t].p /\ th'[t].f = th[t].f
         /\ th'[t].left = th[t].left /\ th'[t].stack = th[t].stack
<1>1. th \in [Thread -> ThreadRec] /\ t \in Thread
  BY HereFacts
<1> QED BY <1>1 DEF Goto, ThreadRec

(* A return from the call. *)
LEMMA ReturnFits ==
  ASSUME NEW t, Here(t), Return(t)
  PROVE  /\ ThreadFits(t) /\ th'[t] = Idle
         /\ CtrlOf(th'[t]) = NULL /\ GroupFrame(th'[t]) = NoFrame /\ GroupOf(th'[t]) = NULL
<1>1. th \in [Thread -> ThreadRec] /\ t \in Thread
  BY HereFacts
<1>2. Idle \in ThreadRec /\ StackOK(Idle) /\ LocalsOK(Idle)
  BY Consts DEF Idle, ThreadRec, StackOK, LocalsOK, Pc, RelPc, RelgPc, CtrlPc, ProbePc, GroupPc,
                CreatePc
<1>3. ThreadFits(t) /\ th'[t] = Idle
  BY <1>1, <1>2 DEF Return, ThreadFits
<1>4. Idle.pc \notin CtrlPc \cup GroupPc \cup RelPc
  BY DEF Idle, CtrlPc, ProbePc, RelPc, GroupPc, CreatePc, RelgPc
<1> QED BY <1>1, <1>3, <1>4, NextFrames DEF Frames1

(* __bafs_ctrl_release *)
LEMMA RelFits ==
  ASSUME NEW t, Here(t), RelDev(t) \/ RelPci(t) \/ RelFree(t)
  PROVE  Fits(t)
<1>1. /\ t \in Thread /\ th \in [Thread -> ThreadRec] /\ th[t] \in ThreadRec
      /\ dev \in [Dev -> DevRec]
      /\ StackOK(th[t]) /\ LocalsOK(th[t]) /\ CtrlStage(th[t])
      /\ \A o \in Dev : dev[o] \in DevRec /\ ObjectOK(dev[o], o)
  BY HereFacts
<1>2. th[t].pc \in RelPc /\ fault = "none"
  BY Zenon DEF RelDev, RelPci, RelFree, Runs, At, RelPc
<1> DEFINE c == th[t].o
<1>3. c \in Ctrl /\ c \in Dev /\ CtrlOf(th[t]) = c /\ dev[c].ref = 0
  BY <1>1, <1>2, Consts DEF LocalsOK, CtrlOf, CtrlPc, CtrlStage
<1>4. ASSUME RelDev(t) \/ RelPci(t) PROVE Fits(t)
  <2>1. /\ th[t].pc \in {"rel_dev", "rel_pci"} /\ Goto(t, IF th[t].pc = "rel_dev" THEN "rel_pci" ELSE "rel_free")
        /\ dev' = IF th[t].pc = "rel_dev" THEN [dev EXCEPT ![c].shown = FALSE, ![c].cdev = FALSE]
                  ELSE dev
    BY <1>4, Zenon DEF RelDev, RelPci, Runs, At
  <2>2. /\ th' \in [Thread -> ThreadRec]
        /\ \A u \in Thread : u # t => th'[u] = th[u]
        /\ th'[t].pc \in {"rel_pci", "rel_free"} /\ th'[t].o = c /\ th'[t].op = th[t].op
        /\ th'[t].p = th[t].p /\ th'[t].f = th[t].f
        /\ th'[t].left = th[t].left /\ th'[t].stack = th[t].stack
    BY <2>1, GotoFacts DEF Pc
  <2>3. ThreadFits(t)
    BY <1>1, <2>1, <2>2 DEF ThreadFits, StackOK, LocalsOK, Above, RelPc, RelgPc, CtrlPc, GroupPc,
                     CreatePc, ProbePc
  <2>4. CtrlOf(th'[t]) = c
    BY <2>2 DEF CtrlOf, CtrlPc, RelPc
  <2>5. GroupFrame(th'[t]) = GroupFrame(th[t])
    BY <2>1, <2>2 DEF GroupFrame, GroupPc, RelgPc, CreatePc
  <2>6. dev' \in [Dev -> DevRec] /\ \A o \in Dev : o # c => dev'[o] = dev[o]
    BY <1>1, <1>3, <2>1, ZenonT(40) DEF DevRec
  <2>7. /\ dev'[c].ref = dev[c].ref /\ dev'[c].heap = dev[c].heap /\ dev'[c].pdev = dev[c].pdev
        /\ dev'[c].ctrls = dev[c].ctrls /\ dev'[c].minor = dev[c].minor
        /\ ~dev'[c].cdev /\ ~dev'[c].shown
    BY <1>1, <1>3, <2>1 DEF DevRec, CtrlStage, CtrlPc, RelPc
  <2>8. dev[c].heap = "live" /\ dev[c].minor # NULL /\ ObjectOK(dev[c], c)
    BY <1>1, <1>2, <1>3 DEF CtrlStage, CtrlPc, RelPc
  <2>9. ObjectOK(dev'[c], c)
    BY <1>3, <2>7, <2>8 DEF ObjectOK
  <2>10. CtrlStage(th[t])'
    BY <1>3, <2>2, <2>7, <2>8 DEF CtrlStage, CtrlPc, RelPc, ProbePc
  <2> QED BY <1>3, <2>3, <2>4, <2>5, <2>6, <2>9, <2>10, CtrlStep
<1>5. ASSUME RelFree(t) PROVE Fits(t)
  <2> DEFINE s == Head(th[t].stack)
  <2>1. /\ th[t].pc = "rel_free" /\ dev' = [dev EXCEPT ![c].heap = "freed"]
        /\ th' = [th EXCEPT ![t].pc = s.pc, ![t].o = s.o, ![t].left = s.left,
                            ![t].stack = Tail(@)]
    BY <1>5, SMTT(30) DEF RelFree, Runs, At, Back
  <2>2. th[t].stack \in Seq(Frame) /\ th[t].stack # <<>>
    BY <1>1, <2>1 DEF ThreadRec, StackOK, Above, RelPc
  <2>3. s \in Frame /\ Tail(th[t].stack) \in Seq(Frame)
    BY <2>2, Pop
  <2> HIDE DEF s
  <2>4. /\ th' \in [Thread -> ThreadRec]
        /\ \A u \in Thread : u # t => th'[u] = th[u]
        /\ th'[t].pc = s.pc /\ th'[t].o = s.o /\ th'[t].left = s.left
        /\ th'[t].op = th[t].op /\ th'[t].p = th[t].p /\ th'[t].f = th[t].f
        /\ th'[t].stack = Tail(th[t].stack)
    BY <1>1, <2>1, <2>3 DEF ThreadRec, Frame
  <2>5. \/ s.pc = "ret" /\ s.o = c /\ Tail(th[t].stack) = <<>>
        \/ /\ s.pc = "create_undo" /\ th[t].op = "create" /\ s.o \in Group
           /\ Tail(th[t].stack) = <<>>
        \/ /\ s.pc = "rel_ctrls" /\ th[t].op # "remove" /\ s.o \in Group
           /\ Tail(th[t].stack) # <<>> /\ Head(Tail(th[t].stack)).pc = "ret"
           /\ Head(Tail(th[t].stack)).o = s.o /\ Tail(Tail(th[t].stack)) = <<>>
    BY <1>1, <2>1 DEF StackOK, Above, RelPc, s
  <2>6. StackOK(th'[t])
    BY <2>4, <2>5, SMTT(30) DEF StackOK, Above, RelPc, RelgPc
  <2>7. LocalsOK(th'[t])
    BY <1>1, <1>3, <2>1, <2>4, <2>5, Consts DEF LocalsOK, RelPc, RelgPc, CtrlPc, GroupPc, CreatePc,
                                             ProbePc
  <2>8. ThreadFits(t)
    BY <2>4, <2>6, <2>7 DEF ThreadFits
  <2>9. CtrlOf(th'[t]) = NULL
    BY <2>4, <2>5 DEF CtrlOf, CtrlPc, RelPc, ProbePc
  <2>10. GroupFrame(th'[t]) = GroupFrame(th[t])
    <3>1. s = [pc |-> s.pc, o |-> s.o, left |-> s.left]
      BY <2>3 DEF Frame
    <3>2. "rel_free" \notin GroupPc /\ "ret" \notin GroupPc
          /\ {"create_undo", "rel_ctrls"} \subseteq GroupPc
      BY DEF GroupPc, CreatePc, RelgPc
    <3>3. CASE s.pc = "ret"
      BY <2>1, <2>2, <2>4, <2>5, <3>2, <3>3, ZenonT(40) DEF GroupFrame, s
    <3>4. CASE s.pc # "ret"
      BY <2>1, <2>2, <2>4, <2>5, <3>1, <3>2, <3>4, ZenonT(40) DEF GroupFrame, s
    <3> QED BY <3>3, <3>4
  <2>11. dev' \in [Dev -> DevRec] /\ \A o \in Dev : o # c => dev'[o] = dev[o]
    BY <1>1, <1>3, <2>1 DEF DevRec
  <2>12. /\ dev'[c].heap = "freed" /\ dev'[c].ref = dev[c].ref /\ dev'[c].pdev = dev[c].pdev
         /\ dev'[c].ctrls = dev[c].ctrls /\ dev'[c].cdev = dev[c].cdev
         /\ dev'[c].shown = dev[c].shown
    BY <1>1, <1>3, <2>1 DEF DevRec
  <2>13. ObjectOK(dev[c], c) /\ ~dev[c].cdev /\ ~dev[c].shown /\ dev[c].heap = "live"
    BY <1>1, <1>3, <2>1 DEF CtrlStage, CtrlPc, RelPc
  <2>14. ObjectOK(dev'[c], c)
    BY <1>3, <2>12, <2>13 DEF ObjectOK
  <2>15. CtrlStage(th[t])'
    BY <2>4, <2>5 DEF CtrlStage, CtrlPc, RelPc, ProbePc
  <2>16. CtrlOf(th'[t]) = NULL /\ dev'[c].heap # "live"
    BY <2>9, <2>12
  <2> QED BY <1>3, <2>8, <2>10, <2>11, <2>14, <2>15, <2>16, CtrlStep
<1> QED BY <1>4, <1>5

(* A put of a reference that is not the last. *)
LEMMA PutSome ==
  ASSUME NEW t, Here(t), NEW o \in Dev, NEW next \in Pc, NEW left \in Seq(Ctrl),
         Put(t, o, next, left), dev[o].ref > 0, dev[o].ref # 1
  PROVE  /\ th' \in [Thread -> ThreadRec]
         /\ \A u \in Thread : u # t => th'[u] = th[u]
         /\ th'[t].pc = next /\ th'[t].o = th[t].o /\ th'[t].op = th[t].op
         /\ th'[t].p = th[t].p /\ th'[t].f = th[t].f
         /\ th'[t].left = left /\ th'[t].stack = th[t].stack
         /\ dev' \in [Dev -> DevRec]
         /\ \A x \in Dev : x # o => dev'[x] = dev[x]
         /\ Counted(o) /\ dev'[o].ref = dev[o].ref - 1
<1>1. th \in [Thread -> ThreadRec] /\ t \in Thread /\ dev \in [Dev -> DevRec]
  BY HereFacts
<1>2. th' = [th EXCEPT ![t].pc = next, ![t].left = left]
  BY DEF Put
<1>3. dev[o] \in DevRec /\ dev[o].ref \in Nat /\ dev' = [dev EXCEPT ![o].ref = dev[o].ref - 1]
  BY <1>1 DEF DevRec, Put
<1>4. dev[o].ref - 1 \in Nat /\ dev[o].ref - 1 > 0
  BY <1>3
<1>5. /\ dev' \in [Dev -> DevRec] /\ (\A x \in Dev : x # o => dev'[x] = dev[x])
      /\ dev'[o] = [dev[o] EXCEPT !.ref = dev[o].ref - 1] /\ dev'[o].ref = dev[o].ref - 1
  BY <1>1, <1>3, <1>4 DEF DevRec
<1>6. Counted(o)
  BY <1>4, <1>5 DEF Counted
<1>7. /\ th' \in [Thread -> ThreadRec]
      /\ \A u \in Thread : u # t => th'[u] = th[u]
      /\ th'[t].pc = next /\ th'[t].o = th[t].o /\ th'[t].op = th[t].op
      /\ th'[t].p = th[t].p /\ th'[t].f = th[t].f
      /\ th'[t].left = left /\ th'[t].stack = th[t].stack
  BY <1>1, <1>2 DEF ThreadRec
<1> QED BY <1>5, <1>6, <1>7

(* A put of the last reference. *)
LEMMA PutEnd ==
  ASSUME NEW t, Here(t), NEW o \in Dev, NEW next \in Pc, NEW left \in Seq(Ctrl),
         Put(t, o, next, left), dev[o].ref = 1
  PROVE  /\ th' \in [Thread -> ThreadRec]
         /\ \A u \in Thread : u # t => th'[u] = th[u]
         /\ th'[t].pc = IF o \in Ctrl THEN "rel_dev" ELSE "relg_dev"
         /\ th'[t].o = o /\ th'[t].op = th[t].op
         /\ th'[t].p = th[t].p /\ th'[t].f = th[t].f
         /\ th'[t].left = dev[o].ctrls
         /\ th'[t].stack # <<>> /\ Tail(th'[t].stack) = th[t].stack
         /\ Head(th'[t].stack) = [pc |-> next, o |-> th[t].o, left |-> left]
         /\ dev' \in [Dev -> DevRec]
         /\ \A x \in Dev : x # o => dev'[x] = dev[x]
         /\ dev'[o] = [dev[o] EXCEPT !.ref = 0]
<1>1. /\ th \in [Thread -> ThreadRec] /\ t \in Thread /\ dev \in [Dev -> DevRec]
      /\ th[t] \in ThreadRec
  BY HereFacts
<1> DEFINE fr == [pc |-> next, o |-> th[t].o, left |-> left]
           st == <<fr>> \o th[t].stack
           pc == IF o \in Ctrl THEN "rel_dev" ELSE "relg_dev"
<1>2. th' = [th EXCEPT ![t].pc = pc, ![t].o = o, ![t].left = dev[o].ctrls, ![t].stack = st]
  BY <1>1 DEF Put
<1>3. fr \in Frame /\ th[t].stack \in Seq(Frame) /\ pc \in Pc
  BY <1>1 DEF ThreadRec, Frame, Pc
<1>4. st \in Seq(Frame) /\ st # <<>> /\ Head(st) = fr /\ Tail(st) = th[t].stack
  <2> HIDE DEF fr
  <2> QED BY <1>3, Push
<1>5. dev[o] \in DevRec /\ dev' = [dev EXCEPT ![o].ref = 0]
  BY <1>1 DEF DevRec, Put
<1> HIDE DEF fr, st, pc
<1>6. /\ th' \in [Thread -> ThreadRec] /\ th'[t].stack = st /\ th'[t].pc = pc /\ th'[t].o = o
      /\ th'[t].left = dev[o].ctrls
      /\ th'[t].op = th[t].op /\ th'[t].p = th[t].p /\ th'[t].f = th[t].f
      /\ \A u \in Thread : u # t => th'[u] = th[u]
  BY <1>1, <1>2, <1>3, <1>4, <1>5 DEF ThreadRec, DevRec
<1>7. /\ dev' \in [Dev -> DevRec] /\ (\A x \in Dev : x # o => dev'[x] = dev[x])
      /\ dev'[o] = [dev[o] EXCEPT !.ref = 0]
  BY <1>1, <1>5 DEF DevRec
<1> QED BY <1>4, <1>6, <1>7 DEF fr, pc

(* The object that loses its last reference is taken down by the thread    *)
(* that put it.                                                            *)
LEMMA LastPut ==
  ASSUME NEW t, Here(t), NEW o \in Dev, dev[o].ref = 1, dev'[o] = [dev[o] EXCEPT !.ref = 0],
         th'[t].o = o, th'[t].pc = IF o \in Ctrl THEN "rel_dev" ELSE "relg_dev",
         th'[t].left = dev[o].ctrls
  PROVE  /\ Takeable(o) /\ ObjectOK(dev'[o], o)
         /\ o \in Ctrl => CtrlOf(th'[t]) = o /\ CtrlStage(th[t])'
         /\ o \in Group => /\ GroupFrame(th'[t]) = [pc |-> "relg_dev", o |-> o, left |-> dev[o].ctrls]
                           /\ GroupOf(th'[t]) = o /\ CtrlOf(th'[t]) = NULL /\ GroupStage(th[t])'
<1>1. dev[o] \in DevRec /\ ObjectOK(dev[o], o)
  BY HereFacts
<1>2. /\ dev'[o].ref = 0 /\ dev'[o].heap = dev[o].heap /\ dev'[o].cdev = dev[o].cdev
      /\ dev'[o].minor = dev[o].minor /\ dev'[o].ctrls = dev[o].ctrls
      /\ dev'[o].pdev = dev[o].pdev
  BY <1>1 DEF DevRec
<1>3. dev[o].heap = "live" /\ dev[o].cdev /\ dev[o].minor # NULL
  BY <1>1 DEF ObjectOK
<1>4. Takeable(o) /\ ObjectOK(dev'[o], o)
  BY <1>1, <1>2, <1>3 DEF Takeable, ObjectOK
<1>5. o \in Ctrl => CtrlOf(th'[t]) = o /\ CtrlStage(th[t])'
  BY <1>2, <1>3 DEF CtrlOf, CtrlPc, RelPc, ProbePc, CtrlStage
<1>6. ASSUME o \in Group
      PROVE  /\ GroupFrame(th'[t]) = [pc |-> "relg_dev", o |-> o, left |-> dev[o].ctrls]
             /\ GroupOf(th'[t]) = o /\ CtrlOf(th'[t]) = NULL /\ GroupStage(th[t])'
  <2>1. th'[t].pc = "relg_dev"
    BY <1>6, Consts
  <2>2. GroupFrame(th'[t]) = [pc |-> "relg_dev", o |-> o, left |-> dev[o].ctrls]
    BY <2>1 DEF GroupFrame, GroupPc, RelgPc
  <2>3. GroupOf(th'[t]) = o /\ CtrlOf(th'[t]) = NULL
    BY <2>1, <2>2 DEF GroupOf, CtrlOf, CtrlPc, ProbePc, RelPc
  <2> DEFINE fr == GroupFrame(th'[t])
  <2>4. fr.pc = "relg_dev" /\ fr.left = dev'[o].ctrls
    BY <1>2, <2>2
  <2> HIDE DEF fr
  <2>5. /\ fr.pc \notin {"create_get", "create_undo"}
        /\ fr.pc \in {"create_ref", "relg_dev"}
    BY <2>4
  <2>6. GroupStage(th[t])'
    BY <1>2, <1>3, <2>3, <2>4, <2>5 DEF GroupStage, fr
  <2> QED BY <2>2, <2>3, <2>6
<1> QED BY <1>4, <1>5, <1>6

(* The object a step works on is alive and in use. *)
LEMMA RunsFacts ==
  ASSUME NEW t, Here(t), NEW pc, Runs(t, pc)
  PROVE  /\ th[t].pc = pc /\ fault = "none"
         /\ Target(t) \in Dev => dev[Target(t)].ref > 0 /\ dev[Target(t)].heap = "live"
         /\ pc \in {"open_get", "put", "ioctl_get", "ioctl_map", "mmap_get", "mmap_do"} =>
              th[t].o \in Dev /\ Target(t) = th[t].o
         /\ pc \in {"create_get", "create_undo", "rel_ctrls"} /\ th[t].left # <<>> =>
              Head(th[t].left) \in Ctrl /\ Target(t) = Head(th[t].left)
<1>1. th[t] \in ThreadRec /\ LocalsOK(th[t]) /\ \A o \in Dev : dev[o] \in DevRec /\ ObjectOK(dev[o], o)
  BY HereFacts
<1>2. th[t].pc = pc /\ fault = "none" /\ ~UseAfterFree(t) /\ ~DeadRef(t)
  BY DEF Runs, At
<1>3. Target(t) \in Dev => dev[Target(t)].ref > 0 /\ dev[Target(t)].heap = "live"
  <2> SUFFICES ASSUME NEW o \in Dev, Target(t) = o PROVE dev[o].ref > 0 /\ dev[o].heap = "live"
    OBVIOUS
  <2>1. dev[o].ref # 0
    BY <1>2, Consts DEF DeadRef
  <2>2. dev[o].ref \in Nat
    BY <1>1 DEF DevRec
  <2> QED BY <1>1, <2>1, <2>2 DEF ObjectOK
<1>4. pc \in {"open_get", "put", "ioctl_get", "ioctl_map", "mmap_get", "mmap_do"} =>
              th[t].o \in Dev /\ Target(t) = th[t].o
  BY <1>1, <1>2 DEF Target, LocalsOK
<1>5. pc \in {"create_get", "create_undo", "rel_ctrls"} /\ th[t].left # <<>> =>
              Head(th[t].left) \in Ctrl /\ Target(t) = Head(th[t].left)
  BY <1>1, <1>2 DEF Target, ThreadRec
<1> QED BY <1>2, <1>3, <1>4, <1>5

(* bafs_put_ctrl and bafs_put_group at the end of a call *)
LEMMA PutLastFits ==
  ASSUME NEW t, Here(t), PutLast(t)
  PROVE  Fits(t)
<1>1. /\ t \in Thread /\ th[t] \in ThreadRec /\ dev \in [Dev -> DevRec]
      /\ StackOK(th[t]) /\ LocalsOK(th[t])
  BY HereFacts
<1> DEFINE o == th[t].o
           nil == <<>>
<1>2. Runs(t, "put") /\ Put(t, o, "ret", nil)
  BY DEF PutLast
<1>3. th[t].pc = "put" /\ o \in Dev /\ dev[o].ref > 0 /\ dev[o].heap = "live"
  BY <1>2, RunsFacts
<1>4. th[t].stack = <<>> /\ CtrlOf(th[t]) = NULL /\ GroupOf(th[t]) = NULL
  BY <1>1, <1>3 DEF StackOK, RelPc, RelgPc, CtrlOf, CtrlPc, ProbePc, GroupOf, GroupFrame, GroupPc,
                    CreatePc, NoFrame
<1>5. "ret" \in Pc /\ nil \in Seq(Ctrl)
  BY DEF Pc
<1>6. CASE dev[o].ref # 1
  <2>1. /\ th' \in [Thread -> ThreadRec]
        /\ \A u \in Thread : u # t => th'[u] = th[u]
        /\ th'[t].pc = "ret" /\ th'[t].o = th[t].o /\ th'[t].op = th[t].op
        /\ th'[t].p = th[t].p /\ th'[t].f = th[t].f
        /\ th'[t].stack = <<>>
        /\ dev' \in [Dev -> DevRec]
        /\ \A x \in Dev : x # o => dev'[x] = dev[x]
        /\ Counted(o)
    <3>1. th[t].o = o
      OBVIOUS
    <3> HIDE DEF o, nil
    <3> QED BY <1>2, <1>3, <1>4, <1>5, <1>6, <3>1, PutSome
  <2>2. ThreadFits(t)
    BY <1>1, <1>3, <2>1 DEF ThreadFits, StackOK, LocalsOK, RelPc, RelgPc, CtrlPc, GroupPc, CreatePc,
                            ProbePc
  <2>3. CtrlOf(th'[t]) = NULL /\ GroupOf(th'[t]) = NULL
    BY <2>1 DEF CtrlOf, CtrlPc, ProbePc, RelPc, GroupOf, GroupFrame, GroupPc, CreatePc, RelgPc,
       NoFrame
  <2> QED BY <1>4, <2>1, <2>2, <2>3, UserStep
<1>7. CASE dev[o].ref = 1
  <2>1. /\ th' \in [Thread -> ThreadRec]
        /\ \A u \in Thread : u # t => th'[u] = th[u]
        /\ th'[t].pc = IF o \in Ctrl THEN "rel_dev" ELSE "relg_dev"
        /\ th'[t].o = o /\ th'[t].op = th[t].op
        /\ th'[t].p = th[t].p /\ th'[t].f = th[t].f
        /\ th'[t].left = dev[o].ctrls
        /\ th'[t].stack # <<>> /\ Tail(th'[t].stack) = <<>>
        /\ Head(th'[t].stack) = [pc |-> "ret", o |-> o, left |-> nil]
        /\ dev' \in [Dev -> DevRec]
        /\ \A x \in Dev : x # o => dev'[x] = dev[x]
        /\ dev'[o] = [dev[o] EXCEPT !.ref = 0]
    <3>1. th[t].o = o
      OBVIOUS
    <3> HIDE DEF o, nil
    <3>2. Tail(th'[t].stack) = th[t].stack
      BY <1>2, <1>3, <1>5, <1>7, PutEnd
    <3> QED BY <1>2, <1>3, <1>4, <1>5, <1>7, <3>1, <3>2, PutEnd
  <2>2. o \in Ctrl \/ o \in Group
    BY <1>3 DEF Dev
  <2>3. Head(th'[t].stack).pc = "ret" /\ Head(th'[t].stack).o = o
    BY <2>1
  <2>4. StackOK(th'[t])
    BY <2>1, <2>3 DEF StackOK, Above, RelPc, RelgPc
  <2>5. LocalsOK(th'[t])
    BY <1>1, <1>3, <2>1, <2>2, Consts
       DEF LocalsOK, RelPc, RelgPc, CtrlPc, GroupPc, CreatePc, ProbePc
  <2>6. ThreadFits(t)
    BY <2>1, <2>4, <2>5 DEF ThreadFits
  <2>7. CASE o \in Ctrl
    <3>1. GroupFrame(th'[t]) = NoFrame
      BY <2>1, <2>3, <2>7 DEF GroupFrame, GroupPc, CreatePc, RelgPc
    <3>2. GroupOf(th'[t]) = NULL
      BY <3>1 DEF GroupOf, NoFrame
    <3>3. GroupStage(th[t])'
      BY <3>2 DEF GroupStage
    <3>4. Takeable(o) /\ ObjectOK(dev'[o], o) /\ CtrlOf(th'[t]) = o /\ CtrlStage(th[t])'
      <4> HIDE DEF o
      <4> QED BY <1>3, <1>7, <2>1, <2>7, LastPut, Zenon
    <3> QED BY <1>4, <2>1, <2>6, <2>7, <3>2, <3>3, <3>4, TakeCtrl
  <2>8. CASE o \in Group
    <3>1. /\ Takeable(o) /\ ObjectOK(dev'[o], o) /\ GroupOf(th'[t]) = o /\ CtrlOf(th'[t]) = NULL
          /\ GroupStage(th[t])'
      <4> HIDE DEF o
      <4> QED BY <1>3, <1>7, <2>1, <2>8, LastPut
    <3> QED BY <1>4, <2>1, <2>6, <2>8, <3>1, TakeGroup
  <2> QED BY <2>2, <2>7, <2>8
<1> QED BY <1>6, <1>7

(* A controller of the group is put, by __bafs_group_release and by the    *)
(* error path of bafs_group_alloc.                                         *)
LEMMA PutMemberFits ==
  ASSUME NEW t, Here(t), RelGroupCtrl(t) \/ CreateUndo(t)
  PROVE  Fits(t)
<1>1. /\ t \in Thread /\ th[t] \in ThreadRec /\ dev \in [Dev -> DevRec]
      /\ StackOK(th[t]) /\ LocalsOK(th[t]) /\ GroupStage(th[t])
  BY HereFacts
<1> DEFINE g == th[t].o
           c == Head(th[t].left)
           rest == Tail(th[t].left)
           pc == th[t].pc
<1>2. /\ pc \in {"rel_ctrls", "create_undo"} /\ Runs(t, pc) /\ th[t].left # <<>>
      /\ Put(t, c, pc, rest)
  BY DEF RelGroupCtrl, CreateUndo, Runs, At
<1>3. c \in Ctrl /\ c \in Dev /\ dev[c].ref > 0
  BY <1>2, RunsFacts, Consts
<1>4. pc \in Pc /\ rest \in Seq(Ctrl) /\ pc \in GroupPc /\ pc \notin CtrlPc
  BY <1>1, <1>2 DEF ThreadRec, Pc, GroupPc, CreatePc, RelgPc, CtrlPc, ProbePc, RelPc
<1>5. g \in Group /\ g \in Dev /\ g # c
  BY <1>1, <1>3, <1>4, Consts DEF LocalsOK
<1>6. GroupFrame(th[t]) = [pc |-> pc, o |-> g, left |-> th[t].left] /\ CtrlOf(th[t]) = NULL
  BY <1>4 DEF GroupFrame, CtrlOf
<1>7. GroupOf(th[t]) = g /\ GroupFrame(th[t]).pc = pc
  BY <1>6 DEF GroupOf
<1>8. /\ dev[g].heap = "live" /\ dev[g].ref = 0 /\ ~dev[g].shown
      /\ pc = "create_undo" => ~dev[g].cdev
      /\ pc = "rel_ctrls" => dev[g].cdev /\ dev[g].minor # NULL
  BY <1>1, <1>2, <1>5, <1>7, Consts DEF GroupStage, RelgPc
<1>9. ASSUME dev'[g] = dev[g], GroupFrame(th'[t]).pc = pc, GroupOf(th'[t]) = g
      PROVE  GroupStage(th[t])'
  BY <1>2, <1>8, <1>9 DEF GroupStage, RelgPc
<1>10. CASE dev[c].ref # 1
  <2>1. /\ th' \in [Thread -> ThreadRec]
        /\ \A u \in Thread : u # t => th'[u] = th[u]
        /\ th'[t].pc = pc /\ th'[t].o = g /\ th'[t].op = th[t].op
        /\ th'[t].p = th[t].p /\ th'[t].f = th[t].f
        /\ th'[t].left = rest /\ th'[t].stack = th[t].stack
        /\ dev' \in [Dev -> DevRec]
        /\ \A x \in Dev : x # c => dev'[x] = dev[x]
        /\ Counted(c)
    <3>1. th[t].o = g
      BY Zenon
    <3> HIDE DEF c, pc, rest, g
    <3> QED BY <1>2, <1>3, <1>4, <1>10, <3>1, PutSome
  <2>2. ThreadFits(t)
    BY <1>1, <1>2, <1>5, <2>1
       DEF ThreadFits, StackOK, LocalsOK, Above, RelPc, RelgPc, CtrlPc, GroupPc,
                           CreatePc, ProbePc
  <2>3. CtrlOf(th'[t]) = NULL
    BY <1>4, <2>1 DEF CtrlOf
  <2>4. GroupFrame(th'[t]) = [pc |-> pc, o |-> g, left |-> rest]
    BY <1>4, <2>1 DEF GroupFrame
  <2>5. GroupFrame(th'[t]).pc = pc /\ GroupOf(th'[t]) = g
    BY <2>4 DEF GroupOf
  <2>6. dev'[g] = dev[g] /\ ObjectOK(dev[g], g)
    BY <1>5, <2>1, HereFacts
  <2>7. GroupStage(th[t])'
    BY <1>9, <2>5, <2>6
  <2>8. \A x \in Dev : x # g => dev'[x] = dev[x] \/ Counted(x)
    BY <2>1
  <2> HIDE DEF g, c, pc
  <2> QED BY <1>5, <1>6, <1>7, <2>1, <2>2, <2>3, <2>5, <2>6, <2>7, <2>8, GroupStep
<1>11. CASE dev[c].ref = 1
  <2>1. /\ th' \in [Thread -> ThreadRec]
        /\ \A u \in Thread : u # t => th'[u] = th[u]
        /\ th'[t].pc = IF c \in Ctrl THEN "rel_dev" ELSE "relg_dev"
        /\ th'[t].o = c /\ th'[t].op = th[t].op
        /\ th'[t].p = th[t].p /\ th'[t].f = th[t].f
        /\ th'[t].left = dev[c].ctrls
        /\ th'[t].stack # <<>> /\ Tail(th'[t].stack) = th[t].stack
        /\ Head(th'[t].stack) = [pc |-> pc, o |-> g, left |-> rest]
        /\ dev' \in [Dev -> DevRec]
        /\ \A x \in Dev : x # c => dev'[x] = dev[x]
        /\ dev'[c] = [dev[c] EXCEPT !.ref = 0]
    <3>1. th[t].o = g
      BY Zenon
    <3> HIDE DEF c, pc, rest, g
    <3> QED BY <1>2, <1>3, <1>4, <1>11, <3>1, PutEnd
  <2>2. Head(th'[t].stack).pc = pc /\ Head(th'[t].stack).o = g /\ th'[t].pc = "rel_dev"
    BY <1>3, <2>1
  <2>3. StackOK(th'[t])
    <3>1. pc = "rel_ctrls" => /\ th[t].stack # <<>> /\ Head(th[t].stack).pc = "ret"
                              /\ Head(th[t].stack).o = g /\ Tail(th[t].stack) = <<>>
                              /\ th[t].op # "remove"
      BY <1>1 DEF StackOK, Above, RelgPc, LocalsOK, RelPc
    <3>2. pc = "create_undo" => th[t].stack = <<>> /\ th[t].op = "create"
      BY <1>1 DEF StackOK, RelPc, RelgPc, LocalsOK, CreatePc
    <3> HIDE DEF g, c, pc
    <3> QED BY <1>2, <1>5, <2>1, <2>2, <3>1, <3>2 DEF StackOK, Above, RelPc, RelgPc
  <2>4. LocalsOK(th'[t])
    BY <1>1, <1>2, <1>3, <2>1, <2>2, Consts, SMTT(30)
       DEF LocalsOK, RelPc, RelgPc, CtrlPc, GroupPc, CreatePc, ProbePc
  <2>5. ThreadFits(t)
    BY <2>1, <2>3, <2>4 DEF ThreadFits
  <2>6. GroupFrame(th'[t]) = Head(th'[t].stack)
    BY <1>2, <2>1, <2>2 DEF GroupFrame, GroupPc, CreatePc, RelgPc
  <2>7. GroupOf(th'[t]) = g /\ GroupFrame(th'[t]).pc = pc
    BY <2>2, <2>6 DEF GroupOf
  <2>8. GroupStage(th[t])'
    BY <1>5, <1>9, <2>1, <2>7
  <2>9. Takeable(c) /\ ObjectOK(dev'[c], c) /\ CtrlOf(th'[t]) = c /\ CtrlStage(th[t])'
    BY <1>3, <1>11, <2>1, LastPut
  <2> HIDE DEF g, c, pc
  <2> QED BY <1>3, <1>6, <1>7, <2>1, <2>5, <2>7, <2>8, <2>9, TakeCtrl
<1> QED BY <1>10, <1>11

(* __bafs_group_release *)
LEMMA RelGroupFits ==
  ASSUME NEW t, Here(t), RelGroupDev(t) \/ RelGroupFree(t)
  PROVE  Fits(t)
<1>1. /\ t \in Thread /\ th[t] \in ThreadRec /\ dev \in [Dev -> DevRec]
      /\ th \in [Thread -> ThreadRec]
      /\ StackOK(th[t]) /\ LocalsOK(th[t]) /\ GroupStage(th[t])
      /\ \A o \in Dev : dev[o] \in DevRec /\ ObjectOK(dev[o], o)
  BY HereFacts
<1> DEFINE g == th[t].o
<1>2. th[t].pc \in RelgPc
  BY DEF RelGroupDev, RelGroupFree, Runs, At, RelgPc
<1>3. th[t].pc \in GroupPc /\ th[t].pc \notin CtrlPc
  BY <1>2 DEF GroupPc, RelgPc, CtrlPc, ProbePc, RelPc
<1>4. g \in Group /\ g \in Dev /\ CtrlOf(th[t]) = NULL
  BY <1>1, <1>3, Consts DEF LocalsOK, CtrlOf
<1>5. GroupFrame(th[t]) = [pc |-> th[t].pc, o |-> g, left |-> th[t].left]
  BY <1>3 DEF GroupFrame
<1>6. GroupOf(th[t]) = g /\ GroupFrame(th[t]).pc = th[t].pc
  BY <1>5 DEF GroupOf
<1>7. /\ dev[g].heap = "live" /\ dev[g].ref = 0 /\ dev[g].cdev /\ dev[g].minor # NULL
      /\ th[t].pc = "rel_ctrls" => ~dev[g].shown
  BY <1>1, <1>2, <1>4, <1>6, Consts DEF GroupStage, RelgPc
<1>8. ASSUME RelGroupDev(t) PROVE Fits(t)
  <2>1. th[t].pc = "relg_dev" /\ Goto(t, "rel_ctrls") /\ dev' = [dev EXCEPT ![g].shown = FALSE]
    BY <1>8 DEF RelGroupDev, Runs, At
  <2>2. /\ th' \in [Thread -> ThreadRec]
        /\ \A u \in Thread : u # t => th'[u] = th[u]
        /\ th'[t].pc = "rel_ctrls" /\ th'[t].o = g /\ th'[t].op = th[t].op
        /\ th'[t].p = th[t].p /\ th'[t].f = th[t].f
        /\ th'[t].left = th[t].left /\ th'[t].stack = th[t].stack
    BY <2>1, GotoFacts DEF Pc
  <2>3. ThreadFits(t)
    BY <1>1, <2>1, <2>2 DEF ThreadFits, StackOK, LocalsOK, Above, RelPc, RelgPc, CtrlPc, GroupPc,
                            CreatePc, ProbePc
  <2>4. CtrlOf(th'[t]) = NULL
    BY <2>2 DEF CtrlOf, CtrlPc, RelPc, ProbePc
  <2>5. GroupFrame(th'[t]) = [pc |-> "rel_ctrls", o |-> g, left |-> th[t].left]
    BY <2>2 DEF GroupFrame, GroupPc, RelgPc
  <2>6. GroupOf(th'[t]) = g /\ GroupFrame(th'[t]).pc = "rel_ctrls"
    BY <2>5 DEF GroupOf
  <2>7. dev' \in [Dev -> DevRec] /\ \A o \in Dev : o # g => dev'[o] = dev[o]
    BY <1>1, <1>4, <2>1, ZenonT(40) DEF DevRec
  <2>8. /\ dev'[g].ref = dev[g].ref /\ dev'[g].heap = dev[g].heap /\ dev'[g].cdev = dev[g].cdev
        /\ dev'[g].minor = dev[g].minor /\ ~dev'[g].shown
    BY <1>1, <1>4, <2>1 DEF DevRec
  <2>9. ObjectOK(dev'[g], g)
    BY <1>4, <1>7, <2>8, Consts DEF ObjectOK
  <2>10. GroupStage(th[t])'
    BY <1>7, <2>6, <2>8 DEF GroupStage
  <2> QED BY <1>4, <1>6, <2>3, <2>4, <2>6, <2>7, <2>9, <2>10, GroupStep
<1>9. ASSUME RelGroupFree(t) PROVE Fits(t)
  <2> DEFINE s == Head(th[t].stack)
  <2>1. /\ th[t].pc = "rel_ctrls" /\ dev' = [dev EXCEPT ![g].heap = "freed", ![g].cdev = FALSE]
        /\ th' = [th EXCEPT ![t].pc = s.pc, ![t].o = s.o, ![t].left = s.left,
                            ![t].stack = Tail(@)]
    BY <1>9 DEF RelGroupFree, Runs, At, Back
  <2>2. /\ th[t].stack \in Seq(Frame) /\ th[t].stack # <<>> /\ Tail(th[t].stack) = <<>>
        /\ s.pc = "ret" /\ s.o = g
    BY <1>1, <2>1 DEF ThreadRec, StackOK, Above, RelgPc
  <2>3. s \in Frame /\ Tail(th[t].stack) \in Seq(Frame)
    BY <2>2, Pop
  <2> HIDE DEF s
  <2>4. /\ th' \in [Thread -> ThreadRec]
        /\ \A u \in Thread : u # t => th'[u] = th[u]
        /\ th'[t].pc = "ret" /\ th'[t].o = g
        /\ th'[t].op = th[t].op /\ th'[t].p = th[t].p /\ th'[t].f = th[t].f
        /\ th'[t].stack = <<>>
    BY <1>1, <2>1, <2>2, <2>3 DEF ThreadRec, Frame
  <2>5. ThreadFits(t)
    BY <1>1, <1>4, <2>1, <2>4
       DEF ThreadFits, StackOK, LocalsOK, Above, RelPc, RelgPc, CtrlPc, GroupPc,
                            CreatePc, ProbePc
  <2>6. CtrlOf(th'[t]) = NULL /\ GroupOf(th'[t]) = NULL
    BY <2>4 DEF CtrlOf, CtrlPc, RelPc, ProbePc, GroupOf, GroupFrame, GroupPc, CreatePc, RelgPc,
       NoFrame
  <2>7. dev' \in [Dev -> DevRec] /\ \A o \in Dev : o # g => dev'[o] = dev[o]
    <3> DEFINE r == [dev[g] EXCEPT !.heap = "freed", !.cdev = FALSE]
    <3>1. r \in DevRec
      BY <1>1, <1>4, ZenonT(40) DEF DevRec
    <3>2. dev' = [dev EXCEPT ![g] = r]
      BY <1>1, <1>4, <2>1
    <3> HIDE DEF r
    <3> QED BY <1>1, <1>4, <3>1, <3>2
  <2>8. /\ dev'[g].ref = dev[g].ref /\ dev'[g].heap = "freed" /\ ~dev'[g].cdev
        /\ dev'[g].shown = dev[g].shown
    BY <1>1, <1>4, <2>1 DEF DevRec
  <2>9. ObjectOK(dev'[g], g)
    BY <1>4, <1>7, <2>1, <2>8, Consts, SMTT(30) DEF ObjectOK
  <2>10. GroupStage(th[t])'
    BY <2>6 DEF GroupStage
  <2>11. dev'[g].heap # "live"
    BY <2>8
  <2> QED BY <1>4, <1>6, <2>5, <2>6, <2>7, <2>9, <2>10, <2>11, GroupStep
<1> QED BY <1>8, <1>9

ProbeStep(t) ==
  \/ ProbeRegion(t) \/ ProbeRegionFails(t) \/ ProbeAdd(t) \/ ProbeAddFails(t)
  \/ ProbeDev(t) \/ ProbeDevFails(t) \/ ProbeRef(t)

(* bafs_ctrl_pci_probe and bafs_ctrl_alloc *)
LEMMA ProbeFits ==
  ASSUME NEW t, Here(t), ProbeStep(t)
  PROVE  Fits(t)
<1>1. /\ t \in Thread /\ th[t] \in ThreadRec /\ dev \in [Dev -> DevRec]
      /\ th \in [Thread -> ThreadRec]
      /\ StackOK(th[t]) /\ LocalsOK(th[t]) /\ CtrlStage(th[t])
      /\ \A o \in Dev : dev[o] \in DevRec /\ ObjectOK(dev[o], o)
  BY HereFacts
<1> DEFINE c == th[t].o
<1>2. th[t].pc \in ProbePc
  BY DEF ProbeStep, ProbeRegion, ProbeRegionFails, ProbeAdd, ProbeAddFails, ProbeDev, ProbeDevFails,
         ProbeRef, Runs, At, ProbePc
<1>3. th[t].pc \in CtrlPc /\ th[t].pc \notin GroupPc \cup RelPc \cup RelgPc /\ th[t].stack = <<>>
  BY <1>1, <1>2 DEF GroupPc, RelgPc, CreatePc, CtrlPc, ProbePc, RelPc, StackOK
<1>4. c \in Ctrl /\ c \in Dev /\ CtrlOf(th[t]) = c
  BY <1>1, <1>3, Consts DEF LocalsOK, CtrlOf
<1>5. GroupFrame(th[t]) = NoFrame
  BY <1>3 DEF GroupFrame
<1>6. /\ dev[c].heap = "live" /\ dev[c].ref = 0 /\ dev[c].pdev = th[t].p /\ ObjectOK(dev[c], c)
      /\ th[t].pc \in {"probe_region", "probe_add"} => ~dev[c].cdev /\ dev[c].minor = NULL
      /\ th[t].pc \in {"probe_dev", "probe_ref"} => dev[c].cdev /\ dev[c].minor # NULL
      /\ dev[c].shown <=> th[t].pc = "probe_ref"
  BY <1>1, <1>2, <1>3, <1>4 DEF CtrlStage, ProbePc
<1>7. ASSUME ProbeRegionFails(t) \/ ProbeAddFails(t) \/ ProbeDevFails(t) PROVE Fits(t)
  <2>1. /\ th[t].pc # "probe_ref" /\ Return(t)
        /\ dev' = [dev EXCEPT ![c].heap = "freed", ![c].cdev = FALSE]
    BY <1>7, Zenon DEF ProbeRegionFails, ProbeAddFails, ProbeDevFails, ProbeUndo, Runs, At
  <2>2. ThreadFits(t) /\ th'[t] = Idle /\ CtrlOf(th'[t]) = NULL /\ GroupFrame(th'[t]) = NoFrame
    BY <2>1, ReturnFits
  <2>3. dev' \in [Dev -> DevRec] /\ \A o \in Dev : o # c => dev'[o] = dev[o]
    BY <1>1, <1>4, <2>1, ZenonT(40) DEF DevRec
  <2>4. /\ dev'[c].ref = dev[c].ref /\ dev'[c].heap = "freed" /\ ~dev'[c].cdev
        /\ dev'[c].shown = dev[c].shown /\ dev'[c].ctrls = dev[c].ctrls /\ dev'[c].pdev = dev[c].pdev
    BY <1>1, <1>4, <2>1 DEF DevRec
  <2>5. ObjectOK(dev'[c], c)
    BY <1>4, <1>6, <2>1, <2>4, SMTT(30) DEF ObjectOK
  <2>6. CtrlStage(th[t])'
    BY <2>2, NextFrames, <1>1, <1>4, Consts DEF CtrlStage, Frames1
  <2>7. dev'[c].heap # "live"
    BY <2>4
  <2> QED BY <1>4, <1>5, <2>2, <2>3, <2>5, <2>6, <2>7, CtrlStep
<1>8. ASSUME ProbeRef(t) PROVE Fits(t)
  <2>1. /\ th[t].pc = "probe_ref" /\ Return(t) /\ dev' = [dev EXCEPT ![c].ref = 1]
    BY <1>8 DEF ProbeRef, Runs, At
  <2>2. ThreadFits(t) /\ th'[t] = Idle /\ CtrlOf(th'[t]) = NULL /\ GroupFrame(th'[t]) = NoFrame
    BY <2>1, ReturnFits
  <2>3. dev' \in [Dev -> DevRec] /\ \A o \in Dev : o # c => dev'[o] = dev[o]
    BY <1>1, <1>4, <2>1 DEF DevRec
  <2>4. /\ dev'[c].ref = 1 /\ dev'[c].heap = dev[c].heap /\ dev'[c].cdev = dev[c].cdev
        /\ dev'[c].shown = dev[c].shown
        /\ dev'[c].minor = dev[c].minor /\ dev'[c].ctrls = dev[c].ctrls /\ dev'[c].pdev = dev[c].pdev
    BY <1>1, <1>4, <2>1 DEF DevRec
  <2>5. ObjectOK(dev'[c], c)
    BY <1>4, <1>6, <2>1, <2>4 DEF ObjectOK
  <2>6. CtrlStage(th[t])'
    BY <2>2, NextFrames, <1>1, <1>4, Consts DEF CtrlStage, Frames1
  <2>7. dev'[c].ref > 0
    BY <2>4
  <2> QED BY <1>4, <1>5, <2>2, <2>3, <2>5, <2>6, <2>7, CtrlStep
<1>9. ASSUME ProbeRegion(t) \/ ProbeAdd(t) \/ ProbeDev(t) PROVE Fits(t)
  <2> DEFINE pc == CASE th[t].pc = "probe_region" -> "probe_add"
                     [] th[t].pc = "probe_add" -> "probe_dev"
                     [] OTHER -> "probe_ref"
  <2>1. PICK n \in Minor \cup {NULL} :
          /\ th[t].pc \in {"probe_region", "probe_add", "probe_dev"} /\ Goto(t, pc)
          /\ \/ th[t].pc = "probe_region" /\ dev' = dev
             \/ /\ th[t].pc = "probe_add" /\ n \in Minor
                /\ dev' = [dev EXCEPT ![c].minor = n, ![c].cdev = TRUE]
             \/ th[t].pc = "probe_dev" /\ dev' = [dev EXCEPT ![c].shown = TRUE]
    BY <1>9 DEF ProbeRegion, ProbeAdd, ProbeDev, Runs, At
  <2>2. pc \in {"probe_add", "probe_dev", "probe_ref"} /\ pc \in Pc
    BY <2>1 DEF Pc
  <2>3. /\ th[t].pc = "probe_region" => pc = "probe_add"
        /\ th[t].pc = "probe_add" => pc = "probe_dev"
        /\ th[t].pc = "probe_dev" => pc = "probe_ref"
    OBVIOUS
  <2> HIDE DEF pc
  <2>4. /\ th' \in [Thread -> ThreadRec]
        /\ \A u \in Thread : u # t => th'[u] = th[u]
        /\ th'[t].pc = pc /\ th'[t].o = c /\ th'[t].op = th[t].op
        /\ th'[t].p = th[t].p /\ th'[t].f = th[t].f
        /\ th'[t].left = th[t].left /\ th'[t].stack = <<>>
    BY <1>3, <2>1, <2>2, GotoFacts
  <2>5. ThreadFits(t)
    BY <1>1, <1>2, <1>4, <2>2, <2>4 DEF ThreadFits, StackOK, LocalsOK, Above, RelPc, RelgPc, CtrlPc,
                                 GroupPc, CreatePc, ProbePc
  <2>6. CtrlOf(th'[t]) = c /\ GroupFrame(th'[t]) = NoFrame
    BY <2>2, <2>4 DEF CtrlOf, CtrlPc, ProbePc, GroupFrame, GroupPc, CreatePc, RelgPc
  <2>7. dev' \in [Dev -> DevRec] /\ \A o \in Dev : o # c => dev'[o] = dev[o]
    <3> DEFINE r == IF th[t].pc = "probe_add" THEN [dev[c] EXCEPT !.minor = n, !.cdev = TRUE]
                    ELSE IF th[t].pc = "probe_dev" THEN [dev[c] EXCEPT !.shown = TRUE]
                         ELSE dev[c]
    <3>1. r \in DevRec
      BY <1>1, <1>4, <2>1 DEF DevRec
    <3>2. dev' = [dev EXCEPT ![c] = r]
      BY <1>1, <1>4, <2>1
    <3> HIDE DEF r
    <3> QED BY <1>1, <1>4, <3>1, <3>2
  <2>8. /\ dev'[c].ref = dev[c].ref /\ dev'[c].heap = dev[c].heap
        /\ dev'[c].ctrls = dev[c].ctrls /\ dev'[c].pdev = dev[c].pdev
        /\ th[t].pc = "probe_add" => dev'[c].cdev /\ dev'[c].minor = n /\ n # NULL
        /\ th[t].pc # "probe_add" => dev'[c].cdev = dev[c].cdev /\ dev'[c].minor = dev[c].minor
        /\ th[t].pc # "probe_dev" => dev'[c].shown = dev[c].shown
        /\ th[t].pc = "probe_dev" => dev'[c].shown
    BY <1>1, <1>4, <2>1, Consts DEF DevRec
  <2>9. ObjectOK(dev'[c], c)
    BY <1>4, <1>6, <2>8 DEF ObjectOK
  <2>10. CtrlStage(th[t])'
    BY <1>6, <2>1, <2>2, <2>3, <2>4, <2>8 DEF CtrlStage, ProbePc, RelPc
  <2> QED BY <1>4, <1>5, <2>5, <2>6, <2>7, <2>9, <2>10, CtrlStep, SMTT(30)
<1> QED BY <1>7, <1>8, <1>9 DEF ProbeStep

CreateStep(t) ==
  \/ CreateGet(t) \/ CreateAdd(t) \/ CreateAddFails(t) \/ CreateDev(t)
  \/ CreateDevFails(t) \/ CreateUndone(t) \/ CreateRef(t)

(* A list read backwards. *)
LEMMA ReverseType ==
  ASSUME NEW s \in Seq(Ctrl)
  PROVE  Reverse(s) \in Seq(Ctrl)
BY DEF Reverse

(* bafs_core_create_group and bafs_group_alloc *)
LEMMA CreateFits ==
  ASSUME NEW t, Here(t), CreateStep(t)
  PROVE  Fits(t)
<1>1. /\ t \in Thread /\ th[t] \in ThreadRec /\ dev \in [Dev -> DevRec]
      /\ th \in [Thread -> ThreadRec]
      /\ StackOK(th[t]) /\ LocalsOK(th[t]) /\ GroupStage(th[t])
      /\ \A o \in Dev : dev[o] \in DevRec /\ ObjectOK(dev[o], o)
  BY HereFacts
<1> DEFINE g == th[t].o
<1>2. th[t].pc \in CreatePc
  BY Zenon DEF CreateStep, CreateGet, CreateAdd, CreateAddFails, CreateDev, CreateDevFails,
     CreateUndone,
         CreateRef, Runs, At, CreatePc
<1>3. th[t].pc \in GroupPc /\ th[t].pc \notin CtrlPc /\ th[t].stack = <<>>
  BY <1>1, <1>2 DEF GroupPc, CreatePc, RelgPc, CtrlPc, ProbePc, RelPc, StackOK
<1>4. g \in Group /\ g \in Dev /\ CtrlOf(th[t]) = NULL /\ th[t].op = "create"
  BY <1>1, <1>2, <1>3, Consts DEF LocalsOK, CtrlOf
<1>5. GroupFrame(th[t]) = [pc |-> th[t].pc, o |-> g, left |-> th[t].left]
  BY <1>3 DEF GroupFrame
<1>6. GroupOf(th[t]) = g /\ GroupFrame(th[t]).pc = th[t].pc
  BY <1>5 DEF GroupOf
<1>7. dev[g] \in DevRec
  BY <1>1, <1>4
<1>8. /\ dev[g].heap = "live" /\ dev[g].ref = 0
      /\ th[t].pc = "create_get" => ~dev[g].cdev /\ dev[g].minor = NULL
      /\ th[t].pc = "create_undo" => ~dev[g].cdev
      /\ th[t].pc \in {"create_dev", "create_ref"} => dev[g].cdev /\ dev[g].minor # NULL
      /\ dev[g].shown <=> th[t].pc = "create_ref"
  BY <1>1, <1>2, <1>4, <1>6, Consts DEF GroupStage, RelgPc, CreatePc
<1>9. ASSUME NEW pc \in CreatePc, th' \in [Thread -> ThreadRec],
             \A u \in Thread : u # t => th'[u] = th[u],
             th'[t].pc = pc, th'[t].o = g, th'[t].op = th[t].op, th'[t].p = th[t].p,
             th'[t].f = th[t].f, th'[t].stack = <<>>
      PROVE  /\ ThreadFits(t) /\ CtrlOf(th'[t]) = NULL /\ GroupOf(th'[t]) = g
             /\ GroupFrame(th'[t]).pc = pc
  <2>1. ThreadFits(t)
    BY <1>1, <1>2, <1>4, <1>9 DEF ThreadFits, StackOK, LocalsOK, Above, RelPc, RelgPc, CtrlPc,
                                 GroupPc, CreatePc, ProbePc
  <2>2. pc \in GroupPc /\ pc \notin CtrlPc
    BY <1>9 DEF GroupPc, CreatePc, CtrlPc, ProbePc, RelPc
  <2>3. GroupFrame(th'[t]) = [pc |-> pc, o |-> g, left |-> th'[t].left]
    BY <1>9, <2>2 DEF GroupFrame
  <2> QED BY <1>9, <2>1, <2>2, <2>3 DEF CtrlOf, GroupOf
<1>10. ASSUME CreateGet(t) PROVE Fits(t)
  <2> DEFINE c == Head(th[t].left)
  <2>1. /\ th[t].pc = "create_get" /\ Runs(t, "create_get") /\ th[t].left # <<>>
        /\ dev' = [dev EXCEPT ![c].ref = @ + 1, ![g].ctrls = Append(@, c)]
        /\ th' = [th EXCEPT ![t].left = Tail(@)]
    BY <1>10 DEF CreateGet, Runs, At
  <2>2. c \in Ctrl /\ c \in Dev /\ c # g /\ dev[c].ref > 0 /\ dev[c] \in DevRec
    BY <1>1, <1>4, <2>1, RunsFacts, Consts
  <2>3. Tail(th[t].left) \in Seq(Ctrl)
    BY <1>1, <2>1 DEF ThreadRec
  <2> HIDE DEF c
  <2>4. /\ th' \in [Thread -> ThreadRec]
        /\ \A u \in Thread : u # t => th'[u] = th[u]
        /\ th'[t].pc = "create_get" /\ th'[t].o = g /\ th'[t].op = th[t].op
        /\ th'[t].p = th[t].p /\ th'[t].f = th[t].f /\ th'[t].stack = <<>>
    BY <1>1, <1>3, <2>1, <2>3 DEF ThreadRec
  <2>5. /\ ThreadFits(t) /\ CtrlOf(th'[t]) = NULL /\ GroupOf(th'[t]) = g
        /\ GroupFrame(th'[t]).pc = "create_get"
    BY <1>9, <2>4 DEF CreatePc
  <2>6. [dev[c] EXCEPT !.ref = @ + 1] \in DevRec /\ [dev[g] EXCEPT !.ctrls = Append(@, c)] \in DevRec
    <3>1. [dev[c] EXCEPT !.ref = @ + 1] \in DevRec
      BY <2>2 DEF DevRec
    <3>2. [dev[g] EXCEPT !.ctrls = Append(@, c)] \in DevRec
      <4> DEFINE l == Append(dev[g].ctrls, c)
      <4>1. dev[g].ctrls \in Seq(Ctrl)
        BY <1>7 DEF DevRec
      <4>2. l \in Seq(Ctrl)
        BY <2>2, <4>1
      <4> HIDE DEF l
      <4>3. [dev[g] EXCEPT !.ctrls = l] \in DevRec
        BY <1>7, <4>2 DEF DevRec
      <4> QED BY <4>3 DEF l
    <3> QED BY <3>1, <3>2
  <2>7. /\ dev' \in [Dev -> DevRec]
        /\ \A o \in Dev : o # g /\ o # c => dev'[o] = dev[o]
        /\ dev'[c] = [dev[c] EXCEPT !.ref = @ + 1]
        /\ dev'[g] = [dev[g] EXCEPT !.ctrls = Append(@, c)]
    BY <1>1, <1>4, <2>1, <2>2, <2>6
  <2>8. Counted(c)
    BY <2>2, <2>7 DEF Counted, DevRec
  <2>9. /\ dev'[g].ref = dev[g].ref /\ dev'[g].heap = dev[g].heap /\ dev'[g].cdev = dev[g].cdev
        /\ dev'[g].minor = dev[g].minor /\ dev'[g].shown = dev[g].shown
    BY <1>1, <1>4, <2>7, SMTT(30) DEF DevRec
  <2>10. ObjectOK(dev'[g], g)
    BY <1>4, <1>8, <2>1, <2>9, Consts, SMTT(30) DEF ObjectOK
  <2>11. GroupStage(th[t])'
    BY <1>8, <2>1, <2>5, <2>9 DEF GroupStage, RelgPc
  <2>12. \A o \in Dev : o # g => dev'[o] = dev[o] \/ Counted(o)
    BY <2>7, <2>8
  <2> QED BY <1>4, <1>6, <2>5, <2>7, <2>10, <2>11, <2>12, GroupStep, SMTT(30)
<1>11. ASSUME CreateAdd(t) \/ CreateDev(t) PROVE Fits(t)
  <2> DEFINE pc == IF th[t].pc = "create_get" THEN "create_dev" ELSE "create_ref"
  <2>1. PICK n \in Minor \cup {NULL} :
          /\ th[t].pc \in {"create_get", "create_dev"} /\ Goto(t, pc)
          /\ \/ /\ th[t].pc = "create_get" /\ n \in Minor
                /\ dev' = [dev EXCEPT ![g].minor = n, ![g].cdev = TRUE]
             \/ th[t].pc = "create_dev" /\ dev' = [dev EXCEPT ![g].shown = TRUE]
    BY <1>11 DEF CreateAdd, CreateDev, Runs, At
  <2>2. pc \in CreatePc /\ pc \in Pc /\ pc \in {"create_dev", "create_ref"}
    BY DEF CreatePc, Pc
  <2>3. th[t].pc = "create_get" <=> pc = "create_dev"
    OBVIOUS
  <2> HIDE DEF pc
  <2>4. /\ th' \in [Thread -> ThreadRec]
        /\ \A u \in Thread : u # t => th'[u] = th[u]
        /\ th'[t].pc = pc /\ th'[t].o = g /\ th'[t].op = th[t].op
        /\ th'[t].p = th[t].p /\ th'[t].f = th[t].f /\ th'[t].stack = <<>>
    BY <1>3, <2>1, <2>2, GotoFacts
  <2>5. /\ ThreadFits(t) /\ CtrlOf(th'[t]) = NULL /\ GroupOf(th'[t]) = g
        /\ GroupFrame(th'[t]).pc = pc
    BY <1>9, <2>2, <2>4
  <2>6. dev' \in [Dev -> DevRec] /\ \A o \in Dev : o # g => dev'[o] = dev[o]
    <3> DEFINE r == IF th[t].pc = "create_get" THEN [dev[g] EXCEPT !.minor = n, !.cdev = TRUE]
                    ELSE [dev[g] EXCEPT !.shown = TRUE]
    <3>1. r \in DevRec
      BY <1>7, <2>1 DEF DevRec
    <3>2. dev' = [dev EXCEPT ![g] = r]
      BY <2>1
    <3> HIDE DEF r
    <3> QED BY <1>1, <1>4, <3>1, <3>2
  <2>7. /\ dev'[g].ref = dev[g].ref /\ dev'[g].heap = dev[g].heap /\ dev'[g].cdev
        /\ dev'[g].minor # NULL /\ (th[t].pc = "create_get" => dev'[g].shown = dev[g].shown)
        /\ th[t].pc = "create_dev" => dev'[g].shown
    <3>1. \/ /\ th[t].pc = "create_get" /\ n \in Minor
             /\ dev'[g] = [dev[g] EXCEPT !.minor = n, !.cdev = TRUE]
          \/ th[t].pc = "create_dev" /\ dev'[g] = [dev[g] EXCEPT !.shown = TRUE]
      BY <1>1, <1>4, <2>1
    <3> QED BY <1>8, <1>7, <3>1, Consts, ZenonT(40) DEF DevRec
  <2>8. ObjectOK(dev'[g], g)
    BY <1>4, <1>8, <2>7, Consts DEF ObjectOK
  <2>9. GroupStage(th[t])'
    BY <1>8, <2>1, <2>2, <2>3, <2>5, <2>7 DEF GroupStage, RelgPc
  <2> QED BY <1>4, <1>6, <2>5, <2>6, <2>8, <2>9, GroupStep
<1>12. ASSUME CreateAddFails(t) \/ CreateDevFails(t) PROVE Fits(t)
  <2> DEFINE l == Reverse(dev[g].ctrls)
  <2>1. /\ th[t].pc \in {"create_get", "create_dev"}
        /\ th' = [th EXCEPT ![t].pc = "create_undo", ![t].left = l]
        /\ dev' = IF th[t].pc = "create_get" THEN dev ELSE [dev EXCEPT ![g].cdev = FALSE]
    BY <1>12 DEF CreateAddFails, CreateDevFails, CreateUndoes, Runs, At
  <2>2. l \in Seq(Ctrl)
    BY <1>1, <1>4, ReverseType DEF DevRec
  <2> HIDE DEF l
  <2>3. /\ th' \in [Thread -> ThreadRec]
        /\ \A u \in Thread : u # t => th'[u] = th[u]
        /\ th'[t].pc = "create_undo" /\ th'[t].o = g /\ th'[t].op = th[t].op
        /\ th'[t].p = th[t].p /\ th'[t].f = th[t].f /\ th'[t].stack = <<>>
    BY <1>1, <1>3, <2>1, <2>2 DEF ThreadRec, Pc
  <2>4. /\ ThreadFits(t) /\ CtrlOf(th'[t]) = NULL /\ GroupOf(th'[t]) = g
        /\ GroupFrame(th'[t]).pc = "create_undo"
    BY <1>9, <2>3 DEF CreatePc
  <2>5. dev' \in [Dev -> DevRec] /\ \A o \in Dev : o # g => dev'[o] = dev[o]
    <3> DEFINE r == IF th[t].pc = "create_get" THEN dev[g] ELSE [dev[g] EXCEPT !.cdev = FALSE]
    <3>1. r \in DevRec
      BY <1>7 DEF DevRec
    <3>2. dev' = [dev EXCEPT ![g] = r]
      BY <1>1, <2>1
    <3> HIDE DEF r
    <3> QED BY <1>1, <1>4, <3>1, <3>2
  <2>6. /\ dev'[g].ref = dev[g].ref /\ dev'[g].heap = dev[g].heap /\ ~dev'[g].cdev
        /\ dev'[g].shown = dev[g].shown
    BY <1>1, <1>4, <1>8, <2>1 DEF DevRec
  <2>7. ObjectOK(dev'[g], g)
    BY <1>4, <1>8, <2>1, <2>6, Consts DEF ObjectOK
  <2>8. GroupStage(th[t])'
    BY <1>8, <2>1, <2>4, <2>6 DEF GroupStage, RelgPc
  <2> QED BY <1>4, <1>6, <2>4, <2>5, <2>7, <2>8, GroupStep
<1>13. ASSUME CreateUndone(t) PROVE Fits(t)
  <2>1. th[t].pc = "create_undo" /\ Return(t) /\ dev' = [dev EXCEPT ![g].heap = "freed"]
    BY <1>13 DEF CreateUndone, Runs, At
  <2>2. ThreadFits(t) /\ CtrlOf(th'[t]) = NULL /\ GroupOf(th'[t]) = NULL
    BY <2>1, ReturnFits
  <2>3. dev' \in [Dev -> DevRec] /\ \A o \in Dev : o # g => dev'[o] = dev[o]
    <3> DEFINE r == [dev[g] EXCEPT !.heap = "freed"]
    <3>1. r \in DevRec
      BY <1>7 DEF DevRec
    <3>2. dev' = [dev EXCEPT ![g] = r]
      BY <2>1
    <3> HIDE DEF r
    <3> QED BY <1>1, <1>4, <3>1, <3>2
  <2>4. /\ dev'[g].ref = dev[g].ref /\ dev'[g].heap = "freed" /\ dev'[g].cdev = dev[g].cdev
        /\ dev'[g].shown = dev[g].shown
    BY <1>1, <1>4, <2>1 DEF DevRec
  <2>5. ObjectOK(dev'[g], g) /\ dev'[g].heap # "live"
    BY <1>4, <1>8, <2>1, <2>4, Consts DEF ObjectOK
  <2>6. GroupStage(th[t])'
    BY <2>2 DEF GroupStage
  <2> QED BY <1>4, <1>6, <2>2, <2>3, <2>5, <2>6, GroupStep
<1>14. ASSUME CreateRef(t) PROVE Fits(t)
  <2>1. th[t].pc = "create_ref" /\ Goto(t, "create_copy") /\ dev' = [dev EXCEPT ![g].ref = 1]
    BY <1>14 DEF CreateRef, Runs, At
  <2>2. /\ th' \in [Thread -> ThreadRec]
        /\ \A u \in Thread : u # t => th'[u] = th[u]
        /\ th'[t].pc = "create_copy" /\ th'[t].o = g /\ th'[t].op = th[t].op
        /\ th'[t].p = th[t].p /\ th'[t].f = th[t].f /\ th'[t].stack = <<>>
    BY <1>3, <2>1, GotoFacts DEF Pc
  <2>3. ThreadFits(t)
    BY <1>1, <1>2, <1>4, <2>2 DEF ThreadFits, StackOK, LocalsOK, Above, RelPc, RelgPc, CtrlPc,
                                 GroupPc, CreatePc, ProbePc
  <2>4. CtrlOf(th'[t]) = NULL /\ GroupOf(th'[t]) = NULL
    BY <2>2 DEF CtrlOf, CtrlPc, RelPc, ProbePc, GroupOf, GroupFrame, GroupPc, CreatePc, RelgPc,
       NoFrame
  <2>5. dev' \in [Dev -> DevRec] /\ \A o \in Dev : o # g => dev'[o] = dev[o]
    <3> DEFINE r == [dev[g] EXCEPT !.ref = 1]
    <3>1. r \in DevRec
      BY <1>7 DEF DevRec
    <3>2. dev' = [dev EXCEPT ![g] = r]
      BY <2>1
    <3> HIDE DEF r
    <3> QED BY <1>1, <1>4, <3>1, <3>2
  <2>6. /\ dev'[g].ref = 1 /\ dev'[g].heap = dev[g].heap /\ dev'[g].cdev = dev[g].cdev
        /\ dev'[g].minor = dev[g].minor /\ dev'[g].shown = dev[g].shown
    BY <1>1, <1>4, <2>1 DEF DevRec
  <2>7. ObjectOK(dev'[g], g) /\ dev'[g].ref > 0
    BY <1>4, <1>8, <2>1, <2>6, Consts DEF ObjectOK
  <2>8. GroupStage(th[t])'
    BY <2>4 DEF GroupStage
  <2> QED BY <1>4, <1>6, <2>3, <2>4, <2>5, <2>7, <2>8, GroupStep
<1> QED BY <1>10, <1>11, <1>12, <1>13, <1>14 DEF CreateStep

(* A call begins. *)
LEMMA CallFacts ==
  ASSUME NEW t, Here(t), NEW o \in Dev, NEW p \in Pdev \cup {NULL}, NEW f \in File \cup {NULL},
         NEW op \in Op, NEW pc \in Pc, Call(t, o, p, f, op, pc)
  PROVE  /\ th' \in [Thread -> ThreadRec]
         /\ \A u \in Thread : u # t => th'[u] = th[u]
         /\ th'[t].pc = pc /\ th'[t].o = o /\ th'[t].op = op
         /\ th'[t].p = p /\ th'[t].f = f
         /\ th'[t].left = <<>> /\ th'[t].stack = <<>>
<1>1. th \in [Thread -> ThreadRec] /\ t \in Thread
  BY HereFacts
<1> DEFINE r == [Idle EXCEPT !.op = op, !.pc = pc, !.o = o, !.p = p, !.f = f]
<1>2. Idle \in ThreadRec /\ Idle.left = <<>> /\ Idle.stack = <<>>
  BY DEF Idle, ThreadRec, Pc
<1>3. /\ r.pc = pc /\ r.o = o /\ r.op = op /\ r.p = p /\ r.f = f
      /\ r.left = <<>> /\ r.stack = <<>>
  BY <1>2 DEF ThreadRec
<1>4. r \in ThreadRec
  BY <1>2 DEF ThreadRec
<1>5. th' = [th EXCEPT ![t] = r]
  BY DEF Call
<1> HIDE DEF r
<1> QED BY <1>1, <1>5, <1>3, <1>4

UserPc == {"put", "ret", "create_copy", "open_get", "open_ctx", "ioctl_get", "ioctl_do",
           "ioctl_map", "mmap_get", "mmap_do"}

(* Calls of a user that begin *)
LEMMA StartFits ==
  ASSUME NEW t, Here(t), dev' = dev, At(t, "idle"),
         NEW o \in Dev, NEW p \in Pdev \cup {NULL}, NEW f \in File \cup {NULL},
         NEW op \in Op \ {"probe"}, NEW pc \in UserPc \ {"create_copy", "ret"},
         Call(t, o, p, f, op, pc),
         op = "remove" <=> p # NULL,
         op = "remove" => o \in Ctrl /\ pc = "put",
         op \in {"open", "close", "ioctl", "mmap"} <=> f # NULL,
         pc = "mmap_get" => o \in Group,
         pc \in {"open_get", "open_ctx"} => op = "open",
         pc \in {"ioctl_get", "ioctl_do", "ioctl_map"} => op = "ioctl",
         pc \in {"mmap_get", "mmap_do"} => op = "mmap"
  PROVE  Fits(t)
<1>1. t \in Thread /\ th[t] \in ThreadRec /\ dev \in [Dev -> DevRec] /\ LocalsOK(th[t])
  BY HereFacts
<1>2. UserPc \subseteq Pc
  BY DEF UserPc, Pc
<1>3. /\ th' \in [Thread -> ThreadRec]
      /\ \A u \in Thread : u # t => th'[u] = th[u]
      /\ th'[t].pc = pc /\ th'[t].o = o /\ th'[t].op = op
      /\ th'[t].p = p /\ th'[t].f = f
      /\ th'[t].left = <<>> /\ th'[t].stack = <<>>
  BY <1>2, CallFacts
<1>4. pc \notin CtrlPc \cup GroupPc \cup RelPc \cup RelgPc \cup CreatePc \cup ProbePc
  BY DEF UserPc, CtrlPc, GroupPc, RelPc, RelgPc, CreatePc, ProbePc
<1>5. op # "none" /\ pc # "idle" /\ pc # "create_copy"
  BY DEF Op, UserPc
<1>6. ThreadFits(t)
  BY <1>3, <1>4, <1>5 DEF ThreadFits, StackOK, LocalsOK
<1>7. CtrlOf(th'[t]) = NULL /\ GroupOf(th'[t]) = NULL
  BY <1>1, <1>3, <1>4, <1>6, NextFrames DEF Frames1
<1>8. CtrlOf(th[t]) = NULL /\ GroupOf(th[t]) = NULL
  <2>1. th[t].pc \notin CtrlPc \cup GroupPc \cup RelPc
    BY DEF At, CtrlPc, ProbePc, RelPc, GroupPc, CreatePc, RelgPc
  <2> QED BY <1>1, <2>1, ThreadFrames DEF Frames1, Here
<1> QED BY <1>1, <1>6, <1>7, <1>8, UserStep

(* Steps of a thread that has a reference or is about to get one *)
LEMMA UseFits ==
  ASSUME NEW t, Here(t), th[t].pc \in UserPc, NEW pc \in UserPc, th[t].pc # "put",
         \/ Return(t)
         \/ /\ Goto(t, pc)
            /\ pc = "open_ctx" => th[t].pc = "open_get"
            /\ pc \in {"ioctl_do", "ioctl_map"} => th[t].pc = "ioctl_get"
            /\ pc = "mmap_do" => th[t].pc = "mmap_get"
            /\ pc \notin {"create_copy", "open_get", "ioctl_get", "mmap_get", "ret"},
         dev' \in [Dev -> DevRec],
         \A o \in Dev : dev'[o] = dev[o] \/ Counted(o)
  PROVE  Fits(t)
<1>1. t \in Thread /\ th[t] \in ThreadRec /\ LocalsOK(th[t]) /\ StackOK(th[t])
  BY HereFacts
<1>2. UserPc \subseteq Pc /\ UserPc \cap (CtrlPc \cup GroupPc \cup RelPc \cup RelgPc) = {}
      /\ UserPc \cap (CreatePc \cup ProbePc \cup {"idle"}) = {}
  BY DEF UserPc, Pc, CtrlPc, GroupPc, RelPc, RelgPc, CreatePc, ProbePc
<1>3. CtrlOf(th[t]) = NULL /\ GroupOf(th[t]) = NULL
  BY <1>1, <1>2, ThreadFrames DEF Frames1, Here
<1>4. CASE Return(t)
  <2>1. ThreadFits(t) /\ CtrlOf(th'[t]) = NULL /\ GroupOf(th'[t]) = NULL
    BY <1>4, ReturnFits
  <2> QED BY <1>3, <2>1, UserStep
<1>5. CASE ~Return(t)
  <2>1. Goto(t, pc) /\ pc \in Pc
    BY <1>2, <1>5
  <2>2. /\ th' \in [Thread -> ThreadRec]
        /\ \A u \in Thread : u # t => th'[u] = th[u]
        /\ th'[t].pc = pc /\ th'[t].o = th[t].o /\ th'[t].op = th[t].op
        /\ th'[t].p = th[t].p /\ th'[t].f = th[t].f
        /\ th'[t].left = th[t].left /\ th'[t].stack = th[t].stack
    BY <2>1, GotoFacts
  <2>3. StackOK(th'[t])
    BY <1>1, <1>2, <2>2 DEF StackOK
  <2>4. LocalsOK(th'[t])
    BY <1>1, <1>2, <1>5, <2>2 DEF LocalsOK, UserPc
  <2>5. ThreadFits(t)
    BY <2>2, <2>3, <2>4 DEF ThreadFits
  <2>6. CtrlOf(th'[t]) = NULL /\ GroupOf(th'[t]) = NULL
    BY <1>1, <1>2, <2>2, <2>5, NextFrames DEF Frames1
  <2> QED BY <1>3, <2>5, <2>6, UserStep
<1> QED BY <1>4, <1>5

----------------------------------------------------------------------------
(* Counting. *)

(* Two finite sets that differ in one element at most. *)
LEMMA SetChange ==
  ASSUME NEW S, NEW T, IsFiniteSet(S), IsFiniteSet(T), NEW x,
         \A y : y # x => (y \in S <=> y \in T)
  PROVE  /\ Cardinality(S) \in Nat /\ Cardinality(T) \in Nat
         /\ Cardinality(T) + One(x \in S) = Cardinality(S) + One(x \in T)
<1>1. Cardinality(S) \in Nat /\ Cardinality(T) \in Nat
  BY FS_CardinalityType
<1>2. CASE x \in S /\ x \in T
  <2>1. S = T
    BY <1>2
  <2> QED BY <1>1, <1>2, <2>1 DEF One
<1>3. CASE x \in S /\ x \notin T
  <2>1. T = S \ {x}
    BY <1>3
  <2>2. Cardinality(T) = Cardinality(S) - 1
    BY <1>3, <2>1, FS_RemoveElement
  <2> QED BY <1>1, <1>3, <2>2 DEF One
<1>4. CASE x \notin S /\ x \in T
  <2>1. T = S \cup {x}
    BY <1>4
  <2>2. Cardinality(T) = Cardinality(S) + 1
    BY <1>4, <2>1, FS_AddElement
  <2> QED BY <1>1, <1>4, <2>2 DEF One
<1>5. CASE x \notin S /\ x \notin T
  <2>1. S = T
    BY <1>5
  <2> QED BY <1>1, <1>5, <2>1 DEF One
<1> QED BY <1>2, <1>3, <1>4, <1>5

(* The places of c in one list. *)
LEMMA PlacesCount ==
  ASSUME NEW x, NEW A, NEW s \in Seq(A), NEW c
  PROVE  /\ IsFiniteSet(Places(x, s, c)) /\ Count(s, c) \in Nat
         /\ Cardinality(Places(x, s, c)) = Count(s, c)
<1> DEFINE I == {j \in DOMAIN s : s[j] = c}
           f == [i \in I |-> <<x, i>>]
<1>1. IsFiniteSet(I)
  <2>1. IsFiniteSet(1 .. Len(s)) /\ I \subseteq 1 .. Len(s)
    BY FS_Interval
  <2> QED BY <2>1, FS_Subset
<1>2. f \in Bijection(I, Places(x, s, c))
  BY DEF Bijection, Injection, Surjection, IsInjective, Places
<1>3. ExistsBijection(I, Places(x, s, c))
  BY <1>2 DEF ExistsBijection
<1> QED BY <1>1, <1>3, FS_Bijection, FS_CardinalityType DEF Count

(* The places of c in the lists of a finite set of keys. *)
AllPlaces(X, L, c) == UNION {Places(x, L[x], c) : x \in X}

(* There are finitely many places in finitely many lists. *)
LEMMA PlacesFinite ==
  ASSUME NEW X, IsFiniteSet(X), NEW A, NEW L, \A x \in X : L[x] \in Seq(A), NEW c
  PROVE  IsFiniteSet(AllPlaces(X, L, c))
<1> DEFINE P == {Places(x, L[x], c) : x \in X}
           f == [x \in X |-> Places(x, L[x], c)]
<1>1. f \in Surjection(X, P)
  BY DEF Surjection
<1>2. IsFiniteSet(P)
  BY <1>1, FS_Surjection
<1>3. \A T \in P : IsFiniteSet(T)
  BY PlacesCount
<1> QED BY <1>2, <1>3, FS_UNION DEF AllPlaces

(* One list takes the place of another. *)
OneList(X, x, L, M) ==
  /\ IsFiniteSet(X) /\ x \in X
  /\ L \in [X -> Seq(Ctrl)] /\ M \in [X -> Seq(Ctrl)]
  /\ \A y \in X : y # x => M[y] = L[y]

(* When one list changes, the total changes as the count in that list. *)
LEMMA TotalChange ==
  ASSUME NEW X, NEW x, NEW L, NEW M, OneList(X, x, L, M), NEW c
  PROVE  /\ Total(L, c) \in Nat /\ Total(M, c) \in Nat
         /\ Count(L[x], c) \in Nat /\ Count(M[x], c) \in Nat
         /\ Count(L[x], c) <= Total(L, c)
         /\ Total(M, c) + Count(L[x], c) = Total(L, c) + Count(M[x], c)
<1>1. /\ IsFiniteSet(X) /\ x \in X /\ L \in [X -> Seq(Ctrl)] /\ M \in [X -> Seq(Ctrl)]
      /\ \A y \in X : y # x => M[y] = L[y]
  BY DEF OneList
<1> DEFINE Y == X \ {x}
           R == AllPlaces(Y, L, c)
           PL == Places(x, L[x], c)
           PM == Places(x, M[x], c)
<1>2. IsFiniteSet(Y) /\ \A y \in Y : L[y] \in Seq(Ctrl)
  BY <1>1, FS_Difference
<1>3. IsFiniteSet(R) /\ Cardinality(R) \in Nat
  BY <1>2, PlacesFinite, FS_CardinalityType
<1>4. /\ IsFiniteSet(PL) /\ Cardinality(PL) = Count(L[x], c) /\ Count(L[x], c) \in Nat
      /\ IsFiniteSet(PM) /\ Cardinality(PM) = Count(M[x], c) /\ Count(M[x], c) \in Nat
  <2>1. L[x] \in Seq(Ctrl) /\ M[x] \in Seq(Ctrl)
    BY <1>1
  <2> QED BY <2>1, PlacesCount
<1>5. R \cap PL = {} /\ R \cap PM = {}
  BY DEF AllPlaces, Places
<1>6. Total(L, c) = Cardinality(R \cup PL)
  <2>1. UNION {Places(y, L[y], c) : y \in DOMAIN L} = R \cup PL
    BY <1>1 DEF AllPlaces
  <2> QED BY <2>1 DEF Total
<1>7. Total(M, c) = Cardinality(R \cup PM)
  <2>1. UNION {Places(y, M[y], c) : y \in DOMAIN M} = R \cup PM
    BY <1>1 DEF AllPlaces
  <2> QED BY <2>1 DEF Total
<1> HIDE DEF R, PL, PM
<1>8. Cardinality(R \cup PL) = Cardinality(R) + Cardinality(PL)
  <2>1. Cardinality(R \cap PL) = 0
    BY <1>5, FS_EmptySet
  <2>2. Cardinality(R \cup PL) = Cardinality(R) + Cardinality(PL) - Cardinality(R \cap PL)
    BY <1>3, <1>4, FS_Union
  <2> QED BY <1>3, <1>4, <2>1, <2>2
<1>9. Cardinality(R \cup PM) = Cardinality(R) + Cardinality(PM)
  <2>1. Cardinality(R \cap PM) = 0
    BY <1>5, FS_EmptySet
  <2>2. Cardinality(R \cup PM) = Cardinality(R) + Cardinality(PM) - Cardinality(R \cap PM)
    BY <1>3, <1>4, FS_Union
  <2> QED BY <1>3, <1>4, <2>1, <2>2
<1> QED BY <1>3, <1>4, <1>6, <1>7, <1>8, <1>9

(* No places in empty lists, and none of what is not in the lists. *)
LEMMA TotalZero ==
  ASSUME NEW L, NEW c, \A x \in DOMAIN L : \A i \in DOMAIN L[x] : L[x][i] # c
  PROVE  Total(L, c) = 0
<1>1. UNION {Places(x, L[x], c) : x \in DOMAIN L} = {}
  BY DEF Places
<1> QED BY <1>1, FS_EmptySet DEF Total

(* The number of places in a list that grows or shrinks. *)
LEMMA CountAppend ==
  ASSUME NEW A, NEW s \in Seq(A), NEW a \in A, NEW c
  PROVE  Count(Append(s, a), c) = Count(s, c) + One(a = c)
<1> DEFINE I == {j \in DOMAIN s : s[j] = c}
           J == {j \in DOMAIN Append(s, a) : Append(s, a)[j] = c}
           n == Len(s) + 1
<1>1. Append(s, a) \in Seq(A) /\ n \in Nat
  OBVIOUS
<1>2. IsFiniteSet(I) /\ IsFiniteSet(J)
  <2>1. IsFiniteSet(1 .. Len(s)) /\ I \subseteq 1 .. Len(s)
    BY FS_Interval
  <2>2. IsFiniteSet(1 .. n) /\ J \subseteq 1 .. n
    BY <1>1, FS_Interval
  <2> QED BY <2>1, <2>2, FS_Subset
<1>3. n \notin I /\ (n \in J <=> a = c)
  OBVIOUS
<1>4. \A y : y # n => (y \in I <=> y \in J)
  OBVIOUS
<1> HIDE DEF I, J, n
<1>5. /\ Cardinality(I) \in Nat /\ Cardinality(J) \in Nat
      /\ Cardinality(J) + One(n \in I) = Cardinality(I) + One(n \in J)
  BY <1>2, <1>4, SetChange
<1>6. Cardinality(J) = Cardinality(I) + One(a = c)
  BY <1>3, <1>5 DEF One
<1> QED BY <1>6 DEF Count, I, J

(* The count in a list without its head *)
LEMMA CountTail ==
  ASSUME NEW A, NEW s \in Seq(A), s # <<>>, NEW c
  PROVE  Count(Tail(s), c) + One(Head(s) = c) = Count(s, c)
<1> DEFINE I == {j \in DOMAIN s : s[j] = c}
           J == {j \in DOMAIN Tail(s) : Tail(s)[j] = c}
           f == [j \in J |-> j + 1]
<1>1. IsFiniteSet(I) /\ IsFiniteSet(J)
  <2>1. IsFiniteSet(1 .. Len(s)) /\ I \subseteq 1 .. Len(s)
    BY FS_Interval
  <2>2. IsFiniteSet(1 .. Len(Tail(s))) /\ J \subseteq 1 .. Len(Tail(s))
    BY FS_Interval
  <2> QED BY <2>1, <2>2, FS_Subset
<1>2. f \in Bijection(J, I \ {1})
  <2>1. \A j \in J : j \in Nat /\ j + 1 \in I \ {1}
    OBVIOUS
  <2>2. \A i \in I \ {1} : i - 1 \in J /\ i = (i - 1) + 1
    OBVIOUS
  <2>3. \A j, k \in J : j + 1 = k + 1 => j = k
    BY <2>1
  <2> HIDE DEF I, J
  <2> QED BY <2>1, <2>2, <2>3 DEF Bijection, Injection, Surjection, IsInjective
<1>3. 1 \in I <=> Head(s) = c
  OBVIOUS
<1> HIDE DEF I, J, f
<1>4. Cardinality(I \ {1}) = Cardinality(J)
  BY <1>1, <1>2, FS_Bijection DEF ExistsBijection
<1>5. Cardinality(I \ {1}) = Cardinality(I) - One(1 \in I) /\ Cardinality(I) \in Nat
  BY <1>1, FS_RemoveElement, FS_CardinalityType DEF One
<1>6. Cardinality(J) + One(Head(s) = c) = Cardinality(I)
  BY <1>3, <1>4, <1>5 DEF One
<1> QED BY <1>6 DEF Count, I, J

(* Turning a list round keeps the count. *)
LEMMA CountReverse ==
  ASSUME NEW A, NEW s \in Seq(A), NEW c
  PROVE  Count(Reverse(s), c) = Count(s, c)
<1> DEFINE I == {j \in DOMAIN s : s[j] = c}
           J == {j \in DOMAIN Reverse(s) : Reverse(s)[j] = c}
           f == [j \in I |-> Len(s) + 1 - j]
<1>1. IsFiniteSet(I)
  <2>1. IsFiniteSet(1 .. Len(s)) /\ I \subseteq 1 .. Len(s)
    BY FS_Interval
  <2> QED BY <2>1, FS_Subset
<1>2. DOMAIN Reverse(s) = 1 .. Len(s) /\ \A j \in 1 .. Len(s) : Reverse(s)[j] = s[Len(s) + 1 - j]
  BY DEF Reverse
<1>3. \A i \in I : i \in Nat /\ Len(s) + 1 - i \in J
  BY <1>2
<1>4. \A j \in J : Len(s) + 1 - j \in I /\ j = Len(s) + 1 - (Len(s) + 1 - j)
  BY <1>2
<1>5. \A j, k \in I : Len(s) + 1 - j = Len(s) + 1 - k => j = k
  BY <1>3
<1> HIDE DEF I, J
<1>6. f \in Bijection(I, J)
  BY <1>3, <1>4, <1>5 DEF Bijection, Injection, Surjection, IsInjective
<1>7. Cardinality(J) = Cardinality(I)
  BY <1>1, <1>6, FS_Bijection DEF ExistsBijection
<1> QED BY <1>7 DEF Count, I, J

(* What is in no list is counted nowhere. *)
LEMMA CountZero ==
  ASSUME NEW A, NEW s \in Seq(A), NEW c, c \notin A
  PROVE  Count(s, c) = 0
<1>1. {i \in DOMAIN s : s[i] = c} = {}
  OBVIOUS
<1> QED BY <1>1, FS_EmptySet DEF Count

----------------------------------------------------------------------------
(* Which group a thread is taking down, and the controllers it still has   *)
(* to put.                                                                 *)

UndoPc == {"relg_dev", "rel_ctrls", "create_undo"}

FramesOf(r) == {[pc |-> r.pc, o |-> r.o, left |-> r.left]}
               \cup {r.stack[i] : i \in DOMAIN r.stack}

Undoes(r, g) == GroupOf(r) = g /\ GroupFrame(r).pc \in UndoPc

(* An element of a sequence is the first or one of the rest. *)
LEMMA ElementOf ==
  ASSUME NEW F, NEW s \in Seq(F), NEW i \in DOMAIN s
  PROVE  /\ s # <<>>
         /\ s[i] = Head(s) \/ (i - 1 \in DOMAIN Tail(s) /\ s[i] = Tail(s)[i - 1])
OBVIOUS

(* A thread has one frame at most in which it takes down a group. *)
LEMMA UndoFrames ==
  ASSUME NEW r \in ThreadRec, StackOK(r), LocalsOK(r)
  PROVE  /\ \A fr \in FramesOf(r) : fr.pc \in UndoPc => fr = GroupFrame(r) /\ fr.o \in Group
         /\ GroupFrame(r).pc \in UndoPc => GroupFrame(r) \in FramesOf(r)
<1>1. Frames1(r)
  BY RecordFrames
<1>2. r.stack \in Seq(Frame)
  BY DEF ThreadRec
<1>3. UndoPc \subseteq GroupPc /\ "ret" \notin UndoPc /\ UndoPc \cap RelPc = {}
  BY DEF UndoPc, GroupPc, CreatePc, RelgPc, RelPc
<1> DEFINE top == [pc |-> r.pc, o |-> r.o, left |-> r.left]
<1>4. top.pc = r.pc
  OBVIOUS
<1>5. ASSUME top.pc \in UndoPc PROVE top = GroupFrame(r) /\ top.o \in Group
  <2>1. top = GroupFrame(r)
    BY <1>1, <1>3, <1>5 DEF Frames1
  <2>2. GroupFrame(r).pc \in GroupPc
    BY <1>3, <1>5, <2>1
  <2> QED BY <1>1, <2>1, <2>2 DEF Frames1, GroupOf
<1>6. ASSUME NEW i \in DOMAIN r.stack, r.stack[i].pc \in UndoPc
      PROVE  r.stack[i] = GroupFrame(r) /\ r.stack[i].o \in Group
  <2>1. r.stack # <<>>
    BY <1>2, <1>6, ElementOf
  <2>2. r.pc \in RelPc \cup RelgPc
    BY <2>1 DEF StackOK
  <2>3. r.stack[i] = Head(r.stack)
    <3>1. SUFFICES ASSUME i - 1 \in DOMAIN Tail(r.stack), r.stack[i] = Tail(r.stack)[i - 1]
                   PROVE  FALSE
      BY <1>2, <1>6, ElementOf
    <3>2. Tail(r.stack) \in Seq(Frame) /\ Tail(r.stack) # <<>>
      BY <1>2, <2>1, <3>1, Pop, ElementOf
    <3>3. Tail(Tail(r.stack)) = <<>> /\ Head(Tail(r.stack)).pc = "ret"
      BY <2>2, <3>2 DEF StackOK, Above
    <3>4. Tail(r.stack)[i - 1] = Head(Tail(r.stack))
      <4> DEFINE s == Tail(r.stack)
                 j == i - 1
      <4>1. s \in Seq(Frame) /\ s # <<>> /\ j \in DOMAIN s /\ Tail(s) = <<>>
        BY <3>1, <3>2, <3>3
      <4> HIDE DEF s, j
      <4>2. Len(<<>>) = 0
        OBVIOUS
      <4>3. Len(Tail(s)) = 0
        BY <4>1, <4>2, Zenon
      <4>4. Len(Tail(s)) = Len(s) - 1 /\ DOMAIN s = 1 .. Len(s) /\ Len(s) \in Nat
        BY <4>1
      <4>5. s[j] = Head(s)
        BY <4>1, <4>3, <4>4
      <4> QED BY <4>5 DEF s, j
    <3> QED BY <1>3, <1>6, <3>1, <3>3, <3>4
  <2>4. Head(r.stack).pc \in UndoPc
    BY <1>6, <2>3
  <2>5. /\ Head(r.stack).pc \in {"rel_ctrls", "create_undo"} /\ Head(r.stack).o \in Group
        /\ r.pc \in RelPc
    BY <1>3, <2>2, <2>4 DEF StackOK, Above
  <2>6. r.pc \notin GroupPc
    BY <2>5 DEF RelPc, GroupPc, CreatePc, RelgPc
  <2>7. GroupFrame(r) = Head(r.stack)
    BY <2>1, <2>5, <2>6 DEF GroupFrame
  <2> QED BY <2>3, <2>5, <2>7
<1>7. ASSUME GroupFrame(r).pc \in UndoPc PROVE GroupFrame(r) \in FramesOf(r)
  <2>1. CASE r.pc \in GroupPc
    BY <1>1, <2>1 DEF Frames1, FramesOf
  <2>2. CASE r.pc \notin GroupPc
    <3>1. GroupFrame(r) # NoFrame
      BY <1>7 DEF NoFrame, UndoPc
    <3>2. r.stack # <<>> /\ GroupFrame(r) = Head(r.stack)
      BY <2>2, <3>1 DEF GroupFrame
    <3>3. 1 \in DOMAIN r.stack /\ Head(r.stack) = r.stack[1]
      BY <1>2, <3>2
    <3> QED BY <3>2, <3>3 DEF FramesOf
  <2> QED BY <2>1, <2>2
<1> QED BY <1>5, <1>6, <1>7 DEF FramesOf

Shape ==
  /\ th \in [Thread -> ThreadRec] /\ dev \in [Dev -> DevRec]
  /\ Threads /\ Owners

UndoingAre ==
  \A o \in Dev : Undoing(o) = {GroupFrame(th[u]) : u \in {v \in Thread : Undoes(th[v], o)}}

(* The frames that undo a group are those of the threads at it. *)
LEMMA UndoingFacts == Shape => UndoingAre
<1> SUFFICES ASSUME Shape, NEW o \in Dev
             PROVE  Undoing(o) = {GroupFrame(th[u]) : u \in {v \in Thread : Undoes(th[v], o)}}
  BY DEF UndoingAre
<1>1. \A u \in Thread : Frames(u) = FramesOf(th[u])
  BY DEF Frames, FramesOf
<1>2. \A u \in Thread :
        /\ \A fr \in FramesOf(th[u]) : fr.pc \in UndoPc => fr = GroupFrame(th[u]) /\ fr.o \in Group
        /\ GroupFrame(th[u]).pc \in UndoPc => GroupFrame(th[u]) \in FramesOf(th[u])
  BY UndoFrames DEF Shape, Threads
<1>3. Undoing(o) = {fr \in UNION {Frames(u) : u \in Thread} : fr.o = o /\ fr.pc \in UndoPc}
  BY DEF Undoing, UndoPc
<1>4. ASSUME NEW fr \in Undoing(o) PROVE \E u \in Thread : Undoes(th[u], o) /\ fr = GroupFrame(th[u])
  <2>1. PICK u \in Thread : fr \in FramesOf(th[u]) /\ fr.o = o /\ fr.pc \in UndoPc
    BY <1>1, <1>3, <1>4
  <2>2. fr = GroupFrame(th[u])
    BY <1>2, <2>1
  <2> QED BY <2>1, <2>2 DEF Undoes, GroupOf
<1>5. ASSUME NEW u \in Thread, Undoes(th[u], o) PROVE GroupFrame(th[u]) \in Undoing(o)
  <2>1. GroupFrame(th[u]) \in FramesOf(th[u]) /\ GroupFrame(th[u]).o = o
        /\ GroupFrame(th[u]).pc \in UndoPc
    BY <1>2, <1>5 DEF Undoes, GroupOf
  <2> QED BY <1>1, <1>3, <2>1
<1> QED BY <1>4, <1>5

MembersAre ==
  \A g \in Group :
    /\ Members[g] \in Seq(Ctrl)
    /\ dev[g].heap # "live" => Members[g] = <<>>
    /\ dev[g].heap = "live" /\ (\A u \in Thread : ~Undoes(th[u], g)) => Members[g] = dev[g].ctrls
    /\ \A u \in Thread : dev[g].heap = "live" /\ Undoes(th[u], g) =>
         Members[g] = GroupFrame(th[u]).left

(* The controllers a group holds: those still to be put when it is taken   *)
(* down, otherwise those it was made of.                                   *)
LEMMA MembersFacts == Shape => MembersAre
<1> SUFFICES ASSUME Shape, NEW g \in Group
             PROVE  /\ Members[g] \in Seq(Ctrl)
                    /\ dev[g].heap # "live" => Members[g] = <<>>
                    /\ dev[g].heap = "live" /\ (\A u \in Thread : ~Undoes(th[u], g)) =>
                         Members[g] = dev[g].ctrls
                    /\ \A u \in Thread : dev[g].heap = "live" /\ Undoes(th[u], g) =>
                         Members[g] = GroupFrame(th[u]).left
  BY DEF MembersAre
<1>1. /\ g \in Dev /\ g # NULL /\ dev[g] \in DevRec
      /\ Undoing(g) = {GroupFrame(th[u]) : u \in {v \in Thread : Undoes(th[v], g)}}
  BY UndoingFacts, Consts DEF UndoingAre, Shape
<1>2. Members[g] = IF dev[g].heap # "live" THEN <<>>
                   ELSE IF Undoing(g) = {} THEN dev[g].ctrls
                   ELSE (CHOOSE fr \in Undoing(g) : TRUE).left
  BY DEF Members
<1>3. CASE dev[g].heap # "live"
  BY <1>2, <1>3
<1>4. CASE dev[g].heap = "live" /\ \A u \in Thread : ~Undoes(th[u], g)
  <2>1. Undoing(g) = {}
    BY <1>1, <1>4
  <2> QED BY <1>1, <1>2, <1>4, <2>1 DEF DevRec
<1>5. ASSUME dev[g].heap = "live", NEW u \in Thread, Undoes(th[u], g)
      PROVE  /\ Members[g] \in Seq(Ctrl)
             /\ \A v \in Thread : Undoes(th[v], g) => Members[g] = GroupFrame(th[v]).left
  <2>1. \A v \in Thread : Undoes(th[v], g) => v = u
    BY <1>1, <1>5 DEF Undoes, Shape, Owners
  <2>2. Undoing(g) = {GroupFrame(th[u])}
    BY <1>1, <1>5, <2>1
  <2>3. (CHOOSE fr \in Undoing(g) : TRUE) = GroupFrame(th[u])
    BY <2>2
  <2>4. GroupFrame(th[u]) \in Frame
    BY RecordFrames DEF Shape, Threads, Frames1
  <2> QED BY <1>2, <1>5, <2>1, <2>2, <2>3, <2>4 DEF Frame
<1> QED BY <1>3, <1>4, <1>5

(* A group that is being made again has no minor number. *)
Unnumbers(r, o) == GroupOf(r) = o /\ GroupFrame(r).pc = "create_undo"

HasNumber(o) ==
  dev[o].heap = "live" /\ dev[o].minor # NULL /\ \A u \in Thread : ~Unnumbers(th[u], o)

NumberedAre == Numbered = {o \in Dev : HasNumber(o)}

(* Devices with a minor number, from the locals of the threads *)
LEMMA NumberedFacts == Shape => NumberedAre
<1> SUFFICES ASSUME Shape, NEW o \in Dev
             PROVE  (\A fr \in Undoing(o) : fr.pc # "create_undo")
                      <=> \A u \in Thread : ~Unnumbers(th[u], o)
  BY DEF NumberedAre, Numbered, HasNumber
<1>1. Undoing(o) = {GroupFrame(th[u]) : u \in {v \in Thread : Undoes(th[v], o)}}
  BY UndoingFacts DEF UndoingAre
<1> QED BY <1>1 DEF Undoes, Unnumbers, UndoPc

----------------------------------------------------------------------------
(* What a step of thread t leaves alone. *)

Facts == MembersAre /\ NumberedAre

(* Members and numbers are as the locals of the threads say. *)
LEMMA ShapeFacts == Shape => Facts
BY MembersFacts, NumberedFacts DEF Facts

(* A step that fits keeps the shape of the state. *)
LEMMA FitsShape ==
  ASSUME NEW t, Here(t), Fits(t)
  PROVE  Shape /\ Shape' /\ Facts /\ Facts'
<1>1. Shape
  BY HereFacts DEF Here, Shape
<1>2. Threads' /\ Owners'
  BY FitsInv DEF Here
<1>3. Shape'
  BY <1>2 DEF Shape, Fits, ThreadFits, ObjectsFit
<1>4. Shape => Facts
  BY ShapeFacts
<1>5. Shape' => Facts'
  BY ShapeFacts, PTL
<1> QED BY <1>1, <1>3, <1>4, <1>5

(* The other threads, and the groups they make or take down. *)
LEMMA FitsOthers ==
  ASSUME NEW t, Here(t), Fits(t), NEW u \in Thread, u # t
  PROVE  /\ th'[u] = th[u]
         /\ GroupOf(th[u]) \in Group \cup {NULL} /\ CtrlOf(th[u]) \in Ctrl \cup {NULL}
         /\ GroupOf(th[u]) # NULL =>
              /\ dev'[GroupOf(th[u])] = dev[GroupOf(th[u])]
              /\ GroupOf(th[u]) # GroupOf(th[t]) /\ GroupOf(th[u]) # GroupOf(th'[t])
         /\ CtrlOf(th[u]) # NULL =>
              /\ dev'[CtrlOf(th[u])] = dev[CtrlOf(th[u])]
              /\ CtrlOf(th[u]) # CtrlOf(th[t]) /\ CtrlOf(th[u]) # CtrlOf(th'[t])
<1>1. t \in Thread /\ th'[u] = th[u] /\ Owners /\ Owners'
  BY FitsInv DEF Here, Fits, ThreadFits
<1>2. GroupOf(th[u]) \in Group \cup {NULL} /\ CtrlOf(th[u]) \in Ctrl \cup {NULL}
  BY ThreadFrames DEF Here, Frames1
<1>3. ASSUME NEW o \in Dev, Mine(u, o) PROVE dev'[o] = dev[o]
  <2>1. dev[o].heap = "live" /\ dev[o].ref = 0
    BY <1>3, ThreadFrames, Consts DEF Frames1, Mine, Stages, CtrlStage, GroupStage, CtrlOf, Here
  <2>2. ~Mine(t, o)
    BY <1>1, <1>3, ThreadFrames, Consts DEF Frames1, Mine, Owners, Here
  <2> QED BY <2>1, <2>2 DEF Fits, ObjectsFit, ObjectFits, Takeable
<1>4. /\ GroupOf(th[u]) # NULL => Mine(u, GroupOf(th[u])) /\ GroupOf(th[u]) \in Dev
      /\ CtrlOf(th[u]) # NULL => Mine(u, CtrlOf(th[u])) /\ CtrlOf(th[u]) \in Dev
  BY <1>2, Consts DEF Mine
<1>5. /\ CtrlOf(th[u]) # NULL => CtrlOf(th[u]) # CtrlOf(th[t])
      /\ GroupOf(th[u]) # NULL => GroupOf(th[u]) # GroupOf(th[t])
  BY <1>1 DEF Owners
<1>6. /\ CtrlOf(th'[u]) # NULL => CtrlOf(th'[u]) # CtrlOf(th'[t])
      /\ GroupOf(th'[u]) # NULL => GroupOf(th'[u]) # GroupOf(th'[t])
  BY <1>1 DEF Owners
<1> QED BY <1>1, <1>2, <1>3, <1>4, <1>5, <1>6

(* A group that t does not work on keeps its members. *)
LEMMA MembersFrame ==
  ASSUME NEW t, Here(t), Fits(t), NEW h \in Group,
         dev'[h].heap = dev[h].heap, dev'[h].ctrls = dev[h].ctrls,
         ~Undoes(th[t], h), ~Undoes(th'[t], h)
  PROVE  Members'[h] = Members[h]
<1>1. MembersAre /\ MembersAre'
  BY FitsShape DEF Facts
<1>2. \A u \in Thread : u # t => th'[u] = th[u]
  BY FitsOthers
<1>3. \A u \in Thread : Undoes(th'[u], h) <=> Undoes(th[u], h)
  BY <1>2
<1>4. CASE dev[h].heap # "live"
  BY <1>1, <1>4 DEF MembersAre
<1>5. CASE dev[h].heap = "live" /\ \A u \in Thread : ~Undoes(th[u], h)
  BY <1>1, <1>3, <1>5 DEF MembersAre
<1>6. ASSUME dev[h].heap = "live", NEW u \in Thread, Undoes(th[u], h)
      PROVE  Members'[h] = Members[h]
  <2>1. u # t /\ th'[u] = th[u]
    BY <1>2, <1>6
  <2>2. Members[h] = GroupFrame(th[u]).left
    BY <1>1, <1>6 DEF MembersAre
  <2>3. Members'[h] = GroupFrame(th'[u]).left
    BY <1>1, <1>6, <2>1 DEF MembersAre
  <2> QED BY <2>1, <2>2, <2>3
<1> QED BY <1>4, <1>5, <1>6

(* The lists of controllers that the groups hold. *)
LEMMA MembersType ==
  ASSUME NEW t, Here(t), Fits(t)
  PROVE  Members \in [Group -> Seq(Ctrl)] /\ Members' \in [Group -> Seq(Ctrl)]
<1>1. MembersAre /\ MembersAre'
  BY FitsShape DEF Facts
<1>2. \A g \in Group : Members[g] \in Seq(Ctrl) /\ Members'[g] \in Seq(Ctrl)
  BY <1>1 DEF MembersAre
<1>3. Members = [g \in Group |-> Members[g]] /\ Members' = [g \in Group |-> Members'[g]]
  BY DEF Members
<1> QED BY <1>2, <1>3

(* The references that memberships hold, when the members of g change. *)
LEMMA MembersChange ==
  ASSUME NEW t, Here(t), Fits(t), NEW g \in Group,
         \A h \in Group : h # g => Members'[h] = Members[h], NEW o
  PROVE  /\ Total(Members, o) \in Nat /\ Total(Members', o) \in Nat
         /\ Count(Members[g], o) \in Nat /\ Count(Members'[g], o) \in Nat
         /\ Count(Members[g], o) <= Total(Members, o)
         /\ Total(Members', o) + Count(Members[g], o) = Total(Members, o) + Count(Members'[g], o)
<1>1. Members \in [Group -> Seq(Ctrl)] /\ Members' \in [Group -> Seq(Ctrl)] /\ IsFiniteSet(Group)
  BY MembersType, ConstantsAssumption
<1> DEFINE L == Members
           M == Members'
<1>2. OneList(Group, g, L, M)
  BY <1>1 DEF OneList
<1> HIDE DEF L, M
<1>3. /\ Total(L, o) \in Nat /\ Total(M, o) \in Nat
      /\ Count(L[g], o) \in Nat /\ Count(M[g], o) \in Nat
      /\ Count(L[g], o) <= Total(L, o)
      /\ Total(M, o) + Count(L[g], o) = Total(L, o) + Count(M[g], o)
  BY <1>2, TotalChange
<1> QED BY <1>3 DEF L, M

(* Calls that hold a reference. *)
LEMMA PutsChange ==
  ASSUME NEW t \in Thread, \A u \in Thread : u # t => th'[u] = th[u], NEW o
  PROVE  /\ Cardinality(Puts(o)) \in Nat /\ Cardinality(Puts(o)') \in Nat
         /\ Cardinality(Puts(o)') + One(IsPut(th[t], o)) = Cardinality(Puts(o)) + One(IsPut(th'[t], o))
<1> DEFINE S == {u \in Thread : IsPut(th[u], o)}
           T == {u \in Thread : IsPut(th'[u], o)}
<1>1. IsFiniteSet(S) /\ IsFiniteSet(T)
  BY ConstantsAssumption, FS_Subset
<1>2. \A y : y # t => (y \in S <=> y \in T)
  OBVIOUS
<1>3. (t \in S <=> IsPut(th[t], o)) /\ (t \in T <=> IsPut(th'[t], o))
  OBVIOUS
<1>4. Puts(o) = S /\ Puts(o)' = T
  BY DEF Puts
<1> HIDE DEF S, T
<1>5. /\ Cardinality(S) \in Nat /\ Cardinality(T) \in Nat
      /\ Cardinality(T) + One(t \in S) = Cardinality(S) + One(t \in T)
  BY <1>1, <1>2, SetChange
<1> QED BY <1>3, <1>4, <1>5 DEF One

(* Open files. *)
LEMMA FilesChange ==
  ASSUME NEW f \in File, \A h \in File : h # f => file'[h] = file[h], NEW o
  PROVE  /\ Cardinality(FilesOf(o)) \in Nat /\ Cardinality(FilesOf(o)') \in Nat
         /\ Cardinality(FilesOf(o)') + One(file[f] = o) = Cardinality(FilesOf(o)) + One(file'[f] = o)
<1> DEFINE S == {h \in File : file[h] = o}
           T == {h \in File : file'[h] = o}
<1>1. IsFiniteSet(S) /\ IsFiniteSet(T)
  BY ConstantsAssumption, FS_Subset
<1>2. \A y : y # f => (y \in S <=> y \in T)
  OBVIOUS
<1>3. (f \in S <=> file[f] = o) /\ (f \in T <=> file'[f] = o)
  OBVIOUS
<1>4. FilesOf(o) = S /\ FilesOf(o)' = T
  BY DEF FilesOf
<1> HIDE DEF S, T
<1>5. /\ Cardinality(S) \in Nat /\ Cardinality(T) \in Nat
      /\ Cardinality(T) + One(f \in S) = Cardinality(S) + One(f \in T)
  BY <1>1, <1>2, SetChange
<1> QED BY <1>3, <1>4, <1>5 DEF One

(* Uses of an object, term by term. *)
LEMMA TotalNat ==
  ASSUME NEW L \in [Group -> Seq(Ctrl)], NEW o
  PROVE  Total(L, o) \in Nat
<1>1. IsFiniteSet(Group) /\ \A g \in Group : L[g] \in Seq(Ctrl)
  BY ConstantsAssumption
<1>2. IsFiniteSet(AllPlaces(Group, L, o))
  BY <1>1, PlacesFinite
<1>3. Total(L, o) = Cardinality(AllPlaces(Group, L, o))
  BY DEF Total, AllPlaces
<1> QED BY <1>2, <1>3, FS_CardinalityType

(* The terms of the uses of an object, before and after a step of t *)
LEMMA UsesTerms ==
  ASSUME NEW t, Here(t), Fits(t), NEW o \in Dev, kept' \in [Dev -> Nat]
  PROVE  /\ Uses(o) = Base(o) + Cardinality(FilesOf(o)) + Total(Members, o)
                      + Cardinality(Puts(o)) + kept[o]
         /\ Uses(o)' = Base(o)' + Cardinality(FilesOf(o)') + Total(Members', o)
                       + Cardinality(Puts(o)') + kept'[o]
         /\ Base(o) \in Nat /\ Base(o)' \in Nat /\ kept[o] \in Nat /\ kept'[o] \in Nat
         /\ Total(Members, o) \in Nat /\ Total(Members', o) \in Nat
         /\ Cardinality(FilesOf(o)) \in Nat /\ Cardinality(FilesOf(o)') \in Nat
         /\ Cardinality(Puts(o)) \in Nat /\ Cardinality(Puts(o)') \in Nat
         /\ Uses(o) \in Nat /\ Uses(o)' \in Nat
         /\ Cardinality(Puts(o)') + One(IsPut(th[t], o))
              = Cardinality(Puts(o)) + One(IsPut(th'[t], o))
         /\ One(IsPut(th[t], o)) \in Nat /\ One(IsPut(th'[t], o)) \in Nat
<1>1. /\ Uses(o) = Base(o) + Cardinality(FilesOf(o)) + Total(Members, o)
                   + Cardinality(Puts(o)) + kept[o]
      /\ Uses(o)' = Base(o)' + Cardinality(FilesOf(o)') + Total(Members', o)
                    + Cardinality(Puts(o)') + kept'[o]
  BY DEF Uses
<1>2. t \in Thread /\ \A u \in Thread : u # t => th'[u] = th[u]
  BY DEF Here, Fits, ThreadFits
<1>3. /\ Cardinality(Puts(o)) \in Nat /\ Cardinality(Puts(o)') \in Nat
      /\ Cardinality(Puts(o)') + One(IsPut(th[t], o))
           = Cardinality(Puts(o)) + One(IsPut(th'[t], o))
  BY <1>2, PutsChange
<1>4. Cardinality(FilesOf(o)) \in Nat /\ Cardinality(FilesOf(o)') \in Nat
  <2>1. IsFiniteSet(FilesOf(o)) /\ IsFiniteSet(FilesOf(o)')
    BY ConstantsAssumption, FS_Subset DEF FilesOf
  <2> QED BY <2>1, FS_CardinalityType
<1>5. Total(Members, o) \in Nat /\ Total(Members', o) \in Nat
  BY MembersType, TotalNat
<1>6. Base(o) \in Nat /\ Base(o)' \in Nat
  BY DEF Base, One
<1>7. kept[o] \in Nat /\ kept'[o] \in Nat
  BY ConstantsAssumption DEF Here, TypeOK
<1>8. One(IsPut(th[t], o)) \in Nat /\ One(IsPut(th'[t], o)) \in Nat
  BY DEF One
<1>9. Uses(o) \in Nat /\ Uses(o)' \in Nat
  BY <1>1, <1>3, <1>4, <1>5, <1>6, <1>7
<1> QED BY <1>1, <1>3, <1>4, <1>5, <1>6, <1>7, <1>8, <1>9

(* A step that changes neither members nor files. *)
LEMMA UsesStep ==
  ASSUME NEW t, Here(t), Fits(t), NEW o \in Dev, kept' \in [Dev -> Nat], file' = file,
         \A h \in Group : Members'[h] = Members[h]
  PROVE  /\ Uses(o) \in Nat /\ Uses(o)' \in Nat /\ kept[o] \in Nat /\ kept'[o] \in Nat
         /\ Uses(o)' + Base(o) + One(IsPut(th[t], o)) + kept[o]
              = Uses(o) + Base(o)' + One(IsPut(th'[t], o)) + kept'[o]
<1>1. Members' = Members
  <2>1. Members \in [Group -> Seq(Ctrl)] /\ Members' \in [Group -> Seq(Ctrl)]
    BY MembersType
  <2> QED BY <2>1
<1>2. FilesOf(o)' = FilesOf(o)
  BY DEF FilesOf
<1> QED BY <1>1, <1>2, UsesTerms

(* A step that changes the members of one group. *)
LEMMA UsesMembers ==
  ASSUME NEW t, Here(t), Fits(t), NEW o \in Dev, kept' = kept, file' = file, NEW g \in Group,
         \A h \in Group : h # g => Members'[h] = Members[h]
  PROVE  /\ Uses(o) \in Nat /\ Uses(o)' \in Nat
         /\ Count(Members[g], o) \in Nat /\ Count(Members'[g], o) \in Nat
         /\ Uses(o)' + Base(o) + One(IsPut(th[t], o)) + Count(Members[g], o)
              = Uses(o) + Base(o)' + One(IsPut(th'[t], o)) + Count(Members'[g], o)
<1>1. /\ Total(Members, o) \in Nat /\ Total(Members', o) \in Nat
      /\ Count(Members[g], o) \in Nat /\ Count(Members'[g], o) \in Nat
      /\ Total(Members', o) + Count(Members[g], o) = Total(Members, o) + Count(Members'[g], o)
  BY MembersChange
<1>2. FilesOf(o)' = FilesOf(o)
  BY DEF FilesOf
<1>3. kept' \in [Dev -> Nat] /\ kept'[o] = kept[o]
  BY ConstantsAssumption DEF Here, TypeOK
<1>4. /\ Uses(o) = Base(o) + Cardinality(FilesOf(o)) + Total(Members, o)
                   + Cardinality(Puts(o)) + kept[o]
      /\ Uses(o)' = Base(o)' + Cardinality(FilesOf(o)) + Total(Members', o)
                    + Cardinality(Puts(o)') + kept[o]
      /\ Base(o) \in Nat /\ Base(o)' \in Nat /\ kept[o] \in Nat
      /\ Cardinality(FilesOf(o)) \in Nat
      /\ Cardinality(Puts(o)) \in Nat /\ Cardinality(Puts(o)') \in Nat
      /\ Cardinality(Puts(o)') + One(IsPut(th[t], o))
           = Cardinality(Puts(o)) + One(IsPut(th'[t], o))
      /\ One(IsPut(th[t], o)) \in Nat /\ One(IsPut(th'[t], o)) \in Nat
  BY <1>2, <1>3, UsesTerms
<1>5. Uses(o) \in Nat /\ Uses(o)' \in Nat
  BY <1>1, <1>4
<1> QED BY <1>1, <1>4, <1>5

(* A step that opens or closes a file. *)
LEMMA UsesFile ==
  ASSUME NEW t, Here(t), Fits(t), NEW o \in Dev, kept' = kept, NEW f \in File,
         \A h \in File : h # f => file'[h] = file[h],
         \A h \in Group : Members'[h] = Members[h]
  PROVE  /\ Uses(o) \in Nat /\ Uses(o)' \in Nat
         /\ Uses(o)' + Base(o) + One(IsPut(th[t], o)) + One(file[f] = o)
              = Uses(o) + Base(o)' + One(IsPut(th'[t], o)) + One(file'[f] = o)
<1>1. Members' = Members
  <2>1. Members \in [Group -> Seq(Ctrl)] /\ Members' \in [Group -> Seq(Ctrl)]
    BY MembersType
  <2> QED BY <2>1
<1>2. Cardinality(FilesOf(o)') + One(file[f] = o) = Cardinality(FilesOf(o)) + One(file'[f] = o)
  BY FilesChange
<1>3. kept' \in [Dev -> Nat] /\ kept'[o] = kept[o]
  BY ConstantsAssumption DEF Here, TypeOK
<1>4. One(file[f] = o) \in Nat /\ One(file'[f] = o) \in Nat
  BY DEF One
<1> QED BY <1>1, <1>2, <1>3, <1>4, UsesTerms

(* The names of the running CREATE_GROUP calls. *)
LEMMA NamesStep ==
  ASSUME NEW t, Here(t), Fits(t), FoundExact, NEW c \in Ctrl, found'[c] \in Int,
         found'[c] + Count(NamesOf(th[t]), c) = found[c] + Count(NamesOf(th[t])', c)
  PROVE  found'[c] = Total([u \in Thread |-> NamesOf(th[u])'], c) /\ found'[c] \in Nat
<1>1. t \in Thread /\ Shape /\ Shape'
  BY FitsShape DEF Here
<1>2. ASSUME NEW u \in Thread PROVE NamesOf(th[u]) \in Seq(Ctrl)
  <2>1. Frames1(th[u])
    BY <1>1, <1>2, RecordFrames DEF Shape, Threads
  <2>2. CreatePc \subseteq GroupPc /\ "create_get" \in CreatePc
    BY DEF GroupPc, CreatePc
  <2>3. GroupFrame(th[u]).left \in Seq(Ctrl)
    BY <2>1 DEF Frames1, Frame
  <2>4. GroupFrame(th[u]).pc \in CreatePc => dev[GroupFrame(th[u]).o].ctrls \in Seq(Ctrl)
    BY <1>1, <2>1, <2>2, Consts DEF Frames1, GroupOf, Shape, DevRec
  <2> QED BY <2>2, <2>3, <2>4 DEF NamesOf
<1>3. ASSUME NEW u \in Thread PROVE NamesOf(th[u])' \in Seq(Ctrl)
  <2>1. Frames1(th'[u])
    BY <1>1, <1>3, RecordFrames DEF Shape, Threads
  <2>2. CreatePc \subseteq GroupPc /\ "create_get" \in CreatePc
    BY DEF GroupPc, CreatePc
  <2>3. GroupFrame(th'[u]).left \in Seq(Ctrl)
    BY <2>1 DEF Frames1, Frame
  <2>4. GroupFrame(th'[u]).pc \in CreatePc => dev'[GroupFrame(th'[u]).o].ctrls \in Seq(Ctrl)
    BY <1>1, <2>1, <2>2, Consts DEF Frames1, GroupOf, Shape, DevRec
  <2> QED BY <2>2, <2>3, <2>4 DEF NamesOf
<1>4. ASSUME NEW u \in Thread, u # t PROVE NamesOf(th[u])' = NamesOf(th[u])
  <2>1. /\ th'[u] = th[u]
        /\ GroupOf(th[u]) # NULL => dev'[GroupOf(th[u])] = dev[GroupOf(th[u])]
    BY <1>4, FitsOthers
  <2>2. Frames1(th[u])
    BY <1>1, <1>4, RecordFrames DEF Shape, Threads
  <2>3. CreatePc \subseteq GroupPc /\ "create_get" \in CreatePc
    BY DEF GroupPc, CreatePc
  <2>4. GroupFrame(th[u]).pc \in CreatePc =>
           dev'[GroupFrame(th[u]).o] = dev[GroupFrame(th[u]).o]
    BY <2>1, <2>2, <2>3 DEF Frames1, GroupOf
  <2> QED BY <2>1, <2>3, <2>4 DEF NamesOf
<1> DEFINE L == [u \in Thread |-> NamesOf(th[u])]
           M == [u \in Thread |-> NamesOf(th[u])']
<1>5. OneList(Thread, t, L, M)
  BY <1>1, <1>2, <1>3, <1>4, ConstantsAssumption DEF OneList
<1>6. L[t] = NamesOf(th[t]) /\ M[t] = NamesOf(th[t])' /\ found[c] = Total(L, c)
  BY <1>1 DEF FoundExact
<1> HIDE DEF L, M
<1>7. /\ Total(L, c) \in Nat /\ Total(M, c) \in Nat
      /\ Count(L[t], c) \in Nat /\ Count(M[t], c) \in Nat
      /\ Total(M, c) + Count(L[t], c) = Total(L, c) + Count(M[t], c)
  BY <1>5, TotalChange
<1>8. found'[c] = Total(M, c)
  BY <1>6, <1>7
<1> QED BY <1>7, <1>8 DEF M

----------------------------------------------------------------------------
(* Numbers, the core device and the PCI functions, when x is the object    *)
(* that a step changes.                                                    *)

OthersKeep(x) ==
  \A o \in Dev : o # x => /\ dev'[o].heap = dev[o].heap /\ dev'[o].minor = dev[o].minor
                          /\ dev'[o].cdev = dev[o].cdev /\ dev'[o].pdev = dev[o].pdev

(* The thread gives no other group's number back. *)
Unnumbered(t, x) == \A o \in Dev : o # x => (Unnumbers(th'[t], o) <=> Unnumbers(th[t], o))

(* The objects a step leaves alone keep their minor numbers. *)
LEMMA NumberOthers ==
  ASSUME NEW t, Here(t), Fits(t), NEW x, OthersKeep(x), Unnumbered(t, x), NEW o \in Dev, o # x
  PROVE  HasNumber(o)' <=> HasNumber(o)
<1>1. \A u \in Thread : u # t => th'[u] = th[u]
  BY FitsOthers
<1>2. \A u \in Thread : Unnumbers(th'[u], o) <=> Unnumbers(th[u], o)
  BY <1>1 DEF Unnumbered
<1> QED BY <1>2 DEF HasNumber, OthersKeep

(* No number is taken or given back. *)
LEMMA MinorsKept ==
  ASSUME NEW t, Here(t), Fits(t), MinorsExact, minors' = minors, NEW x, OthersKeep(x),
         Unnumbered(t, x), x \in Dev => (HasNumber(x)' <=> HasNumber(x)),
         x \in Dev /\ HasNumber(x) => dev'[x].minor = dev[x].minor
  PROVE  MinorsExact'
<1>1. Numbered = {o \in Dev : HasNumber(o)} /\ Numbered' = {o \in Dev : HasNumber(o)'}
  BY FitsShape DEF Facts, NumberedAre
<1>2. \A o \in Dev : HasNumber(o)' <=> HasNumber(o)
  BY NumberOthers
<1>3. Numbered' = Numbered
  BY <1>1, <1>2
<1>4. \A o \in Numbered : dev'[o].minor = dev[o].minor
  BY <1>1 DEF OthersKeep
<1> QED BY <1>3, <1>4 DEF MinorsExact

(* x gets a number. *)
LEMMA MinorsTaken ==
  ASSUME NEW t, Here(t), Fits(t), MinorsExact, NEW x \in Dev, OthersKeep(x), Unnumbered(t, x),
         ~HasNumber(x), HasNumber(x)', dev'[x].minor \notin minors,
         minors' = minors \cup {dev'[x].minor}
  PROVE  MinorsExact'
<1>1. Numbered = {o \in Dev : HasNumber(o)} /\ Numbered' = {o \in Dev : HasNumber(o)'}
  BY FitsShape DEF Facts, NumberedAre
<1>2. \A o \in Dev : o # x => (HasNumber(o)' <=> HasNumber(o))
  BY NumberOthers
<1>3. Numbered' = Numbered \cup {x} /\ x \notin Numbered
  BY <1>1, <1>2
<1>4. \A o \in Numbered : dev'[o].minor = dev[o].minor /\ o # x
  BY <1>1, <1>3 DEF OthersKeep
<1>5. minors = {dev[o].minor : o \in Numbered}
      /\ \A o1, o2 \in Numbered : dev[o1].minor = dev[o2].minor => o1 = o2
  BY DEF MinorsExact
<1>6. minors' = {dev'[o].minor : o \in Numbered'}
  BY <1>3, <1>4, <1>5
<1>7. \A o \in Numbered : dev'[o].minor # dev'[x].minor
  BY <1>4, <1>5
<1>8. \A o1, o2 \in Numbered' : dev'[o1].minor = dev'[o2].minor => o1 = o2
  BY <1>3, <1>4, <1>5, <1>7
<1> QED BY <1>6, <1>8 DEF MinorsExact

(* x gives its number back. *)
LEMMA MinorsGiven ==
  ASSUME NEW t, Here(t), Fits(t), MinorsExact, NEW x \in Dev, OthersKeep(x), Unnumbered(t, x),
         HasNumber(x), ~HasNumber(x)', minors' = minors \ {dev[x].minor}
  PROVE  MinorsExact'
<1>1. Numbered = {o \in Dev : HasNumber(o)} /\ Numbered' = {o \in Dev : HasNumber(o)'}
  BY FitsShape DEF Facts, NumberedAre
<1>2. \A o \in Dev : o # x => (HasNumber(o)' <=> HasNumber(o))
  BY NumberOthers
<1>3. Numbered' = Numbered \ {x} /\ x \in Numbered
  BY <1>1, <1>2
<1>4. \A o \in Numbered' : dev'[o].minor = dev[o].minor /\ o # x /\ o \in Numbered
  BY <1>1, <1>3 DEF OthersKeep
<1>5. minors = {dev[o].minor : o \in Numbered}
      /\ \A o1, o2 \in Numbered : dev[o1].minor = dev[o2].minor => o1 = o2
  BY DEF MinorsExact
<1>6. minors' = {dev'[o].minor : o \in Numbered'}
  <2>1. \A n \in minors' : \E o \in Numbered' : n = dev'[o].minor
    BY <1>3, <1>4, <1>5
  <2>2. \A o \in Numbered' : dev'[o].minor \in minors'
    BY <1>3, <1>4, <1>5
  <2> QED BY <2>1, <2>2
<1>7. \A o1, o2 \in Numbered' : dev'[o1].minor = dev'[o2].minor => o1 = o2
  BY <1>4, <1>5
<1> QED BY <1>6, <1>7 DEF MinorsExact

(* References on the core device *)
HoldsCore(d, o) == IF o \in Ctrl THEN d.cdev ELSE d.heap = "live"

(* A step that changes object x changes the core count with it. *)
LEMMA CoreStep ==
  ASSUME CoreRefExact, NEW x, OthersKeep(x),
         x \in Dev => coreRef' \in Int
                      /\ coreRef' + One(HoldsCore(dev[x], x)) = coreRef + One(HoldsCore(dev'[x], x)),
         x \notin Dev => coreRef' = coreRef
  PROVE  CoreRefExact' /\ coreRef' \in Nat
<1> DEFINE C == {c \in Ctrl : dev[c].cdev}
           D == {c \in Ctrl : dev'[c].cdev}
           G == {g \in Group : dev[g].heap = "live"}
           H == {g \in Group : dev'[g].heap = "live"}
<1>1. IsFiniteSet(C) /\ IsFiniteSet(D) /\ IsFiniteSet(G) /\ IsFiniteSet(H)
  BY ConstantsAssumption, FS_Subset
<1>2. (\A y : y # x => (y \in C <=> y \in D)) /\ (\A y : y # x => (y \in G <=> y \in H))
  BY Consts DEF OthersKeep
<1>3. /\ x \in Ctrl => x \notin G /\ x \notin H /\ (x \in C <=> HoldsCore(dev[x], x))
                       /\ (x \in D <=> HoldsCore(dev'[x], x))
      /\ x \in Group => x \notin C /\ x \notin D /\ (x \in G <=> HoldsCore(dev[x], x))
                       /\ (x \in H <=> HoldsCore(dev'[x], x))
      /\ x \notin Dev => x \notin C /\ x \notin D /\ x \notin G /\ x \notin H
  BY Consts DEF HoldsCore
<1>4. coreRef = Cardinality(C) + Cardinality(G)
  BY DEF CoreRefExact
<1>5. CoreRefExact' <=> coreRef' = Cardinality(D) + Cardinality(H)
  BY DEF CoreRefExact
<1> HIDE DEF C, D, G, H
<1>6. /\ Cardinality(C) \in Nat /\ Cardinality(D) \in Nat
      /\ Cardinality(D) + One(x \in C) = Cardinality(C) + One(x \in D)
  BY <1>1, <1>2, SetChange
<1>7. /\ Cardinality(G) \in Nat /\ Cardinality(H) \in Nat
      /\ Cardinality(H) + One(x \in G) = Cardinality(G) + One(x \in H)
  BY <1>1, <1>2, SetChange
<1>8. x \in Dev <=> x \in Ctrl \/ x \in Group
  BY DEF Dev
<1>9. coreRef' = Cardinality(D) + Cardinality(H)
  <2>1. CASE x \in Ctrl
    <3>1. /\ One(x \in C) = One(HoldsCore(dev[x], x)) /\ One(x \in D) = One(HoldsCore(dev'[x], x))
          /\ One(x \in G) = 0 /\ One(x \in H) = 0
      BY <2>1, <1>3 DEF One
    <3>2. One(x \in C) \in Nat /\ One(x \in D) \in Nat
      BY DEF One
    <3> QED BY <2>1, <3>1, <3>2, <1>4, <1>6, <1>7, <1>8
  <2>2. CASE x \in Group
    <3>1. /\ One(x \in G) = One(HoldsCore(dev[x], x)) /\ One(x \in H) = One(HoldsCore(dev'[x], x))
          /\ One(x \in C) = 0 /\ One(x \in D) = 0
      BY <2>2, <1>3 DEF One
    <3>2. One(x \in G) \in Nat /\ One(x \in H) \in Nat
      BY DEF One
    <3> QED BY <2>2, <3>1, <3>2, <1>4, <1>6, <1>7, <1>8
  <2>3. CASE x \notin Dev
    BY <2>3, <1>3, <1>4, <1>6, <1>7, <1>8 DEF One
  <2> QED BY <2>1, <2>2, <2>3, <1>8
<1> QED BY <1>5, <1>6, <1>7, <1>9

(* The PCI functions keep BAR 0, the enable count and bus mastering. *)
PciKept(p) ==
  /\ pci'[p].region = pci[p].region /\ pci'[p].enabled = pci[p].enabled
  /\ pci'[p].master = pci[p].master

(* PCI resources stay as they are when nobody moves at BAR 0. *)
LEMMA RegionsKept ==
  ASSUME NEW t, Here(t), Fits(t), Regions, \A p \in Pdev : PciKept(p),
         \A c \in Ctrl : /\ dev'[c].heap = dev[c].heap /\ dev'[c].minor = dev[c].minor
                         /\ dev'[c].pdev = dev[c].pdev,
         \A c \in Ctrl : NoRegion(th'[t], c) <=> NoRegion(th[t], c)
  PROVE  Regions'
<1>1. \A u \in Thread : u # t => th'[u] = th[u]
  BY FitsOthers
<1>2. \A c \in Ctrl : /\ dev'[c].heap = dev[c].heap /\ dev'[c].minor = dev[c].minor
                      /\ dev'[c].pdev = dev[c].pdev
  OBVIOUS
<1>3. \A c \in Ctrl : HasRegion(c)' <=> HasRegion(c)
  BY <1>1, <1>2 DEF HasRegion
<1>4. \A p \in Pdev : pci[p].region \in Ctrl \cup {NULL}
  BY DEF Here, TypeOK
<1>5. \A c \in Ctrl : dev[c].heap = "live" => dev[c].pdev \in Pdev
  BY Consts DEF Here, Objects, ObjectOK
<1>6. \A c \in Ctrl : HasRegion(c) => dev[c].pdev \in Pdev
  BY <1>5 DEF HasRegion
<1>7. ASSUME NEW p \in Pdev, pci'[p].region # NULL
      PROVE  HasRegion(pci[p].region)' /\ dev'[pci'[p].region].pdev = p /\ pci'[p].region = pci[p].region
  BY <1>2, <1>3, <1>4, <1>7 DEF PciKept, Regions
<1>8. ASSUME NEW c \in Ctrl, HasRegion(c)' PROVE pci'[dev'[c].pdev].region = c
  BY <1>2, <1>3, <1>6, <1>8 DEF PciKept, Regions
<1>9. ASSUME NEW p \in Pdev
      PROVE  pci'[p].enabled = (IF pci'[p].region # NULL /\ dev'[pci'[p].region].minor # NULL
                                THEN 1 ELSE 0)
  <2>1. pci[p].region # NULL => dev'[pci[p].region].minor = dev[pci[p].region].minor
    BY <1>2, <1>4
  <2> QED BY <2>1 DEF PciKept, Regions
<1>10. ASSUME NEW p \in Pdev, pci'[p].master
       PROVE  \E c \in Ctrl : dev'[c].heap = "live" /\ dev'[c].pdev = p
  BY <1>2, <1>10 DEF PciKept, Regions
<1>11. \A p \in Pdev : pci'[p].region # NULL =>
         HasRegion(pci[p].region)' /\ dev'[pci'[p].region].pdev = p
  BY <1>7
<1> QED BY <1>7, <1>8, <1>9, <1>10 DEF Regions

(* The bindings are kept, and so are those who probe and remove. *)
BindingsKept(t) ==
  /\ \A p \in Pdev : pci'[p].bound = pci[p].bound /\ pci'[p].drv = pci[p].drv
  /\ \A c \in Ctrl : dev'[c].pdev = dev[c].pdev
  /\ th'[t].p = th[t].p
  /\ th[t].p # NULL => th'[t].op = th[t].op
  /\ th[t].op = "probe" => th'[t].o = th[t].o
  /\ th[t].op = "remove" => th'[t].pc # "put"

Deletes(r, c) == r.op = "delete" /\ r.pc = "put" /\ r.o = c

(* Bindings stay as they are when nobody probes or removes. *)
LEMMA DriverKept ==
  ASSUME NEW t, Here(t), Fits(t), Driver, BindingsKept(t),
         \A c \in ready \cap Ctrl : c \in ready' \/ Deletes(th'[t], c),
         \A c \in Ctrl : Deletes(th[t], c) => Deletes(th'[t], c)
  PROVE  Driver'
<1>1. t \in Thread /\ \A u \in Thread : u # t => th'[u] = th[u]
  BY FitsOthers DEF Here
<1>2. /\ LocalsOK(th[t]) /\ LocalsOK(th'[t]) /\ pci \in [Pdev -> PciRec]
      /\ \A u \in Thread : th[u] \in ThreadRec /\ LocalsOK(th[u])
  BY HereFacts DEF Fits, ThreadFits, Here, TypeOK, PciRec, Threads, ThreadRec
<1>3. \A u \in Thread : th'[u].p = th[u].p
  BY <1>1 DEF BindingsKept
<1>4. \A t1, u \in Thread : th'[t1].p # NULL /\ th'[t1].p = th'[u].p => t1 = u
  BY <1>3 DEF Driver
<1>5. ASSUME NEW u \in Thread
      PROVE  /\ th'[u].op = "probe" => ~pci'[th'[u].p].bound /\ pci'[th'[u].p].drv = th'[u].o
             /\ th'[u].op = "remove" =>
                  /\ pci'[th'[u].p].bound
                  /\ th'[u].pc = "put" => pci'[th'[u].p].drv = th'[u].o
  <2>1. th'[u].op \in {"probe", "remove"} => th[u].p \in Pdev /\ th'[u].op = th[u].op
    BY <1>1, <1>2, <1>3 DEF BindingsKept, LocalsOK, ThreadRec
  <2>2. th'[u].op = "probe" => th'[u].o = th[u].o
    BY <1>1, <2>1 DEF BindingsKept
  <2>3. th'[u].op = "remove" /\ th'[u].pc = "put" => th[u].pc = "put" /\ th'[u].o = th[u].o
    BY <1>1, <2>1 DEF BindingsKept
  <2> QED BY <1>3, <2>1, <2>2, <2>3 DEF Driver, BindingsKept, At
<1>6. ASSUME NEW p \in Pdev
      PROVE  /\ pci'[p].bound => pci'[p].drv # NULL /\ dev'[pci'[p].drv].pdev = p
             /\ ~pci'[p].bound /\ PciIdle(p)' => pci'[p].drv = NULL
             /\ pci'[p].bound /\ PciIdle(p)' =>
                  \/ pci'[p].drv \in ready'
                  \/ \E u \in Thread : Deletes(th'[u], pci'[p].drv)
  <2>1. PciIdle(p)' <=> PciIdle(p)
    BY <1>3 DEF PciIdle
  <2>2. pci[p].drv \in Ctrl \cup {NULL}
    BY <1>2 DEF PciRec
  <2>3. pci[p].bound => pci'[p].drv # NULL /\ dev'[pci'[p].drv].pdev = p
    BY <2>2 DEF Driver, BindingsKept
  <2>4. ASSUME pci[p].bound, PciIdle(p)
        PROVE  \/ pci[p].drv \in ready'
               \/ \E u \in Thread : Deletes(th'[u], pci[p].drv)
    <3>1. pci[p].drv \in Ctrl
      BY <2>2, <2>4 DEF Driver
    <3>2. CASE pci[p].drv \in ready
      BY <1>1, <3>1, <3>2
    <3>3. ASSUME NEW u \in Thread, Deletes(th[u], pci[p].drv) PROVE Deletes(th'[u], pci[p].drv)
      BY <1>1, <3>1, <3>3
    <3> QED BY <2>4, <3>2, <3>3 DEF Driver, Deletes, At
  <2> QED BY <2>1, <2>3, <2>4 DEF Driver, BindingsKept
<1> QED BY <1>4, <1>5, <1>6 DEF Driver, At, Deletes

(* The same controllers stay bound. *)
LEMMA BoundKept ==
  ASSUME NEW t, Here(t), Fits(t), BindingsKept(t)
  PROVE  \A c \in Ctrl : Base(c)' = Base(c) /\ (Bound(c)' <=> Bound(c))
<1>1. t \in Thread /\ \A u \in Thread : u # t => th'[u] = th[u]
  BY FitsOthers DEF Here
<1>2. \A u \in Thread : th'[u].p = th[u].p
  BY <1>1 DEF BindingsKept
<1>3. \A p \in Pdev : PciIdle(p)' <=> PciIdle(p)
  BY <1>2 DEF PciIdle
<1>4. \A c \in Ctrl : Bound(c)' <=> Bound(c)
  BY <1>3 DEF Bound, BindingsKept
<1> QED BY <1>4 DEF Base, One

=============================================================================
