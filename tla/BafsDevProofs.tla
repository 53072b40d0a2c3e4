--------------------------- MODULE BafsDevProofs ----------------------------
(***************************************************************************)
(* Every step of BafsDev keeps the invariant of BafsDevShape: calls on open *)
(* files, calls that begin, puts and releases, the probe of a controller   *)
(* and the creation of a group.  Then the theorems about BafsDev: the      *)
(* invariant holds with or without the protocol; under the protocol counts *)
(* are exact; and under the contract no call faults and a bound controller *)
(* stays usable.                                                           *)
(***************************************************************************)
EXTENDS BafsDevShape

----------------------------------------------------------------------------
(* Steps that leave numbers, the core device and PCI resources alone. *)

KernelKept == Regions' /\ MinorsExact' /\ CoreRefExact' /\ FoundExact'

(* The parts of the invariant, at thread t *)
LEMMA InvHere ==
  ASSUME Inv, NEW t \in Thread
  PROVE  /\ Here(t) /\ TypeOK /\ Driver /\ Regions /\ MinorsExact /\ CoreRefExact /\ FoundExact
         /\ Counts /\ Creators /\ Opening
BY DEF Inv, Here

(* A step that keeps numbers, resources and names keeps the kernel part. *)
LEMMA QuietStep ==
  ASSUME Inv, NEW t \in Thread, Fits(t), \A p \in Pdev : PciKept(p),
         minors' = minors, coreRef' = coreRef, found' = found, OthersKeep(NULL),
         \A c \in Ctrl : NoRegion(th'[t], c) <=> NoRegion(th[t], c),
         \A o \in Dev : Unnumbers(th'[t], o) <=> Unnumbers(th[t], o),
         NamesOf(th[t])' = NamesOf(th[t])
  PROVE  KernelKept
<1>1. /\ Here(t) /\ TypeOK /\ Regions /\ MinorsExact /\ CoreRefExact /\ FoundExact
  BY InvHere
<1>2. NULL \notin Dev /\ \A c \in Ctrl : c \in Dev /\ c # NULL
  BY Consts
<1>3. Regions'
  <2>1. \A c \in Ctrl : /\ dev'[c].heap = dev[c].heap /\ dev'[c].minor = dev[c].minor
                        /\ dev'[c].pdev = dev[c].pdev
    BY <1>2 DEF OthersKeep
  <2> QED BY <1>1, <2>1, RegionsKept
<1>4. MinorsExact'
  <2>1. Unnumbered(t, NULL)
    BY DEF Unnumbered
  <2> QED BY <1>1, <1>2, <2>1, MinorsKept
<1>5. CoreRefExact'
  BY <1>1, <1>2, CoreStep
<1>6. FoundExact'
  <2> SUFFICES ASSUME NEW c \in Ctrl
               PROVE  found'[c] = Total([u \in Thread |-> NamesOf(th[u])'], c)
    BY DEF FoundExact
  <2>1. found[c] \in Nat /\ found'[c] = found[c]
    BY <1>1, <1>2 DEF TypeOK
  <2>2. found'[c] + Count(NamesOf(th[t]), c) = found[c] + Count(NamesOf(th[t])', c)
    BY <2>1
  <2> QED BY <1>1, <2>1, <2>2, NamesStep
<1> QED BY <1>3, <1>4, <1>5, <1>6 DEF KernelKept

(* The thread neither makes nor takes down anything. *)
OnlyUses(t) ==
  /\ CtrlOf(th[t]) = NULL /\ CtrlOf(th'[t]) = NULL
  /\ GroupOf(th[t]) = NULL /\ GroupOf(th'[t]) = NULL

OnlyRefs == \A o \in Dev : dev'[o] = dev[o] \/ Counted(o)

(* A step that changes counts only leaves all else of the objects. *)
LEMMA OnlyRefsFacts ==
  ASSUME NEW t, Here(t), Fits(t), OnlyRefs
  PROVE  /\ OthersKeep(NULL)
         /\ \A o \in Dev : /\ dev'[o].heap = dev[o].heap /\ dev'[o].pdev = dev[o].pdev
                           /\ dev'[o].ctrls = dev[o].ctrls
<1>1. ASSUME NEW o \in Dev
      PROVE  /\ dev'[o].heap = dev[o].heap /\ dev'[o].minor = dev[o].minor
             /\ dev'[o].cdev = dev[o].cdev /\ dev'[o].pdev = dev[o].pdev
             /\ dev'[o].ctrls = dev[o].ctrls
  <2> DEFINE d == dev[o]  e == dev'[o]
  <2>1. d \in DevRec /\ e \in DevRec /\ (e = d \/ e = [d EXCEPT !.ref = e.ref])
    BY HereFacts DEF Fits, ObjectsFit, OnlyRefs, Counted
  <2> HIDE DEF d, e
  <2>2. e.heap = d.heap /\ e.minor = d.minor /\ e.cdev = d.cdev /\ e.pdev = d.pdev /\ e.ctrls = d.ctrls
    BY <2>1 DEF DevRec
  <2> QED BY <2>2 DEF d, e
<1> QED BY <1>1 DEF OthersKeep

(* A step of a user call keeps the kernel part and the members. *)
LEMMA UserQuiet ==
  ASSUME Inv, NEW t \in Thread, Fits(t), OnlyUses(t), OnlyRefs, \A p \in Pdev : PciKept(p),
         minors' = minors, coreRef' = coreRef, found' = found
  PROVE  KernelKept /\ \A h \in Group : Members'[h] = Members[h]
<1>1. Here(t)
  BY InvHere
<1>2. Frames1(th[t]) /\ Frames1(th'[t])
  BY <1>1, ThreadFrames, NextFrames DEF Here, Fits
<1>3. GroupFrame(th[t]).pc \notin GroupPc /\ GroupFrame(th'[t]).pc \notin GroupPc
  BY <1>2 DEF OnlyUses, Frames1
<1>4. \A c \in Ctrl : ~NoRegion(th'[t], c) /\ ~NoRegion(th[t], c)
  BY Consts DEF OnlyUses, NoRegion
<1>5. \A o \in Dev : /\ ~Unnumbers(th'[t], o) /\ ~Unnumbers(th[t], o)
                     /\ ~Undoes(th'[t], o) /\ ~Undoes(th[t], o)
  BY Consts DEF OnlyUses, Unnumbers, Undoes
<1>6. CreatePc \subseteq GroupPc /\ "create_get" \in CreatePc
  BY DEF GroupPc, CreatePc
<1>7. NamesOf(th[t]) = <<>> /\ NamesOf(th[t])' = <<>>
  BY <1>3, <1>6 DEF NamesOf
<1>8. OthersKeep(NULL) /\ \A o \in Dev : dev'[o].heap = dev[o].heap /\ dev'[o].ctrls = dev[o].ctrls
  BY <1>1, OnlyRefsFacts
<1>9. KernelKept
  BY <1>4, <1>5, <1>7, <1>8, QuietStep
<1>10. \A h \in Group : Members'[h] = Members[h]
  BY <1>1, <1>5, <1>8, MembersFrame, Consts
<1> QED BY <1>9, <1>10

(* The count of an object changes as its uses do. *)
Balanced(o) == dev'[o].ref + Uses(o) = dev[o].ref + Uses(o)'

(* Counts stay exact when counts and uses change together. *)
LEMMA BalancedCounts ==
  ASSUME Inv, NEW t \in Thread, Fits(t), kept' \in [Dev -> Nat], \A o \in Dev : Balanced(o)
  PROVE  Counts' /\ (GroupsExact => GroupsExact')
<1>1. Here(t) /\ Counts
  BY InvHere
<1>2. \A o \in Dev : Uses(o) \in Nat /\ Uses(o)' \in Nat
  BY <1>1, UsesTerms
<1>3. \A o \in Dev : dev[o].ref \in Nat /\ dev'[o].ref \in Nat
  BY <1>1, HereFacts DEF Fits, ObjectsFit, DevRec
<1>4. ASSUME NEW o \in Dev
      PROVE  /\ dev[o].ref = Uses(o) => dev'[o].ref = Uses(o)'
             /\ dev[o].ref <= Uses(o) => dev'[o].ref <= Uses(o)'
  <2> DEFINE a == dev[o].ref  b == dev'[o].ref  u == Uses(o)  v == Uses(o)'
  <2>1. a \in Nat /\ b \in Nat /\ u \in Nat /\ v \in Nat /\ b + u = a + v
    BY <1>2, <1>3 DEF Balanced
  <2> HIDE DEF a, b, u, v
  <2>2. (a = u => b = v) /\ (a <= u => b <= v)
    BY <2>1
  <2> QED BY <2>2 DEF a, b, u, v
<1> QED BY <1>1, <1>4, Consts DEF Counts, GroupsExact

(* A member of a group is counted. *)
LEMMA MemberCounted ==
  ASSUME Inv, NEW g \in Group, NEW i \in DOMAIN Members[g]
  PROVE  /\ Members[g][i] \in Ctrl
         /\ Total(Members, Members[g][i]) \in Nat /\ Total(Members, Members[g][i]) > 0
<1>1. Shape
  BY DEF Inv, TypeOK, Shape, ThreadRec, DevRec
<1>2. MembersAre
  BY <1>1, MembersFacts
<1>3. \A h \in Group : Members[h] \in Seq(Ctrl)
  BY <1>2 DEF MembersAre
<1>4. Members = [h \in Group |-> Members[h]]
  BY DEF Members
<1>5. Members \in [Group -> Seq(Ctrl)]
  BY <1>3, <1>4
<1> DEFINE L == Members
           c == L[g][i]
<1>6. L \in [Group -> Seq(Ctrl)] /\ i \in DOMAIN L[g] /\ OneList(Group, g, L, L)
  BY <1>5, ConstantsAssumption DEF OneList
<1>7. L[g] \in Seq(Ctrl) /\ c \in Ctrl
  BY <1>3
<1>8. Total(L, c) = Total(Members, c) /\ L[g][i] = c /\ c = Members[g][i]
  OBVIOUS
<1> HIDE DEF L, c
<1>9. Total(L, c) \in Nat /\ Count(L[g], c) \in Nat /\ Count(L[g], c) <= Total(L, c)
  BY <1>6, TotalChange
<1>10. Count(L[g], c) # 0
  <2> DEFINE S == {j \in DOMAIN L[g] : L[g][j] = c}
  <2>1. i \in S /\ S \subseteq 1 .. Len(L[g]) /\ Len(L[g]) \in Nat
    BY <1>6, <1>7, <1>8
  <2>2. IsFiniteSet(S)
    BY <2>1, FS_Interval, FS_Subset
  <2>3. Cardinality(S) # 0
    BY <2>1, <2>2, FS_EmptySet
  <2> QED BY <2>3 DEF Count
<1> QED BY <1>7, <1>8, <1>9, <1>10

(* The uses of an object are natural numbers. *)
LEMMA UsesNow ==
  ASSUME Inv, NEW o \in Dev
  PROVE  /\ Uses(o) = Base(o) + Cardinality(FilesOf(o)) + Total(Members, o)
                      + Cardinality(Puts(o)) + kept[o]
         /\ Base(o) \in Nat /\ Cardinality(FilesOf(o)) \in Nat /\ Total(Members, o) \in Nat
         /\ Cardinality(Puts(o)) \in Nat /\ kept[o] \in Nat /\ dev[o].ref \in Nat
<1>1. IsFiniteSet(FilesOf(o)) /\ IsFiniteSet(Puts(o))
  BY ConstantsAssumption, FS_Subset DEF FilesOf, Puts
<1>2. Base(o) \in Nat
  BY DEF Base, One
<1>3. kept[o] \in Nat
  BY ConstantsAssumption DEF Inv, TypeOK
<1>4. dev[o].ref \in Nat
  BY DEF Inv, TypeOK
<1>5. Total(Members, o) \in Nat
  <2>1. Shape
    BY DEF Inv, TypeOK, Shape, ThreadRec, DevRec
  <2>2. \A h \in Group : Members[h] \in Seq(Ctrl)
    BY <2>1, MembersFacts DEF MembersAre
  <2>3. Members = [h \in Group |-> Members[h]]
    BY DEF Members
  <2>4. Members \in [Group -> Seq(Ctrl)]
    BY <2>2, <2>3
  <2> QED BY <2>4, TotalNat
<1> QED BY <1>1, <1>2, <1>3, <1>4, <1>5, FS_CardinalityType DEF Uses

(* The controllers of a group that is in use are in use. *)
LEMMA MemberInUse ==
  ASSUME Inv, NEW g \in Group, NEW i \in DOMAIN Members[g]
  PROVE  Members[g][i] \in Ctrl /\ dev[Members[g][i]].ref > 0
<1>1. PICK c : c = Members[g][i]
  OBVIOUS
<1>2. c \in Ctrl /\ c \in Dev /\ Total(Members, c) \in Nat /\ Total(Members, c) > 0
  BY <1>1, MemberCounted, Consts
<1>3. dev[c].ref = Uses(c)
  BY <1>2 DEF Inv, Counts
<1>4. /\ Uses(c) = Base(c) + Cardinality(FilesOf(c)) + Total(Members, c)
                   + Cardinality(Puts(c)) + kept[c]
      /\ Base(c) \in Nat /\ Cardinality(FilesOf(c)) \in Nat
      /\ Cardinality(Puts(c)) \in Nat /\ kept[c] \in Nat
  BY <1>2, UsesNow
<1> QED BY <1>1, <1>2, <1>3, <1>4

----------------------------------------------------------------------------
(* Each step keeps the invariant. *)

(* A step of a call in flight keeps what is known of creators and openers. *)
LEMMA CallsStep ==
  ASSUME Inv, NEW t \in Thread, Fits(t),
         th'[t].f = th[t].f \/ th'[t].f = NULL,
         IsOpening(th'[t]) => IsOpening(th[t]) /\ th'[t].f = th[t].f /\ file' = file,
         \A f \in File : file'[f] # file[f] => f = th[t].f,
         \A g \in Group : Makes(th'[t], g) => Makes(th[t], g),
         \A g \in Group : g \in ready' => g \in ready \/ (Makes(th[t], g) /\ ~Makes(th'[t], g)),
         \A g \in Group : dev'[g].heap = "unused" => dev[g].heap = "unused"
  PROVE  Creators' /\ Opening'
<1>1. Here(t) /\ Creators /\ Opening
  BY InvHere
<1>2. \A u \in Thread : u # t => th'[u] = th[u]
  BY DEF Fits, ThreadFits
<1>3. Creators'
  <2>1. ASSUME NEW u \in Thread, NEW g \in Group, Makes(th'[u], g)
        PROVE  /\ dev'[g].heap # "unused" /\ g \notin ready'
               /\ \A v \in Thread : Makes(th'[v], g) => v = u
    <3>1. \A v \in Thread : Makes(th'[v], g) => Makes(th[v], g)
      BY <1>2
    <3>2. /\ dev[g].heap # "unused" /\ g \notin ready
          /\ \A v \in Thread : Makes(th[v], g) => v = u
      BY <1>1, <2>1, <3>1 DEF Creators
    <3> QED BY <2>1, <3>1, <3>2
  <2>2. \A g \in Group : g \in ready' => dev'[g].heap # "unused"
    BY <1>1 DEF Creators
  <2> QED BY <2>1, <2>2 DEF Creators
<1>4. Opening'
  <2> SUFFICES ASSUME NEW u \in Thread, IsOpening(th'[u])
               PROVE  /\ file'[th'[u].f] = NULL
                      /\ \A v \in Thread : th'[v].f = th'[u].f => v = u
    BY DEF Opening
  <2>1. IsOpening(th[u]) /\ th'[u].f = th[u].f
    BY <1>2
  <2>2. /\ file[th[u].f] = NULL
        /\ \A v \in Thread : th[v].f = th[u].f => v = u
    BY <1>1, <2>1 DEF Opening
  <2>3. th[u].f \in File
    <3>1. th[u] \in ThreadRec /\ LocalsOK(th[u])
      BY <1>1 DEF Here, TypeOK, ThreadRec, Threads
    <3> QED BY <2>1, <3>1 DEF IsOpening, LocalsOK, ThreadRec
  <2>4. th[u].f # NULL
    BY <2>3, Consts
  <2>5. \A v \in Thread : th'[v].f = th[v].f \/ th'[v].f = NULL
    BY <1>2
  <2>6. file'[th[u].f] = NULL
    <3>1. CASE u = t
      BY <2>2, <3>1
    <3>2. CASE u # t
      BY <2>2, <2>3, <3>2
    <3> QED BY <3>1, <3>2
  <2> QED BY <2>1, <2>2, <2>4, <2>5, <2>6
<1> QED BY <1>3, <1>4

(* What has to be shown of a step of thread t. *)
Good(t) ==
  /\ Fits(t) /\ KernelKept /\ Driver' /\ Counts' /\ Creators' /\ Opening'
  /\ ProtocolInv => ProtocolInv'

(* The bindings are known as before. *)
LEMMA ReadyKept ==
  ASSUME NEW t, Here(t), Fits(t), BindingsKept(t), \A c \in Ctrl : c \in ready' <=> c \in ready
  PROVE  ReadyOK => ReadyOK'
BY BoundKept DEF ReadyOK

(* A step of a user's call. *)
LEMMA UserGood ==
  ASSUME Inv, NEW t \in Thread, Fits(t), OnlyUses(t), OnlyRefs,
         pci' = pci, minors' = minors, coreRef' = coreRef, found' = found,
         kept' \in [Dev -> Nat], BindingsKept(t),
         \A c \in Ctrl : c \in ready' <=> c \in ready,
         \A c \in Ctrl : Deletes(th[t], c) => Deletes(th'[t], c),
         \A o \in Dev : Balanced(o),
         Creators' /\ Opening'
  PROVE  Good(t)
<1>1. Here(t) /\ Driver
  BY InvHere
<1>2. KernelKept
  <2>1. \A p \in Pdev : PciKept(p)
    BY DEF PciKept
  <2> QED BY <2>1, UserQuiet
<1>3. Driver'
  BY <1>1, DriverKept
<1>4. Counts' /\ (GroupsExact => GroupsExact')
  BY BalancedCounts
<1>5. ReadyOK => ReadyOK'
  BY <1>1, ReadyKept
<1>6. ProtocolInv => ProtocolInv'
  BY <1>4, <1>5 DEF ProtocolInv
<1> QED BY <1>2, <1>3, <1>4, <1>6 DEF Good

(* What remains of the balance when members and files stay. *)
LEMMA BalancedBy ==
  ASSUME NEW t, Here(t), Fits(t), NEW o \in Dev, kept' \in [Dev -> Nat], file' = file,
         \A h \in Group : Members'[h] = Members[h],
         dev'[o].ref + Base(o) + One(IsPut(th[t], o)) + kept[o]
           = dev[o].ref + Base(o)' + One(IsPut(th'[t], o)) + kept'[o]
  PROVE  Balanced(o)
<1> DEFINE a == dev[o].ref  b == dev'[o].ref  u == Uses(o)  v == Uses(o)'
           x == Base(o)  y == Base(o)'  m == One(IsPut(th[t], o))  n == One(IsPut(th'[t], o))
           k == kept[o]  l == kept'[o]
<1>1. /\ u \in Nat /\ v \in Nat /\ k \in Nat /\ l \in Nat
      /\ v + x + m + k = u + y + n + l
  BY UsesStep
<1>2. a \in Nat /\ b \in Nat
  BY HereFacts DEF Fits, ObjectsFit, DevRec
<1>3. x \in Nat /\ y \in Nat /\ m \in Nat /\ n \in Nat
  BY DEF Base, One
<1>4. b + x + m + k = a + y + n + l
  OBVIOUS
<1> HIDE DEF a, b, u, v, x, y, m, n, k, l
<1>5. b + u = a + v
  BY <1>1, <1>2, <1>3, <1>4
<1> QED BY <1>5 DEF a, b, u, v, Balanced

(* A step of a call that holds a reference or is about to get one. *)
UserMove(t, pc) ==
  /\ th[t].pc \in UserPc \ {"put", "ret"} /\ pc \in UserPc
  /\ \/ Return(t)
     \/ /\ Goto(t, pc)
        /\ pc = "open_ctx" => th[t].pc = "open_get"
        /\ pc \in {"ioctl_do", "ioctl_map"} => th[t].pc = "ioctl_get"
        /\ pc = "mmap_do" => th[t].pc = "mmap_get"
        /\ pc \notin {"create_copy", "open_get", "ioctl_get", "mmap_get", "ret"}
  /\ dev' \in [Dev -> DevRec] /\ OnlyRefs

(* What a step of a user call moves *)
LEMMA UserMoves ==
  ASSUME Inv, NEW t \in Thread, NEW pc, UserMove(t, pc), pci' = pci
  PROVE  /\ Here(t) /\ Fits(t) /\ OnlyUses(t) /\ OnlyRefs /\ BindingsKept(t)
         /\ th[t].op # "delete" /\ th[t].o \in Dev
         /\ \A c \in Ctrl : ~Deletes(th[t], c)
         /\ th'[t].f = th[t].f \/ th'[t].f = NULL
         /\ IsOpening(th'[t]) => IsOpening(th[t]) /\ th'[t].f = th[t].f
         /\ \A g \in Group : Makes(th'[t], g) => Makes(th[t], g)
         /\ \A g \in Group : dev'[g].heap = "unused" => dev[g].heap = "unused"
         /\ \/ th'[t] = Idle
            \/ th'[t].pc = pc /\ th'[t].o = th[t].o /\ th'[t].op = th[t].op
<1>1. Here(t)
  BY InvHere
<1>2. Fits(t)
  BY <1>1, UseFits DEF UserMove, OnlyRefs
<1>3. Frames1(th[t]) /\ Frames1(th'[t])
  BY <1>1, <1>2, ThreadFrames, NextFrames DEF Here, Fits
<1>4. \/ th'[t] = Idle /\ Return(t)
      \/ /\ Goto(t, pc) /\ th'[t].pc = pc /\ th'[t].o = th[t].o /\ th'[t].op = th[t].op
         /\ th'[t].p = th[t].p /\ th'[t].f = th[t].f
         /\ th'[t].left = th[t].left /\ th'[t].stack = th[t].stack
  <2>1. pc \in Pc
    BY DEF UserMove, UserPc, Pc
  <2>2. CASE Return(t)
    BY <1>1, <2>2, ReturnFits
  <2>3. CASE Goto(t, pc)
    BY <1>1, <2>1, <2>3, GotoFacts
  <2> QED BY <2>2, <2>3 DEF UserMove
<1>5. /\ th'[t].pc \in UserPc \cup {"idle"} /\ th[t].pc \in UserPc
      /\ Idle.pc = "idle" /\ Idle.p = NULL /\ Idle.f = NULL /\ Idle.op = "none"
  BY <1>4 DEF UserMove, Idle
<1>6. \A x \in UserPc \cup {"idle"} : x \notin GroupPc \cup RelPc /\ x \notin CtrlPc
  BY DEF UserPc, GroupPc, RelPc, CtrlPc, CreatePc, RelgPc, ProbePc
<1>7. OnlyUses(t)
  BY <1>3, <1>5, <1>6 DEF OnlyUses, Frames1
<1>8. LocalsOK(th[t]) /\ th[t] \in ThreadRec
  BY <1>1, HereFacts
<1>9. th[t].pc \notin ProbePc /\ th[t].pc \notin {"put", "ret"} \cup RelPc
  BY <1>5, <1>6 DEF UserMove, CtrlPc
<1>10. th[t].op # "probe" /\ th[t].op # "remove" /\ th[t].p = NULL
  BY <1>8, <1>9 DEF LocalsOK
<1>11. \A o \in Dev : dev'[o].heap = dev[o].heap /\ dev'[o].pdev = dev[o].pdev
  BY <1>1, <1>2, OnlyRefsFacts DEF UserMove
<1>12. BindingsKept(t)
  BY <1>4, <1>5, <1>10, <1>11, Consts DEF BindingsKept
<1>13. /\ th'[t].f = th[t].f \/ th'[t].f = NULL
       /\ IsOpening(th'[t]) => IsOpening(th[t]) /\ th'[t].f = th[t].f
       /\ \A g \in Group : Makes(th'[t], g) => Makes(th[t], g)
  <2>1. CASE th'[t] = Idle
    BY <1>5, <2>1 DEF IsOpening, Makes
  <2>2. CASE th'[t] # Idle
    <3>1. /\ Goto(t, pc) /\ th'[t].pc = pc /\ th'[t].o = th[t].o /\ th'[t].op = th[t].op
          /\ th'[t].f = th[t].f /\ th'[t].stack = th[t].stack
      BY <1>4, <2>2
    <3>2. \A g \in Group : Makes(th'[t], g) => Makes(th[t], g)
      BY <3>1 DEF Makes
    <3>3. ~Return(t)
      BY <1>1, <2>2, ReturnFits
    <3>4. IsOpening(th'[t]) => IsOpening(th[t])
      BY <3>1, <3>3 DEF IsOpening, UserMove
    <3> QED BY <3>1, <3>2, <3>4
  <2> QED BY <2>1, <2>2
<1>14. th[t].o \in Dev /\ th[t].op # "delete"
  <2>1. th[t].pc \in {"create_copy", "open_get", "open_ctx", "ioctl_get", "ioctl_do",
                      "ioctl_map", "mmap_get", "mmap_do"}
    BY DEF UserMove, UserPc
  <2> QED BY <1>8, <2>1 DEF LocalsOK
<1>15. \A c \in Ctrl : ~Deletes(th[t], c)
  BY <1>9 DEF Deletes
<1>16. OnlyRefs
  BY DEF UserMove
<1> QED BY <1>1, <1>2, <1>4, <1>7, <1>11, <1>12, <1>13, <1>14, <1>15, <1>16, Consts

(* The references that the call and the mappings hold change as the counts *)
(* do.                                                                     *)
LEMMA MoveGood ==
  ASSUME Inv, NEW t \in Thread, NEW pc, UserMove(t, pc),
         UNCHANGED <<kernVars, file, ready, fault>>, kept' \in [Dev -> Nat],
         \A o \in Dev : dev'[o].ref + One(IsPut(th[t], o)) + kept[o]
                          = dev[o].ref + One(IsPut(th'[t], o)) + kept'[o]
  PROVE  Good(t)
<1>1. pci' = pci /\ minors' = minors /\ coreRef' = coreRef /\ found' = found /\ file' = file
      /\ ready' = ready
  BY DEF kernVars
<1>2. /\ Here(t) /\ Fits(t) /\ OnlyUses(t) /\ OnlyRefs /\ BindingsKept(t)
      /\ \A c \in Ctrl : ~Deletes(th[t], c)
      /\ th'[t].f = th[t].f \/ th'[t].f = NULL
      /\ IsOpening(th'[t]) => IsOpening(th[t]) /\ th'[t].f = th[t].f
      /\ \A g \in Group : Makes(th'[t], g) => Makes(th[t], g)
      /\ \A g \in Group : dev'[g].heap = "unused" => dev[g].heap = "unused"
  BY <1>1, UserMoves
<1>3. Creators' /\ Opening'
  BY <1>1, <1>2, CallsStep
<1>4. \A h \in Group : Members'[h] = Members[h]
  <2>1. \A p \in Pdev : PciKept(p)
    BY <1>1 DEF PciKept
  <2> QED BY <1>1, <1>2, <2>1, UserQuiet
<1>5. ASSUME NEW o \in Dev
      PROVE  Balanced(o)
  <2>1. Base(o)' = Base(o)
    <3>1. CASE o \in Ctrl
      BY <1>2, <3>1, BoundKept
    <3>2. CASE o \notin Ctrl
      BY <1>1, <3>2 DEF Base
    <3> QED BY <3>1, <3>2
  <2> DEFINE a == dev[o].ref  b == dev'[o].ref
             x == Base(o)  m == One(IsPut(th[t], o))  n == One(IsPut(th'[t], o))
             k == kept[o]  l == kept'[o]
  <2>2. a \in Nat /\ b \in Nat
    BY <1>2, HereFacts DEF Fits, ObjectsFit, DevRec
  <2>3. x \in Nat /\ m \in Nat /\ n \in Nat
    BY DEF Base, One
  <2>4. k \in Nat /\ l \in Nat
    BY <1>2, ConstantsAssumption DEF Here, TypeOK
  <2>5. b + m + k = a + n + l
    OBVIOUS
  <2> HIDE DEF a, b, x, m, n, k, l
  <2>6. b + x + m + k = a + x + n + l
    BY <2>2, <2>3, <2>4, <2>5
  <2>7. dev'[o].ref + Base(o) + One(IsPut(th[t], o)) + kept[o]
           = dev[o].ref + Base(o)' + One(IsPut(th'[t], o)) + kept'[o]
    BY <2>1, <2>6 DEF a, b, x, m, n, k, l
  <2> QED BY <1>1, <1>2, <1>4, <2>7, BalancedBy
<1>6. \A c \in Ctrl : c \in ready' <=> c \in ready
  BY <1>1
<1> QED BY <1>1, <1>2, <1>3, <1>5, <1>6, UserGood

(* An object with another count. *)
LEMMA RefSet ==
  ASSUME NEW d \in DevRec, NEW n \in Nat
  PROVE  LET e == [d EXCEPT !.ref = n]
         IN  e \in DevRec /\ e.ref = n /\ e = [d EXCEPT !.ref = e.ref]
BY DEF DevRec

(* kref_get of the object, in open, ioctl and mmap *)
LEMMA GetGood ==
  ASSUME Inv, NEW t \in Thread, OpenGet(t) \/ IoctlGet(t) \/ MmapGet(t)
  PROVE  Good(t)
<1>1. Here(t)
  BY InvHere
<1> DEFINE o == th[t].o
<1>2. PICK pc \in {"open_ctx", "ioctl_do", "ioctl_map", "mmap_do"} :
        /\ Runs(t, CASE pc = "open_ctx" -> "open_get" [] pc = "mmap_do" -> "mmap_get"
                     [] OTHER -> "ioctl_get")
        /\ Goto(t, pc)
  <2>1. CASE IoctlGet(t)
    BY <2>1 DEF IoctlGet
  <2>2. CASE OpenGet(t) \/ MmapGet(t)
    BY <2>2 DEF OpenGet, MmapGet
  <2> QED BY <2>1, <2>2
<1>3. dev' = [dev EXCEPT ![o].ref = @ + 1] /\ UNCHANGED <<kernVars, kept, file, ready, fault>>
  BY DEF OpenGet, IoctlGet, MmapGet
<1>4. /\ pc = "open_ctx" => th[t].pc = "open_get"
      /\ pc \in {"ioctl_do", "ioctl_map"} => th[t].pc = "ioctl_get"
      /\ pc = "mmap_do" => th[t].pc = "mmap_get"
      /\ o \in Dev /\ dev[o].ref > 0
  BY <1>1, <1>2, RunsFacts
<1>5. dev \in [Dev -> DevRec] /\ dev[o] \in DevRec /\ dev[o].ref \in Nat /\ LocalsOK(th[t])
  BY <1>1, <1>4, HereFacts DEF DevRec
<1> DEFINE r == [dev[o] EXCEPT !.ref = dev[o].ref + 1]
<1>6. r \in DevRec /\ r.ref = dev[o].ref + 1 /\ r = [dev[o] EXCEPT !.ref = r.ref]
  <2> DEFINE d == dev[o]  n == dev[o].ref + 1
  <2>1. d \in DevRec /\ n \in Nat /\ r = [d EXCEPT !.ref = n]
    BY <1>5
  <2> HIDE DEF d, n, r
  <2>2. LET e == [d EXCEPT !.ref = n]
        IN  e \in DevRec /\ e.ref = n /\ e = [d EXCEPT !.ref = e.ref]
    BY <2>1, RefSet
  <2>3. r \in DevRec /\ r.ref = n /\ r = [d EXCEPT !.ref = r.ref]
    BY <2>1, <2>2
  <2> QED BY <2>3 DEF d, n
<1>7. dev' = [dev EXCEPT ![o] = r]
  BY <1>3
<1> HIDE DEF r
<1>8. dev' \in [Dev -> DevRec] /\ dev'[o] = r /\ \A x \in Dev : x # o => dev'[x] = dev[x]
  BY <1>4, <1>5, <1>6, <1>7
<1>9. Counted(o)
  BY <1>4, <1>5, <1>6, <1>8 DEF Counted
<1>10. UserMove(t, pc)
  <2>1. OnlyRefs
    BY <1>8, <1>9 DEF OnlyRefs
  <2> QED BY <1>2, <1>4, <1>8, <2>1 DEF UserMove, UserPc
<1>11. th[t].op # "delete" /\ th'[t].pc = pc /\ th'[t].o = o /\ th'[t].op = th[t].op
  <2>1. pc \in Pc /\ pc # "idle"
    BY <1>2 DEF Pc
  <2> QED BY <1>1, <1>2, <1>3, <1>10, <2>1, UserMoves, GotoFacts DEF kernVars
<1>12. kept \in [Dev -> Nat] /\ kept' = kept
  BY <1>1, <1>3, ConstantsAssumption DEF Here, TypeOK
<1>13. ASSUME NEW x \in Dev
       PROVE  dev'[x].ref + One(IsPut(th[t], x)) + kept[x]
                = dev[x].ref + One(IsPut(th'[t], x)) + kept'[x]
  <2>1. dev[x].ref \in Nat /\ kept[x] \in Nat /\ kept'[x] = kept[x]
    BY <1>5, <1>12 DEF DevRec
  <2>2. CASE x = o
    <3>1. ~IsPut(th[t], x)
      BY <1>2, <1>4 DEF IsPut
    <3>2. IsPut(th'[t], x)
      BY <1>2, <1>4, <1>5, <1>11, <2>2 DEF IsPut, LocalsOK
    <3>3. One(IsPut(th[t], x)) = 0 /\ One(IsPut(th'[t], x)) = 1
      BY <3>1, <3>2 DEF One
    <3> QED BY <1>6, <1>8, <2>1, <2>2, <3>3
  <2>3. CASE x # o
    <3>1. ~IsPut(th[t], x) /\ ~IsPut(th'[t], x)
      BY <1>11, <2>3 DEF IsPut
    <3>2. One(IsPut(th[t], x)) = 0 /\ One(IsPut(th'[t], x)) = 0
      BY <3>1 DEF One
    <3> QED BY <1>8, <2>1, <2>3, <3>2
  <2> QED BY <2>2, <2>3
<1>14. UNCHANGED <<kernVars, file, ready, fault>>
  BY <1>3 DEF kernVars
<1> QED BY <1>10, <1>12, <1>13, <1>14, MoveGood

(* The call goes on to put its reference. *)
LEMMA GoPutGood ==
  ASSUME Inv, NEW t \in Thread, OpenFails(t) \/ IoctlDone(t) \/ IoctlMapFails(t) \/ CreateCopyFails(t)
  PROVE  Good(t)
<1>1. Here(t)
  BY InvHere
<1>2. /\ th[t].pc \in {"open_ctx", "ioctl_do", "ioctl_map", "create_copy"} /\ Goto(t, "put")
      /\ UNCHANGED <<kernVars, file, ready, fault>> /\ dev' = dev /\ kept' = kept
  BY DEF OpenFails, IoctlDone, IoctlMapFails, CreateCopyFails, Runs, At
<1>3. dev \in [Dev -> DevRec] /\ kept \in [Dev -> Nat]
  <2>1. kept \in [Dev -> Nat]
    BY <1>1, ConstantsAssumption DEF Here, TypeOK
  <2> QED BY <1>1, <2>1, HereFacts
<1>4. UserMove(t, "put")
  <2>1. OnlyRefs
    BY <1>2 DEF OnlyRefs
  <2> QED BY <1>2, <1>3, <2>1 DEF UserMove, UserPc
<1>5. th'[t].pc = "put" /\ th'[t].o = th[t].o /\ th'[t].op = th[t].op
  <2>1. "put" \in Pc
    BY DEF Pc
  <2> QED BY <1>1, <1>2, <2>1, GotoFacts
<1>6. ASSUME NEW x \in Dev
      PROVE  dev'[x].ref + One(IsPut(th[t], x)) + kept[x]
                = dev[x].ref + One(IsPut(th'[t], x)) + kept'[x]
  <2>1. IsPut(th'[t], x) <=> IsPut(th[t], x)
    BY <1>2, <1>5 DEF IsPut
  <2>2. One(IsPut(th'[t], x)) = One(IsPut(th[t], x))
    BY <2>1 DEF One
  <2> QED BY <1>2, <2>2
<1> QED BY <1>2, <1>3, <1>4, <1>6, MoveGood

(* Idle threads have nothing to put. *)
LEMMA IdlePuts ==
  ASSUME NEW o
  PROVE  ~IsPut(Idle, o) /\ One(IsPut(Idle, o)) = 0
BY DEF IsPut, Idle, One

(* A failing REG_MEM leaves its reference behind. *)
LEMMA RegFailsGood ==
  ASSUME Inv, NEW t \in Thread, IoctlRegFails(t)
  PROVE  Good(t)
<1>1. Here(t)
  BY InvHere
<1> DEFINE o == th[t].o
<1>2. /\ th[t].pc = "ioctl_do" /\ Return(t) /\ dev' = dev
      /\ UNCHANGED <<kernVars, file, ready, fault>>
      /\ kept' = [kept EXCEPT ![o] = @ + 1]
  BY DEF IoctlRegFails, Runs, At, kernVars
<1>3. dev \in [Dev -> DevRec] /\ LocalsOK(th[t]) /\ th'[t] = Idle
  BY <1>1, <1>2, HereFacts, ReturnFits
<1>4. UserMove(t, "put")
  <2>1. OnlyRefs
    BY <1>2 DEF OnlyRefs
  <2> QED BY <1>2, <1>3, <2>1 DEF UserMove, UserPc
<1>5. o \in Dev /\ th[t].op # "delete"
  BY <1>2, <1>3 DEF LocalsOK
<1>6. kept \in [Dev -> Nat]
  BY <1>1, ConstantsAssumption DEF Here, TypeOK
<1>7. kept' \in [Dev -> Nat] /\ kept'[o] = kept[o] + 1 /\ \A x \in Dev : x # o => kept'[x] = kept[x]
  BY <1>2, <1>5, <1>6
<1>8. ASSUME NEW x \in Dev
      PROVE  dev'[x].ref + One(IsPut(th[t], x)) + kept[x]
                = dev[x].ref + One(IsPut(th'[t], x)) + kept'[x]
  <2>1. dev[x].ref \in Nat /\ kept[x] \in Nat /\ dev'[x] = dev[x]
    BY <1>2, <1>3, <1>6 DEF DevRec
  <2>2. One(IsPut(th'[t], x)) = 0
    BY <1>3, IdlePuts
  <2>3. CASE x = o
    <3>1. IsPut(th[t], x)
      BY <1>2, <1>5, <2>3 DEF IsPut
    <3>2. One(IsPut(th[t], x)) = 1
      BY <3>1 DEF One
    <3> QED BY <1>7, <2>1, <2>2, <2>3, <3>2
  <2>4. CASE x # o
    <3>1. ~IsPut(th[t], x)
      BY <2>4 DEF IsPut
    <3>2. One(IsPut(th[t], x)) = 0
      BY <3>1 DEF One
    <3> QED BY <1>7, <2>1, <2>2, <2>4, <3>2
  <2> QED BY <2>3, <2>4
<1> QED BY <1>2, <1>4, <1>7, <1>8, MoveGood

(* The count of what is not in the list *)
LEMMA CountNone ==
  ASSUME NEW s, NEW c, \A i \in DOMAIN s : s[i] # c
  PROVE  Count(s, c) = 0
<1>1. {i \in DOMAIN s : s[i] = c} = {}
  OBVIOUS
<1> QED BY <1>1, FS_EmptySet DEF Count

(* References that outlive the call: the controllers cs are in use. *)
LEMMA KeepGood ==
  ASSUME Inv, NEW t \in Thread, NEW cs \in Seq(Ctrl), Keep(cs),
         \A i \in DOMAIN cs : dev[cs[i]].ref > 0,
         th[t].pc \in UserPc \ {"put", "ret"}, Return(t) \/ Goto(t, "put"),
         UNCHANGED <<kernVars, file, ready, fault>>,
         \A x \in Dev : IsPut(th[t], x) <=> IsPut(th'[t], x)
  PROVE  Good(t)
<1>1. Here(t) /\ dev \in [Dev -> DevRec]
  BY InvHere, HereFacts
<1>2. kept \in [Dev -> Nat]
  BY <1>1, ConstantsAssumption DEF Here, TypeOK
<1>3. \A i \in DOMAIN cs : cs[i] \in Dev
  BY Consts
<1>4. kept' = [o \in Dev |-> kept[o] + Count(cs, o)]
      /\ dev' = [o \in Dev |-> [dev[o] EXCEPT !.ref = @ + Count(cs, o)]]
  BY DEF Keep
<1>5. ASSUME NEW o \in Dev
      PROVE  /\ Count(cs, o) \in Nat /\ kept'[o] = kept[o] + Count(cs, o) /\ kept'[o] \in Nat
             /\ dev'[o] \in DevRec /\ dev'[o].ref = dev[o].ref + Count(cs, o)
             /\ dev'[o] = dev[o] \/ Counted(o)
  <2> DEFINE d == dev[o]  m == Count(cs, o)  n == dev[o].ref + Count(cs, o)
             e == [d EXCEPT !.ref = n]
  <2>1. m \in Nat
    BY PlacesCount
  <2>2. d \in DevRec /\ d.ref \in Nat /\ n \in Nat /\ n = d.ref + m /\ dev'[o] = e /\ d = dev[o]
        /\ n = dev[o].ref + Count(cs, o)
    BY <1>1, <1>4, <2>1 DEF DevRec
  <2>3. kept'[o] = kept[o] + m /\ kept'[o] \in Nat
    BY <1>2, <1>4, <2>1
  <2>4. m # 0 => dev[o].ref > 0
    BY <1>3, CountNone
  <2>5. m = Count(cs, o)
    OBVIOUS
  <2> HIDE DEF d, m, n
  <2>6. e \in DevRec /\ e.ref = n /\ e = [d EXCEPT !.ref = e.ref]
    BY <2>2, RefSet
  <2>7. m = 0 => e = d
    <3>1. m = 0 => n = d.ref
      BY <2>2
    <3>2. d = [d EXCEPT !.ref = d.ref]
      BY <2>2 DEF DevRec
    <3> QED BY <3>1, <3>2
  <2> HIDE DEF e
  <2>8. m # 0 => Counted(o)
    BY <2>1, <2>2, <2>4, <2>6 DEF Counted
  <2> QED BY <2>1, <2>2, <2>3, <2>5, <2>6, <2>7, <2>8
<1>6. UserMove(t, "put")
  <2>1. OnlyRefs
    BY <1>5 DEF OnlyRefs
  <2>2. dev' \in [Dev -> DevRec]
    BY <1>4, <1>5
  <2> QED BY <2>1, <2>2 DEF UserMove, UserPc
<1>7. kept' \in [Dev -> Nat]
  BY <1>4, <1>5
<1>8. ASSUME NEW x \in Dev
      PROVE  dev'[x].ref + One(IsPut(th[t], x)) + kept[x]
                = dev[x].ref + One(IsPut(th'[t], x)) + kept'[x]
  <2>1. dev[x].ref \in Nat /\ kept[x] \in Nat
    BY <1>1, <1>2 DEF DevRec
  <2>2. One(IsPut(th[t], x)) = One(IsPut(th'[t], x)) /\ One(IsPut(th[t], x)) \in Nat
    BY DEF One
  <2>3. /\ Count(cs, x) \in Nat /\ kept'[x] = kept[x] + Count(cs, x)
        /\ dev'[x].ref = dev[x].ref + Count(cs, x)
    BY <1>5
  <2> QED BY <2>1, <2>2, <2>3
<1> QED BY <1>6, <1>7, <1>8, MoveGood

(* mmap of a controller's BAR 0 *)
LEMMA MmapCtrlGood ==
  ASSUME Inv, NEW t \in Thread, MmapCtrl(t)
  PROVE  Good(t)
<1>1. Here(t)
  BY InvHere
<1> DEFINE o == th[t].o
<1>2. /\ Runs(t, "mmap_do") /\ th[t].pc = "mmap_do" /\ Return(t)
      /\ UNCHANGED <<kernVars, file, ready, fault>> /\ o \in Ctrl
      /\ Keep(<<o>>) \/ (dev' = dev /\ kept' = kept)
  BY DEF MmapCtrl, Runs, At, kernVars
<1>3. dev \in [Dev -> DevRec] /\ LocalsOK(th[t]) /\ th'[t] = Idle /\ dev[o].ref > 0 /\ o \in Dev
  BY <1>1, <1>2, HereFacts, ReturnFits, RunsFacts, Consts
<1>4. kept \in [Dev -> Nat] /\ "mmap_do" \in UserPc \ {"put", "ret"}
  BY <1>1, ConstantsAssumption DEF Here, TypeOK, UserPc
<1>5. \A x \in Dev : ~IsPut(th[t], x) /\ ~IsPut(th'[t], x)
  <2>1. \A x \in Dev : ~IsPut(th[t], x)
    BY <1>2, Consts DEF IsPut
  <2> QED BY <1>3, <2>1, IdlePuts
<1>6. CASE dev' = dev /\ kept' = kept
  <2>1. UserMove(t, "put")
    <3>1. OnlyRefs
      BY <1>6 DEF OnlyRefs
    <3> QED BY <1>2, <1>3, <1>6, <3>1 DEF UserMove, UserPc
  <2>2. \A x \in Dev : dev'[x].ref + One(IsPut(th[t], x)) + kept[x]
                = dev[x].ref + One(IsPut(th'[t], x)) + kept'[x]
    BY <1>5, <1>6 DEF One
  <2> QED BY <1>2, <1>4, <1>6, <2>1, <2>2, MoveGood
<1>7. CASE Keep(<<o>>)
  <2>1. <<o>> \in Seq(Ctrl) /\ \A i \in DOMAIN <<o>> : <<o>>[i] = o
    BY <1>2
  <2> QED BY <1>2, <1>3, <1>4, <1>5, <1>7, <2>1, KeepGood
<1> QED BY <1>2, <1>6, <1>7

(* A group that is in use has the members it was made of. *)
LEMMA UsedMembers ==
  ASSUME Inv, NEW g \in Group, dev[g].ref > 0
  PROVE  Members[g] = dev[g].ctrls /\ dev[g].ctrls \in Seq(Ctrl)
<1>1. Shape
  BY DEF Inv, TypeOK, Shape, ThreadRec, DevRec
<1>2. MembersAre
  BY <1>1, MembersFacts
<1>3. dev[g].heap = "live"
  BY Consts DEF Inv, Objects, ObjectOK
<1>4. ASSUME NEW u \in Thread
      PROVE  ~Undoes(th[u], g)
  <2>1. GroupOf(th[u]) = g => dev[g].ref = 0
    BY Consts DEF Inv, Stages, GroupStage
  <2> QED BY <2>1 DEF Undoes
<1> QED BY <1>2, <1>3, <1>4, Consts DEF MembersAre

(* mmap of the first controllers of a group *)
LEMMA MmapGroupGood ==
  ASSUME Inv, NEW t \in Thread, MmapGroup(t)
  PROVE  Good(t)
<1>1. Here(t)
  BY InvHere
<1> DEFINE g == th[t].o
           s == dev[g].ctrls
<1>2. PICK k \in 0 .. Len(s) : Keep(SubSeq(s, 1, k))
  BY DEF MmapGroup
<1>3. /\ Runs(t, "mmap_do") /\ th[t].pc = "mmap_do" /\ Goto(t, "put") /\ g \in Group
      /\ UNCHANGED <<kernVars, file, ready, fault>>
  BY DEF MmapGroup, Runs, At, kernVars
<1>4. LocalsOK(th[t]) /\ dev[g].ref > 0 /\ g \in Dev /\ "mmap_do" \in UserPc \ {"put", "ret"}
  BY <1>1, <1>3, HereFacts, RunsFacts, Consts DEF UserPc
<1>5. Members[g] = s /\ s \in Seq(Ctrl)
  BY <1>3, <1>4, UsedMembers
<1> DEFINE cs == SubSeq(s, 1, k)
<1>6. cs \in Seq(Ctrl) /\ \A i \in DOMAIN cs : i \in DOMAIN s /\ cs[i] = s[i]
  BY <1>5
<1>7. \A i \in DOMAIN cs : dev[cs[i]].ref > 0
  <2>1. \A i \in DOMAIN Members[g] : dev[Members[g][i]].ref > 0
    BY <1>3, MemberInUse
  <2> QED BY <1>5, <1>6, <2>1
<1> HIDE DEF cs
<1>8. th'[t].pc = "put" /\ th'[t].o = g /\ th'[t].op = th[t].op
  <2>1. "put" \in Pc
    BY DEF Pc
  <2> QED BY <1>1, <1>3, <2>1, GotoFacts
<1>9. \A x \in Dev : IsPut(th[t], x) <=> IsPut(th'[t], x)
  BY <1>3, <1>8 DEF IsPut
<1>10. Keep(cs)
  BY <1>2 DEF cs
<1> QED BY <1>3, <1>4, <1>6, <1>7, <1>9, <1>10, KeepGood

(* The controllers behind an open file are in use. *)
LEMMA BehindInUse ==
  ASSUME Inv, NEW o \in Dev, dev[o].ref > 0
  PROVE  Behind(o) \in Seq(Ctrl) /\ \A i \in DOMAIN Behind(o) : dev[Behind(o)[i]].ref > 0
<1>1. CASE o \in Ctrl
  <2>1. Behind(o) = <<o>> /\ <<o>> \in Seq(Ctrl) /\ \A i \in DOMAIN <<o>> : <<o>>[i] = o
    BY <1>1 DEF Behind
  <2> QED BY <2>1
<1>2. CASE o \in Group
  <2>1. Behind(o) = dev[o].ctrls
    BY <1>2, Consts DEF Behind
  <2>2. Members[o] = dev[o].ctrls /\ dev[o].ctrls \in Seq(Ctrl)
    BY <1>2, UsedMembers
  <2>3. \A i \in DOMAIN Members[o] : dev[Members[o][i]].ref > 0
    BY <1>2, MemberInUse
  <2> QED BY <2>1, <2>2, <2>3
<1> QED BY <1>1, <1>2 DEF Dev

(* DMA_MAP_MEM leaves its mappings. *)
LEMMA IoctlMapsGood ==
  ASSUME Inv, NEW t \in Thread, IoctlMaps(t)
  PROVE  Good(t)
<1>1. Here(t)
  BY InvHere
<1> DEFINE o == th[t].o
           cs == Behind(o)
<1>2. /\ Runs(t, "ioctl_map") /\ th[t].pc = "ioctl_map" /\ Goto(t, "put") /\ Keep(cs)
      /\ UNCHANGED <<kernVars, file, ready, fault>>
  BY DEF IoctlMaps, Runs, At, kernVars
<1>3. dev[o].ref > 0 /\ o \in Dev /\ "ioctl_map" \in UserPc \ {"put", "ret"}
  BY <1>1, <1>2, RunsFacts DEF UserPc
<1>4. cs \in Seq(Ctrl) /\ \A i \in DOMAIN cs : dev[cs[i]].ref > 0
  BY <1>3, BehindInUse
<1> HIDE DEF cs
<1>5. th'[t].pc = "put" /\ th'[t].o = o /\ th'[t].op = th[t].op
  <2>1. "put" \in Pc
    BY DEF Pc
  <2> QED BY <1>1, <1>2, <2>1, GotoFacts
<1>6. \A x \in Dev : IsPut(th[t], x) <=> IsPut(th'[t], x)
  BY <1>2, <1>5 DEF IsPut
<1> QED BY <1>2, <1>3, <1>4, <1>6, KeepGood

(* The file refers to the object: the reference of the call is the file's. *)
LEMMA OpenDoneGood ==
  ASSUME Inv, NEW t \in Thread, OpenDone(t)
  PROVE  Good(t)
<1> DEFINE o == th[t].o  f == th[t].f
<1>1. /\ th[t].pc = "open_ctx" /\ Return(t) /\ dev' = dev /\ pci' = pci /\ minors' = minors
      /\ coreRef' = coreRef /\ found' = found /\ kept' = kept /\ ready' = ready
      /\ file' = [file EXCEPT ![f] = o]
  BY DEF OpenDone, Runs, At, kernVars
<1>2. Here(t) /\ Opening
  BY InvHere
<1>3. /\ dev \in [Dev -> DevRec] /\ LocalsOK(th[t]) /\ th[t] \in ThreadRec /\ th'[t] = Idle
  BY <1>1, <1>2, HereFacts, ReturnFits
<1>4. UserMove(t, "put")
  <2>1. OnlyRefs
    BY <1>1 DEF OnlyRefs
  <2> QED BY <1>1, <1>3, <2>1 DEF UserMove, UserPc
<1>5. /\ Fits(t) /\ OnlyUses(t) /\ OnlyRefs /\ BindingsKept(t)
      /\ th[t].op # "delete" /\ o \in Dev
      /\ \A c \in Ctrl : ~Deletes(th[t], c)
      /\ th'[t].f = th[t].f \/ th'[t].f = NULL
      /\ \A g \in Group : Makes(th'[t], g) => Makes(th[t], g)
      /\ \A g \in Group : dev'[g].heap = "unused" => dev[g].heap = "unused"
  BY <1>1, <1>4, UserMoves
<1>6. f \in File /\ file[f] = NULL /\ file \in [File -> Dev \cup {NULL}]
  <2>1. f \in File
    BY <1>1, <1>3 DEF LocalsOK, ThreadRec
  <2>2. file[f] = NULL
    BY <1>1, <1>2 DEF Opening, IsOpening
  <2> QED BY <1>2, <2>1, <2>2 DEF Here, TypeOK
<1>7. file'[f] = o /\ \A h \in File : h # f => file'[h] = file[h]
  BY <1>1, <1>6
<1>8. ~IsOpening(th'[t])
  BY <1>3 DEF IsOpening, Idle
<1>9. Creators' /\ Opening'
  BY <1>1, <1>5, <1>7, <1>8, CallsStep
<1>10. \A h \in Group : Members'[h] = Members[h]
  <2>1. \A p \in Pdev : PciKept(p)
    BY <1>1 DEF PciKept
  <2> QED BY <1>1, <1>5, <2>1, UserQuiet
<1>11. ASSUME NEW x \in Dev
       PROVE  Balanced(x)
  <2>1. Base(x)' = Base(x)
    <3>1. CASE x \in Ctrl
      BY <1>2, <1>5, <3>1, BoundKept
    <3>2. CASE x \notin Ctrl
      BY <1>1, <3>2 DEF Base
    <3> QED BY <3>1, <3>2
  <2>2. /\ Uses(x) \in Nat /\ Uses(x)' \in Nat
        /\ Uses(x)' + Base(x) + One(IsPut(th[t], x)) + One(file[f] = x)
              = Uses(x) + Base(x)' + One(IsPut(th'[t], x)) + One(file'[f] = x)
    <3>1. f \in File /\ \A h \in File : h # f => file'[h] = file[h]
      BY <1>6, <1>7
    <3> HIDE DEF f
    <3> QED BY <1>1, <1>2, <1>5, <1>10, <3>1, UsesFile
  <2>3. Base(x) \in Nat
    BY DEF Base, One
  <2>4. One(IsPut(th'[t], x)) = 0 /\ One(file[f] = x) = 0
    <3>1. file[f] # x
      BY <1>6, Consts
    <3>2. One(file[f] = x) = 0
      BY <3>1 DEF One
    <3> QED BY <1>3, <3>2, IdlePuts
  <2>5. One(IsPut(th[t], x)) = One(file'[f] = x) /\ One(file'[f] = x) \in Nat
    <3>1. IsPut(th[t], x) <=> file'[f] = x
      BY <1>1, <1>5, <1>7 DEF IsPut
    <3> QED BY <3>1 DEF One
  <2> DEFINE u == Uses(x)  v == Uses(x)'  b == Base(x)  m == One(IsPut(th[t], x))
  <2>6. u \in Nat /\ v \in Nat /\ b \in Nat /\ m \in Nat /\ v + b + m + 0 = u + b + 0 + m
    BY <2>1, <2>2, <2>3, <2>4, <2>5
  <2> HIDE DEF u, v, b, m
  <2>7. u = v
    BY <2>6
  <2> QED BY <1>1, <2>7 DEF u, v, Balanced
<1>12. kept' \in [Dev -> Nat]
  BY <1>1, <1>2, ConstantsAssumption DEF Here, TypeOK
<1> QED BY <1>1, <1>5, <1>9, <1>11, <1>12, UserGood

(* The new group is announced: the reference of the call is the group's.   *)
LEMMA CreateCopyGood ==
  ASSUME Inv, NEW t \in Thread, CreateCopy(t)
  PROVE  Good(t)
<1> DEFINE g == th[t].o
<1>1. /\ th[t].pc = "create_copy" /\ Return(t) /\ dev' = dev /\ pci' = pci /\ minors' = minors
      /\ coreRef' = coreRef /\ found' = found /\ kept' = kept /\ file' = file
      /\ ready' = ready \cup {g}
  BY DEF CreateCopy, Runs, At, kernVars
<1>2. Here(t) /\ Creators
  BY InvHere
<1>3. /\ dev \in [Dev -> DevRec] /\ LocalsOK(th[t]) /\ th[t] \in ThreadRec /\ th'[t] = Idle
  BY <1>1, <1>2, HereFacts, ReturnFits
<1>4. UserMove(t, "put")
  <2>1. OnlyRefs
    BY <1>1 DEF OnlyRefs
  <2> QED BY <1>1, <1>3, <2>1 DEF UserMove, UserPc
<1>5. /\ Fits(t) /\ OnlyUses(t) /\ OnlyRefs /\ BindingsKept(t)
      /\ th[t].op # "delete" /\ g \in Dev
      /\ \A c \in Ctrl : ~Deletes(th[t], c)
      /\ th'[t].f = th[t].f \/ th'[t].f = NULL
      /\ \A h \in Group : Makes(th'[t], h) => Makes(th[t], h)
      /\ \A h \in Group : dev'[h].heap = "unused" => dev[h].heap = "unused"
  BY <1>1, <1>4, UserMoves
<1>6. g \in Group /\ Makes(th[t], g) /\ ~Makes(th'[t], g) /\ g \notin ready /\ g \notin Ctrl
  <2>1. g \in Group /\ th[t].op = "create"
    BY <1>1, <1>3 DEF LocalsOK
  <2>2. Makes(th[t], g)
    BY <2>1 DEF Makes
  <2>3. ~Makes(th'[t], g)
    BY <1>3 DEF Makes, Idle
  <2> QED BY <1>2, <2>1, <2>2, <2>3, Consts DEF Creators
<1>7. ~IsOpening(th'[t])
  BY <1>3 DEF IsOpening, Idle
<1>8. Creators' /\ Opening'
  BY <1>1, <1>5, <1>6, <1>7, CallsStep
<1>9. \A h \in Group : Members'[h] = Members[h]
  <2>1. \A p \in Pdev : PciKept(p)
    BY <1>1 DEF PciKept
  <2> QED BY <1>1, <1>5, <2>1, UserQuiet
<1>10. kept' \in [Dev -> Nat]
  BY <1>1, <1>2, ConstantsAssumption DEF Here, TypeOK
<1>11. ASSUME NEW x \in Dev
       PROVE  Balanced(x)
  <2>1. One(IsPut(th'[t], x)) = 0
    BY <1>3, IdlePuts
  <2>2. dev[x].ref \in Nat /\ dev'[x] = dev[x] /\ kept[x] \in Nat /\ kept'[x] = kept[x]
    BY <1>1, <1>3, <1>10 DEF DevRec
  <2>3. CASE x = g
    <3>1. Base(x) = 0 /\ Base(x)' = 1
      BY <1>1, <1>6, <2>3 DEF Base, One
    <3>2. IsPut(th[t], x)
      BY <1>1, <1>5, <2>3 DEF IsPut
    <3>3. One(IsPut(th[t], x)) = 1
      BY <3>2 DEF One
    <3>4. dev'[x].ref + Base(x) + One(IsPut(th[t], x)) + kept[x]
           = dev[x].ref + Base(x)' + One(IsPut(th'[t], x)) + kept'[x]
      BY <2>1, <2>2, <3>1, <3>3
    <3> QED BY <1>1, <1>2, <1>5, <1>9, <1>10, <3>4, BalancedBy
  <2>4. CASE x # g
    <3>1. Base(x)' = Base(x)
      <4>1. CASE x \in Ctrl
        BY <1>2, <1>5, <4>1, BoundKept
      <4>2. CASE x \notin Ctrl
        BY <1>1, <2>4, <4>2 DEF Base
      <4> QED BY <4>1, <4>2
    <3>2. ~IsPut(th[t], x)
      BY <2>4 DEF IsPut
    <3>3. One(IsPut(th[t], x)) = 0
      BY <3>2 DEF One
    <3>4. dev'[x].ref + Base(x) + One(IsPut(th[t], x)) + kept[x]
           = dev[x].ref + Base(x)' + One(IsPut(th'[t], x)) + kept'[x]
      BY <2>1, <2>2, <3>1, <3>3
    <3> QED BY <1>1, <1>2, <1>5, <1>9, <1>10, <3>4, BalancedBy
  <2> QED BY <2>3, <2>4
<1>12. \A c \in Ctrl : c \in ready' <=> c \in ready
  BY <1>1, <1>6
<1> QED BY <1>1, <1>5, <1>8, <1>10, <1>11, <1>12, UserGood

(* Where a thread makes and takes down nothing. *)
LEMMA UserAt ==
  ASSUME NEW t, Here(t), Fits(t), th[t].pc \in UserPc \cup {"idle"}, th'[t].pc \in UserPc \cup {"idle"}
  PROVE  OnlyUses(t)
<1>1. Frames1(th[t]) /\ Frames1(th'[t])
  BY ThreadFrames, NextFrames DEF Here, Fits
<1>2. \A x \in UserPc \cup {"idle"} : x \notin GroupPc \cup RelPc /\ x \notin CtrlPc
  BY DEF UserPc, GroupPc, RelPc, CtrlPc, CreatePc, RelgPc, ProbePc
<1> QED BY <1>1, <1>2 DEF OnlyUses, Frames1

----------------------------------------------------------------------------
(* Probe and remove of one function. *)

(* Thread t is the only one at function p, and changes its binding only. *)
Binds(t, p) ==
  /\ p \in Pdev
  /\ \A q \in Pdev : q # p => pci'[q].bound = pci[q].bound /\ pci'[q].drv = pci[q].drv
  /\ \A u \in Thread : u # t => th[u].p # p
  /\ th[t].p \in {p, NULL} /\ th'[t].p \in {p, NULL}
  /\ \A c \in Ctrl : dev[c].pdev # NULL => dev'[c].pdev = dev[c].pdev
  /\ \A c \in Ctrl : ~Deletes(th[t], c)

(* The binding of p after the step. *)
BindingOK(t, p) ==
  /\ th'[t].op = "probe" => ~pci'[p].bound /\ pci'[p].drv = th'[t].o
  /\ th'[t].op = "remove" => pci'[p].bound /\ (th'[t].pc = "put" => pci'[p].drv = th'[t].o)
  /\ pci'[p].bound => pci'[p].drv \in Ctrl /\ dev'[pci'[p].drv].pdev = p
  /\ th'[t].p # p => IF pci'[p].bound THEN pci'[p].drv \in ready' ELSE pci'[p].drv = NULL

(* Only the calls of thread t on function p change. *)
LEMMA BindsFacts ==
  ASSUME NEW t, Here(t), Fits(t), NEW p, Binds(t, p)
  PROVE  /\ \A u \in Thread : u # t => th'[u] = th[u]
         /\ PciIdle(p) <=> th[t].p # p
         /\ PciIdle(p)' <=> th'[t].p # p
         /\ \A q \in Pdev : q # p => (PciIdle(q)' <=> PciIdle(q))
         /\ t \in Thread
<1>1. /\ \A u \in Thread : u # t => th'[u] = th[u]
      /\ t \in Thread
  BY DEF Fits, ThreadFits, Here
<1>2. PciIdle(p) <=> th[t].p # p
  BY <1>1 DEF PciIdle, Binds
<1>3. PciIdle(p)' <=> th'[t].p # p
  BY <1>1 DEF PciIdle, Binds
<1>4. ASSUME NEW q \in Pdev, q # p
      PROVE  PciIdle(q)' <=> PciIdle(q)
  <2>1. th[t].p # q /\ th'[t].p # q
    BY <1>4, Consts DEF Binds
  <2> QED BY <1>1, <2>1 DEF PciIdle
<1> QED BY <1>1, <1>2, <1>3, <1>4

(* A step on the binding of one function keeps the bindings. *)
LEMMA DriverStep ==
  ASSUME NEW t, Here(t), Fits(t), Driver, NEW p, Binds(t, p), BindingOK(t, p),
         \A c \in ready \cap Ctrl : c \in ready' \/ dev[c].pdev = p
  PROVE  Driver'
<1>1. /\ \A u \in Thread : u # t => th'[u] = th[u]
      /\ PciIdle(p) <=> th[t].p # p
      /\ PciIdle(p)' <=> th'[t].p # p
      /\ \A q \in Pdev : q # p => (PciIdle(q)' <=> PciIdle(q))
      /\ t \in Thread
  BY BindsFacts
<1>2. \A u \in Thread : /\ th[u] \in ThreadRec /\ th'[u] \in ThreadRec
                        /\ LocalsOK(th[u]) /\ LocalsOK(th'[u])
  BY <1>1 DEF Here, Fits, ThreadFits, Threads, TypeOK, ThreadRec
<1>3. \A u, v \in Thread : th'[u].p # NULL /\ th'[u].p = th'[v].p => u = v
  <2>1. \A u \in Thread : u # t => th'[u].p # p
    BY <1>1 DEF Binds
  <2>2. \A u, v \in Thread : th[u].p # NULL /\ th[u].p = th[v].p => u = v
    BY DEF Driver
  <2> QED BY <1>1, <2>1, <2>2 DEF Binds
<1>4. ASSUME NEW u \in Thread
      PROVE  /\ th'[u].op = "probe" => ~pci'[th'[u].p].bound /\ pci'[th'[u].p].drv = th'[u].o
             /\ th'[u].op = "remove" => /\ pci'[th'[u].p].bound
                                        /\ th'[u].pc = "put" => pci'[th'[u].p].drv = th'[u].o
  <2>1. CASE u = t
    <3>1. th'[t].op \in {"probe", "remove"} => th'[t].p = p
      BY <1>1, <1>2 DEF LocalsOK, Binds
    <3> QED BY <2>1, <3>1 DEF BindingOK
  <2>2. CASE u # t
    <3>1. th'[u] = th[u] /\ th[u].p # p
      BY <1>1, <2>2 DEF Binds
    <3>2. th[u].op \in {"probe", "remove"} => th[u].p \in Pdev
      BY <1>2 DEF LocalsOK, ThreadRec
    <3>3. /\ th[u].op = "probe" => ~pci[th[u].p].bound /\ pci[th[u].p].drv = th[u].o
          /\ th[u].op = "remove" => /\ pci[th[u].p].bound
                                    /\ th[u].pc = "put" => pci[th[u].p].drv = th[u].o
      BY DEF Driver, At
    <3>4. th[u].op \in {"probe", "remove"} =>
            pci'[th[u].p].bound = pci[th[u].p].bound /\ pci'[th[u].p].drv = pci[th[u].p].drv
      BY <3>1, <3>2 DEF Binds
    <3>5. /\ th[u].op = "probe" => ~pci'[th[u].p].bound /\ pci'[th[u].p].drv = th[u].o
          /\ th[u].op = "remove" => /\ pci'[th[u].p].bound
                                    /\ th[u].pc = "put" => pci'[th[u].p].drv = th[u].o
      BY <3>3, <3>4
    <3> QED BY <3>1, <3>5
  <2> QED BY <2>1, <2>2
<1>5. ASSUME NEW q \in Pdev
      PROVE  /\ pci'[q].bound => pci'[q].drv # NULL /\ dev'[pci'[q].drv].pdev = q
             /\ ~pci'[q].bound /\ PciIdle(q)' => pci'[q].drv = NULL
             /\ pci'[q].bound /\ PciIdle(q)' =>
                  \/ pci'[q].drv \in ready'
                  \/ \E u \in Thread : /\ th'[u].op = "delete" /\ th'[u].pc = "put"
                                       /\ th'[u].o = pci'[q].drv
  <2>1. CASE q = p
    BY <1>1, <2>1, Consts DEF BindingOK
  <2>2. CASE q # p
    <3>1. pci'[q].bound = pci[q].bound /\ pci'[q].drv = pci[q].drv /\ (PciIdle(q)' <=> PciIdle(q))
      BY <1>1, <2>2 DEF Binds
    <3>2. pci[q].drv \in Ctrl \cup {NULL}
      BY DEF Here, TypeOK
    <3>3. /\ pci[q].bound => pci[q].drv # NULL /\ dev[pci[q].drv].pdev = q
          /\ ~pci[q].bound /\ PciIdle(q) => pci[q].drv = NULL
          /\ pci[q].bound /\ PciIdle(q) =>
               \/ pci[q].drv \in ready
               \/ \E u \in Thread : Deletes(th[u], pci[q].drv)
      BY DEF Driver, At, Deletes
    <3>4. pci[q].bound => dev'[pci[q].drv].pdev = q
      BY <3>2, <3>3, Consts DEF Binds
    <3>5. pci[q].bound /\ pci[q].drv \in ready => pci[q].drv \in ready'
      BY <2>2, <3>2, <3>3
    <3>6. \A u \in Thread : pci[q].bound /\ Deletes(th[u], pci[q].drv) => Deletes(th'[u], pci[q].drv)
      BY <1>1, <3>2, <3>3 DEF Binds
    <3> QED BY <3>1, <3>3, <3>4, <3>5, <3>6 DEF Deletes
  <2> QED BY <2>1, <2>2
<1> QED BY <1>3, <1>4, <1>5 DEF Driver, At

(* Whether the binding of p is a reference on c. *)
BoundBy(t, p, c) == pci[p].bound /\ pci[p].drv = c /\ th[t].p # p

(* Which controllers are bound after a step on function p *)
LEMMA BoundStep ==
  ASSUME NEW t, Here(t), Fits(t), Driver, NEW p, Binds(t, p), Driver', NEW c \in Ctrl
  PROVE  /\ (BoundBy(t, p, c) <=> BoundBy(t, p, c)') => (Bound(c) <=> Bound(c)')
         /\ dev[c].pdev = p /\ dev'[c].pdev = p =>
              (Bound(c) <=> BoundBy(t, p, c)) /\ (Bound(c)' <=> BoundBy(t, p, c)')
<1>1. /\ PciIdle(p) <=> th[t].p # p
      /\ PciIdle(p)' <=> th'[t].p # p
      /\ \A q \in Pdev : q # p => (PciIdle(q)' <=> PciIdle(q))
  BY BindsFacts
<1>2. p \in Pdev /\ \A q \in Pdev : q # p => pci'[q].bound = pci[q].bound /\ pci'[q].drv = pci[q].drv
  BY DEF Binds
<1>3. /\ \A q \in Pdev : pci[q].bound /\ pci[q].drv = c => dev[c].pdev = q
      /\ \A q \in Pdev : pci'[q].bound /\ pci'[q].drv = c => dev'[c].pdev = q
  BY DEF Driver
<1>4. Bound(c) <=> BoundBy(t, p, c) \/ \E q \in Pdev : q # p /\ pci[q].bound /\ pci[q].drv = c /\ PciIdle(q)
  BY <1>1, <1>2 DEF Bound, BoundBy
<1>5. Bound(c)' <=> BoundBy(t, p, c)' \/ \E q \in Pdev : q # p /\ pci'[q].bound /\ pci'[q].drv = c /\ PciIdle(q)'
  BY <1>1, <1>2 DEF Bound, BoundBy
<1> QED BY <1>1, <1>2, <1>3, <1>4, <1>5

(* The end of a call; at the end of a removal the function is unbound. *)
LEMMA ReturnLastGood ==
  ASSUME Inv, NEW t \in Thread, ReturnLast(t)
  PROVE  Good(t)
<1>1. /\ th[t].pc = "ret" /\ Return(t) /\ dev' = dev /\ minors' = minors /\ coreRef' = coreRef
      /\ found' = found /\ kept' = kept /\ file' = file /\ ready' = ready
      /\ pci' = IF th[t].op = "remove"
                THEN [pci EXCEPT ![th[t].p].bound = FALSE, ![th[t].p].drv = NULL] ELSE pci
  BY DEF ReturnLast, Runs, At
<1>2. Here(t) /\ Driver
  BY InvHere
<1>3. /\ dev \in [Dev -> DevRec] /\ LocalsOK(th[t]) /\ th[t] \in ThreadRec /\ th'[t] = Idle
  BY <1>1, <1>2, HereFacts, ReturnFits
<1>4. OnlyRefs
  BY <1>1 DEF OnlyRefs
<1>5. Fits(t)
  <2>1. "put" \in UserPc /\ th[t].pc \in UserPc /\ th[t].pc # "put"
    BY <1>1 DEF UserPc
  <2> QED BY <1>1, <1>2, <1>3, <2>1, UseFits
<1>6. Idle.pc = "idle" /\ Idle.p = NULL /\ Idle.f = NULL /\ Idle.op = "none"
  BY DEF Idle
<1>7. OnlyUses(t)
  BY <1>1, <1>2, <1>3, <1>5, <1>6, UserAt DEF UserPc
<1>8. Creators' /\ Opening'
  <2>1. ~IsOpening(th'[t]) /\ \A g \in Group : ~Makes(th'[t], g)
    BY <1>3, <1>6 DEF IsOpening, Makes
  <2> QED BY <1>1, <1>3, <1>5, <1>6, <2>1, CallsStep
<1>9. kept' \in [Dev -> Nat]
  BY <1>1, <1>2, ConstantsAssumption DEF Here, TypeOK
<1>10. \A x \in Dev : One(IsPut(th[t], x)) = 0 /\ One(IsPut(th'[t], x)) = 0
  <2>1. \A x \in Dev : ~IsPut(th[t], x)
    BY <1>1 DEF IsPut
  <2> QED BY <1>3, <2>1, IdlePuts DEF One
<1>11. \A c \in Ctrl : ~Deletes(th[t], c)
  BY <1>1 DEF Deletes
<1>12. \A p \in Pdev : PciKept(p)
  <2>1. pci \in [Pdev -> PciRec]
    BY <1>2 DEF Here, TypeOK, PciRec
  <2>2. CASE th[t].op # "remove"
    BY <1>1, <2>2 DEF PciKept
  <2>3. CASE th[t].op = "remove"
    <3>1. pci' = [pci EXCEPT ![th[t].p].bound = FALSE, ![th[t].p].drv = NULL]
      BY <1>1, <2>3
    <3> QED BY <2>1, <3>1 DEF PciKept, PciRec
  <2> QED BY <2>2, <2>3
<1>13. KernelKept /\ \A h \in Group : Members'[h] = Members[h]
  BY <1>1, <1>4, <1>5, <1>7, <1>12, UserQuiet
<1>14. Driver' /\ \A c \in Ctrl : Base(c)' = Base(c) /\ (Bound(c)' <=> Bound(c))
  <2>1. CASE th[t].op # "remove"
    <3>1. pci' = pci /\ th[t].p = NULL /\ th[t].op # "probe"
      <4>1. th[t].pc \notin ProbePc
        BY <1>1 DEF ProbePc
      <4> QED BY <1>1, <1>3, <2>1, <4>1 DEF LocalsOK
    <3>2. BindingsKept(t)
      BY <1>1, <1>3, <1>6, <2>1, <3>1 DEF BindingsKept
    <3> QED BY <1>1, <1>2, <1>5, <1>11, <3>2, DriverKept, BoundKept
  <2>2. CASE th[t].op = "remove"
    <3>1. PICK p \in Pdev : p = th[t].p
      BY <1>2, <1>3, <2>2 DEF LocalsOK, ThreadRec
    <3>2. pci \in [Pdev -> PciRec]
      BY <1>2 DEF Here, TypeOK, PciRec
    <3>3. /\ ~pci'[p].bound /\ pci'[p].drv = NULL
          /\ \A q \in Pdev : q # p => pci'[q] = pci[q]
      BY <1>1, <2>2, <3>1, <3>2 DEF PciRec
    <3>4. \A u \in Thread : u # t => th[u].p # p
      BY <1>2, <3>1, Consts DEF Driver
    <3>5. Binds(t, p)
      BY <1>1, <1>3, <1>6, <1>11, <3>1, <3>3, <3>4 DEF Binds
    <3>6. BindingOK(t, p)
      BY <1>3, <1>6, <3>3 DEF BindingOK
    <3>7. Driver'
      BY <1>1, <1>2, <1>5, <3>5, <3>6, DriverStep
    <3>8. ASSUME NEW c \in Ctrl
          PROVE  Bound(c)' <=> Bound(c)
      <4>1. ~BoundBy(t, p, c)
        BY <3>1 DEF BoundBy
      <4>2. ~BoundBy(t, p, c)'
        BY <3>3 DEF BoundBy
      <4> QED BY <1>2, <1>5, <3>5, <3>7, <4>1, <4>2, BoundStep
    <3>9. \A c \in Ctrl : Base(c)' = Base(c)
      BY <3>8 DEF Base, One
    <3> QED BY <3>7, <3>8, <3>9
  <2> QED BY <2>1, <2>2
<1>15. ASSUME NEW x \in Dev
       PROVE  Balanced(x)
  <2>1. Base(x)' = Base(x)
    <3>1. CASE x \in Ctrl
      BY <1>14, <3>1
    <3>2. CASE x \notin Ctrl
      BY <1>1, <3>2 DEF Base
    <3> QED BY <3>1, <3>2
  <2>2. dev'[x].ref + Base(x) + One(IsPut(th[t], x)) + kept[x]
           = dev[x].ref + Base(x)' + One(IsPut(th'[t], x)) + kept'[x]
    BY <1>1, <1>10, <2>1
  <2> QED BY <1>1, <1>2, <1>5, <1>9, <1>13, <2>2, BalancedBy
<1>16. Counts' /\ (GroupsExact => GroupsExact')
  BY <1>5, <1>9, <1>15, BalancedCounts
<1>17. ProtocolInv => ProtocolInv'
  BY <1>1, <1>14, <1>16 DEF ProtocolInv, ReadyOK
<1> QED BY <1>5, <1>8, <1>13, <1>14, <1>16, <1>17 DEF Good

----------------------------------------------------------------------------
(* Calls that begin. *)

(* A call other than CREATE_GROUP begins. *)
LEMMA CallsStart ==
  ASSUME Inv, NEW t \in Thread, Fits(t), th'[t].op # "create", ready' \subseteq ready, dev' = dev,
         \A h \in File : file'[h] # file[h] => h = th'[t].f,
         th'[t].f = NULL \/ FileFree(th'[t].f) \/ file[th'[t].f] # NULL,
         IsOpening(th'[t]) => FileFree(th'[t].f) /\ file[th'[t].f] = NULL /\ file' = file
  PROVE  Creators' /\ Opening'
<1>1. Here(t) /\ Creators /\ Opening
  BY InvHere
<1>2. \A u \in Thread : u # t => th'[u] = th[u]
  BY DEF Fits, ThreadFits
<1>3. Creators'
  <2>1. \A g \in Group : ~Makes(th'[t], g)
    BY DEF Makes
  <2> QED BY <1>1, <1>2, <2>1 DEF Creators
<1>4. Opening'
  <2> SUFFICES ASSUME NEW u \in Thread, IsOpening(th'[u])
               PROVE  /\ file'[th'[u].f] = NULL
                      /\ \A v \in Thread : th'[v].f = th'[u].f => v = u
    BY DEF Opening
  <2>1. CASE u = t
    BY <1>2, <2>1 DEF FileFree
  <2>2. CASE u # t
    <3>1. th'[u] = th[u] /\ IsOpening(th[u])
      BY <1>2, <2>2
    <3>2. /\ file[th[u].f] = NULL
          /\ \A v \in Thread : th[v].f = th[u].f => v = u
      BY <1>1, <3>1 DEF Opening
    <3>3. th[u].f \in File
      <4>1. th[u] \in ThreadRec /\ LocalsOK(th[u])
        BY <1>1 DEF Here, TypeOK, ThreadRec, Threads
      <4> QED BY <3>1, <4>1 DEF IsOpening, LocalsOK, ThreadRec
    <3>4. th'[t].f # th[u].f
      BY <3>2, <3>3, Consts DEF FileFree
    <3>5. file'[th[u].f] = NULL
      BY <3>2, <3>3, <3>4
    <3> QED BY <1>2, <3>1, <3>2, <3>4, <3>5
  <2> QED BY <2>1, <2>2
<1> QED BY <1>3, <1>4

(* What is known of a thread that begins a call. *)
LEMMA IdleFacts ==
  ASSUME Inv, NEW t \in Thread, NEW op, MayStart(t, op)
  PROVE  /\ Here(t) /\ At(t, "idle") /\ th[t] = Idle
         /\ th[t].p = NULL /\ th[t].f = NULL /\ th[t].op = "none" /\ th[t].pc = "idle"
         /\ \A c \in Ctrl : ~Deletes(th[t], c)
         /\ \A o \in Dev : One(IsPut(th[t], o)) = 0
         /\ kept \in [Dev -> Nat]
<1>1. Here(t) /\ At(t, "idle")
  BY InvHere DEF MayStart
<1>2. th[t] = Idle
  BY <1>1, HereFacts DEF LocalsOK, At
<1>3. kept \in [Dev -> Nat]
  BY <1>1, ConstantsAssumption DEF Here, TypeOK
<1>4. \A o \in Dev : One(IsPut(th[t], o)) = 0
  BY <1>2, IdlePuts
<1> QED BY <1>1, <1>2, <1>3, <1>4 DEF Idle, Deletes

(* The locals of a call that begins *)
LEMMA CallFields ==
  ASSUME NEW t, Here(t), NEW o, NEW p, NEW f, NEW op, NEW pc, Call(t, o, p, f, op, pc)
  PROVE  /\ th'[t].pc = pc /\ th'[t].o = o /\ th'[t].op = op
         /\ th'[t].p = p /\ th'[t].f = f
<1>1. th \in [Thread -> ThreadRec] /\ t \in Thread
  BY HereFacts
<1> DEFINE r == [Idle EXCEPT !.op = op, !.pc = pc, !.o = o, !.p = p, !.f = f]
<1>2. r.pc = pc /\ r.o = o /\ r.op = op /\ r.p = p /\ r.f = f
  BY DEF Idle
<1>3. th' = [th EXCEPT ![t] = r]
  BY DEF Call
<1> HIDE DEF r
<1> QED BY <1>1, <1>2, <1>3

(* open, ioctl and mmap begin *)
LEMMA UseStartGood ==
  ASSUME Inv, NEW t \in Thread, NEW o \in Dev, NEW f \in File,
         NEW op \in {"open", "ioctl", "mmap"}, NEW pc, MayStart(t, op), Call(t, o, NULL, f, op, pc),
         UNCHANGED <<kernVars, dev, kept, file, ready, fault>>,
         \/ op = "open" /\ pc = "open_get" /\ FileFree(f) /\ file[f] = NULL
         \/ op = "ioctl" /\ pc = "ioctl_get" /\ file[f] # NULL
         \/ op = "mmap" /\ pc = (IF o \in Group THEN "mmap_get" ELSE "mmap_do") /\ file[f] # NULL
  PROVE  Good(t)
<1>1. /\ dev' = dev /\ pci' = pci /\ minors' = minors /\ coreRef' = coreRef
      /\ found' = found /\ kept' = kept /\ file' = file /\ ready' = ready
  BY DEF kernVars
<1>2. /\ Here(t) /\ At(t, "idle") /\ th[t] = Idle
      /\ th[t].p = NULL /\ th[t].f = NULL /\ th[t].op = "none" /\ th[t].pc = "idle"
      /\ \A c \in Ctrl : ~Deletes(th[t], c)
      /\ \A x \in Dev : One(IsPut(th[t], x)) = 0
      /\ kept \in [Dev -> Nat]
  BY IdleFacts
<1>3. f # NULL /\ op \in Op /\ op # "probe" /\ pc \in Pc /\ pc \in UserPc
      /\ pc \in {"open_get", "ioctl_get", "mmap_get", "mmap_do"}
  BY Consts DEF Op, Pc, UserPc
<1>4. Fits(t)
  BY <1>1, <1>2, <1>3, StartFits
<1>5. th'[t].pc = pc /\ th'[t].o = o /\ th'[t].op = op /\ th'[t].p = NULL /\ th'[t].f = f
  BY <1>2, CallFields
<1>6. OnlyUses(t)
  BY <1>2, <1>3, <1>4, <1>5, UserAt
<1>7. OnlyRefs
  BY <1>1 DEF OnlyRefs
<1>8. BindingsKept(t)
  BY <1>1, <1>2, <1>5 DEF BindingsKept
<1>9. Creators' /\ Opening'
  <2>1. IsOpening(th'[t]) => FileFree(f) /\ file[f] = NULL
    BY <1>5 DEF IsOpening
  <2> QED BY <1>1, <1>4, <1>5, <2>1, CallsStart
<1>10. \A h \in Group : Members'[h] = Members[h]
  <2>1. \A p \in Pdev : PciKept(p)
    BY <1>1 DEF PciKept
  <2> QED BY <1>1, <1>4, <1>6, <1>7, <2>1, UserQuiet
<1>11. ASSUME NEW x \in Dev
       PROVE  Balanced(x)
  <2>1. Base(x)' = Base(x)
    <3>1. CASE x \in Ctrl
      BY <1>2, <1>4, <1>8, <3>1, BoundKept
    <3>2. CASE x \notin Ctrl
      BY <1>1, <3>2 DEF Base
    <3> QED BY <3>1, <3>2
  <2>2. ~IsPut(th'[t], x)
    BY <1>3, <1>5 DEF IsPut
  <2>3. One(IsPut(th'[t], x)) = 0
    BY <2>2 DEF One
  <2>4. dev'[x].ref + Base(x) + One(IsPut(th[t], x)) + kept[x]
           = dev[x].ref + Base(x)' + One(IsPut(th'[t], x)) + kept'[x]
    BY <1>1, <1>2, <2>1, <2>3
  <2> QED BY <1>1, <1>2, <1>4, <1>10, <2>4, BalancedBy
<1> QED BY <1>1, <1>2, <1>4, <1>6, <1>7, <1>8, <1>9, <1>11, UserGood

(* The reference of the file becomes the call's. *)
LEMMA CloseStartGood ==
  ASSUME Inv, NEW t \in Thread, NEW f \in File, CloseStart(t, f)
  PROVE  Good(t)
<1>1. /\ dev' = dev /\ pci' = pci /\ minors' = minors /\ coreRef' = coreRef
      /\ found' = found /\ kept' = kept /\ ready' = ready /\ file' = [file EXCEPT ![f] = NULL]
      /\ MayStart(t, "close") /\ FileFree(f) /\ file[f] # NULL
      /\ Call(t, file[f], NULL, f, "close", "put")
  BY DEF CloseStart, kernVars
<1>2. /\ Here(t) /\ At(t, "idle") /\ th[t] = Idle
      /\ th[t].p = NULL /\ th[t].f = NULL /\ th[t].op = "none" /\ th[t].pc = "idle"
      /\ \A c \in Ctrl : ~Deletes(th[t], c)
      /\ \A x \in Dev : One(IsPut(th[t], x)) = 0
      /\ kept \in [Dev -> Nat]
  BY <1>1, IdleFacts
<1>3. file \in [File -> Dev \cup {NULL}]
  BY <1>2 DEF Here, TypeOK
<1>4. PICK o \in Dev : o = file[f]
  BY <1>1, <1>3
<1>5. Call(t, o, NULL, f, "close", "put")
  BY <1>1, <1>4
<1>6. f # NULL /\ "close" \in Op \ {"probe"} /\ "put" \in UserPc \ {"create_copy", "ret"}
  BY Consts DEF Op, UserPc
<1>7. Fits(t)
  BY <1>1, <1>2, <1>5, <1>6, StartFits
<1>8. th'[t].pc = "put" /\ th'[t].o = o /\ th'[t].op = "close" /\ th'[t].p = NULL /\ th'[t].f = f
  BY <1>2, <1>5, CallFields
<1>9. OnlyUses(t)
  BY <1>2, <1>6, <1>7, <1>8, UserAt
<1>10. OnlyRefs
  BY <1>1 DEF OnlyRefs
<1>11. BindingsKept(t)
  BY <1>1, <1>2, <1>8 DEF BindingsKept
<1>12. file'[f] = NULL /\ \A h \in File : h # f => file'[h] = file[h]
  BY <1>1, <1>3
<1>13. Creators' /\ Opening'
  <2>1. ~IsOpening(th'[t])
    BY <1>8 DEF IsOpening
  <2> QED BY <1>1, <1>7, <1>8, <1>12, <2>1, CallsStart
<1>14. \A h \in Group : Members'[h] = Members[h]
  <2>1. \A p \in Pdev : PciKept(p)
    BY <1>1 DEF PciKept
  <2> QED BY <1>1, <1>7, <1>9, <1>10, <2>1, UserQuiet
<1>15. ASSUME NEW x \in Dev
       PROVE  Balanced(x)
  <2>1. Base(x)' = Base(x)
    <3>1. CASE x \in Ctrl
      BY <1>2, <1>7, <1>11, <3>1, BoundKept
    <3>2. CASE x \notin Ctrl
      BY <1>1, <3>2 DEF Base
    <3> QED BY <3>1, <3>2
  <2>2. /\ Uses(x) \in Nat /\ Uses(x)' \in Nat
        /\ Uses(x)' + Base(x) + One(IsPut(th[t], x)) + One(file[f] = x)
              = Uses(x) + Base(x)' + One(IsPut(th'[t], x)) + One(file'[f] = x)
    BY <1>1, <1>2, <1>7, <1>12, <1>14, UsesFile
  <2>3. Base(x) \in Nat
    BY DEF Base, One
  <2>4. One(IsPut(th[t], x)) = 0 /\ One(file'[f] = x) = 0
    <3>1. file'[f] # x
      BY <1>12, Consts
    <3>2. One(file'[f] = x) = 0
      BY <3>1 DEF One
    <3> QED BY <1>2, <3>2
  <2>5. One(IsPut(th'[t], x)) = One(file[f] = x) /\ One(file[f] = x) \in Nat
    <3>1. IsPut(th'[t], x) <=> file[f] = x
      BY <1>4, <1>8 DEF IsPut
    <3> QED BY <3>1 DEF One
  <2> DEFINE u == Uses(x)  v == Uses(x)'  b == Base(x)  m == One(file[f] = x)
  <2>6. u \in Nat /\ v \in Nat /\ b \in Nat /\ m \in Nat /\ v + b + 0 + m = u + b + m + 0
    BY <2>1, <2>2, <2>3, <2>4, <2>5
  <2> HIDE DEF u, v, b, m
  <2>7. u = v
    BY <2>6
  <2> QED BY <1>1, <2>7 DEF u, v, Balanced
<1>16. kept' \in [Dev -> Nat]
  BY <1>1, <1>2
<1> QED BY <1>1, <1>2, <1>7, <1>9, <1>10, <1>11, <1>13, <1>15, <1>16, UserGood

(* The reference of a DMA mapping becomes the call's. *)
LEMMA MunmapStartGood ==
  ASSUME Inv, NEW t \in Thread, NEW c \in Ctrl, MunmapStart(t, c)
  PROVE  Good(t)
<1>1. /\ dev' = dev /\ pci' = pci /\ minors' = minors /\ coreRef' = coreRef
      /\ found' = found /\ ready' = ready /\ file' = file
      /\ MayStart(t, "munmap") /\ mapped[c] > 0 /\ kept' = [kept EXCEPT ![c] = kept[c] - 1]
      /\ Call(t, c, NULL, NULL, "munmap", "put")
  BY DEF MunmapStart, kernVars
<1>2. /\ Here(t) /\ At(t, "idle") /\ th[t] = Idle
      /\ th[t].p = NULL /\ th[t].f = NULL /\ th[t].op = "none" /\ th[t].pc = "idle"
      /\ \A d \in Ctrl : ~Deletes(th[t], d)
      /\ \A x \in Dev : One(IsPut(th[t], x)) = 0
      /\ kept \in [Dev -> Nat]
  BY <1>1, IdleFacts
<1>3. kept[c] \in Nat /\ kept[c] > 0 /\ c \in Dev
  <2>1. c \in Dev /\ mapped \in [Dev -> Nat] /\ mapped[c] <= kept[c]
    BY Consts DEF Inv, TypeOK, MappedOK
  <2> QED BY <1>1, <1>2, <2>1
<1>4. "munmap" \in Op \ {"probe"} /\ "put" \in UserPc \ {"create_copy", "ret"}
  BY DEF Op, UserPc
<1>5. Fits(t)
  BY <1>1, <1>2, <1>3, <1>4, StartFits
<1>6. th'[t].pc = "put" /\ th'[t].o = c /\ th'[t].op = "munmap" /\ th'[t].p = NULL
      /\ th'[t].f = NULL
  BY <1>1, <1>2, CallFields
<1>7. OnlyUses(t)
  BY <1>2, <1>4, <1>5, <1>6, UserAt
<1>8. OnlyRefs
  BY <1>1 DEF OnlyRefs
<1>9. BindingsKept(t)
  BY <1>1, <1>2, <1>6 DEF BindingsKept
<1>10. Creators' /\ Opening'
  <2>1. ~IsOpening(th'[t])
    BY <1>6 DEF IsOpening
  <2> QED BY <1>1, <1>5, <1>6, <2>1, CallsStart
<1>11. \A h \in Group : Members'[h] = Members[h]
  <2>1. \A p \in Pdev : PciKept(p)
    BY <1>1 DEF PciKept
  <2> QED BY <1>1, <1>5, <1>7, <1>8, <2>1, UserQuiet
<1>12. kept' \in [Dev -> Nat]
  BY <1>1, <1>2, <1>3
<1>13. ASSUME NEW x \in Dev
       PROVE  Balanced(x)
  <2>1. Base(x)' = Base(x) /\ Base(x) \in Nat
    <3>1. CASE x \in Ctrl
      BY <1>2, <1>5, <1>9, <3>1, BoundKept DEF Base, One
    <3>2. CASE x \notin Ctrl
      BY <1>1, <3>2 DEF Base, One
    <3> QED BY <3>1, <3>2
  <2>2. One(IsPut(th'[t], x)) = One(x = c)
    <3>1. IsPut(th'[t], x) <=> x = c
      BY <1>6 DEF IsPut
    <3> QED BY <3>1 DEF One
  <2>3. kept[x] \in Nat /\ kept[x] = One(x = c) + kept'[x] /\ kept'[x] \in Nat
    BY <1>1, <1>2, <1>3, <1>12 DEF One
  <2>4. dev[x].ref \in Nat
    BY <1>2, HereFacts DEF DevRec
  <2>5. dev'[x].ref + Base(x) + One(IsPut(th[t], x)) + kept[x]
           = dev[x].ref + Base(x)' + One(IsPut(th'[t], x)) + kept'[x]
    <3>1. dev'[x].ref = dev[x].ref
      BY <1>1
    <3>2. One(IsPut(th[t], x)) = 0
      BY <1>2
    <3>3. PICK n : n = One(x = c)
      OBVIOUS
    <3>4. n \in Nat
      BY <3>3 DEF One
    <3>5. One(IsPut(th'[t], x)) = n /\ kept[x] = n + kept'[x]
      BY <2>2, <2>3, <3>3
    <3>6. PICK b : b = Base(x) /\ b \in Nat
      BY <2>1
    <3> QED BY <2>1, <2>3, <2>4, <3>1, <3>2, <3>4, <3>5, <3>6
  <2> QED BY <1>1, <1>2, <1>5, <1>11, <1>12, <2>5, BalancedBy
<1> QED BY <1>1, <1>2, <1>5, <1>7, <1>8, <1>9, <1>10, <1>12, <1>13, UserGood

(* The binding's reference becomes that of the removal. *)
LEMMA RemoveStartGood ==
  ASSUME Inv, NEW t \in Thread, NEW p \in Pdev, RemoveStart(t, p)
  PROVE  Good(t)
<1>1. /\ dev' = dev /\ pci' = pci /\ minors' = minors /\ coreRef' = coreRef
      /\ found' = found /\ kept' = kept /\ file' = file /\ ready' = ready \ {pci[p].drv}
      /\ MayStart(t, "remove") /\ PciIdle(p) /\ pci[p].bound
      /\ Call(t, pci[p].drv, p, NULL, "remove", "put")
  BY DEF RemoveStart, kernVars
<1>2. /\ Here(t) /\ At(t, "idle") /\ th[t] = Idle
      /\ th[t].p = NULL /\ th[t].f = NULL /\ th[t].op = "none" /\ th[t].pc = "idle"
      /\ \A c \in Ctrl : ~Deletes(th[t], c)
      /\ \A x \in Dev : One(IsPut(th[t], x)) = 0
      /\ kept \in [Dev -> Nat]
  BY <1>1, IdleFacts
<1>3. Driver /\ pci \in [Pdev -> PciRec]
  BY InvHere DEF TypeOK, PciRec
<1>4. PICK o \in Ctrl : o = pci[p].drv /\ dev[o].pdev = p
  <2>1. pci[p].drv \in Ctrl \cup {NULL}
    BY <1>3 DEF PciRec
  <2> QED BY <1>1, <1>3, <2>1 DEF Driver
<1>5. o \in Dev /\ p # NULL /\ "remove" \in Op \ {"probe"} /\ "put" \in UserPc \ {"create_copy", "ret"}
      /\ Call(t, o, p, NULL, "remove", "put")
  BY <1>1, <1>4, Consts DEF Op, UserPc
<1>6. Fits(t)
  <2>1. p \in Pdev \cup {NULL} /\ NULL \in File \cup {NULL}
    OBVIOUS
  <2> QED BY <1>1, <1>2, <1>5, <2>1, StartFits
<1>7. th'[t].pc = "put" /\ th'[t].o = o /\ th'[t].op = "remove" /\ th'[t].p = p /\ th'[t].f = NULL
  BY <1>2, <1>5, CallFields
<1>8. OnlyUses(t)
  BY <1>2, <1>5, <1>6, <1>7, UserAt
<1>9. OnlyRefs
  BY <1>1 DEF OnlyRefs
<1>10. Creators' /\ Opening'
  <2>1. ~IsOpening(th'[t])
    BY <1>7 DEF IsOpening
  <2> QED BY <1>1, <1>6, <1>7, <2>1, CallsStart
<1>11. KernelKept /\ \A h \in Group : Members'[h] = Members[h]
  <2>1. \A q \in Pdev : PciKept(q)
    BY <1>1 DEF PciKept
  <2> QED BY <1>1, <1>6, <1>8, <1>9, <2>1, UserQuiet
<1>12. Binds(t, p)
  <2>1. \A u \in Thread : th[u].p # p
    BY <1>1 DEF PciIdle
  <2> QED BY <1>1, <1>2, <1>7, <2>1 DEF Binds
<1>13. BindingOK(t, p)
  BY <1>1, <1>4, <1>7 DEF BindingOK
<1>14. Driver'
  <2>1. \A c \in ready \cap Ctrl : c \in ready' \/ dev[c].pdev = p
    BY <1>1, <1>4
  <2> QED BY <1>2, <1>3, <1>6, <1>12, <1>13, <2>1, DriverStep
<1>15. Bound(o) /\ ~Bound(o)'
  <2>1. BoundBy(t, p, o)
    BY <1>1, <1>2, <1>4, <1>5 DEF BoundBy
  <2>2. ~BoundBy(t, p, o)'
    BY <1>7 DEF BoundBy
  <2>3. dev[o].pdev = p /\ dev'[o].pdev = p
    BY <1>1, <1>4
  <2> QED BY <1>2, <1>3, <1>6, <1>12, <1>14, <2>1, <2>2, <2>3, BoundStep
<1>16. ASSUME NEW c \in Ctrl, c # o
       PROVE  Bound(c) <=> Bound(c)'
  <2>1. ~BoundBy(t, p, c)
    BY <1>4, <1>16 DEF BoundBy
  <2>2. ~BoundBy(t, p, c)'
    BY <1>7 DEF BoundBy
  <2> QED BY <1>2, <1>3, <1>6, <1>12, <1>14, <2>1, <2>2, BoundStep
<1>17. kept' \in [Dev -> Nat]
  BY <1>1, <1>2
<1>18. ASSUME NEW x \in Dev
       PROVE  Balanced(x)
  <2>1. dev[x].ref \in Nat /\ dev'[x] = dev[x] /\ kept[x] \in Nat /\ kept'[x] = kept[x]
        /\ One(IsPut(th[t], x)) = 0
    <3>1. dev[x].ref \in Nat
      BY <1>2, HereFacts DEF DevRec
    <3> QED BY <1>1, <1>2, <3>1
  <2>2. dev'[x].ref + Base(x) + One(IsPut(th[t], x)) + kept[x]
           = dev[x].ref + Base(x)' + One(IsPut(th'[t], x)) + kept'[x]
    <3>1. CASE x = o
      <4>1. Base(x) = 1 /\ Base(x)' = 0
        BY <1>15, <3>1 DEF Base, One
      <4>2. IsPut(th'[t], x)
        BY <1>7, <3>1 DEF IsPut
      <4>3. One(IsPut(th'[t], x)) = 1
        BY <4>2 DEF One
      <4> QED BY <2>1, <4>1, <4>3
    <3>2. CASE x # o
      <4>1. Base(x)' = Base(x)
        <5>1. CASE x \in Ctrl
          BY <1>16, <3>2, <5>1 DEF Base, One
        <5>2. CASE x \notin Ctrl
          BY <1>1, <1>4, <3>2, <5>2 DEF Base
        <5> QED BY <5>1, <5>2
      <4>2. ~IsPut(th'[t], x)
        BY <1>7, <3>2 DEF IsPut
      <4>3. One(IsPut(th'[t], x)) = 0
        BY <4>2 DEF One
      <4> QED BY <2>1, <4>1, <4>3
    <3> QED BY <3>1, <3>2
  <2> QED BY <1>1, <1>2, <1>6, <1>11, <1>17, <2>2, BalancedBy
<1>19. Counts' /\ (GroupsExact => GroupsExact')
  BY <1>6, <1>17, <1>18, BalancedCounts
<1>20. ReadyOK => ReadyOK'
  BY <1>1, <1>4, <1>15, <1>16 DEF ReadyOK
<1>21. ProtocolInv => ProtocolInv'
  BY <1>19, <1>20 DEF ProtocolInv
<1> QED BY <1>6, <1>10, <1>11, <1>14, <1>19, <1>21 DEF Good

(* DELETE_GROUP: the reference of the group becomes that of the call; only *)
(* the protocol keeps a second call from putting a reference of others.    *)
LEMMA DeleteStartGood ==
  ASSUME Inv, NEW t \in Thread, NEW o \in Dev, DeleteStart(t, o), Protocol => o \in Group /\ o \in ready
  PROVE  Good(t)
<1>1. /\ dev' = dev /\ pci' = pci /\ minors' = minors /\ coreRef' = coreRef
      /\ found' = found /\ kept' = kept /\ file' = file /\ ready' = ready \ {o}
      /\ MayStart(t, "delete") /\ Call(t, o, NULL, NULL, "delete", "put")
  BY DEF DeleteStart, kernVars
<1>2. /\ Here(t) /\ At(t, "idle") /\ th[t] = Idle
      /\ th[t].p = NULL /\ th[t].f = NULL /\ th[t].op = "none" /\ th[t].pc = "idle"
      /\ \A c \in Ctrl : ~Deletes(th[t], c)
      /\ \A x \in Dev : One(IsPut(th[t], x)) = 0
      /\ kept \in [Dev -> Nat]
  BY <1>1, IdleFacts
<1>3. Driver /\ Counts
  BY InvHere
<1>4. "delete" \in Op \ {"probe"} /\ "put" \in UserPc \ {"create_copy", "ret"}
      /\ NULL \in Pdev \cup {NULL} /\ NULL \in File \cup {NULL}
  BY DEF Op, UserPc
<1>5. Fits(t)
  BY <1>1, <1>2, <1>4, StartFits
<1>6. th'[t].pc = "put" /\ th'[t].o = o /\ th'[t].op = "delete" /\ th'[t].p = NULL /\ th'[t].f = NULL
  BY <1>1, <1>2, CallFields
<1>7. OnlyUses(t)
  BY <1>2, <1>4, <1>5, <1>6, UserAt
<1>8. OnlyRefs
  BY <1>1 DEF OnlyRefs
<1>9. BindingsKept(t)
  BY <1>1, <1>2, <1>6 DEF BindingsKept
<1>10. Creators' /\ Opening'
  <2>1. ~IsOpening(th'[t])
    BY <1>6 DEF IsOpening
  <2> QED BY <1>1, <1>5, <1>6, <2>1, CallsStart
<1>11. KernelKept /\ \A h \in Group : Members'[h] = Members[h]
  <2>1. \A q \in Pdev : PciKept(q)
    BY <1>1 DEF PciKept
  <2> QED BY <1>1, <1>5, <1>7, <1>8, <2>1, UserQuiet
<1>12. Driver'
  <2>1. \A c \in ready \cap Ctrl : c \in ready' \/ Deletes(th'[t], c)
    BY <1>1, <1>6 DEF Deletes
  <2> QED BY <1>2, <1>3, <1>5, <1>9, <2>1, DriverKept
<1>13. kept' \in [Dev -> Nat]
  BY <1>1, <1>2
<1>14. ASSUME NEW x \in Dev
       PROVE  /\ Uses(x) \in Nat /\ Uses(x)' \in Nat
              /\ Uses(x)' + Base(x) = Uses(x) + Base(x)' + One(IsPut(th'[t], x))
              /\ Base(x) \in Nat
  <2> DEFINE u == Uses(x)  v == Uses(x)'  b == Base(x)  e == Base(x)'
             m == One(IsPut(th[t], x))  n == One(IsPut(th'[t], x)) k == kept[x]  l == kept'[x]
  <2>1. /\ u \in Nat /\ v \in Nat /\ k \in Nat /\ l \in Nat
        /\ v + b + m + k = u + e + n + l
    BY <1>1, <1>2, <1>5, <1>11, <1>13, UsesStep
  <2>2. b \in Nat /\ e \in Nat /\ n \in Nat
    BY DEF Base, One
  <2>3. m = 0 /\ k = l
    BY <1>1, <1>2
  <2> HIDE DEF u, v, b, e, m, n, k, l
  <2>4. v + b = u + e + n
    BY <2>1, <2>2, <2>3
  <2> QED BY <2>1, <2>2, <2>4 DEF u, v, b, e, n
<1>15. ASSUME NEW x \in Dev, x # o \/ x \in Ctrl
       PROVE  Uses(x)' = Uses(x)
  <2>1. Base(x)' = Base(x)
    <3>1. CASE x \in Ctrl
      BY <1>2, <1>5, <1>9, <3>1, BoundKept
    <3>2. CASE x \notin Ctrl
      BY <1>1, <1>15, <3>2 DEF Base
    <3> QED BY <3>1, <3>2
  <2>2. ~IsPut(th'[t], x)
    BY <1>6, <1>15 DEF IsPut
  <2>3. One(IsPut(th'[t], x)) = 0
    BY <2>2 DEF One
  <2> QED BY <1>14, <2>1, <2>3
<1>16. ASSUME o \in Group
       PROVE  Uses(o)' >= Uses(o) /\ (o \in ready => Uses(o)' = Uses(o))
  <2>1. IsPut(th'[t], o)
    BY <1>6, <1>16, Consts DEF IsPut
  <2>2. One(IsPut(th'[t], o)) = 1
    BY <2>1 DEF One
  <2>3. Base(o)' = 0 /\ Base(o) \in {0, 1} /\ (o \in ready => Base(o) = 1)
    BY <1>1, <1>16, Consts DEF Base, One
  <2> QED BY <1>14, <2>2, <2>3
<1>17. Counts'
  <2>1. \A c \in Ctrl : dev'[c].ref = Uses(c)'
    BY <1>1, <1>3, <1>15, Consts DEF Counts
  <2>2. ASSUME NEW g \in Group
        PROVE  dev'[g].ref <= Uses(g)'
    <3>1. g \in Dev /\ dev[g].ref \in Nat /\ dev'[g] = dev[g] /\ dev[g].ref <= Uses(g)
      <4>1. g \in Dev
        BY Consts
      <4>2. dev[g].ref \in Nat
        BY <1>2, <4>1, HereFacts DEF DevRec
      <4> QED BY <1>1, <1>3, <4>1, <4>2 DEF Counts
    <3>2. Uses(g)' >= Uses(g) /\ Uses(g) \in Nat /\ Uses(g)' \in Nat
      <4>1. Uses(g) \in Nat /\ Uses(g)' \in Nat
        BY <1>14, <3>1
      <4>2. CASE g = o
        BY <1>16, <4>1, <4>2
      <4>3. CASE g # o
        BY <1>15, <3>1, <4>1, <4>3
      <4> QED BY <4>1, <4>2, <4>3
    <3> QED BY <3>1, <3>2
  <2> QED BY <2>1, <2>2 DEF Counts
<1>18. ASSUME Protocol, ProtocolInv
       PROVE  ReadyOK' /\ GroupsExact'
  <2>1. o \in Group /\ o \in ready /\ o \notin Ctrl
    BY <1>18, Consts
  <2>2. ReadyOK'
    BY <1>1, <1>2, <1>5, <1>9, <1>18, <2>1, ReadyKept DEF ProtocolInv
  <2>3. \A g \in Group : Uses(g)' = Uses(g)
    BY <1>15, <1>16, <2>1, Consts
  <2>4. GroupsExact'
    BY <1>1, <1>18, <2>3 DEF ProtocolInv, GroupsExact
  <2> QED BY <2>2, <2>4
<1>19. ProtocolInv => ProtocolInv'
  BY <1>18 DEF ProtocolInv
<1> QED BY <1>5, <1>10, <1>11, <1>12, <1>17, <1>19 DEF Good

----------------------------------------------------------------------------
(* References that are put, and releases. *)

(* A step that keeps the bindings. *)
LEMMA KeptGood ==
  ASSUME Inv, NEW t \in Thread, Fits(t), KernelKept, BindingsKept(t),
         kept' \in [Dev -> Nat], \A o \in Dev : Balanced(o), Creators' /\ Opening',
         \A c \in Ctrl : c \in ready' <=> c \in ready,
         \A c \in Ctrl : ~Deletes(th[t], c)
  PROVE  Good(t)
<1>1. Here(t) /\ Driver
  BY InvHere
<1>2. Driver'
  BY <1>1, DriverKept
<1>3. Counts' /\ (GroupsExact => GroupsExact')
  BY BalancedCounts
<1>4. ReadyOK => ReadyOK'
  BY <1>1, ReadyKept
<1>5. ProtocolInv => ProtocolInv'
  BY <1>3, <1>4 DEF ProtocolInv
<1> QED BY <1>2, <1>3, <1>5 DEF Good

(* The bindings and ready do not change what an object is used for. *)
LEMMA BaseKept ==
  ASSUME NEW t, Here(t), Fits(t), BindingsKept(t), ready' = ready, NEW o \in Dev
  PROVE  Base(o)' = Base(o) /\ Base(o) \in Nat
<1>1. CASE o \in Ctrl
  BY <1>1, BoundKept DEF Base, One
<1>2. CASE o \notin Ctrl
  BY <1>2 DEF Base, One
<1> QED BY <1>1, <1>2

(* A thread that is not deleting a controller. *)
LEMMA NoDelete ==
  ASSUME NEW t, Here(t), ~WrongType(t)
  PROVE  \A c \in Ctrl : ~Deletes(th[t], c)
BY DEF Deletes, WrongType, At

(* What the put at the end of a call does. *)
PutMoves(t) ==
  LET o == th[t].o
      e == dev[o].ref - 1
  IN /\ o \in Dev /\ dev[o].ref > 0 /\ th[t].pc = "put" /\ th[t].stack = <<>>
     /\ e \in Nat /\ dev'[o] = [dev[o] EXCEPT !.ref = e]
     /\ \A x \in Dev : x # o => dev'[x] = dev[x]
     /\ th'[t].o = o /\ th'[t].op = th[t].op /\ th'[t].p = th[t].p /\ th'[t].f = th[t].f
     /\ IF dev[o].ref # 1 THEN th'[t].pc = "ret" /\ th'[t].stack = <<>>
        ELSE /\ th'[t].pc = IF o \in Ctrl THEN "rel_dev" ELSE "relg_dev"
             /\ th'[t].left = dev[o].ctrls
             /\ th'[t].stack # <<>> /\ Head(th'[t].stack).pc = "ret" /\ Head(th'[t].stack).o = o

(* What the put at the end of a call moves *)
LEMMA PutLastMoves ==
  ASSUME NEW t, Here(t), PutLast(t)
  PROVE  PutMoves(t)
<1> DEFINE o == th[t].o
<1>1. Runs(t, "put") /\ Put(t, o, "ret", <<>>)
  BY DEF PutLast
<1>2. o \in Dev /\ dev[o].ref > 0 /\ th[t].pc = "put"
  BY <1>1, RunsFacts
<1>3. StackOK(th[t]) /\ dev[o] \in DevRec
  BY <1>2, HereFacts
<1>4. th[t].stack = <<>> /\ dev[o].ref \in Nat
  BY <1>2, <1>3 DEF StackOK, RelPc, RelgPc, DevRec
<1>5. "ret" \in Pc /\ <<>> \in Seq(Ctrl) /\ th[t].o = o
  BY DEF Pc
<1> DEFINE e == dev[o].ref - 1
<1>6. e \in Nat
  BY <1>2, <1>4
<1>7. CASE dev[o].ref # 1
  <2>1. /\ th'[t].pc = "ret" /\ th'[t].o = th[t].o /\ th'[t].op = th[t].op
        /\ th'[t].p = th[t].p /\ th'[t].f = th[t].f /\ th'[t].stack = th[t].stack
        /\ \A x \in Dev : x # o => dev'[x] = dev[x]
        /\ Counted(o) /\ dev'[o].ref = dev[o].ref - 1
    <3> HIDE DEF o
    <3> QED BY <1>1, <1>2, <1>5, <1>7, PutSome, ZenonT(40)
  <2>2. dev'[o] = [dev[o] EXCEPT !.ref = e]
    BY <2>1 DEF Counted
  <2> QED BY <1>2, <1>4, <1>5, <1>6, <1>7, <2>1, <2>2 DEF PutMoves
<1>8. CASE dev[o].ref = 1
  <2>1. /\ th'[t].pc = IF o \in Ctrl THEN "rel_dev" ELSE "relg_dev"
        /\ th'[t].o = o /\ th'[t].op = th[t].op
        /\ th'[t].p = th[t].p /\ th'[t].f = th[t].f
        /\ th'[t].left = dev[o].ctrls
        /\ th'[t].stack # <<>>
        /\ Head(th'[t].stack) = [pc |-> "ret", o |-> th[t].o, left |-> <<>>]
        /\ \A x \in Dev : x # o => dev'[x] = dev[x]
        /\ dev'[o] = [dev[o] EXCEPT !.ref = 0]
    <3> DEFINE nil == <<>>  next == "ret"
    <3>1. Put(t, o, next, nil) /\ nil \in Seq(Ctrl) /\ next \in Pc
      BY <1>1, <1>5
    <3> HIDE DEF o, nil, next
    <3>2. /\ th'[t].pc = IF o \in Ctrl THEN "rel_dev" ELSE "relg_dev"
          /\ th'[t].o = o /\ th'[t].op = th[t].op
          /\ th'[t].p = th[t].p /\ th'[t].f = th[t].f
          /\ th'[t].left = dev[o].ctrls
          /\ th'[t].stack # <<>>
          /\ Head(th'[t].stack) = [pc |-> next, o |-> th[t].o, left |-> nil]
          /\ \A x \in Dev : x # o => dev'[x] = dev[x]
          /\ dev'[o] = [dev[o] EXCEPT !.ref = 0]
      BY <1>2, <1>8, <3>1, PutEnd
    <3> QED BY <3>2 DEF nil, next
  <2>2. e = 0
    BY <1>8
  <2> QED BY <1>2, <1>4, <1>5, <1>6, <1>8, <2>1, <2>2 DEF PutMoves
<1> QED BY <1>7, <1>8

(* The reference of a call is put. *)
LEMMA PutLastGood ==
  ASSUME Inv, NEW t \in Thread, PutLast(t)
  PROVE  Good(t)
<1>1. /\ pci' = pci /\ minors' = minors /\ coreRef' = coreRef /\ found' = found
      /\ kept' = kept /\ file' = file /\ ready' = ready /\ ~WrongType(t)
  BY DEF PutLast, Runs, kernVars
<1>2. Here(t)
  BY InvHere
<1>3. Fits(t) /\ PutMoves(t)
  BY <1>2, PutLastFits, PutLastMoves
<1>4. PICK o \in Dev : o = th[t].o
  BY <1>3 DEF PutMoves
<1>5. /\ dev[o].ref > 0 /\ th[t].pc = "put" /\ th[t].stack = <<>>
      /\ dev[o].ref - 1 \in Nat /\ dev'[o] = [dev[o] EXCEPT !.ref = dev[o].ref - 1]
      /\ \A x \in Dev : x # o => dev'[x] = dev[x]
      /\ th'[t].o = o /\ th'[t].op = th[t].op /\ th'[t].p = th[t].p /\ th'[t].f = th[t].f
      /\ dev[o].ref # 1 => th'[t].pc = "ret" /\ th'[t].stack = <<>>
      /\ dev[o].ref = 1 =>
           /\ th'[t].pc = IF o \in Ctrl THEN "rel_dev" ELSE "relg_dev"
           /\ th'[t].left = dev[o].ctrls
           /\ th'[t].stack # <<>> /\ Head(th'[t].stack).pc = "ret" /\ Head(th'[t].stack).o = o
  BY <1>3, <1>4 DEF PutMoves
<1>6. /\ th[t] \in ThreadRec /\ LocalsOK(th[t]) /\ dev[o] \in DevRec /\ dev[o].ref \in Nat
      /\ kept' \in [Dev -> Nat]
  <2>1. kept' \in [Dev -> Nat]
    BY <1>1, <1>2, ConstantsAssumption DEF Here, TypeOK
  <2> QED BY <1>2, <2>1, HereFacts DEF DevRec
<1>7. /\ dev'[o].heap = dev[o].heap /\ dev'[o].minor = dev[o].minor /\ dev'[o].cdev = dev[o].cdev
      /\ dev'[o].pdev = dev[o].pdev /\ dev'[o].ctrls = dev[o].ctrls /\ dev'[o].ref = dev[o].ref - 1
  <2> DEFINE d == dev[o]  n == dev[o].ref - 1
  <2>1. d \in DevRec /\ n \in Nat /\ dev'[o] = [d EXCEPT !.ref = n]
    BY <1>5, <1>6
  <2> HIDE DEF d, n
  <2>2. /\ dev'[o].heap = d.heap /\ dev'[o].minor = d.minor /\ dev'[o].cdev = d.cdev
        /\ dev'[o].pdev = d.pdev /\ dev'[o].ctrls = d.ctrls /\ dev'[o].ref = n
    BY <2>1 DEF DevRec
  <2> QED BY <2>2 DEF d, n
<1>8. OthersKeep(NULL) /\ \A x \in Dev : dev'[x].heap = dev[x].heap /\ dev'[x].ctrls = dev[x].ctrls
  BY <1>5, <1>7 DEF OthersKeep
<1>9. /\ GroupFrame(th[t]) = NoFrame /\ GroupOf(th[t]) = NULL
      /\ \/ GroupFrame(th'[t]) = NoFrame /\ GroupOf(th'[t]) = NULL
         \/ /\ o \in Group /\ dev[o].ref = 1
            /\ GroupFrame(th'[t]) = [pc |-> "relg_dev", o |-> o, left |-> dev[o].ctrls]
  <2>1. "put" \notin GroupPc /\ "ret" \notin GroupPc /\ "rel_dev" \notin GroupPc /\ "relg_dev" \in GroupPc
    BY DEF GroupPc, CreatePc, RelgPc
  <2>2. GroupFrame(th[t]) = NoFrame
    BY <1>5, <2>1 DEF GroupFrame
  <2>3. NoFrame.o = NULL
    BY DEF NoFrame
  <2>4. CASE dev[o].ref # 1
    <3>1. GroupFrame(th'[t]) = NoFrame
      BY <1>5, <2>1, <2>4 DEF GroupFrame
    <3> QED BY <2>2, <2>3, <3>1 DEF GroupOf
  <2>5. CASE dev[o].ref = 1 /\ o \in Ctrl
    <3>1. GroupFrame(th'[t]) = NoFrame
      BY <1>5, <2>1, <2>5 DEF GroupFrame
    <3> QED BY <2>2, <2>3, <3>1 DEF GroupOf
  <2>6. CASE dev[o].ref = 1 /\ o \notin Ctrl
    <3>1. o \in Group
      BY <2>6 DEF Dev
    <3>2. GroupFrame(th'[t]) = [pc |-> "relg_dev", o |-> o, left |-> dev[o].ctrls]
      BY <1>5, <2>1, <2>6 DEF GroupFrame
    <3> QED BY <2>2, <2>3, <2>6, <3>1, <3>2 DEF GroupOf
  <2> QED BY <2>4, <2>5, <2>6
<1>10. NoFrame.pc = "idle" /\ NoFrame.o = NULL
  BY DEF NoFrame
<1>11. KernelKept
  <2>1. \A p \in Pdev : PciKept(p)
    BY <1>1 DEF PciKept
  <2>2. \A c \in Ctrl : ~NoRegion(th'[t], c) /\ ~NoRegion(th[t], c)
    BY <1>5 DEF NoRegion
  <2>3. \A x \in Dev : ~Unnumbers(th'[t], x) /\ ~Unnumbers(th[t], x)
    BY <1>9, <1>10 DEF Unnumbers
  <2>4. NamesOf(th[t]) = <<>> /\ NamesOf(th[t])' = <<>>
    BY <1>9, <1>10 DEF NamesOf, CreatePc
  <2> QED BY <1>1, <1>3, <1>8, <2>1, <2>2, <2>3, <2>4, QuietStep
<1>12. \A h \in Group : Members'[h] = Members[h]
  <2> SUFFICES ASSUME NEW h \in Group PROVE Members'[h] = Members[h]
    OBVIOUS
  <2>1. h \in Dev /\ ~Undoes(th[t], h)
    BY <1>9, <1>10, Consts DEF Undoes, UndoPc
  <2>2. CASE ~Undoes(th'[t], h)
    BY <1>2, <1>3, <1>8, <2>1, <2>2, MembersFrame
  <2>3. CASE Undoes(th'[t], h)
    <3>1. h = o /\ o \in Group /\ GroupFrame(th'[t]).left = dev[o].ctrls
      BY <1>9, <1>10, <2>1, <2>3, Consts DEF Undoes, GroupOf
    <3>2. Members[h] = dev[o].ctrls /\ dev[h].heap = "live"
      <4>1. ObjectOK(dev[o], o)
        BY <1>2, HereFacts
      <4> QED BY <1>5, <3>1, <4>1, UsedMembers DEF ObjectOK
    <3>3. dev'[h].heap = "live"
      BY <1>8, <2>1, <3>2
    <3>4. MembersAre'
      BY <1>2, <1>3, FitsShape DEF Facts
    <3>5. Members'[h] = GroupFrame(th'[t]).left
      BY <2>3, <3>3, <3>4 DEF MembersAre
    <3> QED BY <3>1, <3>2, <3>5
  <2> QED BY <2>2, <2>3
<1>13. th[t].op # "probe" /\ ~(o \in Ctrl /\ th[t].op = "delete")
  BY <1>1, <1>4, <1>5, <1>6 DEF LocalsOK, ProbePc, WrongType, At
<1>14. BindingsKept(t)
  <2>1. \A c \in Ctrl : dev'[c].pdev = dev[c].pdev
    BY <1>5, <1>7, Consts
  <2>2. th'[t].pc # "put"
    BY <1>5
  <2> QED BY <1>1, <1>5, <1>13, <2>1, <2>2 DEF BindingsKept
<1>15. ASSUME NEW x \in Dev
       PROVE  Balanced(x)
  <2>1. Base(x)' = Base(x) /\ Base(x) \in Nat
    BY <1>1, <1>2, <1>3, <1>14, BaseKept
  <2>2. ~IsPut(th'[t], x) /\ (IsPut(th[t], x) <=> x = o)
    BY <1>4, <1>5, <1>13 DEF IsPut
  <2>3. One(IsPut(th'[t], x)) = 0 /\ (x = o => One(IsPut(th[t], x)) = 1)
        /\ (x # o => One(IsPut(th[t], x)) = 0)
    BY <2>2 DEF One
  <2>4. kept[x] \in Nat /\ kept'[x] = kept[x] /\ dev[x].ref \in Nat
    <3>1. dev[x].ref \in Nat
      BY <1>2, HereFacts DEF DevRec
    <3> QED BY <1>1, <1>6, <3>1
  <2>5. dev'[x].ref + Base(x) + One(IsPut(th[t], x)) + kept[x]
           = dev[x].ref + Base(x)' + One(IsPut(th'[t], x)) + kept'[x]
    <3>1. CASE x = o
      BY <1>6, <1>7, <2>1, <2>3, <2>4, <3>1
    <3>2. CASE x # o
      BY <1>5, <2>1, <2>3, <2>4, <3>2
    <3> QED BY <3>1, <3>2
  <2> QED BY <1>1, <1>2, <1>3, <1>6, <1>12, <2>5, BalancedBy
<1>16. Creators' /\ Opening'
  <2>1. ~IsOpening(th'[t])
    BY <1>5 DEF IsOpening
  <2>2. \A g \in Group : Makes(th'[t], g) => Makes(th[t], g)
    BY <1>4, <1>5 DEF Makes
  <2>3. \A g \in Group : dev'[g].heap = dev[g].heap
    BY <1>8, Consts
  <2> QED BY <1>1, <1>3, <1>5, <2>1, <2>2, <2>3, CallsStep
<1>17. \A c \in Ctrl : ~Deletes(th[t], c)
  BY <1>1, <1>2, NoDelete
<1> QED BY <1>1, <1>3, <1>6, <1>11, <1>14, <1>15, <1>16, <1>17, KeptGood

(* What the put of a member does. *)
MemberMoves(t, g, c, pc, left) ==
  /\ g \in Group /\ c \in Ctrl /\ dev[c].ref > 0 /\ dev[c].ref - 1 \in Nat
  /\ th[t].o = g /\ th[t].pc = pc /\ pc \in {"rel_ctrls", "create_undo"} /\ th[t].left = left
  /\ left \in Seq(Ctrl) /\ left # <<>> /\ c = Head(left)
  /\ dev'[c] = [dev[c] EXCEPT !.ref = dev[c].ref - 1]
  /\ \A x \in Dev : x # c => dev'[x] = dev[x]
  /\ th'[t].op = th[t].op /\ th'[t].p = th[t].p /\ th'[t].f = th[t].f
  /\ \/ th'[t].o = g /\ th'[t].stack = th[t].stack /\ th'[t].pc = pc
     \/ /\ th'[t].o = c /\ th'[t].stack # <<>> /\ Head(th'[t].stack).o = g
        /\ th'[t].pc = "rel_dev"
  /\ GroupFrame(th[t]) = [pc |-> pc, o |-> g, left |-> left]
  /\ GroupFrame(th'[t]) = [pc |-> pc, o |-> g, left |-> Tail(left)]

(* What the put of a member moves *)
LEMMA PutMemberMoves ==
  ASSUME NEW t, Here(t), RelGroupCtrl(t) \/ CreateUndo(t)
  PROVE  MemberMoves(t, th[t].o, Head(th[t].left), th[t].pc, th[t].left)
<1>1. /\ t \in Thread /\ th[t] \in ThreadRec /\ dev \in [Dev -> DevRec]
      /\ StackOK(th[t]) /\ LocalsOK(th[t])
  BY HereFacts
<1> DEFINE g == th[t].o
           c == Head(th[t].left)
           rest == Tail(th[t].left)
           pc == th[t].pc
<1>2. /\ pc \in {"rel_ctrls", "create_undo"} /\ Runs(t, pc) /\ th[t].left # <<>>
      /\ Put(t, c, pc, rest)
  BY DEF RelGroupCtrl, CreateUndo, Runs, At
<1>3. c \in Ctrl /\ c \in Dev /\ dev[c].ref > 0
  BY <1>2, RunsFacts, Consts
<1>4. pc \in Pc /\ rest \in Seq(Ctrl) /\ pc \in GroupPc /\ "rel_dev" \notin GroupPc
  BY <1>1, <1>2 DEF ThreadRec, Pc, GroupPc, CreatePc, RelgPc
<1>5. g \in Group /\ dev[c].ref - 1 \in Nat /\ th[t].left \in Seq(Ctrl)
  <2>1. dev[c].ref \in Nat
    BY <1>1, <1>3 DEF DevRec
  <2> QED BY <1>1, <1>3, <1>4, <2>1 DEF LocalsOK, ThreadRec
<1>6. GroupFrame(th[t]) = [pc |-> pc, o |-> g, left |-> th[t].left]
  BY <1>4 DEF GroupFrame
<1>7. th[t].o = g /\ th[t].pc = pc
  OBVIOUS
<1>8. CASE dev[c].ref # 1
  <2>1. /\ th'[t].pc = pc /\ th'[t].o = g /\ th'[t].op = th[t].op
        /\ th'[t].p = th[t].p /\ th'[t].f = th[t].f
        /\ th'[t].left = rest /\ th'[t].stack = th[t].stack
        /\ \A x \in Dev : x # c => dev'[x] = dev[x]
        /\ Counted(c) /\ dev'[c].ref = dev[c].ref - 1
    <3> HIDE DEF c, pc, rest, g
    <3> QED BY <1>2, <1>3, <1>4, <1>7, <1>8, PutSome
  <2>2. dev'[c] = [dev[c] EXCEPT !.ref = dev[c].ref - 1]
    BY <2>1 DEF Counted
  <2>3. GroupFrame(th'[t]) = [pc |-> pc, o |-> g, left |-> rest]
    BY <1>4, <2>1 DEF GroupFrame
  <2> QED BY <1>2, <1>3, <1>5, <1>6, <2>1, <2>2, <2>3 DEF MemberMoves
<1>9. CASE dev[c].ref = 1
  <2>1. /\ th'[t].pc = IF c \in Ctrl THEN "rel_dev" ELSE "relg_dev"
        /\ th'[t].o = c /\ th'[t].op = th[t].op
        /\ th'[t].p = th[t].p /\ th'[t].f = th[t].f
        /\ th'[t].stack # <<>>
        /\ Head(th'[t].stack) = [pc |-> pc, o |-> g, left |-> rest]
        /\ \A x \in Dev : x # c => dev'[x] = dev[x]
        /\ dev'[c] = [dev[c] EXCEPT !.ref = 0]
    <3> HIDE DEF c, pc, rest, g
    <3> QED BY <1>2, <1>3, <1>4, <1>7, <1>9, PutEnd
  <2>2. dev[c].ref - 1 = 0 /\ th'[t].pc = "rel_dev" /\ Head(th'[t].stack).o = g
        /\ Head(th'[t].stack).pc = pc
    BY <1>3, <1>9, <2>1
  <2>3. GroupFrame(th'[t]) = [pc |-> pc, o |-> g, left |-> rest]
    BY <1>2, <1>4, <2>1, <2>2 DEF GroupFrame
  <2>4. dev'[c] = [dev[c] EXCEPT !.ref = dev[c].ref - 1]
    BY <2>1, <2>2
  <2> QED BY <1>2, <1>3, <1>5, <1>6, <2>1, <2>2, <2>3, <2>4 DEF MemberMoves
<1> QED BY <1>8, <1>9

(* A controller of a group is put. *)
LEMMA PutMemberGood ==
  ASSUME Inv, NEW t \in Thread, RelGroupCtrl(t) \/ CreateUndo(t)
  PROVE  Good(t)
<1>1. /\ pci' = pci /\ minors' = minors /\ coreRef' = coreRef /\ found' = found
      /\ kept' = kept /\ file' = file /\ ready' = ready /\ ~WrongType(t)
  BY DEF RelGroupCtrl, CreateUndo, Runs, kernVars
<1>2. Here(t)
  BY InvHere
<1>3. Fits(t) /\ MemberMoves(t, th[t].o, Head(th[t].left), th[t].pc, th[t].left)
  BY <1>2, PutMemberFits, PutMemberMoves
<1>4. PICK g, c, pc, left : MemberMoves(t, g, c, pc, left)
  BY <1>3
<1>5. /\ g \in Group /\ c \in Ctrl /\ dev[c].ref > 0 /\ dev[c].ref - 1 \in Nat
      /\ th[t].o = g /\ th[t].pc = pc /\ pc \in {"rel_ctrls", "create_undo"}
      /\ left \in Seq(Ctrl) /\ left # <<>> /\ c = Head(left)
      /\ dev'[c] = [dev[c] EXCEPT !.ref = dev[c].ref - 1]
      /\ \A x \in Dev : x # c => dev'[x] = dev[x]
      /\ th'[t].op = th[t].op /\ th'[t].p = th[t].p /\ th'[t].f = th[t].f
      /\ \/ th'[t].o = g /\ th'[t].stack = th[t].stack /\ th'[t].pc = pc
         \/ /\ th'[t].o = c /\ th'[t].stack # <<>> /\ Head(th'[t].stack).o = g
            /\ th'[t].pc = "rel_dev"
  BY <1>4 DEF MemberMoves
<1>6. /\ GroupFrame(th[t]).pc = pc /\ GroupOf(th[t]) = g /\ GroupFrame(th[t]).o = g
      /\ GroupFrame(th'[t]).pc = pc /\ GroupOf(th'[t]) = g /\ GroupFrame(th'[t]).o = g
      /\ GroupFrame(th[t]).left = left /\ GroupFrame(th'[t]).left = Tail(left)
  BY <1>4 DEF MemberMoves, GroupOf
<1>7. /\ th[t] \in ThreadRec /\ LocalsOK(th[t]) /\ GroupStage(th[t])
      /\ c \in Dev /\ g \in Dev /\ g # c /\ g # NULL
      /\ dev[c] \in DevRec /\ dev[c].ref \in Nat /\ kept' \in [Dev -> Nat]
  <2>1. kept' \in [Dev -> Nat]
    BY <1>1, <1>2, ConstantsAssumption DEF Here, TypeOK
  <2> QED BY <1>2, <1>5, <2>1, HereFacts, Consts DEF DevRec
<1>8. /\ dev'[c].heap = dev[c].heap /\ dev'[c].minor = dev[c].minor /\ dev'[c].cdev = dev[c].cdev
      /\ dev'[c].pdev = dev[c].pdev /\ dev'[c].ctrls = dev[c].ctrls /\ dev'[c].ref = dev[c].ref - 1
  <2> DEFINE d == dev[c]  n == dev[c].ref - 1
  <2>1. d \in DevRec /\ n \in Nat /\ dev'[c] = [d EXCEPT !.ref = n]
    BY <1>5, <1>7
  <2> HIDE DEF d, n
  <2>2. /\ dev'[c].heap = d.heap /\ dev'[c].minor = d.minor /\ dev'[c].cdev = d.cdev
        /\ dev'[c].pdev = d.pdev /\ dev'[c].ctrls = d.ctrls /\ dev'[c].ref = n
    BY <2>1 DEF DevRec
  <2> QED BY <2>2 DEF d, n
<1>9. OthersKeep(NULL) /\ \A x \in Dev : dev'[x].heap = dev[x].heap /\ dev'[x].ctrls = dev[x].ctrls
  BY <1>5, <1>8 DEF OthersKeep
<1>10. KernelKept
  <2>1. \A p \in Pdev : PciKept(p)
    BY <1>1 DEF PciKept
  <2>2. \A x \in Ctrl : ~NoRegion(th'[t], x) /\ ~NoRegion(th[t], x)
    BY <1>5 DEF NoRegion
  <2>3. \A x \in Dev : Unnumbers(th'[t], x) <=> Unnumbers(th[t], x)
    BY <1>6 DEF Unnumbers
  <2>4. NamesOf(th[t])' = NamesOf(th[t])
    <3>1. dev'[g].ctrls = dev[g].ctrls /\ pc # "create_get"
      BY <1>5, <1>7
    <3> QED BY <1>6, <3>1 DEF NamesOf
  <2> QED BY <1>1, <1>3, <1>9, <2>1, <2>2, <2>3, <2>4, QuietStep
<1>11. \A h \in Group : h # g => Members'[h] = Members[h]
  <2>1. \A h \in Group : h # g => ~Undoes(th[t], h) /\ ~Undoes(th'[t], h)
    BY <1>6 DEF Undoes
  <2> QED BY <1>2, <1>3, <1>9, <2>1, MembersFrame, Consts
<1>12. Members[g] = left /\ Members'[g] = Tail(left)
  <2>1. Undoes(th[t], g) /\ Undoes(th'[t], g)
    BY <1>5, <1>6 DEF Undoes, UndoPc
  <2>2. dev[g].heap = "live" /\ dev'[g].heap = "live"
    BY <1>6, <1>7, <1>9 DEF GroupStage
  <2>3. MembersAre /\ MembersAre' /\ t \in Thread
    BY <1>2, <1>3, FitsShape DEF Facts
  <2>4. Members[g] = GroupFrame(th[t]).left
    BY <1>5, <2>1, <2>2, <2>3 DEF MembersAre
  <2>5. Members'[g] = GroupFrame(th'[t]).left
    BY <1>5, <2>1, <2>2, <2>3 DEF MembersAre
  <2> QED BY <1>6, <2>4, <2>5
<1>13. th[t].op # "probe"
  BY <1>5, <1>7 DEF LocalsOK, ProbePc
<1>14. BindingsKept(t)
  <2>1. \A x \in Ctrl : dev'[x].pdev = dev[x].pdev
    BY <1>5, <1>8, Consts
  <2>2. th'[t].pc # "put"
    BY <1>5
  <2> QED BY <1>1, <1>5, <1>13, <2>1, <2>2 DEF BindingsKept
<1>15. ASSUME NEW x \in Dev
       PROVE  Balanced(x)
  <2>1. Base(x)' = Base(x) /\ Base(x) \in Nat
    BY <1>1, <1>2, <1>3, <1>14, BaseKept
  <2>2. ~IsPut(th'[t], x) /\ ~IsPut(th[t], x)
    BY <1>5 DEF IsPut
  <2>3. One(IsPut(th'[t], x)) = 0 /\ One(IsPut(th[t], x)) = 0
    BY <2>2 DEF One
  <2>4. /\ Uses(x) \in Nat /\ Uses(x)' \in Nat
        /\ Count(Members[g], x) \in Nat /\ Count(Members'[g], x) \in Nat
        /\ Uses(x)' + Base(x) + One(IsPut(th[t], x)) + Count(Members[g], x)
             = Uses(x) + Base(x)' + One(IsPut(th'[t], x)) + Count(Members'[g], x)
    BY <1>1, <1>2, <1>3, <1>5, <1>11, UsesMembers
  <2>5. Count(Tail(left), x) + One(Head(left) = x) = Count(left, x)
    BY <1>5, CountTail
  <2>6. One(Head(left) = x) \in Nat /\ (x = c => One(Head(left) = x) = 1)
        /\ (x # c => One(Head(left) = x) = 0)
    BY <1>5 DEF One
  <2> DEFINE u == Uses(x)  v == Uses(x)'  b == Base(x)  k == Count(left, x)
             l == Count(Tail(left), x)  m == One(Head(left) = x)
  <2>7. /\ u \in Nat /\ v \in Nat /\ b \in Nat /\ k \in Nat /\ l \in Nat /\ m \in Nat
        /\ v + b + 0 + k = u + b + 0 + l /\ l + m = k
    BY <1>12, <2>1, <2>3, <2>4, <2>5, <2>6
  <2>8. dev[x].ref \in Nat /\ (x = c => dev'[x].ref = dev[x].ref - 1 /\ m = 1)
        /\ (x # c => dev'[x].ref = dev[x].ref /\ m = 0)
    <3>1. dev[x].ref \in Nat
      BY <1>2, HereFacts DEF DevRec
    <3> QED BY <1>5, <1>8, <2>6, <3>1
  <2> HIDE DEF u, v, b, k, l, m
  <2>9. v + m = u
    BY <2>7
  <2>10. dev'[x].ref + u = dev[x].ref + v
    <3>1. CASE x = c
      BY <2>7, <2>8, <2>9, <3>1
    <3>2. CASE x # c
      BY <2>7, <2>8, <2>9, <3>2
    <3> QED BY <3>1, <3>2
  <2> QED BY <2>10 DEF u, v, Balanced
<1>16. Creators' /\ Opening'
  <2>1. ~IsOpening(th'[t])
    BY <1>5 DEF IsOpening
  <2>2. \A h \in Group : Makes(th'[t], h) => Makes(th[t], h)
    <3>1. \A h \in Group : h # c
      BY <1>5, Consts
    <3> QED BY <1>5, <3>1 DEF Makes
  <2>3. \A h \in Group : dev'[h].heap = dev[h].heap
    BY <1>9, Consts
  <2> QED BY <1>1, <1>3, <1>5, <2>1, <2>2, <2>3, CallsStep
<1>17. \A x \in Ctrl : ~Deletes(th[t], x)
  BY <1>1, <1>2, NoDelete
<1> QED BY <1>1, <1>3, <1>7, <1>10, <1>14, <1>15, <1>16, <1>17, KeptGood

(* The controllers a group holds, when the thread goes on with the group   *)
(* it is taking down.                                                      *)
LEMMA MembersSame ==
  ASSUME NEW t, Here(t), Fits(t), NEW h \in Group,
         dev'[h].heap = dev[h].heap, dev'[h].ctrls = dev[h].ctrls,
         Undoes(th'[t], h) <=> Undoes(th[t], h),
         Undoes(th[t], h) => GroupFrame(th'[t]).left = GroupFrame(th[t]).left
  PROVE  Members'[h] = Members[h]
<1>1. CASE ~Undoes(th[t], h)
  BY <1>1, MembersFrame
<1>2. CASE Undoes(th[t], h)
  <2>1. MembersAre /\ MembersAre' /\ t \in Thread
    BY FitsShape DEF Facts, Here
  <2>2. CASE dev[h].heap = "live"
    <3>1. Members[h] = GroupFrame(th[t]).left
      BY <1>2, <2>1, <2>2 DEF MembersAre
    <3>2. Members'[h] = GroupFrame(th'[t]).left
      BY <1>2, <2>1, <2>2 DEF MembersAre
    <3> QED BY <1>2, <3>1, <3>2
  <2>3. CASE dev[h].heap # "live"
    BY <2>1, <2>3 DEF MembersAre
  <2> QED BY <2>2, <2>3
<1> QED BY <1>1, <1>2

(* A step that moves no reference. *)
LEMMA StillBalanced ==
  ASSUME NEW t, Here(t), Fits(t), BindingsKept(t), ready' = ready, kept' = kept, file' = file,
         \A h \in Group : Members'[h] = Members[h],
         \A x \in Dev : dev'[x].ref = dev[x].ref,
         \A x \in Dev : ~IsPut(th[t], x) /\ ~IsPut(th'[t], x)
  PROVE  kept' \in [Dev -> Nat] /\ \A x \in Dev : Balanced(x)
<1>1. kept' \in [Dev -> Nat]
  BY ConstantsAssumption DEF Here, TypeOK
<1>2. ASSUME NEW x \in Dev
      PROVE  Balanced(x)
  <2>1. Base(x)' = Base(x)
    BY BaseKept
  <2>2. One(IsPut(th'[t], x)) = 0 /\ One(IsPut(th[t], x)) = 0
    BY DEF One
  <2>3. dev'[x].ref + Base(x) + One(IsPut(th[t], x)) + kept[x]
           = dev[x].ref + Base(x)' + One(IsPut(th'[t], x)) + kept'[x]
    BY <2>1, <2>2
  <2> QED BY <1>1, <2>3, BalancedBy
<1> QED BY <1>1, <1>2

(* No device is found or put by name. *)
LEMMA FoundKept ==
  ASSUME Inv, NEW t \in Thread, Fits(t), found' = found, NamesOf(th[t])' = NamesOf(th[t])
  PROVE  FoundExact'
<1>1. Here(t) /\ TypeOK /\ FoundExact
  BY InvHere
<1> SUFFICES ASSUME NEW c \in Ctrl
             PROVE  found'[c] = Total([u \in Thread |-> NamesOf(th[u])'], c)
  BY DEF FoundExact
<1>2. found[c] \in Nat /\ found'[c] = found[c]
  BY <1>1, Consts DEF TypeOK
<1>3. found'[c] + Count(NamesOf(th[t]), c) = found[c] + Count(NamesOf(th[t])', c)
  BY <1>2
<1> QED BY <1>1, <1>2, <1>3, NamesStep

(* Whether the controller a thread makes or takes down has its BAR 0. *)
OwnRegions ==
  \A t \in Thread, c \in Ctrl : CtrlOf(th[t]) = c =>
    (HasRegion(c) <=> dev[c].heap = "live" /\ th[t].pc \notin {"probe_region", "rel_free"})

(* One thread at most is at BAR 0 of a controller. *)
LEMMA OwnRegionFacts == Owners => OwnRegions
<1> SUFFICES ASSUME Owners, NEW t \in Thread, NEW c \in Ctrl, CtrlOf(th[t]) = c
             PROVE  HasRegion(c) <=> dev[c].heap = "live" /\ th[t].pc \notin {"probe_region", "rel_free"}
  BY DEF OwnRegions
<1>1. \A u \in Thread : u # t => CtrlOf(th[u]) # c
  BY Consts DEF Owners
<1> QED BY <1>1 DEF HasRegion, NoRegion

(* One controller c and its function p change. *)
RegionStep(t, c, p) ==
  /\ c \in Ctrl /\ p \in Pdev
  /\ \A x \in Ctrl : x # c => /\ dev'[x].heap = dev[x].heap /\ dev'[x].minor = dev[x].minor
                              /\ dev'[x].pdev = dev[x].pdev
  /\ \A x \in Ctrl : x # c => (NoRegion(th'[t], x) <=> NoRegion(th[t], x))
  /\ \A q \in Pdev : q # p => PciKept(q)
  /\ dev'[c].pdev = p /\ (dev[c].heap = "live" => dev[c].pdev = p)

RegionMove(c, p) ==
  \/ HasRegion(c) /\ HasRegion(c)' /\ pci'[p].region = pci[p].region
  \/ ~HasRegion(c) /\ ~HasRegion(c)' /\ pci'[p].region = pci[p].region
  \/ HasRegion(c) /\ ~HasRegion(c)' /\ pci'[p].region = NULL
  \/ ~HasRegion(c) /\ HasRegion(c)' /\ pci[p].region = NULL /\ pci'[p].region = c

(* A step on BAR 0 of one function keeps the resources exact. *)
LEMMA RegionsStep ==
  ASSUME NEW t, Here(t), Fits(t), Regions, NEW c, NEW p, RegionStep(t, c, p), RegionMove(c, p),
         pci'[p].enabled = (IF pci'[p].region # NULL /\ dev'[pci'[p].region].minor # NULL
                            THEN 1 ELSE 0),
         pci'[p].master => dev'[c].heap = "live"
  PROVE  Regions'
<1>1. c \in Ctrl /\ p \in Pdev /\ c # NULL
  BY Consts DEF RegionStep
<1>2. /\ \A q \in Pdev : pci[q].region # NULL =>
           HasRegion(pci[q].region) /\ dev[pci[q].region].pdev = q
      /\ \A x \in Ctrl : HasRegion(x) => pci[dev[x].pdev].region = x
      /\ \A q \in Pdev :
           pci[q].enabled = (IF pci[q].region # NULL /\ dev[pci[q].region].minor # NULL
                         THEN 1 ELSE 0)
      /\ \A q \in Pdev : pci[q].master =>
           \E x \in Ctrl : dev[x].heap = "live" /\ dev[x].pdev = q
  BY DEF Regions
<1>3. ASSUME NEW x \in Ctrl, x # c
      PROVE  HasRegion(x)' <=> HasRegion(x)
  <2>1. \A u \in Thread : u # t => th'[u] = th[u]
    BY DEF Fits, ThreadFits
  <2>2. \A u \in Thread : NoRegion(th'[u], x) <=> NoRegion(th[u], x)
    BY <1>3, <2>1 DEF RegionStep
  <2> QED BY <1>3, <2>2 DEF HasRegion, RegionStep
<1>4. \A q \in Pdev : q # p => /\ pci'[q].region = pci[q].region /\ pci'[q].enabled = pci[q].enabled
                               /\ pci'[q].master = pci[q].master
  BY DEF RegionStep, PciKept
<1>5. \A q \in Pdev : pci[q].region \in Ctrl \cup {NULL}
  BY DEF Here, TypeOK
<1>6. HasRegion(c) => dev[c].pdev = p
  BY DEF RegionStep, HasRegion
<1>7. dev'[c].pdev = p /\ (dev[c].heap = "live" => dev[c].pdev = p)
  BY DEF RegionStep
<1>8. \A x \in Ctrl : x # c => /\ dev'[x].heap = dev[x].heap /\ dev'[x].minor = dev[x].minor
                               /\ dev'[x].pdev = dev[x].pdev
  BY DEF RegionStep
<1>9. ASSUME NEW q \in Pdev, q # p
      PROVE  pci[q].region # c
  BY <1>1, <1>2, <1>6, <1>9
<1>10. ASSUME NEW q \in Pdev, pci'[q].region # NULL
       PROVE  HasRegion(pci[q].region)' /\ dev'[pci'[q].region].pdev = q
  <2>1. CASE q # p
    <3>1. PICK x \in Ctrl : x = pci[q].region /\ x # c /\ x = pci'[q].region
      BY <1>4, <1>5, <1>9, <1>10, <2>1
    <3>2. HasRegion(x) /\ dev[x].pdev = q
      <4>1. pci[q].region # NULL
        BY <3>1, Consts
      <4>2. HasRegion(pci[q].region) /\ dev[pci[q].region].pdev = q
        BY <1>2, <4>1
      <4> QED BY <3>1, <4>2
    <3>3. HasRegion(x)' /\ dev'[x].pdev = q
      BY <1>3, <1>8, <3>1, <3>2
    <3>4. HasRegion(x)' <=> HasRegion(pci[q].region)'
      BY <3>1 DEF HasRegion, NoRegion
    <3> QED BY <3>1, <3>3, <3>4
  <2>2. CASE q = p
    <3>1. PICK x \in Ctrl : x = pci'[p].region /\ HasRegion(x)' /\ dev'[x].pdev = p
      <4>1. CASE HasRegion(c)'
        <5>1. pci'[p].region = c
          BY <1>1, <1>2, <1>6, <4>1 DEF RegionMove
        <5> QED BY <1>1, <1>7, <4>1, <5>1
      <4>2. CASE ~HasRegion(c)'
        <5>1. ~HasRegion(c) /\ pci'[p].region = pci[p].region
          BY <1>10, <2>2, <4>2 DEF RegionMove
        <5>2. pci[p].region \in Ctrl /\ pci[p].region # c
          BY <1>1, <1>2, <1>5, <1>10, <2>2, <5>1
        <5>3. HasRegion(pci[p].region) /\ dev[pci[p].region].pdev = p
          BY <1>1, <1>2, <5>2, Consts
        <5>4. PICK x \in Ctrl : x = pci[p].region
          BY <5>2
        <5>5. HasRegion(x)' /\ dev'[x].pdev = p
          BY <1>3, <1>8, <5>2, <5>3, <5>4
        <5> QED BY <5>1, <5>4, <5>5
      <4> QED BY <4>1, <4>2
    <3>2. HasRegion(x)' <=> HasRegion(pci[p].region)'
      BY <3>1 DEF HasRegion, NoRegion
    <3> QED BY <2>2, <3>1, <3>2
  <2> QED BY <2>1, <2>2
<1>11. ASSUME NEW x \in Ctrl, HasRegion(x)'
       PROVE  pci'[dev'[x].pdev].region = x
  <2>1. CASE x = c
    BY <1>1, <1>2, <1>6, <1>7, <1>11, <2>1 DEF RegionMove
  <2>2. CASE x # c
    <3>1. HasRegion(x) /\ pci[dev[x].pdev].region = x /\ dev'[x].pdev = dev[x].pdev
      BY <1>2, <1>3, <1>8, <1>11, <2>2
    <3>2. dev[x].pdev \in Pdev
      <4>1. x \in Dev /\ ObjectOK(dev[x], x)
        BY HereFacts, Consts
      <4> QED BY <3>1, <4>1 DEF HasRegion, ObjectOK
    <3>3. CASE dev[x].pdev # p
      BY <1>4, <3>1, <3>2, <3>3
    <3>4. CASE dev[x].pdev = p
      <4>1. ~HasRegion(c)
        BY <1>1, <1>2, <1>6, <2>2, <3>1, <3>4
      <4>2. pci[p].region # NULL
        BY <3>1, <3>4, Consts
      <4> QED BY <3>1, <3>4, <4>1, <4>2 DEF RegionMove
    <3> QED BY <3>3, <3>4
  <2> QED BY <2>1, <2>2
<1>12. ASSUME NEW q \in Pdev
       PROVE  pci'[q].enabled = (IF pci'[q].region # NULL /\ dev'[pci'[q].region].minor # NULL
                                 THEN 1 ELSE 0)
  <2>1. CASE q = p
    BY <2>1
  <2>2. CASE q # p
    <3>1. pci'[q].region = pci[q].region /\ pci'[q].enabled = pci[q].enabled
      BY <1>4, <2>2
    <3>2. pci[q].region # NULL => dev'[pci[q].region].minor = dev[pci[q].region].minor
      BY <1>5, <1>8, <1>9, <2>2
    <3> QED BY <1>2, <3>1, <3>2
  <2> QED BY <2>1, <2>2
<1>13. ASSUME NEW q \in Pdev, pci'[q].master
       PROVE  \E x \in Ctrl : dev'[x].heap = "live" /\ dev'[x].pdev = q
  <2>1. CASE q = p
    BY <1>1, <1>7, <1>13, <2>1
  <2>2. CASE q # p
    <3>1. pci[q].master
      BY <1>4, <1>13, <2>2
    <3>2. PICK x \in Ctrl : dev[x].heap = "live" /\ dev[x].pdev = q
      BY <1>2, <3>1
    <3>3. x # c
      BY <1>7, <2>2, <3>2
    <3> QED BY <1>8, <3>2, <3>3
  <2> QED BY <2>1, <2>2
<1> QED BY <1>10, <1>11, <1>12, <1>13 DEF Regions

(* A step of a thread on the controller c that it makes or takes down. *)
CtrlMoves(t, c) ==
  /\ c \in Ctrl /\ CtrlOf(th[t]) = c /\ th[t].o = c /\ th[t].pc \in CtrlPc
  /\ GroupFrame(th'[t]) = GroupFrame(th[t])
  /\ th'[t].op = th[t].op /\ th'[t].p = th[t].p /\ th'[t].f = th[t].f
  /\ \A h \in Group : Makes(th'[t], h) => Makes(th[t], h)
  /\ th'[t].pc \in CtrlPc \cup {"ret", "create_undo", "rel_ctrls"}
  /\ th[t].op = "probe" => th'[t].o = th[t].o
  /\ \A x \in Dev : x # c => dev'[x] = dev[x]

(* A step of a release or a probe at one controller *)
LEMMA CtrlGood ==
  ASSUME Inv, NEW t \in Thread, Fits(t), NEW c, CtrlMoves(t, c),
         found' = found, kept' = kept, file' = file, ready' = ready,
         \A p \in Pdev : pci'[p].bound = pci[p].bound /\ pci'[p].drv = pci[p].drv,
         dev'[c].ref = dev[c].ref, dev'[c].pdev = dev[c].pdev,
         Regions', MinorsExact', CoreRefExact'
  PROVE  Good(t)
<1>1. Here(t)
  BY InvHere
<1>2. /\ c \in Ctrl /\ CtrlOf(th[t]) = c /\ th[t].o = c /\ th[t].pc \in CtrlPc
      /\ GroupFrame(th'[t]) = GroupFrame(th[t])
      /\ th'[t].op = th[t].op /\ th'[t].p = th[t].p /\ th'[t].f = th[t].f
      /\ \A h \in Group : Makes(th'[t], h) => Makes(th[t], h)
      /\ th'[t].pc \in CtrlPc \cup {"ret", "create_undo", "rel_ctrls"}
      /\ th[t].op = "probe" => th'[t].o = th[t].o
      /\ \A x \in Dev : x # c => dev'[x] = dev[x]
  BY DEF CtrlMoves
<1>3. c \in Dev /\ \A h \in Group : h # c /\ h \in Dev
  BY <1>2, Consts
<1>4. \A h \in Group : dev'[h] = dev[h]
  BY <1>2, <1>3
<1>5. \A h \in Group : Members'[h] = Members[h]
  <2>1. \A h \in Group : Undoes(th'[t], h) <=> Undoes(th[t], h)
    BY <1>2 DEF Undoes, GroupOf
  <2> QED BY <1>1, <1>2, <1>4, <2>1, MembersSame
<1>6. NamesOf(th[t])' = NamesOf(th[t])
  <2>1. Frames1(th[t])
    BY <1>1, ThreadFrames DEF Here
  <2>2. GroupFrame(th[t]).pc \in CreatePc => GroupFrame(th[t]).o \in Group
    BY <2>1 DEF Frames1, GroupOf, GroupPc
  <2>3. "create_get" \in CreatePc
    BY DEF CreatePc
  <2>4. GroupFrame(th[t]).pc \in CreatePc =>
          dev'[GroupFrame(th[t]).o].ctrls = dev[GroupFrame(th[t]).o].ctrls
    BY <1>4, <2>2
  <2> QED BY <1>2, <2>3, <2>4 DEF NamesOf
<1>7. FoundExact'
  BY <1>6, FoundKept
<1>8. {"put", "open_ctx", "ioctl_do", "ioctl_map", "create_copy", "mmap_do", "open_get"}
        \cap (CtrlPc \cup {"ret", "create_undo", "rel_ctrls"}) = {}
  BY DEF CtrlPc, ProbePc, RelPc
<1>9. \A x \in Dev : ~IsPut(th[t], x) /\ ~IsPut(th'[t], x)
  BY <1>2, <1>8 DEF IsPut
<1>10. BindingsKept(t)
  <2>1. \A x \in Ctrl : dev'[x].pdev = dev[x].pdev
    BY <1>2, Consts
  <2>2. th'[t].pc # "put"
    BY <1>2, <1>8
  <2> QED BY <1>2, <2>1, <2>2 DEF BindingsKept
<1>11. \A x \in Dev : dev'[x].ref = dev[x].ref
  BY <1>2
<1>12. kept' \in [Dev -> Nat] /\ \A x \in Dev : Balanced(x)
  BY <1>1, <1>5, <1>9, <1>10, <1>11, StillBalanced
<1>13. Creators' /\ Opening'
  <2>1. ~IsOpening(th'[t])
    BY <1>2, <1>8 DEF IsOpening
  <2> QED BY <1>2, <1>4, <2>1, CallsStep
<1>14. \A x \in Ctrl : ~Deletes(th[t], x)
  BY <1>2, <1>8 DEF Deletes
<1>15. KernelKept
  BY <1>7 DEF KernelKept
<1> QED BY <1>10, <1>12, <1>13, <1>14, <1>15, KeptGood

(* __bafs_ctrl_release: the thread, and what the step does to the object *)
LEMMA RelMoves ==
  ASSUME NEW t, Here(t), RelDev(t) \/ RelPci(t) \/ RelFree(t), Fits(t), NEW c, c = th[t].o
  PROVE  /\ CtrlMoves(t, c) /\ th[t].pc \in RelPc
         /\ dev'[c].ref = dev[c].ref /\ dev'[c].pdev = dev[c].pdev /\ dev'[c].minor = dev[c].minor
         /\ RelDev(t) => /\ th[t].pc = "rel_dev" /\ th'[t].pc = "rel_pci" /\ CtrlOf(th'[t]) = c
                         /\ dev'[c].heap = dev[c].heap /\ ~dev'[c].cdev
         /\ RelPci(t) => /\ th[t].pc = "rel_pci" /\ th'[t].pc = "rel_free" /\ CtrlOf(th'[t]) = c
                         /\ dev' = dev
         /\ RelFree(t) => /\ th[t].pc = "rel_free" /\ dev'[c].heap = "freed"
                          /\ th'[t].pc \in {"ret", "create_undo", "rel_ctrls"}
                          /\ dev'[c].cdev = dev[c].cdev /\ CtrlOf(th'[t]) = NULL
<1>1. /\ t \in Thread /\ th \in [Thread -> ThreadRec] /\ th[t] \in ThreadRec
      /\ dev \in [Dev -> DevRec]
      /\ StackOK(th[t]) /\ LocalsOK(th[t]) /\ CtrlStage(th[t])
  BY HereFacts
<1>2. th[t].pc \in RelPc
  BY Zenon DEF RelDev, RelPci, RelFree, Runs, At, RelPc
<1>3. c \in Ctrl /\ c \in Dev /\ CtrlOf(th[t]) = c /\ th[t].pc \in CtrlPc
  BY <1>1, <1>2, Consts DEF LocalsOK, CtrlOf, CtrlPc
<1>4. th[t].op # "probe"
  BY <1>1, <1>2 DEF LocalsOK, ProbePc, RelPc
<1>5. CASE RelDev(t) \/ RelPci(t)
  <2>1. /\ \/ RelDev(t) /\ th[t].pc = "rel_dev" /\ Goto(t, "rel_pci")
              /\ dev' = [dev EXCEPT ![c].shown = FALSE, ![c].cdev = FALSE]
           \/ RelPci(t) /\ th[t].pc = "rel_pci" /\ Goto(t, "rel_free") /\ dev' = dev
    BY <1>5, ZenonT(40) DEF RelDev, RelPci, Runs, At
  <2>2. /\ th'[t].pc \in {"rel_pci", "rel_free"} /\ th'[t].o = c /\ th'[t].op = th[t].op
        /\ th'[t].p = th[t].p /\ th'[t].f = th[t].f /\ th'[t].stack = th[t].stack
        /\ th[t].pc = "rel_dev" => th'[t].pc = "rel_pci"
        /\ th[t].pc = "rel_pci" => th'[t].pc = "rel_free"
    BY <2>1, GotoFacts DEF Pc
  <2>3. GroupFrame(th'[t]) = GroupFrame(th[t])
    BY <2>1, <2>2 DEF GroupFrame, GroupPc, RelgPc, CreatePc
  <2>4. \A x \in Dev : x # c => dev'[x] = dev[x]
    BY <1>1, <1>3, <2>1 DEF DevRec
  <2>5. /\ dev'[c].ref = dev[c].ref /\ dev'[c].heap = dev[c].heap /\ dev'[c].pdev = dev[c].pdev
        /\ dev'[c].minor = dev[c].minor
        /\ RelDev(t) => ~dev'[c].cdev
    <3>1. ~(RelDev(t) /\ th[t].pc = "rel_pci")
      BY DEF RelDev, Runs, At
    <3> QED BY <1>1, <1>3, <2>1, <3>1 DEF DevRec
  <2>6. th'[t].pc \in CtrlPc /\ CtrlOf(th'[t]) = c
    BY <2>2 DEF CtrlOf, CtrlPc, RelPc
  <2>7. \A h \in Group : Makes(th'[t], h) => Makes(th[t], h)
    BY <2>2 DEF Makes
  <2>8. CtrlMoves(t, c)
    BY <1>3, <1>4, <2>2, <2>3, <2>4, <2>6, <2>7 DEF CtrlMoves
  <2>9. ~RelFree(t) /\ ~(RelDev(t) /\ th[t].pc = "rel_pci") /\ ~(RelPci(t) /\ th[t].pc = "rel_dev")
    BY <2>1, Zenon DEF RelFree, RelDev, RelPci, Runs, At
  <2> QED BY <1>2, <2>1, <2>2, <2>5, <2>6, <2>8, <2>9
<1>6. CASE RelFree(t)
  <2> DEFINE s == Head(th[t].stack)
  <2>1. /\ th[t].pc = "rel_free" /\ dev' = [dev EXCEPT ![c].heap = "freed"]
        /\ th' = [th EXCEPT ![t].pc = s.pc, ![t].o = s.o, ![t].left = s.left,
                            ![t].stack = Tail(@)]
    BY <1>6 DEF RelFree, Runs, At, Back
  <2>2. th[t].stack \in Seq(Frame) /\ th[t].stack # <<>>
    BY <1>1, <2>1 DEF ThreadRec, StackOK, Above, RelPc
  <2>3. s \in Frame
    BY <2>2, Pop
  <2>4. /\ th'[t].pc = s.pc /\ th'[t].o = s.o /\ th'[t].left = s.left
        /\ th'[t].op = th[t].op /\ th'[t].p = th[t].p /\ th'[t].f = th[t].f
        /\ th'[t].stack = Tail(th[t].stack)
    <3> HIDE DEF s
    <3> QED BY <1>1, <2>1, SMTT(30) DEF ThreadRec
  <2>5. \/ s.pc = "ret" /\ s.o = c /\ Tail(th[t].stack) = <<>>
        \/ /\ s.pc = "create_undo" /\ th[t].op = "create" /\ s.o \in Group
           /\ Tail(th[t].stack) = <<>>
        \/ /\ s.pc = "rel_ctrls" /\ th[t].op # "remove" /\ s.o \in Group
           /\ Tail(th[t].stack) # <<>> /\ Head(Tail(th[t].stack)).pc = "ret"
           /\ Head(Tail(th[t].stack)).o = s.o /\ Tail(Tail(th[t].stack)) = <<>>
    BY <1>1, <2>1 DEF StackOK, Above, RelPc
  <2>6. GroupFrame(th'[t]) = GroupFrame(th[t])
    <3>1. s = [pc |-> s.pc, o |-> s.o, left |-> s.left]
      BY <2>3 DEF Frame
    <3>2. "rel_free" \notin GroupPc /\ "ret" \notin GroupPc
          /\ {"create_undo", "rel_ctrls"} \subseteq GroupPc
      BY DEF GroupPc, CreatePc, RelgPc
    <3>3. CASE s.pc = "ret"
      BY <2>1, <2>2, <2>4, <2>5, <3>2, <3>3, ZenonT(40) DEF GroupFrame
    <3>4. CASE s.pc # "ret"
      BY <2>1, <2>2, <2>4, <2>5, <3>1, <3>2, <3>4, Zenon DEF GroupFrame
    <3> QED BY <3>3, <3>4
  <2>7. \A x \in Dev : x # c => dev'[x] = dev[x]
    BY <1>1, <1>3, <2>1 DEF DevRec
  <2>8. /\ dev'[c].heap = "freed" /\ dev'[c].ref = dev[c].ref /\ dev'[c].pdev = dev[c].pdev
        /\ dev'[c].minor = dev[c].minor /\ dev'[c].cdev = dev[c].cdev
    BY <1>1, <1>3, <2>1 DEF DevRec
  <2>9. \A h \in Group : Makes(th'[t], h) => Makes(th[t], h)
    BY <1>3, <2>2, <2>4, <2>5, Consts DEF Makes
  <2>10. th'[t].pc \in {"ret", "create_undo", "rel_ctrls"}
    BY <2>4, <2>5
  <2>11. CtrlOf(th'[t]) = NULL
    BY <2>10 DEF CtrlOf, CtrlPc, ProbePc, RelPc
  <2>12. CtrlMoves(t, c)
    BY <1>3, <1>4, <2>4, <2>6, <2>7, <2>9, <2>10 DEF CtrlMoves
  <2>13. ~RelDev(t) /\ ~RelPci(t)
    BY <2>1 DEF RelDev, RelPci, Runs, At
  <2> QED BY <1>2, <2>1, <2>8, <2>10, <2>11, <2>12, <2>13, SMTT(30)
<1> QED BY <1>5, <1>6

(* A controller has a number as soon as one is written to it. *)
CtrlNumbers ==
  \A c \in Ctrl : HasNumber(c) <=> dev[c].heap = "live" /\ dev[c].minor # NULL

(* A controller has its minor number as long as it is live. *)
LEMMA CtrlNumberFacts == Shape => CtrlNumbers
<1> SUFFICES ASSUME Shape, NEW c \in Ctrl, NEW u \in Thread
             PROVE  ~Unnumbers(th[u], c)
  BY DEF CtrlNumbers, HasNumber
<1>1. Frames1(th[u])
  BY RecordFrames DEF Shape, Threads
<1> QED BY <1>1, Consts DEF Frames1, Unnumbers

(* What a step on controller c leaves alone. *)
LEMMA CtrlOthers ==
  ASSUME NEW t, Here(t), Fits(t), NEW c, CtrlMoves(t, c)
  PROVE  /\ c \in Ctrl /\ c \in Dev /\ OthersKeep(c) /\ Unnumbered(t, c)
         /\ HasNumber(c) <=> dev[c].heap = "live" /\ dev[c].minor # NULL
         /\ HasNumber(c)' <=> dev'[c].heap = "live" /\ dev'[c].minor # NULL
         /\ HasRegion(c) <=> dev[c].heap = "live" /\ th[t].pc \notin {"probe_region", "rel_free"}
         /\ CtrlOf(th'[t]) = c =>
              (HasRegion(c)' <=> dev'[c].heap = "live"
                                 /\ th'[t].pc \notin {"probe_region", "rel_free"})
         /\ \A x \in Ctrl : x # c => ~NoRegion(th[t], x)
         /\ \A x \in Ctrl : CtrlOf(th'[t]) \in {c, NULL} /\ x # c => ~NoRegion(th'[t], x)
         /\ \A x \in Ctrl : x # c => /\ dev'[x].heap = dev[x].heap /\ dev'[x].minor = dev[x].minor
                                     /\ dev'[x].pdev = dev[x].pdev
<1>1. c \in Ctrl /\ c \in Dev /\ CtrlOf(th[t]) = c /\ \A x \in Dev : x # c => dev'[x] = dev[x]
  BY Consts DEF CtrlMoves
<1>2. OthersKeep(c)
  BY <1>1 DEF OthersKeep
<1>3. Unnumbered(t, c)
  BY DEF CtrlMoves, Unnumbered, Unnumbers, GroupOf
<1>4. Shape /\ Shape'
  BY FitsShape
<1>5. CtrlNumbers /\ CtrlNumbers'
  BY <1>4, CtrlNumberFacts, PTL
<1>6. t \in Thread /\ Owners /\ Owners'
  BY FitsInv DEF Here
<1>7. OwnRegions /\ OwnRegions'
  BY <1>6, OwnRegionFacts, PTL
<1>8. HasRegion(c) <=> dev[c].heap = "live" /\ th[t].pc \notin {"probe_region", "rel_free"}
  BY <1>1, <1>6, <1>7 DEF OwnRegions
<1>9. CtrlOf(th'[t]) = c =>
        (HasRegion(c)' <=> dev'[c].heap = "live" /\ th'[t].pc \notin {"probe_region", "rel_free"})
  BY <1>1, <1>6, <1>7 DEF OwnRegions
<1>10. /\ HasNumber(c) <=> dev[c].heap = "live" /\ dev[c].minor # NULL
       /\ HasNumber(c)' <=> dev'[c].heap = "live" /\ dev'[c].minor # NULL
  BY <1>1, <1>5 DEF CtrlNumbers
<1>11. /\ \A x \in Ctrl : x # c => ~NoRegion(th[t], x)
       /\ \A x \in Ctrl : CtrlOf(th'[t]) \in {c, NULL} /\ x # c => ~NoRegion(th'[t], x)
  BY <1>1, Consts DEF NoRegion
<1> QED BY <1>1, <1>2, <1>3, <1>8, <1>9, <1>10, <1>11, Consts

(* device_destroy, put_device and cdev_del in __bafs_ctrl_release *)
LEMMA RelDevGood ==
  ASSUME Inv, NEW t \in Thread, RelDev(t)
  PROVE  Good(t)
<1>1. /\ pci' = pci /\ minors' = minors /\ coreRef' = coreRef - 1 /\ found' = found
      /\ kept' = kept /\ file' = file /\ ready' = ready
  BY DEF RelDev
<1>2. Here(t) /\ Regions /\ MinorsExact /\ CoreRefExact
  BY InvHere
<1>3. Fits(t)
  BY <1>2, RelFits
<1>4. PICK c : c = th[t].o
  OBVIOUS
<1>5. /\ CtrlMoves(t, c) /\ th[t].pc = "rel_dev" /\ th'[t].pc = "rel_pci" /\ CtrlOf(th'[t]) = c
      /\ dev'[c].ref = dev[c].ref /\ dev'[c].pdev = dev[c].pdev /\ dev'[c].minor = dev[c].minor
      /\ dev'[c].heap = dev[c].heap /\ ~dev'[c].cdev
  BY <1>2, <1>3, <1>4, RelMoves
<1>6. /\ c \in Ctrl /\ c \in Dev /\ OthersKeep(c) /\ Unnumbered(t, c)
      /\ HasNumber(c) <=> dev[c].heap = "live" /\ dev[c].minor # NULL
      /\ HasNumber(c)' <=> dev'[c].heap = "live" /\ dev'[c].minor # NULL
      /\ \A x \in Ctrl : x # c => ~NoRegion(th[t], x)
      /\ \A x \in Ctrl : x # c => ~NoRegion(th'[t], x)
      /\ \A x \in Ctrl : x # c => /\ dev'[x].heap = dev[x].heap /\ dev'[x].minor = dev[x].minor
                                  /\ dev'[x].pdev = dev[x].pdev
  BY <1>2, <1>3, <1>5, CtrlOthers
<1>7. Regions'
  <2>1. \A x \in Ctrl : NoRegion(th'[t], x) <=> NoRegion(th[t], x)
    BY <1>5, <1>6 DEF NoRegion
  <2>2. \A p \in Pdev : PciKept(p)
    BY <1>1 DEF PciKept
  <2> QED BY <1>2, <1>3, <1>5, <1>6, <2>1, <2>2, RegionsKept
<1>8. MinorsExact'
  BY <1>1, <1>2, <1>3, <1>5, <1>6, MinorsKept
<1>9. CoreRefExact'
  <2>1. dev[c].cdev
    BY <1>2, <1>4, <1>5, HereFacts DEF CtrlStage, CtrlPc, RelPc
  <2>2. One(HoldsCore(dev[c], c)) = 1 /\ One(HoldsCore(dev'[c], c)) = 0
    BY <1>5, <1>6, <2>1 DEF One, HoldsCore
  <2>3. coreRef \in Nat
    BY <1>2 DEF Here, TypeOK
  <2> QED BY <1>1, <1>2, <1>6, <2>2, <2>3, CoreStep, SMTT(30)
<1> QED BY <1>1, <1>3, <1>5, <1>7, <1>8, <1>9, CtrlGood

(* The function of a controller. *)
LEMMA CtrlPdev ==
  ASSUME NEW t, Here(t), NEW c \in Ctrl, dev[c].heap # "unused"
  PROVE  dev[c].pdev \in Pdev
<1>1. c \in Dev
  BY Consts
<1>2. ObjectOK(dev[c], c)
  BY <1>1, HereFacts
<1> QED BY <1>2 DEF ObjectOK

(* pci_disable_device and pci_release_region *)
LEMMA RelPciGood ==
  ASSUME Inv, NEW t \in Thread, RelPci(t)
  PROVE  Good(t)
<1>1. /\ minors' = minors /\ coreRef' = coreRef /\ found' = found
      /\ kept' = kept /\ file' = file /\ ready' = ready
  BY DEF RelPci
<1>2. Here(t) /\ Regions /\ MinorsExact /\ CoreRefExact /\ TypeOK
  BY InvHere
<1>3. Fits(t)
  BY <1>2, RelFits
<1>4. PICK c : c = th[t].o
  OBVIOUS
<1>5. /\ CtrlMoves(t, c) /\ th[t].pc = "rel_pci" /\ th'[t].pc = "rel_free" /\ CtrlOf(th'[t]) = c
      /\ dev'[c].ref = dev[c].ref /\ dev'[c].pdev = dev[c].pdev /\ dev'[c].minor = dev[c].minor
      /\ dev' = dev
  BY <1>2, <1>3, <1>4, RelMoves
<1>6. /\ c \in Ctrl /\ c \in Dev /\ OthersKeep(c) /\ Unnumbered(t, c)
      /\ HasNumber(c) <=> dev[c].heap = "live" /\ dev[c].minor # NULL
      /\ HasNumber(c)' <=> dev'[c].heap = "live" /\ dev'[c].minor # NULL
      /\ HasRegion(c) <=> dev[c].heap = "live" /\ th[t].pc \notin {"probe_region", "rel_free"}
      /\ HasRegion(c)' <=> dev'[c].heap = "live" /\ th'[t].pc \notin {"probe_region", "rel_free"}
      /\ \A x \in Ctrl : x # c => ~NoRegion(th[t], x)
      /\ \A x \in Ctrl : x # c => ~NoRegion(th'[t], x)
      /\ \A x \in Ctrl : x # c => /\ dev'[x].heap = dev[x].heap /\ dev'[x].minor = dev[x].minor
                                  /\ dev'[x].pdev = dev[x].pdev
  BY <1>2, <1>3, <1>5, CtrlOthers
<1>7. dev[c].heap = "live" /\ dev[c].minor # NULL
  BY <1>2, <1>4, <1>5, HereFacts DEF CtrlStage, CtrlPc, RelPc
<1>8. PICK p : p \in Pdev /\ p = dev[c].pdev
  BY <1>2, <1>6, <1>7, CtrlPdev
<1>9. /\ pci[p].region = c /\ pci[p].enabled = 1
  BY <1>2, <1>5, <1>6, <1>7, <1>8, Consts DEF Regions
<1>10. /\ pci'[p].region = NULL /\ pci'[p].enabled = 0
       /\ pci'[p].bound = pci[p].bound /\ pci'[p].drv = pci[p].drv
       /\ \A q \in Pdev : q # p => pci'[q] = pci[q]
  <2>1. pci' = [pci EXCEPT ![p].enabled = @ - 1, ![p].region = NULL]
    BY <1>4, <1>8 DEF RelPci
  <2>2. pci \in [Pdev -> PciRec]
    BY <1>2 DEF TypeOK, PciRec
  <2> QED BY <1>8, <1>9, <2>1, <2>2, SMTT(30) DEF PciRec
<1>11. Regions'
  <2>1. RegionStep(t, c, p)
    BY <1>5, <1>6, <1>8, <1>10 DEF RegionStep, PciKept
  <2>2. RegionMove(c, p)
    BY <1>5, <1>6, <1>7, <1>10 DEF RegionMove
  <2>3. pci'[p].master => dev'[c].heap = "live"
    BY <1>5, <1>7
  <2> QED BY <1>2, <1>3, <1>10, <2>1, <2>2, <2>3, RegionsStep
<1>12. MinorsExact'
  BY <1>1, <1>2, <1>3, <1>5, <1>6, MinorsKept
<1>13. CoreRefExact'
  <2>1. coreRef \in Nat /\ One(HoldsCore(dev[c], c)) \in Nat
    BY <1>2 DEF TypeOK, One
  <2> QED BY <1>1, <1>2, <1>5, <1>6, <2>1, CoreStep
<1>14. \A q \in Pdev : pci'[q].bound = pci[q].bound /\ pci'[q].drv = pci[q].drv
  BY <1>10
<1> QED BY <1>1, <1>3, <1>5, <1>11, <1>12, <1>13, <1>14, CtrlGood, SMTT(30)

(* pci_clear_master, the numbers and the memory of the controller *)
LEMMA RelFreeGood ==
  ASSUME Inv, NEW t \in Thread, RelFree(t)
  PROVE  Good(t)
<1>1. /\ coreRef' = coreRef /\ found' = found
      /\ kept' = kept /\ file' = file /\ ready' = ready
  BY DEF RelFree
<1>2. Here(t) /\ Regions /\ MinorsExact /\ CoreRefExact /\ TypeOK
  BY InvHere
<1>3. Fits(t)
  BY <1>2, RelFits
<1>4. PICK c : c = th[t].o
  OBVIOUS
<1>5. /\ CtrlMoves(t, c) /\ th[t].pc = "rel_free" /\ CtrlOf(th'[t]) = NULL
      /\ dev'[c].ref = dev[c].ref /\ dev'[c].pdev = dev[c].pdev /\ dev'[c].minor = dev[c].minor
      /\ dev'[c].heap = "freed" /\ dev'[c].cdev = dev[c].cdev
  BY <1>2, <1>3, <1>4, RelMoves
<1>6. /\ c \in Ctrl /\ c \in Dev /\ OthersKeep(c) /\ Unnumbered(t, c)
      /\ HasNumber(c) <=> dev[c].heap = "live" /\ dev[c].minor # NULL
      /\ HasNumber(c)' <=> dev'[c].heap = "live" /\ dev'[c].minor # NULL
      /\ HasRegion(c) <=> dev[c].heap = "live" /\ th[t].pc \notin {"probe_region", "rel_free"}
      /\ \A x \in Ctrl : x # c => ~NoRegion(th[t], x)
      /\ \A x \in Ctrl : x # c => ~NoRegion(th'[t], x)
      /\ \A x \in Ctrl : x # c => /\ dev'[x].heap = dev[x].heap /\ dev'[x].minor = dev[x].minor
                                  /\ dev'[x].pdev = dev[x].pdev
  BY <1>2, <1>3, <1>5, CtrlOthers, SMTT(30)
<1>7. dev[c].heap = "live" /\ dev[c].minor # NULL
  BY <1>2, <1>4, <1>5, HereFacts DEF CtrlStage, CtrlPc, RelPc
<1>8. PICK p : p \in Pdev /\ p = dev[c].pdev
  BY <1>2, <1>6, <1>7, CtrlPdev
<1>9. /\ pci'[p].region = pci[p].region /\ pci'[p].enabled = pci[p].enabled /\ ~pci'[p].master
      /\ pci'[p].bound = pci[p].bound /\ pci'[p].drv = pci[p].drv
      /\ \A q \in Pdev : q # p => pci'[q] = pci[q]
      /\ minors' = minors \ {dev[c].minor}
  <2>1. pci' = [pci EXCEPT ![p].master = FALSE] /\ minors' = minors \ {dev[c].minor}
    BY <1>4, <1>8 DEF RelFree
  <2>2. pci \in [Pdev -> PciRec]
    BY <1>2 DEF TypeOK, PciRec
  <2> QED BY <1>8, <2>1, <2>2 DEF PciRec
<1>10. Regions'
  <2>1. RegionStep(t, c, p)
    BY <1>5, <1>6, <1>8, <1>9 DEF RegionStep, PciKept
  <2>2. ~HasRegion(c) /\ ~HasRegion(c)'
    BY <1>5, <1>6 DEF HasRegion
  <2>3. RegionMove(c, p)
    BY <1>9, <2>2 DEF RegionMove
  <2>4. pci[p].region # NULL => pci[p].region \in Ctrl /\ pci[p].region # c
    BY <1>2, <1>8, <2>2 DEF Regions, TypeOK
  <2>5. pci'[p].enabled = (IF pci'[p].region # NULL /\ dev'[pci'[p].region].minor # NULL
                           THEN 1 ELSE 0)
    <3>1. pci[p].enabled = (IF pci[p].region # NULL /\ dev[pci[p].region].minor # NULL
                            THEN 1 ELSE 0)
      BY <1>2, <1>8 DEF Regions
    <3> QED BY <1>6, <1>9, <2>4, <3>1
  <2> QED BY <1>2, <1>3, <1>9, <2>1, <2>3, <2>5, RegionsStep
<1>11. MinorsExact'
  BY <1>2, <1>3, <1>5, <1>6, <1>7, <1>9, MinorsGiven
<1>12. CoreRefExact'
  <2>1. coreRef \in Nat /\ One(HoldsCore(dev[c], c)) \in Nat
    BY <1>2 DEF TypeOK, One
  <2>2. HoldsCore(dev'[c], c) <=> HoldsCore(dev[c], c)
    BY <1>5, <1>6 DEF HoldsCore
  <2>3. One(HoldsCore(dev'[c], c)) = One(HoldsCore(dev[c], c))
    BY <2>2 DEF One
  <2> QED BY <1>1, <1>2, <1>6, <2>1, <2>3, CoreStep
<1>13. \A q \in Pdev : pci'[q].bound = pci[q].bound /\ pci'[q].drv = pci[q].drv
  BY <1>9
<1> QED BY <1>1, <1>3, <1>5, <1>10, <1>11, <1>12, <1>13, CtrlGood

(* A step of a thread on the group g that it makes or takes down. *)
GroupMoves(t, g) ==
  /\ g \in Group /\ th[t].o = g /\ th[t].pc \in GroupPc
  /\ GroupOf(th'[t]) \in {g, NULL} /\ CtrlOf(th'[t]) = NULL
  /\ th'[t].p = NULL /\ th'[t].f \in {th[t].f, NULL}
  /\ th'[t].pc \notin {"put", "open_get", "open_ctx"}
  /\ \A h \in Group : Makes(th'[t], h) => Makes(th[t], h)
  /\ dev'[g].heap # "unused"
  /\ \A x \in Dev : x # g => dev'[x] = dev[x] \/ Counted(x)

(* What such a step leaves alone, and what the group has before and after. *)
GroupKnown(t, g) ==
  /\ g \in Group /\ g \in Dev /\ g # NULL /\ OthersKeep(g) /\ Unnumbered(t, g)
  /\ th[t].p = NULL /\ th[t].pc \in GroupPc /\ CtrlOf(th[t]) = NULL
  /\ GroupFrame(th[t]) = [pc |-> th[t].pc, o |-> g, left |-> th[t].left]
  /\ GroupFrame(th[t]).pc = th[t].pc /\ GroupFrame(th[t]).o = g
  /\ GroupFrame(th[t]).left = th[t].left
  /\ GroupOf(th[t]) = g /\ dev[g].heap = "live" /\ dev[g].ref = 0
  /\ \A h \in Group : h # g => Members'[h] = Members[h]
  /\ HasNumber(g) <=> dev[g].minor # NULL /\ th[t].pc # "create_undo"
  /\ HasNumber(g)' <=> /\ dev'[g].heap = "live" /\ dev'[g].minor # NULL
                       /\ ~Unnumbers(th'[t], g)
  /\ Members[g] = (IF th[t].pc \in UndoPc THEN th[t].left ELSE dev[g].ctrls)
  /\ Members'[g] = (IF dev'[g].heap # "live" THEN <<>>
                    ELSE IF Undoes(th'[t], g) THEN GroupFrame(th'[t]).left
                    ELSE dev'[g].ctrls)

(* What a step at one group leaves alone *)
LEMMA GroupOthers ==
  ASSUME NEW t, Here(t), Fits(t), NEW g, GroupMoves(t, g)
  PROVE  GroupKnown(t, g)
<1>1. /\ g \in Group /\ th[t].o = g /\ th[t].pc \in GroupPc
      /\ GroupOf(th'[t]) \in {g, NULL} /\ CtrlOf(th'[t]) = NULL
      /\ \A x \in Dev : x # g => dev'[x] = dev[x] \/ Counted(x)
  BY DEF GroupMoves
<1>2. /\ t \in Thread /\ th[t] \in ThreadRec /\ LocalsOK(th[t]) /\ GroupStage(th[t])
      /\ dev \in [Dev -> DevRec] /\ g \in Dev /\ g # NULL
  BY <1>1, HereFacts, Consts
<1>3. GroupFrame(th[t]) = [pc |-> th[t].pc, o |-> g, left |-> th[t].left]
  BY <1>1 DEF GroupFrame
<1>4. /\ GroupFrame(th[t]).pc = th[t].pc /\ GroupFrame(th[t]).o = g
      /\ GroupFrame(th[t]).left = th[t].left /\ GroupOf(th[t]) = g
  BY <1>3 DEF GroupOf
<1>5. dev[g].heap = "live" /\ dev[g].ref = 0
  BY <1>2, <1>4 DEF GroupStage
<1>6. GroupPc \cap (CtrlPc \cup {"put", "ret"} \cup RelPc) = {}
  BY DEF GroupPc, CreatePc, RelgPc, CtrlPc, ProbePc, RelPc
<1>7. CtrlOf(th[t]) = NULL /\ th[t].p = NULL
  BY <1>1, <1>2, <1>6 DEF CtrlOf, LocalsOK, CtrlPc
<1>8. ASSUME NEW x \in Dev, x # g
      PROVE  /\ dev'[x].heap = dev[x].heap /\ dev'[x].minor = dev[x].minor
             /\ dev'[x].cdev = dev[x].cdev /\ dev'[x].pdev = dev[x].pdev
             /\ dev'[x].ctrls = dev[x].ctrls
  <2>1. CASE dev'[x] = dev[x]
    BY <2>1
  <2>2. CASE Counted(x)
    <3> DEFINE d == dev[x]  n == dev'[x].ref
    <3>1. d \in DevRec /\ dev'[x] = [d EXCEPT !.ref = n]
      BY <1>2, <1>8, <2>2 DEF Counted
    <3> HIDE DEF d, n
    <3>2. /\ dev'[x].heap = d.heap /\ dev'[x].minor = d.minor
          /\ dev'[x].cdev = d.cdev /\ dev'[x].pdev = d.pdev /\ dev'[x].ctrls = d.ctrls
      BY <3>1 DEF DevRec
    <3> QED BY <3>2 DEF d
  <2> QED BY <1>1, <1>8, <2>1, <2>2
<1>9. OthersKeep(g)
  BY <1>8 DEF OthersKeep
<1>10. Unnumbered(t, g)
  BY <1>1, <1>4, Consts DEF Unnumbered, Unnumbers
<1>11. \A u \in Thread : u # t => th'[u] = th[u] /\ GroupOf(th[u]) # g
  <2>1. \A u \in Thread : u # t =>
          th'[u] = th[u] /\ (GroupOf(th[u]) # NULL => GroupOf(th[u]) # GroupOf(th[t]))
    BY FitsOthers
  <2> QED BY <1>2, <1>4, <2>1
<1>12. \A h \in Group : h # g => Members'[h] = Members[h]
  <2>1. \A h \in Group : h # g => ~Undoes(th[t], h) /\ ~Undoes(th'[t], h)
    BY <1>1, <1>4, Consts DEF Undoes
  <2> QED BY <1>8, <2>1, MembersFrame, Consts
<1>13. HasNumber(g) <=> dev[g].minor # NULL /\ th[t].pc # "create_undo"
  BY <1>2, <1>4, <1>5, <1>11 DEF HasNumber, Unnumbers
<1>14. HasNumber(g)' <=> /\ dev'[g].heap = "live" /\ dev'[g].minor # NULL
                         /\ ~Unnumbers(th'[t], g)
  <2>1. HasNumber(g)' <=> /\ dev'[g].heap = "live" /\ dev'[g].minor # NULL
                          /\ \A u \in Thread : ~Unnumbers(th'[u], g)
    BY DEF HasNumber, Unnumbers
  <2>2. \A u \in Thread : u # t => ~Unnumbers(th'[u], g)
    BY <1>11 DEF Unnumbers
  <2> QED BY <1>2, <2>1, <2>2
<1>15. MembersAre /\ MembersAre'
  BY FitsShape DEF Facts
<1>16. Members[g] = (IF th[t].pc \in UndoPc THEN th[t].left ELSE dev[g].ctrls)
  <2>1. \A u \in Thread : u # t => ~Undoes(th[u], g)
    BY <1>11 DEF Undoes
  <2>2. Undoes(th[t], g) <=> th[t].pc \in UndoPc
    BY <1>4 DEF Undoes
  <2> QED BY <1>1, <1>2, <1>4, <1>5, <1>15, <2>1, <2>2 DEF MembersAre
<1>17. Members'[g] = (IF dev'[g].heap # "live" THEN <<>>
                      ELSE IF Undoes(th'[t], g) THEN GroupFrame(th'[t]).left
                      ELSE dev'[g].ctrls)
  <2>1. \A u \in Thread : u # t => ~Undoes(th'[u], g)
    BY <1>11 DEF Undoes
  <2> QED BY <1>1, <1>2, <1>15, <2>1 DEF MembersAre
<1> QED BY <1>1, <1>2, <1>3, <1>4, <1>5, <1>7, <1>9, <1>10, <1>12, <1>13, <1>14, <1>16, <1>17
       DEF GroupKnown

(* The references that the group and the call hold change as the counts do. *)
GroupBalance(t, g) ==
  \A x \in Dev : dev'[x].ref + Count(Members[g], x)
                   = dev[x].ref + Count(Members'[g], x) + One(IsPut(th'[t], x))

(* A step at one group keeps the invariant. *)
LEMMA GroupGood ==
  ASSUME Inv, NEW t \in Thread, Fits(t), NEW g, GroupMoves(t, g), GroupBalance(t, g),
         pci' = pci, kept' = kept, file' = file, ready' = ready,
         MinorsExact', CoreRefExact', FoundExact'
  PROVE  Good(t)
<1>1. Here(t) /\ Regions
  BY InvHere
<1>2. /\ g \in Group /\ g \in Dev /\ g # NULL /\ OthersKeep(g)
      /\ th[t].p = NULL /\ th[t].pc \in GroupPc /\ CtrlOf(th[t]) = NULL
      /\ \A h \in Group : h # g => Members'[h] = Members[h]
      /\ dev[g].heap = "live"
  <2>1. GroupKnown(t, g)
    BY <1>1, GroupOthers
  <2> QED BY <2>1 DEF GroupKnown
<1>3. /\ GroupOf(th'[t]) \in {g, NULL} /\ CtrlOf(th'[t]) = NULL
      /\ th'[t].p = NULL /\ th'[t].f \in {th[t].f, NULL}
      /\ th'[t].pc \notin {"put", "open_get", "open_ctx"}
      /\ \A h \in Group : Makes(th'[t], h) => Makes(th[t], h)
      /\ dev'[g].heap # "unused"
  BY DEF GroupMoves
<1>4. \A c \in Ctrl : c # g /\ c \in Dev /\ c # NULL
  BY <1>2, Consts
<1>5. \A c \in Ctrl : /\ dev'[c].heap = dev[c].heap /\ dev'[c].minor = dev[c].minor
                      /\ dev'[c].pdev = dev[c].pdev
  BY <1>2, <1>4 DEF OthersKeep
<1>6. Regions'
  <2>1. \A c \in Ctrl : ~NoRegion(th'[t], c) /\ ~NoRegion(th[t], c)
    BY <1>2, <1>3, <1>4 DEF NoRegion
  <2>2. \A p \in Pdev : PciKept(p)
    BY DEF PciKept
  <2> QED BY <1>1, <1>5, <2>1, <2>2, RegionsKept
<1>7. KernelKept
  BY <1>6 DEF KernelKept
<1>8. {"put", "open_ctx", "ioctl_do", "ioctl_map", "create_copy", "mmap_do"} \cap GroupPc = {}
  BY DEF GroupPc, CreatePc, RelgPc
<1>9. th[t].op \notin {"probe", "remove"}
  BY <1>1, <1>2, HereFacts DEF LocalsOK
<1>10. BindingsKept(t)
  BY <1>2, <1>3, <1>5, <1>9 DEF BindingsKept
<1>11. ASSUME NEW x \in Dev
       PROVE  Balanced(x)
  <2>1. Base(x)' = Base(x) /\ Base(x) \in Nat
    BY <1>1, <1>10, BaseKept
  <2>2. ~IsPut(th[t], x)
    BY <1>2, <1>8 DEF IsPut
  <2>3. One(IsPut(th[t], x)) = 0 /\ One(IsPut(th'[t], x)) \in Nat
    BY <2>2 DEF One
  <2>4. /\ Uses(x) \in Nat /\ Uses(x)' \in Nat
        /\ Count(Members[g], x) \in Nat /\ Count(Members'[g], x) \in Nat
        /\ Uses(x)' + Base(x) + One(IsPut(th[t], x)) + Count(Members[g], x)
             = Uses(x) + Base(x)' + One(IsPut(th'[t], x)) + Count(Members'[g], x)
    BY <1>1, <1>2, UsesMembers
  <2>5. dev'[x].ref + Count(Members[g], x)
          = dev[x].ref + Count(Members'[g], x) + One(IsPut(th'[t], x))
    BY <1>11 DEF GroupBalance
  <2>6. dev[x].ref \in Nat /\ dev'[x].ref \in Nat
    BY <1>1, HereFacts DEF DevRec, Fits, ObjectsFit
  <2> DEFINE u == Uses(x)  v == Uses(x)'  b == Base(x)  k == Count(Members[g], x)
             l == Count(Members'[g], x)  m == One(IsPut(th'[t], x))
             d == dev[x].ref  e == dev'[x].ref
  <2>7. /\ u \in Nat /\ v \in Nat /\ b \in Nat /\ k \in Nat /\ l \in Nat /\ m \in Nat
        /\ d \in Nat /\ e \in Nat
        /\ v + b + 0 + k = u + b + m + l /\ e + k = d + l + m
    BY <2>1, <2>3, <2>4, <2>5, <2>6
  <2> HIDE DEF u, v, b, k, l, m, d, e
  <2>8. e + u = d + v
    BY <2>7
  <2> QED BY <2>8 DEF u, v, d, e, Balanced
<1>12. Creators' /\ Opening'
  <2>1. ~IsOpening(th'[t])
    BY <1>3 DEF IsOpening
  <2>2. \A h \in Group : dev'[h].heap = "unused" => dev[h].heap = "unused"
    BY <1>2, <1>3, Consts DEF OthersKeep
  <2> QED BY <1>3, <2>1, <2>2, CallsStep
<1>13. \A x \in Ctrl : ~Deletes(th[t], x)
  BY <1>2, <1>8 DEF Deletes
<1>14. kept' \in [Dev -> Nat]
  BY <1>1, ConstantsAssumption DEF Here, TypeOK
<1> QED BY <1>7, <1>10, <1>11, <1>12, <1>13, <1>14, KeptGood

(* __bafs_group_release: the thread, and what the step does to the group *)
LEMMA RelGroupMoves ==
  ASSUME NEW t, Here(t), RelGroupDev(t) \/ RelGroupFree(t), Fits(t), NEW g, g = th[t].o
  PROVE  /\ GroupMoves(t, g) /\ dev'[g].ref = dev[g].ref /\ dev'[g].minor = dev[g].minor
         /\ \A x \in Dev : x # g => dev'[x] = dev[x]
         /\ RelGroupDev(t) =>
              /\ th[t].pc = "relg_dev" /\ th'[t].pc = "rel_ctrls" /\ th'[t].left = th[t].left
              /\ th'[t].o = g /\ dev'[g].heap = dev[g].heap
         /\ RelGroupFree(t) =>
              /\ th[t].pc = "rel_ctrls" /\ th'[t].pc = "ret" /\ th[t].left = <<>>
              /\ dev'[g].heap = "freed" /\ GroupOf(th'[t]) = NULL
<1>1. /\ t \in Thread /\ th \in [Thread -> ThreadRec] /\ th[t] \in ThreadRec
      /\ dev \in [Dev -> DevRec] /\ StackOK(th[t]) /\ LocalsOK(th[t]) /\ GroupStage(th[t])
  BY HereFacts
<1>2. th[t].pc \in RelgPc
  BY DEF RelGroupDev, RelGroupFree, Runs, At, RelgPc
<1>3. th[t].pc \in GroupPc /\ g \in Group /\ g \in Dev /\ g # NULL
  BY <1>1, <1>2, Consts DEF GroupPc, LocalsOK
<1>4. th[t].p = NULL
  BY <1>1, <1>2 DEF LocalsOK, RelgPc, ProbePc, RelPc
<1>5. dev[g].heap = "live"
  <2>1. GroupFrame(th[t]) = [pc |-> th[t].pc, o |-> g, left |-> th[t].left]
    BY <1>3 DEF GroupFrame
  <2>2. GroupOf(th[t]) = g
    BY <2>1 DEF GroupOf
  <2> QED BY <1>1, <1>3, <2>2 DEF GroupStage
<1>6. CASE RelGroupDev(t)
  <2>1. /\ th[t].pc = "relg_dev" /\ Goto(t, "rel_ctrls")
        /\ dev' = [dev EXCEPT ![g].shown = FALSE]
    BY <1>6 DEF RelGroupDev, Runs, At
  <2>2. /\ th'[t].pc = "rel_ctrls" /\ th'[t].o = g /\ th'[t].op = th[t].op
        /\ th'[t].p = th[t].p /\ th'[t].f = th[t].f /\ th'[t].stack = th[t].stack
        /\ th'[t].left = th[t].left
    BY <2>1, GotoFacts DEF Pc
  <2>3. /\ dev'[g].ref = dev[g].ref /\ dev'[g].heap = dev[g].heap /\ dev'[g].minor = dev[g].minor
        /\ \A x \in Dev : x # g => dev'[x] = dev[x]
    BY <1>1, <1>3, <2>1 DEF DevRec
  <2>4. GroupOf(th'[t]) = g /\ CtrlOf(th'[t]) = NULL
    BY <2>2 DEF GroupOf, GroupFrame, CtrlOf, GroupPc, RelgPc, CtrlPc, ProbePc, RelPc
  <2>5. \A h \in Group : Makes(th'[t], h) => Makes(th[t], h)
    BY <2>2 DEF Makes
  <2>6. GroupMoves(t, g)
    BY <1>3, <1>4, <1>5, <2>2, <2>3, <2>4, <2>5 DEF GroupMoves
  <2>7. ~RelGroupFree(t)
    BY <2>1, SMTT(30) DEF RelGroupFree, Runs, At
  <2> QED BY <2>1, <2>2, <2>3, <2>6, <2>7
<1>7. CASE RelGroupFree(t)
  <2> DEFINE s == Head(th[t].stack)
  <2>1. /\ th[t].pc = "rel_ctrls" /\ th[t].left = <<>>
        /\ dev' = [dev EXCEPT ![g].heap = "freed", ![g].cdev = FALSE]
        /\ th' = [th EXCEPT ![t].pc = s.pc, ![t].o = s.o, ![t].left = s.left,
                            ![t].stack = Tail(@)]
    BY <1>7 DEF RelGroupFree, Runs, At, Back
  <2>2. /\ th[t].stack \in Seq(Frame) /\ th[t].stack # <<>> /\ Tail(th[t].stack) = <<>>
        /\ s.pc = "ret" /\ s.o = g
    BY <1>1, <2>1 DEF ThreadRec, StackOK, Above, RelgPc
  <2> HIDE DEF s
  <2>3. /\ th'[t].pc = "ret" /\ th'[t].o = g
        /\ th'[t].op = th[t].op /\ th'[t].p = th[t].p /\ th'[t].f = th[t].f
        /\ th'[t].stack = <<>>
    BY <1>1, <2>1, <2>2 DEF ThreadRec
  <2>4. /\ dev'[g].ref = dev[g].ref /\ dev'[g].heap = "freed" /\ dev'[g].minor = dev[g].minor
        /\ \A x \in Dev : x # g => dev'[x] = dev[x]
    BY <1>1, <1>3, <2>1 DEF DevRec
  <2>5. GroupOf(th'[t]) = NULL /\ CtrlOf(th'[t]) = NULL
    BY <2>3 DEF CtrlOf, CtrlPc, RelPc, ProbePc, GroupOf, GroupFrame, GroupPc, CreatePc, RelgPc,
       NoFrame
  <2>6. \A h \in Group : Makes(th'[t], h) => Makes(th[t], h)
    BY <2>3 DEF Makes
  <2>7. GroupMoves(t, g)
    BY <1>3, <1>4, <1>5, <2>3, <2>4, <2>5, <2>6 DEF GroupMoves
  <2>8. ~RelGroupDev(t)
    BY <2>1 DEF RelGroupDev, Runs, At
  <2> QED BY <2>1, <2>3, <2>4, <2>5, <2>7, <2>8
<1> QED BY <1>6, <1>7

(* Steps of __bafs_group_release that put no controller *)
LEMMA RelGroupGood ==
  ASSUME Inv, NEW t \in Thread, RelGroupDev(t) \/ RelGroupFree(t)
  PROVE  Good(t)
<1>1. /\ pci' = pci /\ found' = found /\ kept' = kept /\ file' = file /\ ready' = ready
  BY DEF RelGroupDev, RelGroupFree, kernVars
<1>2. Here(t) /\ MinorsExact /\ CoreRefExact /\ TypeOK
  BY InvHere
<1>3. Fits(t)
  BY <1>2, RelGroupFits
<1>4. PICK g : g = th[t].o
  OBVIOUS
<1>5. /\ GroupMoves(t, g) /\ dev'[g].ref = dev[g].ref /\ dev'[g].minor = dev[g].minor
      /\ \A x \in Dev : x # g => dev'[x] = dev[x]
      /\ RelGroupDev(t) =>
           /\ th[t].pc = "relg_dev" /\ th'[t].pc = "rel_ctrls" /\ th'[t].left = th[t].left
           /\ th'[t].o = g /\ dev'[g].heap = dev[g].heap
      /\ RelGroupFree(t) =>
           /\ th[t].pc = "rel_ctrls" /\ th'[t].pc = "ret" /\ th[t].left = <<>>
           /\ dev'[g].heap = "freed" /\ GroupOf(th'[t]) = NULL
  BY <1>2, <1>3, <1>4, RelGroupMoves
<1>6. GroupKnown(t, g)
  BY <1>2, <1>3, <1>5, GroupOthers
<1>7. /\ g \in Group /\ g \in Dev /\ g # NULL /\ OthersKeep(g) /\ Unnumbered(t, g)
      /\ GroupFrame(th[t]).pc = th[t].pc
      /\ GroupOf(th[t]) = g /\ dev[g].heap = "live" /\ dev[g].ref = 0
      /\ HasNumber(g) <=> dev[g].minor # NULL /\ th[t].pc # "create_undo"
      /\ HasNumber(g)' <=> /\ dev'[g].heap = "live" /\ dev'[g].minor # NULL
                           /\ ~Unnumbers(th'[t], g)
      /\ Members[g] = (IF th[t].pc \in UndoPc THEN th[t].left ELSE dev[g].ctrls)
      /\ Members'[g] = (IF dev'[g].heap # "live" THEN <<>>
                        ELSE IF Undoes(th'[t], g) THEN GroupFrame(th'[t]).left
                        ELSE dev'[g].ctrls)
  BY <1>6 DEF GroupKnown
<1>8. dev[g].minor # NULL
  BY <1>2, <1>5, <1>7, HereFacts DEF GroupStage, RelgPc
<1>9. /\ RelGroupDev(t) => /\ GroupFrame(th'[t]).pc = "rel_ctrls" /\ GroupOf(th'[t]) = g
                           /\ GroupFrame(th'[t]).left = th[t].left
      /\ RelGroupFree(t) => GroupFrame(th'[t]).pc \notin GroupPc
  <2>1. RelGroupDev(t) => GroupFrame(th'[t]) = [pc |-> "rel_ctrls", o |-> g, left |-> th[t].left]
    BY <1>5 DEF GroupFrame, GroupPc, RelgPc
  <2>2. Frames1(th'[t])
    BY <1>2, <1>3, NextFrames DEF Fits, Here
  <2> QED BY <1>5, <2>1, <2>2 DEF GroupOf, Frames1
<1>10. FoundExact'
  <2>1. GroupFrame(th[t]).pc \notin CreatePc /\ GroupFrame(th'[t]).pc \notin CreatePc
    BY <1>5, <1>7, <1>9 DEF CreatePc, GroupPc
  <2>2. NamesOf(th[t]) = <<>> /\ NamesOf(th[t])' = <<>>
    BY <2>1 DEF NamesOf, CreatePc
  <2> QED BY <1>1, <1>3, <2>2, FoundKept
<1>11. MinorsExact'
  <2>1. CASE RelGroupDev(t)
    <3>1. minors' = minors
      BY <2>1 DEF RelGroupDev, kernVars
    <3>2. HasNumber(g) /\ HasNumber(g)'
      BY <1>5, <1>7, <1>8, <1>9, <2>1 DEF Unnumbers
    <3> QED BY <1>2, <1>3, <1>5, <1>7, <3>1, <3>2, MinorsKept
  <2>2. CASE RelGroupFree(t)
    <3>1. minors' = minors \ {dev[g].minor}
      BY <1>4, <2>2 DEF RelGroupFree
    <3>2. HasNumber(g) /\ ~HasNumber(g)'
      BY <1>5, <1>7, <1>8, <2>2
    <3> QED BY <1>2, <1>3, <1>7, <3>1, <3>2, MinorsGiven
  <2> QED BY <2>1, <2>2
<1>12. CoreRefExact'
  <2>1. coreRef \in Nat
    BY <1>2 DEF TypeOK
  <2>2. g \notin Ctrl
    BY <1>7, Consts
  <2>3. One(HoldsCore(dev[g], g)) = 1
    BY <1>7, <2>2 DEF One, HoldsCore
  <2>4. CASE RelGroupDev(t)
    <3>1. coreRef' = coreRef
      BY <2>4 DEF RelGroupDev, kernVars
    <3>2. One(HoldsCore(dev'[g], g)) = 1
      BY <1>5, <1>7, <2>2, <2>4 DEF One, HoldsCore
    <3> QED BY <1>2, <1>7, <2>1, <2>3, <3>1, <3>2, CoreStep
  <2>5. CASE RelGroupFree(t)
    <3>1. coreRef' = coreRef - 1
      BY <2>5 DEF RelGroupFree
    <3>2. One(HoldsCore(dev'[g], g)) = 0
      BY <1>5, <1>7, <2>2, <2>5 DEF One, HoldsCore
    <3> QED BY <1>2, <1>7, <2>1, <2>3, <3>1, <3>2, CoreStep
  <2> QED BY <2>4, <2>5
<1>13. GroupBalance(t, g)
  <2>1. Members'[g] = Members[g]
    BY <1>5, <1>7, <1>9 DEF Undoes, UndoPc
  <2> SUFFICES ASSUME NEW x \in Dev
               PROVE  dev'[x].ref + Count(Members[g], x)
                        = dev[x].ref + Count(Members'[g], x) + One(IsPut(th'[t], x))
    BY DEF GroupBalance
  <2>2. dev'[x].ref = dev[x].ref /\ dev[x].ref \in Nat
    BY <1>2, <1>5, HereFacts DEF DevRec
  <2>3. ~IsPut(th'[t], x)
    BY <1>5 DEF IsPut
  <2>4. One(IsPut(th'[t], x)) = 0
    BY <2>3 DEF One
  <2>5. Members[g] \in Seq(Ctrl)
    BY <1>2, <1>3, <1>7, MembersType
  <2>6. Count(Members[g], x) \in Nat
    BY <2>5, PlacesCount
  <2> QED BY <2>1, <2>2, <2>4, <2>6
<1> QED BY <1>1, <1>3, <1>5, <1>10, <1>11, <1>12, <1>13, GroupGood

----------------------------------------------------------------------------
(* The probe of a controller. *)

(* What is known of a thread that probes. *)
Probing(t, c, p) ==
  /\ c \in Ctrl /\ c \in Dev /\ c = th[t].o /\ p \in Pdev /\ p = th[t].p /\ th[t].op = "probe"
  /\ th[t].pc \in ProbePc /\ CtrlOf(th[t]) = c /\ GroupFrame(th[t]) = NoFrame
  /\ th[t].stack = <<>> /\ th[t].f = NULL
  /\ dev[c].heap = "live" /\ dev[c].ref = 0 /\ dev[c].pdev = p
  /\ th[t].pc \in {"probe_region", "probe_add"} => ~dev[c].cdev /\ dev[c].minor = NULL
  /\ th[t].pc \in {"probe_dev", "probe_ref"} => dev[c].cdev /\ dev[c].minor # NULL
  /\ ~pci[p].bound /\ pci[p].drv = c
  /\ HasRegion(c) <=> th[t].pc # "probe_region"
  /\ th[t].pc # "probe_region" => pci[p].region = c
  /\ th[t].pc = "probe_region" => pci[p].region # c
  /\ pci[p].enabled = (IF pci[p].region # NULL /\ dev[pci[p].region].minor # NULL THEN 1 ELSE 0)
  /\ pci[p].region \in Ctrl \cup {NULL}

(* What is known in a probe *)
LEMMA ProbeFacts ==
  ASSUME Inv, NEW t \in Thread, th[t].pc \in ProbePc, NEW c, c = th[t].o, NEW p, p = th[t].p
  PROVE  Probing(t, c, p)
<1>1. Here(t) /\ Driver /\ Regions /\ TypeOK /\ Owners
  BY InvHere DEF Here
<1>2. /\ th[t] \in ThreadRec /\ StackOK(th[t]) /\ LocalsOK(th[t]) /\ CtrlStage(th[t])
  BY <1>1, HereFacts
<1>3. th[t].pc \in CtrlPc /\ th[t].pc \notin GroupPc \cup RelPc \cup RelgPc /\ th[t].pc # "idle"
  BY DEF GroupPc, RelgPc, CreatePc, CtrlPc, ProbePc, RelPc
<1>4. c \in Ctrl /\ c \in Dev /\ CtrlOf(th[t]) = c /\ th[t].stack = <<>> /\ th[t].op = "probe"
  BY <1>2, <1>3, Consts DEF LocalsOK, CtrlOf, StackOK
<1>5. GroupFrame(th[t]) = NoFrame
  BY <1>3, <1>4 DEF GroupFrame
<1>6. p \in Pdev /\ th[t].f = NULL
  BY <1>2, <1>4 DEF LocalsOK, ThreadRec
<1>7. /\ dev[c].heap = "live" /\ dev[c].ref = 0 /\ dev[c].pdev = p
      /\ th[t].pc \in {"probe_region", "probe_add"} => ~dev[c].cdev /\ dev[c].minor = NULL
      /\ th[t].pc \in {"probe_dev", "probe_ref"} => dev[c].cdev /\ dev[c].minor # NULL
  BY <1>2, <1>3 DEF CtrlStage
<1>8. ~pci[p].bound /\ pci[p].drv = c
  BY <1>1, <1>4 DEF Driver
<1>9. HasRegion(c) <=> th[t].pc # "probe_region"
  <2>1. OwnRegions
    BY <1>1, OwnRegionFacts
  <2>2. th[t].pc # "rel_free"
    BY DEF ProbePc
  <2> QED BY <1>4, <1>7, <2>1, <2>2 DEF OwnRegions
<1>10. /\ th[t].pc # "probe_region" => pci[p].region = c
       /\ th[t].pc = "probe_region" => pci[p].region # c
  BY <1>1, <1>4, <1>6, <1>7, <1>9, Consts DEF Regions
<1>11. /\ pci[p].enabled = (IF pci[p].region # NULL /\ dev[pci[p].region].minor # NULL
                            THEN 1 ELSE 0)
       /\ pci[p].region \in Ctrl \cup {NULL}
  BY <1>1, <1>6 DEF Regions, TypeOK
<1> QED BY <1>3, <1>4, <1>5, <1>6, <1>7, <1>8, <1>9, <1>10, <1>11 DEF Probing

(* A step of the probe to the next one. *)
LEMMA ProbeMoves ==
  ASSUME Inv, NEW t \in Thread, Fits(t), ProbeRegion(t) \/ ProbeAdd(t) \/ ProbeDev(t),
         NEW c, NEW p, Probing(t, c, p)
  PROVE  /\ CtrlMoves(t, c) /\ CtrlOf(th'[t]) = c
         /\ dev'[c].ref = dev[c].ref /\ dev'[c].pdev = dev[c].pdev
         /\ dev'[c].heap = dev[c].heap
         /\ th'[t].pc # "probe_region" /\ th'[t].pc # "rel_free"
         /\ ~ProbeAdd(t) => dev'[c].minor = dev[c].minor /\ dev'[c].cdev = dev[c].cdev
         /\ ProbeAdd(t) => dev'[c].cdev /\ dev'[c].minor \in Minor
                           /\ dev'[c].minor \notin minors /\ minors' = minors \cup {dev'[c].minor}
<1>1. Here(t)
  BY InvHere
<1>2. /\ th[t] \in ThreadRec /\ dev \in [Dev -> DevRec]
  BY <1>1, HereFacts
<1>3. /\ c \in Ctrl /\ c \in Dev /\ c = th[t].o /\ th[t].op = "probe"
      /\ th[t].pc \in ProbePc /\ CtrlOf(th[t]) = c /\ GroupFrame(th[t]) = NoFrame
      /\ th[t].stack = <<>>
  BY DEF Probing
<1>4. PICK pc \in {"probe_add", "probe_dev", "probe_ref"} : Goto(t, pc)
  BY DEF ProbeRegion, ProbeAdd, ProbeDev
<1>5. /\ th'[t].pc = pc /\ th'[t].o = c /\ th'[t].op = th[t].op
      /\ th'[t].p = th[t].p /\ th'[t].f = th[t].f /\ th'[t].stack = <<>>
  BY <1>1, <1>3, <1>4, GotoFacts DEF Pc
<1>6. CtrlOf(th'[t]) = c /\ GroupFrame(th'[t]) = NoFrame /\ th'[t].pc \in CtrlPc
  BY <1>5 DEF CtrlOf, CtrlPc, ProbePc, GroupFrame, GroupPc, CreatePc, RelgPc
<1>7. th[t].pc \in CtrlPc
  BY <1>3 DEF CtrlPc
<1>8. PICK n :
        /\ \/ ~ProbeAdd(t) /\ dev' = dev
           \/ ~ProbeAdd(t) /\ dev' = [dev EXCEPT ![c].shown = TRUE]
           \/ /\ ProbeAdd(t) /\ n \in Minor \ minors /\ minors' = minors \cup {n}
              /\ dev' = [dev EXCEPT ![c].minor = n, ![c].cdev = TRUE]
  <2>1. CASE ProbeAdd(t)
    BY <1>3, <2>1, Zenon DEF ProbeAdd, FreeMinor
  <2>2. CASE ~ProbeAdd(t)
    BY <1>3, <2>2 DEF ProbeRegion, ProbeDev
  <2> QED BY <2>1, <2>2
<1>9. \A x \in Dev : x # c => dev'[x] = dev[x]
  BY <1>2, <1>3, <1>8 DEF DevRec
<1>10. /\ dev'[c].ref = dev[c].ref /\ dev'[c].heap = dev[c].heap /\ dev'[c].pdev = dev[c].pdev
       /\ ~ProbeAdd(t) => dev'[c].minor = dev[c].minor /\ dev'[c].cdev = dev[c].cdev
       /\ ProbeAdd(t) => dev'[c].cdev /\ dev'[c].minor = n
  BY <1>2, <1>3, <1>8 DEF DevRec
<1>11. \A h \in Group : Makes(th'[t], h) => Makes(th[t], h)
  BY <1>3, <1>5 DEF Makes
<1>12. CtrlMoves(t, c)
  BY <1>3, <1>5, <1>6, <1>7, <1>9, <1>11 DEF CtrlMoves
<1> QED BY <1>5, <1>6, <1>8, <1>10, <1>12

(* pci_request_region, then everything up to cdev_add, then device_create *)
LEMMA ProbeGood ==
  ASSUME Inv, NEW t \in Thread, ProbeRegion(t) \/ ProbeAdd(t) \/ ProbeDev(t)
  PROVE  Good(t)
<1>1. /\ found' = found /\ kept' = kept /\ file' = file /\ ready' = ready
      /\ th[t].pc \in ProbePc
      /\ ProbeRegion(t) => th[t].pc = "probe_region" /\ minors' = minors /\ coreRef' = coreRef
      /\ ProbeAdd(t) => th[t].pc = "probe_add" /\ coreRef' = coreRef + 1
      /\ ProbeDev(t) => th[t].pc = "probe_dev" /\ minors' = minors /\ coreRef' = coreRef
  BY DEF ProbeRegion, ProbeAdd, ProbeDev, kernVars, Runs, At, ProbePc
<1>2. Here(t) /\ Regions /\ MinorsExact /\ CoreRefExact /\ TypeOK
  BY InvHere
<1>3. Fits(t)
  BY <1>2, ProbeFits DEF ProbeStep
<1>4. PICK c, p : Probing(t, c, p)
  BY <1>1, ProbeFacts
<1>5. /\ CtrlMoves(t, c) /\ CtrlOf(th'[t]) = c
      /\ dev'[c].ref = dev[c].ref /\ dev'[c].pdev = dev[c].pdev /\ dev'[c].heap = dev[c].heap
      /\ th'[t].pc # "probe_region" /\ th'[t].pc # "rel_free"
      /\ ~ProbeAdd(t) => dev'[c].minor = dev[c].minor /\ dev'[c].cdev = dev[c].cdev
      /\ ProbeAdd(t) => dev'[c].cdev /\ dev'[c].minor \in Minor
                        /\ dev'[c].minor \notin minors /\ minors' = minors \cup {dev'[c].minor}
  BY <1>3, <1>4, ProbeMoves
<1>6. /\ c \in Ctrl /\ c \in Dev /\ OthersKeep(c) /\ Unnumbered(t, c)
      /\ HasNumber(c) <=> dev[c].heap = "live" /\ dev[c].minor # NULL
      /\ HasNumber(c)' <=> dev'[c].heap = "live" /\ dev'[c].minor # NULL
      /\ HasRegion(c)' <=> dev'[c].heap = "live"
                           /\ th'[t].pc \notin {"probe_region", "rel_free"}
      /\ \A x \in Ctrl : x # c => ~NoRegion(th[t], x)
      /\ \A x \in Ctrl : x # c => ~NoRegion(th'[t], x)
      /\ \A x \in Ctrl : x # c => /\ dev'[x].heap = dev[x].heap /\ dev'[x].minor = dev[x].minor
                                  /\ dev'[x].pdev = dev[x].pdev
  BY <1>2, <1>3, <1>5, CtrlOthers
<1>7. /\ p \in Pdev /\ p = th[t].p /\ c = th[t].o
      /\ dev[c].heap = "live" /\ dev[c].pdev = p
      /\ th[t].pc \in {"probe_region", "probe_add"} => ~dev[c].cdev /\ dev[c].minor = NULL
      /\ HasRegion(c) <=> th[t].pc # "probe_region"
      /\ th[t].pc # "probe_region" => pci[p].region = c
      /\ pci[p].enabled = (IF pci[p].region # NULL /\ dev[pci[p].region].minor # NULL
                           THEN 1 ELSE 0)
  BY <1>4 DEF Probing
<1>8. HasRegion(c)'
  BY <1>5, <1>6, <1>7
<1>9. c # NULL /\ NULL \notin Minor
  BY <1>6, Consts
<1>10. /\ ProbeRegion(t) => /\ pci[p].region = NULL /\ pci'[p].region = c
                            /\ pci'[p].enabled = pci[p].enabled
       /\ ~ProbeRegion(t) => pci'[p].region = pci[p].region
       /\ ProbeAdd(t) => pci'[p].enabled = pci[p].enabled + 1
       /\ ProbeDev(t) => pci'[p].enabled = pci[p].enabled
       /\ \A q \in Pdev : pci'[q].bound = pci[q].bound /\ pci'[q].drv = pci[q].drv
       /\ \A q \in Pdev : q # p => pci'[q] = pci[q]
  <2>1. pci \in [Pdev -> PciRec]
    BY <1>2 DEF TypeOK, PciRec
  <2>2. CASE ProbeRegion(t)
    <3>1. pci' = [pci EXCEPT ![p].region = c] /\ pci[p].region = NULL
      BY <1>7, <2>2 DEF ProbeRegion
    <3>2. ~ProbeAdd(t) /\ ~ProbeDev(t)
      BY <1>1, <2>2
    <3> QED BY <1>7, <2>1, <2>2, <3>1, <3>2 DEF PciRec
  <2>3. CASE ProbeAdd(t)
    <3>1. pci' = [pci EXCEPT ![p].enabled = @ + 1]
      BY <1>7, <2>3, Zenon DEF ProbeAdd
    <3>2. ~ProbeRegion(t) /\ ~ProbeDev(t)
      BY <1>1, <2>3
    <3> QED BY <1>7, <2>1, <2>3, <3>1, <3>2, ZenonT(40) DEF PciRec
  <2>4. CASE ProbeDev(t)
    <3>1. pci' = pci
      BY <2>4 DEF ProbeDev, kernVars
    <3>2. ~ProbeRegion(t) /\ ~ProbeAdd(t)
      BY <1>1, <2>4, SMTT(30)
    <3> QED BY <3>1, <3>2
  <2> QED BY <2>2, <2>3, <2>4
<1>11. Regions'
  <2>1. RegionStep(t, c, p)
    BY <1>5, <1>6, <1>7, <1>10 DEF RegionStep, PciKept
  <2>2. RegionMove(c, p)
    BY <1>1, <1>7, <1>8, <1>10 DEF RegionMove
  <2>3. pci'[p].region = c
    BY <1>1, <1>7, <1>10
  <2>4. pci'[p].enabled = (IF pci'[p].region # NULL /\ dev'[pci'[p].region].minor # NULL
                           THEN 1 ELSE 0)
    BY <1>1, <1>5, <1>7, <1>9, <1>10, <2>3
  <2> QED BY <1>2, <1>3, <1>5, <1>7, <2>1, <2>2, <2>4, RegionsStep, SMTT(30)
<1>12. MinorsExact'
  <2>1. CASE ProbeAdd(t)
    BY <1>1, <1>2, <1>3, <1>5, <1>6, <1>7, <1>9, <2>1, MinorsTaken
  <2>2. CASE ~ProbeAdd(t)
    BY <1>1, <1>2, <1>3, <1>5, <1>6, <2>2, MinorsKept
  <2> QED BY <2>1, <2>2
<1>13. CoreRefExact'
  <2>1. coreRef \in Nat
    BY <1>2 DEF TypeOK
  <2>2. CASE ProbeAdd(t)
    <3>1. One(HoldsCore(dev[c], c)) = 0 /\ One(HoldsCore(dev'[c], c)) = 1
      BY <1>1, <1>5, <1>6, <1>7, <2>2 DEF One, HoldsCore
    <3> QED BY <1>1, <1>2, <1>6, <2>1, <2>2, <3>1, CoreStep
  <2>3. CASE ~ProbeAdd(t)
    <3>1. HoldsCore(dev[c], c) <=> HoldsCore(dev'[c], c)
      BY <1>5, <1>6, <2>3 DEF HoldsCore
    <3>2. One(HoldsCore(dev[c], c)) = One(HoldsCore(dev'[c], c)) /\ One(HoldsCore(dev[c], c)) \in Nat
      BY <3>1 DEF One
    <3> QED BY <1>1, <1>2, <1>6, <2>1, <2>3, <3>2, CoreStep
  <2> QED BY <2>2, <2>3
<1> QED BY <1>1, <1>3, <1>5, <1>10, <1>11, <1>12, <1>13, CtrlGood, SMTT(30)

(* A thread at the one function p whose binding it may change, when no     *)
(* group, file or call gets or gives a reference.                          *)
BindMoves(t, c, p) ==
  /\ c \in Ctrl /\ Binds(t, p) /\ BindingOK(t, p)
  /\ \A x \in Dev : x # c => dev'[x] = dev[x]
  /\ GroupFrame(th[t]) = NoFrame /\ GroupFrame(th'[t]) = NoFrame
  /\ found' = found /\ kept' = kept /\ file' = file /\ ready \subseteq ready'
  /\ ready' \subseteq ready \cup {c}
  /\ \A x \in Dev : ~IsPut(th[t], x) /\ ~IsPut(th'[t], x)
  /\ th'[t].f = NULL /\ ~IsOpening(th'[t]) /\ th'[t].op # "create"
  /\ \A x \in Ctrl : x # c => (BoundBy(t, p, x) <=> BoundBy(t, p, x)')
  /\ \/ (BoundBy(t, p, c) <=> BoundBy(t, p, c)') /\ dev'[c].ref = dev[c].ref /\ ready' = ready
     \/ /\ dev[c].pdev = p /\ dev'[c].pdev = p /\ ~BoundBy(t, p, c) /\ BoundBy(t, p, c)'
        /\ dev'[c].ref = dev[c].ref + 1 /\ c \in ready'

(* A step of a probe that begins or ends keeps the invariant. *)
LEMMA BindGood ==
  ASSUME Inv, NEW t \in Thread, Fits(t), NEW c, NEW p, BindMoves(t, c, p),
         Regions', MinorsExact', CoreRefExact'
  PROVE  Good(t)
<1>1. Here(t) /\ Driver
  BY InvHere
<1>2. /\ c \in Ctrl /\ Binds(t, p) /\ BindingOK(t, p)
      /\ \A x \in Dev : x # c => dev'[x] = dev[x]
      /\ GroupFrame(th[t]) = NoFrame /\ GroupFrame(th'[t]) = NoFrame
      /\ found' = found /\ kept' = kept /\ file' = file /\ ready \subseteq ready'
      /\ ready' \subseteq ready \cup {c}
      /\ th'[t].f = NULL /\ ~IsOpening(th'[t]) /\ th'[t].op # "create"
  BY DEF BindMoves
<1>3. \A x \in Dev : ~IsPut(th[t], x) /\ ~IsPut(th'[t], x)
  BY DEF BindMoves
<1>4. c \in Dev /\ \A h \in Group : h # c /\ h \in Dev /\ h \notin Ctrl
  BY <1>2, Consts
<1>5. \A h \in Group : dev'[h] = dev[h]
  BY <1>2, <1>4
<1>6. Driver'
  BY <1>1, <1>2, DriverStep
<1>7. \A h \in Group : Members'[h] = Members[h]
  <2>1. NoFrame.pc \notin UndoPc
    BY DEF NoFrame, UndoPc
  <2>2. \A h \in Group : ~Undoes(th[t], h) /\ ~Undoes(th'[t], h)
    BY <1>2, <2>1 DEF Undoes
  <2> QED BY <1>1, <1>5, <2>2, MembersFrame
<1>8. FoundExact'
  <2>1. NoFrame.pc \notin CreatePc /\ NoFrame.pc # "create_get"
    BY DEF NoFrame, CreatePc
  <2>2. NamesOf(th[t]) = <<>> /\ NamesOf(th[t])' = <<>>
    BY <1>2, <2>1 DEF NamesOf
  <2> QED BY <1>2, <2>2, FoundKept
<1>9. KernelKept
  BY <1>8 DEF KernelKept
<1>10. ASSUME NEW x \in Ctrl, x # c
       PROVE  Bound(x) <=> Bound(x)'
  <2>1. BoundBy(t, p, x) <=> BoundBy(t, p, x)'
    BY <1>10 DEF BindMoves
  <2> QED BY <1>1, <1>2, <1>6, <2>1, BoundStep
<1>11. \/ (Bound(c) <=> Bound(c)') /\ dev'[c].ref = dev[c].ref /\ ready' = ready
       \/ ~Bound(c) /\ Bound(c)' /\ dev'[c].ref = dev[c].ref + 1 /\ c \in ready'
  <2>1. \/ (BoundBy(t, p, c) <=> BoundBy(t, p, c)') /\ dev'[c].ref = dev[c].ref /\ ready' = ready
        \/ /\ dev[c].pdev = p /\ dev'[c].pdev = p /\ ~BoundBy(t, p, c) /\ BoundBy(t, p, c)'
           /\ dev'[c].ref = dev[c].ref + 1 /\ c \in ready'
    BY DEF BindMoves
  <2>2. /\ (BoundBy(t, p, c) <=> BoundBy(t, p, c)') => (Bound(c) <=> Bound(c)')
        /\ dev[c].pdev = p /\ dev'[c].pdev = p =>
             (Bound(c) <=> BoundBy(t, p, c)) /\ (Bound(c)' <=> BoundBy(t, p, c)')
    BY <1>1, <1>2, <1>6, BoundStep
  <2> QED BY <2>1, <2>2
<1>12. kept' \in [Dev -> Nat]
  BY <1>1, <1>2, ConstantsAssumption DEF Here, TypeOK
<1>13. ASSUME NEW x \in Dev
       PROVE  Balanced(x)
  <2>1. One(IsPut(th[t], x)) = 0 /\ One(IsPut(th'[t], x)) = 0
    BY <1>3 DEF One
  <2>2. dev[x].ref \in Nat /\ kept[x] \in Nat /\ kept'[x] = kept[x]
    BY <1>1, <1>2, <1>12, HereFacts DEF DevRec
  <2>3. dev'[x].ref + Base(x) = dev[x].ref + Base(x)'
    <3>1. CASE x \in Group
      <4>1. x \in ready' <=> x \in ready
        BY <1>2, <1>4, <3>1
      <4>2. Base(x)' = Base(x) /\ Base(x) \in Nat
        BY <1>4, <3>1, <4>1 DEF Base, One
      <4> QED BY <1>5, <2>2, <3>1, <4>2
    <3>2. CASE x \in Ctrl /\ x # c
      <4>1. Base(x)' = Base(x) /\ Base(x) \in Nat
        <5>1. Bound(x) <=> Bound(x)'
          BY <1>10, <3>2
        <5> QED BY <3>2, <5>1 DEF Base, One
      <4> QED BY <1>2, <2>2, <3>2, <4>1
    <3>3. CASE x = c
      <4>1. Base(x) = One(Bound(c)) /\ Base(x)' = One(Bound(c)')
        BY <1>2, <3>3 DEF Base, One
      <4>2. CASE (Bound(c) <=> Bound(c)') /\ dev'[c].ref = dev[c].ref
        <5>1. One(Bound(c)) = One(Bound(c)') /\ One(Bound(c)) \in Nat
          BY <4>2 DEF One
        <5> QED BY <3>3, <4>1, <4>2, <5>1
      <4>3. CASE ~Bound(c) /\ Bound(c)' /\ dev'[c].ref = dev[c].ref + 1
        <5>1. One(Bound(c)) = 0 /\ One(Bound(c)') = 1
          BY <4>3 DEF One
        <5>2. Base(x) = 0 /\ Base(x)' = 1
          BY <4>1, <5>1
        <5>3. dev'[x].ref = dev[x].ref + 1
          BY <3>3, <4>3
        <5> QED BY <2>2, <5>2, <5>3
      <4> QED BY <1>11, <4>2, <4>3
    <3> QED BY <3>1, <3>2, <3>3 DEF Dev
  <2>4. Base(x) \in Nat /\ Base(x)' \in Nat /\ dev'[x].ref \in Nat
    BY <1>1, HereFacts DEF Base, One, DevRec, Fits, ObjectsFit
  <2> DEFINE a == Base(x)  b == Base(x)'  d == dev[x].ref  e == dev'[x].ref
             i == One(IsPut(th[t], x))  j == One(IsPut(th'[t], x))  l == kept[x]  m == kept'[x]
  <2>5. /\ a \in Nat /\ b \in Nat /\ d \in Nat /\ e \in Nat /\ l \in Nat
        /\ i = 0 /\ j = 0 /\ m = l /\ e + a = d + b
    BY <2>1, <2>2, <2>3, <2>4
  <2> HIDE DEF a, b, d, e, i, j, l, m
  <2>6. e + a + i + l = d + b + j + m
    BY <2>5
  <2>7. dev'[x].ref + Base(x) + One(IsPut(th[t], x)) + kept[x]
          = dev[x].ref + Base(x)' + One(IsPut(th'[t], x)) + kept'[x]
    BY <2>6 DEF a, b, d, e, i, j, l, m
  <2> QED BY <1>1, <1>2, <1>7, <1>12, <2>7, BalancedBy
<1>14. Counts' /\ (GroupsExact => GroupsExact')
  BY <1>12, <1>13, BalancedCounts
<1>15. ReadyOK => ReadyOK'
  <2> SUFFICES ASSUME ReadyOK, NEW x \in Ctrl
               PROVE  x \in ready' <=> Bound(x)'
    BY DEF ReadyOK
  <2>1. x \in ready <=> Bound(x)
    BY DEF ReadyOK
  <2>2. CASE x # c
    BY <1>2, <1>10, <2>1, <2>2
  <2>3. CASE x = c
    BY <1>11, <2>1, <2>3
  <2> QED BY <2>2, <2>3
<1>16. Creators' /\ Opening'
  <2>1. \A h \in Group : ~Makes(th'[t], h)
    BY <1>2 DEF Makes
  <2>2. \A h \in Group : h \in ready' => h \in ready
    BY <1>2, <1>4
  <2> QED BY <1>2, <1>5, <2>1, <2>2, CallsStep
<1> QED BY <1>6, <1>9, <1>14, <1>15, <1>16 DEF Good, ProtocolInv

(* The probe returns: the others, and the object after it. *)
ProbeEnding(c, p, d) ==
  /\ dev' = [dev EXCEPT ![c] = d] /\ d.pdev = p
  /\ \A q \in Pdev : q # p => pci'[q] = pci[q]
  /\ found' = found /\ kept' = kept /\ file' = file
  /\ \/ ready' = ready /\ d.ref = 0 /\ ~pci'[p].bound /\ pci'[p].drv = NULL
     \/ ready' = ready \cup {c} /\ d.ref = 1 /\ pci'[p].bound /\ pci'[p].drv = c

(* What the end of a probe moves *)
LEMMA ProbeEnds ==
  ASSUME Inv, NEW t \in Thread, Fits(t), NEW c, NEW p, Probing(t, c, p), Return(t),
         NEW d, ProbeEnding(c, p, d)
  PROVE  /\ BindMoves(t, c, p) /\ th'[t] = Idle /\ dev'[c] = d
         /\ OthersKeep(c) /\ Unnumbered(t, c)
         /\ HasNumber(c) <=> dev[c].minor # NULL
         /\ HasNumber(c)' <=> d.heap = "live" /\ d.minor # NULL
         /\ HasRegion(c)' <=> d.heap = "live"
         /\ RegionStep(t, c, p)
<1>1. Here(t) /\ Driver /\ Owners
  BY InvHere DEF Here
<1>2. /\ c \in Ctrl /\ c \in Dev /\ p \in Pdev /\ p = th[t].p /\ th[t].op = "probe"
      /\ CtrlOf(th[t]) = c /\ th[t].pc \in ProbePc
      /\ GroupFrame(th[t]) = NoFrame /\ dev[c].heap = "live" /\ dev[c].ref = 0 /\ dev[c].pdev = p
      /\ pci[p].drv = c /\ ~pci[p].bound
  BY DEF Probing
<1>3. /\ th'[t] = Idle /\ CtrlOf(th'[t]) = NULL /\ GroupFrame(th'[t]) = NoFrame
  BY <1>1, ReturnFits
<1>4. /\ Idle.op = "none" /\ Idle.p = NULL /\ Idle.f = NULL /\ Idle.pc = "idle" /\ Idle.o = NULL
  BY DEF Idle
<1>5. dev'[c] = d /\ \A x \in Dev : x # c => dev'[x] = dev[x]
  BY <1>1, <1>2, HereFacts DEF ProbeEnding
<1>6. OthersKeep(c)
  BY <1>5 DEF OthersKeep
<1>7. Unnumbered(t, c)
  BY <1>2, <1>3 DEF Unnumbered, Unnumbers, GroupOf
<1>8. CtrlNumbers /\ CtrlNumbers'
  <2>1. Shape /\ Shape'
    BY <1>1, FitsShape
  <2> QED BY <2>1, CtrlNumberFacts, PTL
<1>9. /\ HasNumber(c) <=> dev[c].minor # NULL
      /\ HasNumber(c)' <=> d.heap = "live" /\ d.minor # NULL
  BY <1>2, <1>5, <1>8 DEF CtrlNumbers
<1>10. ASSUME NEW u \in Thread
       PROVE  ~NoRegion(th'[u], c)
  <2>1. CASE u = t
    BY <1>2, <1>3, <2>1, Consts DEF NoRegion
  <2>2. CASE u # t
    <3>1. th'[u] = th[u] /\ (CtrlOf(th[u]) # NULL => CtrlOf(th[u]) # CtrlOf(th[t]))
      BY <1>1, <1>10, <2>2, FitsOthers
    <3> QED BY <1>2, <3>1, Consts DEF NoRegion
  <2> QED BY <2>1, <2>2
<1>11. HasRegion(c)' <=> d.heap = "live"
  BY <1>5, <1>10 DEF HasRegion
<1>12. \A x \in Ctrl : x # c => ~NoRegion(th[t], x) /\ ~NoRegion(th'[t], x)
  BY <1>2, <1>3, Consts DEF NoRegion
<1>13. RegionStep(t, c, p)
  BY <1>2, <1>5, <1>12, Consts DEF RegionStep, PciKept, ProbeEnding
<1>14. \A u \in Thread : u # t => th[u].p # p
  BY <1>1, <1>2, Consts DEF Driver
<1>15. {"put", "open_ctx", "ioctl_do", "ioctl_map", "create_copy", "mmap_do", "idle"} \cap ProbePc = {}
  BY DEF ProbePc
<1>16. Binds(t, p)
  <2>1. \A x \in Ctrl : dev'[x].pdev = dev[x].pdev
    BY <1>2, <1>5, Consts DEF ProbeEnding
  <2>2. \A x \in Ctrl : ~Deletes(th[t], x)
    BY <1>2 DEF Deletes
  <2> QED BY <1>2, <1>3, <1>4, <1>14, <2>1, <2>2 DEF Binds, ProbeEnding
<1>17. BindingOK(t, p)
  <2>1. pci'[p].bound => pci'[p].drv = c /\ c \in ready'
    BY DEF ProbeEnding
  <2>2. ~pci'[p].bound => pci'[p].drv = NULL
    BY DEF ProbeEnding
  <2> QED BY <1>2, <1>3, <1>4, <1>5, <2>1, <2>2 DEF BindingOK, ProbeEnding
<1>18. \A x \in Dev : ~IsPut(th[t], x) /\ ~IsPut(th'[t], x)
  BY <1>2, <1>3, <1>4, <1>15 DEF IsPut
<1>19. \A x \in Ctrl : ~BoundBy(t, p, x)
  BY <1>2 DEF BoundBy
<1>20. \A x \in Ctrl : BoundBy(t, p, x)' <=> pci'[p].bound /\ pci'[p].drv = x
  BY <1>2, <1>3, <1>4, Consts DEF BoundBy
<1>21. ~IsOpening(th'[t])
  BY <1>3, <1>4 DEF IsOpening
<1>22. BindMoves(t, c, p)
  BY <1>2, <1>3, <1>4, <1>5, <1>16, <1>17, <1>18, <1>19, <1>20, <1>21
     DEF BindMoves, ProbeEnding
<1> QED BY <1>3, <1>5, <1>6, <1>7, <1>9, <1>11, <1>13, <1>22

(* kref_init: the count of one is the binding's reference. *)
LEMMA ProbeRefGood ==
  ASSUME Inv, NEW t \in Thread, ProbeRef(t)
  PROVE  Good(t)
<1>1. /\ minors' = minors /\ coreRef' = coreRef /\ found' = found /\ kept' = kept /\ file' = file
      /\ Return(t) /\ th[t].pc = "probe_ref" /\ th[t].pc \in ProbePc
  BY DEF ProbeRef, Runs, At, ProbePc
<1>2. Here(t) /\ Regions /\ MinorsExact /\ CoreRefExact /\ TypeOK
  BY InvHere
<1>3. Fits(t)
  BY <1>2, ProbeFits DEF ProbeStep
<1>4. PICK c, p : Probing(t, c, p)
  BY <1>1, ProbeFacts
<1>5. /\ c \in Ctrl /\ c \in Dev /\ c = th[t].o /\ p \in Pdev /\ p = th[t].p
      /\ dev[c].heap = "live" /\ dev[c].ref = 0 /\ dev[c].pdev = p
      /\ dev[c].cdev /\ dev[c].minor # NULL /\ pci[p].drv = c
      /\ HasRegion(c) /\ pci[p].region = c
      /\ pci[p].enabled = (IF pci[p].region # NULL /\ dev[pci[p].region].minor # NULL
                           THEN 1 ELSE 0)
  BY <1>1, <1>4 DEF Probing
<1>6. PICK d : d = [dev[c] EXCEPT !.ref = 1]
  OBVIOUS
<1>7. dev[c] \in DevRec /\ dev \in [Dev -> DevRec]
  BY <1>2, <1>5, HereFacts
<1>8. /\ dev' = [dev EXCEPT ![c] = d] /\ d.ref = 1 /\ d.pdev = p /\ d.heap = "live"
      /\ d.minor = dev[c].minor /\ d.cdev = dev[c].cdev
  BY <1>5, <1>6, <1>7 DEF ProbeRef, DevRec
<1>9. /\ pci'[p].bound /\ pci'[p].drv = c /\ PciKept(p)
      /\ \A q \in Pdev : q # p => pci'[q] = pci[q]
      /\ ready' = ready \cup {c}
  <2>1. pci \in [Pdev -> PciRec]
    BY <1>2 DEF TypeOK, PciRec
  <2>2. pci' = [pci EXCEPT ![p].bound = TRUE] /\ ready' = ready \cup {c}
    BY <1>5 DEF ProbeRef
  <2> QED BY <1>5, <2>1, <2>2, SMTT(30) DEF PciRec, PciKept
<1>10. /\ BindMoves(t, c, p) /\ th'[t] = Idle /\ dev'[c] = d
       /\ OthersKeep(c) /\ Unnumbered(t, c)
       /\ HasNumber(c) <=> dev[c].minor # NULL
       /\ HasNumber(c)' <=> d.heap = "live" /\ d.minor # NULL
       /\ HasRegion(c)' <=> d.heap = "live"
       /\ RegionStep(t, c, p)
  <2>1. ProbeEnding(c, p, d)
    BY <1>1, <1>8, <1>9 DEF ProbeEnding
  <2> QED BY <1>1, <1>3, <1>4, <2>1, ProbeEnds
<1>11. Regions'
  <2>1. RegionMove(c, p)
    BY <1>5, <1>8, <1>9, <1>10 DEF RegionMove, PciKept
  <2>2. pci'[p].enabled = (IF pci'[p].region # NULL /\ dev'[pci'[p].region].minor # NULL
                           THEN 1 ELSE 0)
    BY <1>5, <1>8, <1>9, <1>10 DEF PciKept
  <2>3. pci'[p].master => dev'[c].heap = "live"
    BY <1>8, <1>10
  <2> QED BY <1>2, <1>3, <1>10, <2>1, <2>2, <2>3, RegionsStep
<1>12. MinorsExact'
  BY <1>1, <1>2, <1>3, <1>5, <1>8, <1>10, MinorsKept
<1>13. CoreRefExact'
  <2>1. coreRef \in Nat
    BY <1>2 DEF TypeOK
  <2>2. One(HoldsCore(dev[c], c)) = 1 /\ One(HoldsCore(dev'[c], c)) = 1
    BY <1>5, <1>8, <1>10 DEF One, HoldsCore
  <2> QED BY <1>1, <1>2, <1>5, <1>10, <2>1, <2>2, CoreStep
<1> QED BY <1>3, <1>10, <1>11, <1>12, <1>13, BindGood

(* The probe fails: out_clear_pci_drvdata, with what was done before. *)
LEMMA ProbeFailsGood ==
  ASSUME Inv, NEW t \in Thread, ProbeRegionFails(t) \/ ProbeAddFails(t) \/ ProbeDevFails(t)
  PROVE  Good(t)
<1>1. /\ found' = found /\ kept' = kept /\ file' = file /\ ready' = ready
      /\ Return(t) /\ th[t].pc \in ProbePc
      /\ th[t].pc \in {"probe_region", "probe_add", "probe_dev"}
  BY Zenon DEF ProbeRegionFails, ProbeAddFails, ProbeDevFails, ProbeUndo, Runs, At, ProbePc
<1>2. Here(t) /\ Regions /\ MinorsExact /\ CoreRefExact /\ TypeOK
  BY InvHere
<1>3. Fits(t)
  BY <1>2, ProbeFits DEF ProbeStep
<1>4. PICK c, p : Probing(t, c, p)
  BY <1>1, ProbeFacts
<1>5. /\ c \in Ctrl /\ c \in Dev /\ c = th[t].o /\ p \in Pdev /\ p = th[t].p
      /\ dev[c].heap = "live" /\ dev[c].ref = 0 /\ dev[c].pdev = p /\ ~pci[p].bound
      /\ th[t].pc \in {"probe_region", "probe_add"} => ~dev[c].cdev /\ dev[c].minor = NULL
      /\ th[t].pc = "probe_dev" => dev[c].cdev /\ dev[c].minor # NULL
      /\ HasRegion(c) <=> th[t].pc # "probe_region"
      /\ th[t].pc # "probe_region" => pci[p].region = c
      /\ th[t].pc = "probe_region" => pci[p].region # c
      /\ pci[p].enabled = (IF pci[p].region # NULL /\ dev[pci[p].region].minor # NULL
                           THEN 1 ELSE 0)
      /\ pci[p].region \in Ctrl \cup {NULL}
  BY <1>1, <1>4 DEF Probing
<1>6. PICK d : d = [dev[c] EXCEPT !.heap = "freed", !.cdev = FALSE]
  OBVIOUS
<1>7. dev[c] \in DevRec /\ dev \in [Dev -> DevRec]
  BY <1>2, <1>5, HereFacts
<1>8. /\ d.ref = 0 /\ d.pdev = p /\ d.heap = "freed" /\ ~d.cdev /\ d.minor = dev[c].minor
  BY <1>5, <1>6, <1>7 DEF DevRec
<1>9. dev' = [dev EXCEPT ![c] = d]
  <2>1. dev' = [dev EXCEPT ![c].heap = "freed", ![c].cdev = FALSE]
    BY <1>5, Zenon DEF ProbeRegionFails, ProbeAddFails, ProbeDevFails, ProbeUndo
  <2> QED BY <1>5, <1>6, <1>7, <2>1, ZenonT(40)
<1>10. PICK region, enabled :
         /\ pci' = [pci EXCEPT ![p].drv = NULL, ![p].master = FALSE,
                               ![p].region = region, ![p].enabled = enabled]
         /\ \/ /\ th[t].pc = "probe_region" /\ region = pci[p].region /\ enabled = pci[p].enabled
               /\ minors' = minors /\ coreRef' = coreRef
            \/ /\ th[t].pc = "probe_add" /\ region = NULL /\ enabled = pci[p].enabled
               /\ minors' = minors /\ coreRef' = coreRef
            \/ /\ th[t].pc = "probe_dev" /\ region = NULL /\ enabled = pci[p].enabled - 1
               /\ minors' = minors \ {dev[c].minor} /\ coreRef' = coreRef - 1
  BY <1>5, ZenonT(40) DEF ProbeRegionFails, ProbeAddFails, ProbeDevFails, ProbeUndo, Runs, At
<1>11. /\ ~pci'[p].bound /\ pci'[p].drv = NULL /\ ~pci'[p].master
       /\ pci'[p].region = region /\ pci'[p].enabled = enabled
       /\ \A q \in Pdev : q # p => pci'[q] = pci[q]
  <2>1. pci \in [Pdev -> PciRec]
    BY <1>2 DEF TypeOK, PciRec
  <2> DEFINE e == [pci[p] EXCEPT !.drv = NULL, !.master = FALSE, !.region = region,
                                 !.enabled = enabled]
  <2>2. pci' = [pci EXCEPT ![p] = e]
    BY <1>5, <1>10, <2>1, Zenon
  <2>3. pci[p] \in PciRec
    BY <1>5, <2>1
  <2>4. /\ e.bound = pci[p].bound /\ e.drv = NULL /\ ~e.master
        /\ e.region = region /\ e.enabled = enabled
    BY <2>3 DEF PciRec
  <2> HIDE DEF e
  <2>5. pci'[p] = e /\ \A q \in Pdev : q # p => pci'[q] = pci[q]
    BY <1>5, <2>1, <2>2
  <2> QED BY <1>5, <2>4, <2>5
<1>12. /\ BindMoves(t, c, p) /\ th'[t] = Idle /\ dev'[c] = d
       /\ OthersKeep(c) /\ Unnumbered(t, c)
       /\ HasNumber(c) <=> dev[c].minor # NULL
       /\ HasNumber(c)' <=> d.heap = "live" /\ d.minor # NULL
       /\ HasRegion(c)' <=> d.heap = "live"
       /\ RegionStep(t, c, p)
  <2>1. ProbeEnding(c, p, d)
    BY <1>1, <1>8, <1>9, <1>11 DEF ProbeEnding
  <2> QED BY <1>1, <1>3, <1>4, <2>1, ProbeEnds
<1>13. c # NULL
  BY <1>5, Consts
<1>14. Regions'
  <2>1. RegionMove(c, p)
    BY <1>5, <1>8, <1>10, <1>11, <1>12, Zenon DEF RegionMove
  <2>2. enabled = (IF region # NULL /\ dev'[region].minor # NULL THEN 1 ELSE 0)
    <3>1. CASE th[t].pc = "probe_region"
      <4>1. region # NULL => region \in Dev /\ region # c
        BY <1>5, <1>10, <3>1, Consts
      <4>2. region # NULL => dev'[region] = dev[region]
        BY <1>7, <1>9, <4>1, SMTT(30)
      <4> QED BY <1>5, <1>10, <3>1, <4>2, SMTT(30)
    <3>2. CASE th[t].pc = "probe_add"
      BY <1>5, <1>10, <3>2, SMTT(30)
    <3>3. CASE th[t].pc = "probe_dev"
      <4>1. region = NULL /\ enabled = pci[p].enabled - 1
        BY <1>10, <3>3
      <4>2. pci[p].enabled = 1
        BY <1>5, <1>13, <3>3
      <4> QED BY <4>1, <4>2
    <3> QED BY <1>1, <3>1, <3>2, <3>3, SMTT(30)
  <2> QED BY <1>2, <1>3, <1>11, <1>12, <2>1, <2>2, RegionsStep
<1>15. MinorsExact'
  <2>1. CASE th[t].pc # "probe_dev"
    <3>1. minors' = minors /\ ~HasNumber(c) /\ ~HasNumber(c)'
      BY <1>1, <1>5, <1>8, <1>10, <1>12, <2>1, Zenon
    <3> QED BY <1>2, <1>3, <1>12, <3>1, MinorsKept
  <2>2. CASE th[t].pc = "probe_dev"
    <3>1. minors' = minors \ {dev[c].minor} /\ HasNumber(c) /\ ~HasNumber(c)'
      BY <1>5, <1>8, <1>10, <1>12, <2>2
    <3> QED BY <1>2, <1>3, <1>5, <1>12, <3>1, MinorsGiven, SMTT(30)
  <2> QED BY <2>1, <2>2
<1>16. CoreRefExact'
  <2>1. coreRef \in Nat
    BY <1>2 DEF TypeOK
  <2>2. One(HoldsCore(dev'[c], c)) = 0
    BY <1>5, <1>8, <1>12 DEF One, HoldsCore
  <2>3. CASE th[t].pc # "probe_dev"
    <3>1. coreRef' = coreRef /\ ~dev[c].cdev
      BY <1>1, <1>5, <1>10, <2>3, Zenon
    <3>2. One(HoldsCore(dev[c], c)) = 0
      BY <1>5, <3>1 DEF One, HoldsCore
    <3> QED BY <1>2, <1>5, <1>12, <2>1, <2>2, <3>1, <3>2, CoreStep
  <2>4. CASE th[t].pc = "probe_dev"
    <3>1. coreRef' = coreRef - 1 /\ dev[c].cdev
      BY <1>5, <1>10, <2>4
    <3>2. One(HoldsCore(dev[c], c)) = 1
      BY <1>5, <3>1 DEF One, HoldsCore
    <3> QED BY <1>2, <1>5, <1>12, <2>1, <2>2, <3>1, <3>2, CoreStep, SMTT(30)
  <2> QED BY <2>3, <2>4
<1> QED BY <1>3, <1>12, <1>14, <1>15, <1>16, BindGood

(* bafs_ctrl_pci_probe begins with a new object. *)
LEMMA ProbeStartGood ==
  ASSUME Inv, NEW t \in Thread, NEW p \in Pdev, NEW c \in Ctrl, ProbeStart(t, p, c)
  PROVE  Good(t)
<1>1. /\ minors' = minors /\ coreRef' = coreRef /\ found' = found /\ kept' = kept /\ file' = file
      /\ ready' = ready /\ MayStart(t, "probe") /\ PciIdle(p) /\ ~pci[p].bound
      /\ dev[c].heap = "unused" /\ Call(t, c, p, NULL, "probe", "probe_region")
  BY DEF ProbeStart
<1>2. /\ Here(t) /\ th[t] = Idle /\ th[t].p = NULL /\ th[t].f = NULL /\ th[t].op = "none"
      /\ th[t].pc = "idle" /\ \A x \in Ctrl : ~Deletes(th[t], x)
  BY <1>1, IdleFacts
<1>3. Regions /\ MinorsExact /\ CoreRefExact /\ TypeOK
  BY InvHere
<1>4. /\ th' \in [Thread -> ThreadRec]
      /\ \A u \in Thread : u # t => th'[u] = th[u]
      /\ th'[t].pc = "probe_region" /\ th'[t].o = c /\ th'[t].op = "probe"
      /\ th'[t].p = p /\ th'[t].f = NULL
      /\ th'[t].left = <<>> /\ th'[t].stack = <<>>
  <2>1. "probe" \in Op /\ "probe_region" \in Pc
    BY DEF Op, Pc
  <2>2. c \in Dev
    BY Consts
  <2> QED BY <1>1, <1>2, <2>1, <2>2, CallFacts
<1>5. /\ c \in Dev /\ c # NULL /\ p # NULL /\ dev[c] = Unused /\ dev \in [Dev -> DevRec]
      /\ dev[c] \in DevRec
  BY <1>1, <1>2, HereFacts, Consts DEF ObjectOK
<1>6. PICK d : d = [dev[c] EXCEPT !.heap = "live", !.pdev = p]
  OBVIOUS
<1>7. dev' = [dev EXCEPT ![c] = d]
  BY <1>5, <1>6 DEF ProbeStart
<1>8. /\ d.heap = "live" /\ d.ref = 0 /\ ~d.cdev /\ ~d.shown /\ d.minor = NULL /\ d.pdev = p
      /\ d.ctrls = <<>> /\ d \in DevRec
  <2>1. d \in DevRec
    BY <1>5, <1>6 DEF DevRec
  <2> QED BY <1>5, <1>6, <2>1 DEF Unused
<1>9. /\ dev' \in [Dev -> DevRec] /\ dev'[c] = d /\ \A x \in Dev : x # c => dev'[x] = dev[x]
  BY <1>5, <1>7, <1>8
<1>10. /\ dev[c].heap = "unused" /\ dev[c].ref = 0 /\ ~dev[c].cdev /\ dev[c].minor = NULL
       /\ dev[c].pdev = NULL
  BY <1>5 DEF Unused
<1>11. /\ CtrlOf(th[t]) = NULL /\ GroupFrame(th[t]) = NoFrame /\ GroupOf(th[t]) = NULL
  <2>1. Frames1(th[t])
    BY <1>2, ThreadFrames DEF Here
  <2> QED BY <1>2, <2>1 DEF Frames1, GroupPc, CreatePc, RelgPc, RelPc, CtrlPc, ProbePc
<1>12. /\ CtrlOf(th'[t]) = c /\ GroupFrame(th'[t]) = NoFrame /\ GroupOf(th'[t]) = NULL
  BY <1>4 DEF CtrlOf, CtrlPc, ProbePc, GroupFrame, GroupPc, CreatePc, RelgPc, GroupOf, NoFrame
<1>13. Fits(t)
  <2>1. ThreadFits(t)
    BY <1>4, <1>5 DEF ThreadFits, StackOK, LocalsOK, Above, RelPc, RelgPc, CtrlPc, GroupPc,
                      CreatePc, ProbePc
  <2>2. Takeable(c)
    BY <1>1, <1>5 DEF Takeable
  <2>3. ObjectOK(dev'[c], c)
    BY <1>8, <1>9 DEF ObjectOK
  <2>4. CtrlStage(th[t])'
    BY <1>4, <1>8, <1>9 DEF CtrlStage, ProbePc, RelPc
  <2>5. GroupStage(th[t])'
    BY <1>12 DEF GroupStage
  <2> QED BY <1>2, <1>9, <1>11, <1>12, <2>1, <2>2, <2>3, <2>4, <2>5, TakeCtrl
<1>14. /\ ~pci'[p].bound /\ pci'[p].drv = c
       /\ pci'[p].region = pci[p].region /\ pci'[p].enabled = pci[p].enabled
       /\ \A q \in Pdev : q # p => pci'[q] = pci[q]
  <2>1. pci \in [Pdev -> PciRec]
    BY <1>3 DEF TypeOK, PciRec
  <2>2. pci' = [pci EXCEPT ![p].master = TRUE, ![p].drv = c]
    BY DEF ProbeStart
  <2> QED BY <1>1, <2>1, <2>2 DEF PciRec
<1>15. BindMoves(t, c, p)
  <2>1. Binds(t, p)
    BY <1>1, <1>2, <1>4, <1>9, <1>10, <1>14, Consts DEF Binds, PciIdle
  <2>2. BindingOK(t, p)
    BY <1>4, <1>14 DEF BindingOK
  <2>3. \A x \in Dev : ~IsPut(th[t], x) /\ ~IsPut(th'[t], x)
    BY <1>2, <1>4 DEF IsPut
  <2>4. \A x \in Ctrl : ~BoundBy(t, p, x) /\ ~BoundBy(t, p, x)'
    BY <1>1, <1>14 DEF BoundBy
  <2>5. ~IsOpening(th'[t])
    BY <1>4 DEF IsOpening
  <2>6. dev'[c].ref = dev[c].ref
    BY <1>8, <1>9, <1>10
  <2> QED BY <1>1, <1>4, <1>9, <1>11, <1>12, <2>1, <2>2, <2>3, <2>4, <2>5, <2>6 DEF BindMoves
<1>16. /\ OthersKeep(c) /\ Unnumbered(t, c)
  BY <1>9, <1>11, <1>12 DEF OthersKeep, Unnumbered, Unnumbers
<1>17. ~HasNumber(c) /\ ~HasNumber(c)'
  BY <1>8, <1>9, <1>10 DEF HasNumber
<1>18. Regions'
  <2>1. \A x \in Ctrl : x # c => ~NoRegion(th[t], x) /\ ~NoRegion(th'[t], x)
    BY <1>11, <1>12, Consts DEF NoRegion
  <2>2. RegionStep(t, c, p)
    BY <1>8, <1>9, <1>10, <1>14, <2>1, Consts DEF RegionStep, PciKept
  <2>3. ~HasRegion(c) /\ ~HasRegion(c)'
    <3>1. NoRegion(th'[t], c)
      BY <1>4, <1>12 DEF NoRegion
    <3> QED BY <1>10, <3>1 DEF HasRegion
  <2>4. RegionMove(c, p)
    BY <1>14, <2>3 DEF RegionMove
  <2>5. pci[p].region # NULL => pci[p].region \in Dev /\ pci[p].region # c
    <3>1. pci[p].region \in Ctrl \cup {NULL}
      BY <1>3 DEF TypeOK
    <3> QED BY <1>3, <2>3, <3>1, Consts DEF Regions
  <2>6. pci'[p].enabled = (IF pci'[p].region # NULL /\ dev'[pci'[p].region].minor # NULL
                           THEN 1 ELSE 0)
    <3>1. pci[p].enabled = (IF pci[p].region # NULL /\ dev[pci[p].region].minor # NULL
                            THEN 1 ELSE 0)
      BY <1>3 DEF Regions
    <3> QED BY <1>9, <1>14, <2>5, <3>1
  <2>7. dev'[c].heap = "live"
    BY <1>8, <1>9
  <2> QED BY <1>2, <1>3, <1>13, <2>2, <2>4, <2>6, <2>7, RegionsStep
<1>19. MinorsExact'
  BY <1>1, <1>2, <1>3, <1>13, <1>16, <1>17, MinorsKept
<1>20. CoreRefExact'
  <2>1. coreRef \in Nat
    BY <1>3 DEF TypeOK
  <2>2. One(HoldsCore(dev[c], c)) = 0 /\ One(HoldsCore(dev'[c], c)) = 0
    BY <1>8, <1>9, <1>10 DEF One, HoldsCore
  <2> QED BY <1>1, <1>3, <1>5, <1>16, <2>1, <2>2, CoreStep
<1> QED BY <1>13, <1>15, <1>18, <1>19, <1>20, BindGood

----------------------------------------------------------------------------
(* The creation of a group. *)

(* What is known of a thread that makes a group. *)
Creating(t, g) ==
  /\ g \in Group /\ g \in Dev /\ g = th[t].o /\ g # NULL /\ g \notin Ctrl
  /\ th[t].op = "create" /\ th[t].pc \in CreatePc /\ th[t].pc \in GroupPc
  /\ th[t].stack = <<>> /\ th[t].p = NULL /\ th[t].f = NULL /\ th[t].left \in Seq(Ctrl)
  /\ GroupFrame(th[t]).pc = th[t].pc /\ GroupFrame(th[t]).o = g
  /\ GroupFrame(th[t]).left = th[t].left
  /\ dev[g] \in DevRec /\ dev[g].heap = "live" /\ dev[g].ref = 0 /\ dev[g].ctrls \in Seq(Ctrl)
  /\ th[t].pc = "create_get" => ~dev[g].cdev /\ dev[g].minor = NULL
  /\ th[t].pc \in {"create_dev", "create_ref"} => dev[g].cdev /\ dev[g].minor # NULL
  /\ NamesOf(th[t]) = (IF th[t].pc = "create_get" THEN dev[g].ctrls \o th[t].left
                       ELSE dev[g].ctrls)

(* What is known in the creation of a group *)
LEMMA CreateFacts ==
  ASSUME NEW t, Here(t), th[t].pc \in CreatePc, NEW g, g = th[t].o
  PROVE  Creating(t, g)
<1>1. /\ t \in Thread /\ th[t] \in ThreadRec /\ dev \in [Dev -> DevRec]
      /\ StackOK(th[t]) /\ LocalsOK(th[t]) /\ GroupStage(th[t])
  BY HereFacts
<1>2. th[t].pc \in GroupPc /\ th[t].pc \notin CtrlPc /\ th[t].stack = <<>>
  BY <1>1 DEF GroupPc, CreatePc, RelgPc, CtrlPc, ProbePc, RelPc, StackOK
<1>3. g \in Group /\ g \in Dev /\ g # NULL /\ g \notin Ctrl /\ th[t].op = "create"
  BY <1>1, <1>2, Consts DEF LocalsOK
<1>4. th[t].p = NULL /\ th[t].f = NULL /\ th[t].left \in Seq(Ctrl)
  BY <1>1, <1>3 DEF LocalsOK, ThreadRec
<1>5. GroupFrame(th[t]) = [pc |-> th[t].pc, o |-> g, left |-> th[t].left]
  BY <1>2 DEF GroupFrame
<1>6. /\ GroupOf(th[t]) = g /\ GroupFrame(th[t]).pc = th[t].pc /\ GroupFrame(th[t]).o = g
      /\ GroupFrame(th[t]).left = th[t].left
  BY <1>5 DEF GroupOf
<1>7. /\ dev[g].heap = "live" /\ dev[g].ref = 0
      /\ th[t].pc = "create_get" => ~dev[g].cdev /\ dev[g].minor = NULL
      /\ th[t].pc \in {"create_dev", "create_ref"} => dev[g].cdev /\ dev[g].minor # NULL
  BY <1>1, <1>3, <1>6 DEF GroupStage
<1>8. dev[g] \in DevRec /\ dev[g].ctrls \in Seq(Ctrl)
  BY <1>1, <1>3 DEF DevRec
<1>9. NamesOf(th[t]) = (IF th[t].pc = "create_get" THEN dev[g].ctrls \o th[t].left
                        ELSE dev[g].ctrls)
  BY <1>6 DEF NamesOf
<1> QED BY <1>2, <1>3, <1>4, <1>6, <1>7, <1>8, <1>9 DEF Creating

(* The thread goes on with the group. *)
CreateOn(t, g, pc, left) ==
  /\ pc \in CreatePc /\ th'[t].pc = pc /\ th'[t].o = g /\ th'[t].op = th[t].op
  /\ th'[t].p = th[t].p /\ th'[t].f = th[t].f /\ th'[t].stack = <<>> /\ th'[t].left = left
  /\ dev'[g].heap = "live"
  /\ \A x \in Dev : x # g => dev'[x] = dev[x] \/ Counted(x)

(* What a step of a creation moves *)
LEMMA CreateMoves ==
  ASSUME NEW t, Here(t), Fits(t), NEW g, Creating(t, g), NEW pc, NEW left, CreateOn(t, g, pc, left)
  PROVE  /\ GroupMoves(t, g) /\ \A x \in Dev : ~IsPut(th'[t], x)
         /\ OthersKeep(g) /\ Unnumbered(t, g)
         /\ HasNumber(g) <=> dev[g].minor # NULL /\ th[t].pc # "create_undo"
         /\ HasNumber(g)' <=> dev'[g].minor # NULL /\ pc # "create_undo"
         /\ Members[g] = (IF th[t].pc = "create_undo" THEN th[t].left ELSE dev[g].ctrls)
         /\ Members'[g] = (IF pc = "create_undo" THEN left ELSE dev'[g].ctrls)
         /\ NamesOf(th[t])' = (IF pc = "create_get" THEN dev'[g].ctrls \o left ELSE dev'[g].ctrls)
<1>1. /\ g \in Group /\ g \in Dev /\ g = th[t].o /\ g # NULL /\ th[t].op = "create"
      /\ th[t].pc \in CreatePc /\ th[t].pc \in GroupPc /\ th[t].stack = <<>> /\ th[t].p = NULL
      /\ dev[g].heap = "live"
  BY DEF Creating
<1>2. /\ pc \in CreatePc /\ th'[t].pc = pc /\ th'[t].o = g /\ th'[t].op = th[t].op
      /\ th'[t].p = th[t].p /\ th'[t].f = th[t].f /\ th'[t].stack = <<>> /\ th'[t].left = left
      /\ dev'[g].heap = "live"
      /\ \A x \in Dev : x # g => dev'[x] = dev[x] \/ Counted(x)
  BY DEF CreateOn
<1>3. /\ pc \in GroupPc /\ pc \notin CtrlPc
      /\ pc \notin {"put", "open_get", "open_ctx", "ioctl_do", "ioctl_map", "create_copy", "mmap_do"}
      /\ pc \in UndoPc <=> pc = "create_undo"
      /\ th[t].pc \in UndoPc <=> th[t].pc = "create_undo"
  BY <1>1, <1>2 DEF GroupPc, CreatePc, CtrlPc, ProbePc, RelPc, UndoPc
<1>4. GroupFrame(th'[t]) = [pc |-> pc, o |-> g, left |-> left]
  BY <1>2, <1>3 DEF GroupFrame
<1>5. /\ GroupFrame(th'[t]).pc = pc /\ GroupFrame(th'[t]).o = g /\ GroupOf(th'[t]) = g
      /\ GroupFrame(th'[t]).left = left /\ CtrlOf(th'[t]) = NULL
  BY <1>2, <1>3, <1>4 DEF GroupOf, CtrlOf
<1>6. \A h \in Group : Makes(th'[t], h) => Makes(th[t], h)
  BY <1>1, <1>2 DEF Makes
<1>7. GroupMoves(t, g)
  BY <1>1, <1>2, <1>3, <1>5, <1>6 DEF GroupMoves
<1>8. GroupKnown(t, g)
  BY <1>7, GroupOthers
<1>9. /\ OthersKeep(g) /\ Unnumbered(t, g)
      /\ HasNumber(g) <=> dev[g].minor # NULL /\ th[t].pc # "create_undo"
      /\ HasNumber(g)' <=> /\ dev'[g].heap = "live" /\ dev'[g].minor # NULL
                           /\ ~Unnumbers(th'[t], g)
      /\ Members[g] = (IF th[t].pc \in UndoPc THEN th[t].left ELSE dev[g].ctrls)
      /\ Members'[g] = (IF dev'[g].heap # "live" THEN <<>>
                        ELSE IF Undoes(th'[t], g) THEN GroupFrame(th'[t]).left
                        ELSE dev'[g].ctrls)
  BY <1>8 DEF GroupKnown
<1>10. (Undoes(th'[t], g) <=> pc = "create_undo") /\ (Unnumbers(th'[t], g) <=> pc = "create_undo")
  BY <1>3, <1>5 DEF Undoes, Unnumbers
<1>11. NamesOf(th[t])' = (IF pc = "create_get" THEN dev'[g].ctrls \o left ELSE dev'[g].ctrls)
  BY <1>2, <1>5 DEF NamesOf
<1>12. \A x \in Dev : ~IsPut(th'[t], x)
  BY <1>2, <1>3 DEF IsPut
<1> QED BY <1>2, <1>3, <1>5, <1>7, <1>9, <1>10, <1>11, <1>12

(* A step that keeps the members and the names. *)
LEMMA CreateOnGood ==
  ASSUME Inv, NEW t \in Thread, Fits(t), NEW g, Creating(t, g), NEW pc, NEW left,
         CreateOn(t, g, pc, left),
         pci' = pci, found' = found, kept' = kept, file' = file, ready' = ready, coreRef' = coreRef,
         NamesOf(th[t])' = NamesOf(th[t]), MinorsExact', GroupBalance(t, g)
  PROVE  Good(t)
<1>1. Here(t) /\ CoreRefExact /\ TypeOK
  BY InvHere
<1>2. GroupMoves(t, g) /\ OthersKeep(g)
  BY <1>1, CreateMoves
<1>3. FoundExact'
  BY FoundKept
<1>4. CoreRefExact'
  <2>1. g \in Group /\ g \in Dev /\ g \notin Ctrl /\ dev[g].heap = "live" /\ dev'[g].heap = "live"
    BY DEF Creating, CreateOn
  <2>2. One(HoldsCore(dev[g], g)) = 1 /\ One(HoldsCore(dev'[g], g)) = 1
    BY <2>1 DEF One, HoldsCore
  <2>3. coreRef \in Nat
    BY <1>1 DEF TypeOK
  <2> QED BY <1>1, <1>2, <2>1, <2>2, <2>3, CoreStep
<1> QED BY <1>2, <1>3, <1>4, GroupGood

(* A list whose first element has moved to the end of the list before it. *)
LEMMA MoveHead ==
  ASSUME NEW A, NEW s \in Seq(A), NEW l \in Seq(A), l # <<>>
  PROVE  Append(s, Head(l)) \o Tail(l) = s \o l
<1> DEFINE m == Append(s, Head(l)) \o Tail(l)
           n == s \o l
<1>1. Head(l) \in A /\ Tail(l) \in Seq(A) /\ Len(Tail(l)) = Len(l) - 1 /\ Len(l) \in Nat
      /\ Len(s) \in Nat /\ Len(l) >= 1 /\ Head(l) = l[1]
      /\ \A i \in 1 .. Len(l) - 1 : Tail(l)[i] = l[i + 1]
  OBVIOUS
<1>2. /\ Append(s, Head(l)) \in Seq(A) /\ Len(Append(s, Head(l))) = Len(s) + 1
      /\ Append(s, Head(l))[Len(s) + 1] = Head(l)
      /\ \A i \in 1 .. Len(s) : Append(s, Head(l))[i] = s[i]
  BY <1>1
<1>3. m \in Seq(A) /\ n \in Seq(A) /\ Len(m) = Len(s) + Len(l) /\ Len(n) = Len(s) + Len(l)
  <2> DEFINE a == Append(s, Head(l))  b == Tail(l)
  <2>1. a \in Seq(A) /\ b \in Seq(A) /\ Len(a) = Len(s) + 1 /\ Len(b) = Len(l) - 1
    BY <1>1, <1>2
  <2> HIDE DEF a, b
  <2>2. a \o b \in Seq(A) /\ Len(a \o b) = Len(a) + Len(b)
    <3>1. a \in Seq(A) /\ b \in Seq(A)
      BY <2>1
    <3> QED BY <3>1, ConcatProperties
  <2>3. s \o l \in Seq(A) /\ Len(s \o l) = Len(s) + Len(l)
    OBVIOUS
  <2> QED BY <1>1, <2>1, <2>2, <2>3 DEF a, b
<1>4. ASSUME NEW i \in 1 .. Len(s) + Len(l)
      PROVE  m[i] = n[i]
  <2> DEFINE a == Append(s, Head(l))  b == Tail(l)
  <2>1. a \in Seq(A) /\ b \in Seq(A) /\ Len(a) = Len(s) + 1 /\ Len(b) = Len(l) - 1
    BY <1>1, <1>2
  <2>2. /\ i <= Len(s) => a[i] = s[i]
        /\ i = Len(s) + 1 => a[i] = l[1]
        /\ i > Len(s) + 1 => b[i - Len(s) - 1] = l[i - Len(s)]
    BY <1>1, <1>2
  <2> HIDE DEF a, b
  <2>3. (a \o b)[i] = IF i <= Len(a) THEN a[i] ELSE b[i - Len(a)]
    BY <1>1, <2>1
  <2>4. n[i] = IF i <= Len(s) THEN s[i] ELSE l[i - Len(s)]
    BY <1>1
  <2>5. (a \o b)[i] = n[i]
    <3> HIDE DEF n
    <3> QED BY <1>1, <2>1, <2>2, <2>3, <2>4
  <2> QED BY <2>5 DEF a, b
<1> HIDE DEF m, n
<1>5. m = n
  BY <1>1, <1>3, <1>4
<1> QED BY <1>5 DEF m, n

(* kref_get on the next controller of the new group *)
LEMMA CreateGetGood ==
  ASSUME Inv, NEW t \in Thread, CreateGet(t)
  PROVE  Good(t)
<1>1. /\ pci' = pci /\ minors' = minors /\ coreRef' = coreRef /\ found' = found
      /\ kept' = kept /\ file' = file /\ ready' = ready
      /\ th[t].pc = "create_get" /\ th[t].pc \in CreatePc /\ Runs(t, "create_get")
      /\ th[t].left # <<>>
  BY DEF CreateGet, Runs, At, kernVars, CreatePc
<1>2. Here(t) /\ MinorsExact
  BY InvHere
<1>3. Fits(t)
  BY <1>2, CreateFits DEF CreateStep
<1>4. PICK g : Creating(t, g)
  BY <1>1, <1>2, CreateFacts
<1>5. /\ g \in Group /\ g \in Dev /\ g = th[t].o /\ g # NULL /\ g \notin Ctrl
      /\ th[t].stack = <<>> /\ th[t].left \in Seq(Ctrl)
      /\ dev[g] \in DevRec /\ dev[g].heap = "live" /\ dev[g].ctrls \in Seq(Ctrl)
      /\ dev[g].minor = NULL /\ dev[g].ref = 0
      /\ NamesOf(th[t]) = dev[g].ctrls \o th[t].left
  BY <1>1, <1>4 DEF Creating
<1>6. PICK c : c = Head(th[t].left)
  OBVIOUS
<1>7. PICK l : l = Append(dev[g].ctrls, c)
  OBVIOUS
<1>8. /\ c \in Ctrl /\ c \in Dev /\ c # g /\ dev[c].ref > 0 /\ dev[c] \in DevRec
      /\ th \in [Thread -> ThreadRec] /\ th[t] \in ThreadRec /\ dev \in [Dev -> DevRec]
  BY <1>1, <1>2, <1>5, <1>6, RunsFacts, HereFacts, Consts
<1>9. PICK e : e = dev[c].ref + 1
  BY SMTT(30)
<1>10. /\ dev' = [dev EXCEPT ![c].ref = e, ![g].ctrls = l]
       /\ th' = [th EXCEPT ![t].left = Tail(@)]
  BY <1>5, <1>6, <1>7, <1>8, <1>9 DEF CreateGet
<1>11. e \in Nat /\ e > 0 /\ dev[c].ref \in Nat
  BY <1>8, <1>9, SMTT(30) DEF DevRec
<1>12. /\ dev'[c] = [dev[c] EXCEPT !.ref = e] /\ dev'[g] = [dev[g] EXCEPT !.ctrls = l]
       /\ \A x \in Dev : x # g /\ x # c => dev'[x] = dev[x]
  BY <1>5, <1>8, <1>10
<1>13. dev'[c].ref = e /\ Counted(c)
  <2>1. dev'[c].ref = e
    BY <1>8, <1>12 DEF DevRec
  <2> QED BY <1>8, <1>11, <1>12, <2>1 DEF Counted
<1>14. /\ dev'[g].heap = "live" /\ dev'[g].minor = NULL /\ dev'[g].ref = 0 /\ dev'[g].ctrls = l
  BY <1>5, <1>12 DEF DevRec
<1>15. CreateOn(t, g, "create_get", Tail(th[t].left))
  <2>1. /\ th'[t].pc = "create_get" /\ th'[t].o = g /\ th'[t].op = th[t].op
        /\ th'[t].p = th[t].p /\ th'[t].f = th[t].f /\ th'[t].stack = <<>>
        /\ th'[t].left = Tail(th[t].left)
    BY <1>1, <1>5, <1>8, <1>10 DEF ThreadRec
  <2>2. \A x \in Dev : x # g => dev'[x] = dev[x] \/ Counted(x)
    BY <1>12, <1>13
  <2> QED BY <1>14, <2>1, <2>2 DEF CreateOn, CreatePc
<1>16. PICK pc, left : CreateOn(t, g, pc, left) /\ pc = "create_get" /\ left = Tail(th[t].left)
  BY <1>15
<1>17. /\ \A x \in Dev : ~IsPut(th'[t], x)
       /\ OthersKeep(g) /\ Unnumbered(t, g)
       /\ HasNumber(g) <=> dev[g].minor # NULL /\ th[t].pc # "create_undo"
       /\ HasNumber(g)' <=> dev'[g].minor # NULL /\ pc # "create_undo"
       /\ Members[g] = (IF th[t].pc = "create_undo" THEN th[t].left ELSE dev[g].ctrls)
       /\ Members'[g] = (IF pc = "create_undo" THEN left ELSE dev'[g].ctrls)
       /\ NamesOf(th[t])' = (IF pc = "create_get" THEN dev'[g].ctrls \o left ELSE dev'[g].ctrls)
  <2>1. CreateOn(t, g, pc, left)
    BY <1>16
  <2> QED BY <1>2, <1>3, <1>4, <2>1, CreateMoves
<1>18. NamesOf(th[t])' = NamesOf(th[t])
  <2>1. Append(dev[g].ctrls, Head(th[t].left)) \o Tail(th[t].left) = dev[g].ctrls \o th[t].left
    BY <1>1, <1>5, MoveHead
  <2> QED BY <1>5, <1>6, <1>7, <1>14, <1>16, <1>17, <2>1, ZenonT(40)
<1>19. MinorsExact'
  BY <1>1, <1>2, <1>3, <1>5, <1>14, <1>17, MinorsKept
<1>20. Members[g] = dev[g].ctrls /\ Members'[g] = l
  BY <1>1, <1>14, <1>16, <1>17
<1>21. GroupBalance(t, g)
  <2> SUFFICES ASSUME NEW x \in Dev
               PROVE  dev'[x].ref + Count(Members[g], x)
                        = dev[x].ref + Count(Members'[g], x) + One(IsPut(th'[t], x))
    BY DEF GroupBalance
  <2>1. One(IsPut(th'[t], x)) = 0
    BY <1>17 DEF One
  <2>2. Count(Append(dev[g].ctrls, c), x) = Count(dev[g].ctrls, x) + One(c = x)
    BY <1>5, <1>8, CountAppend
  <2>3. Count(dev[g].ctrls, x) \in Nat
    BY <1>5, PlacesCount
  <2>4. dev[x].ref \in Nat
    BY <1>2, HereFacts DEF DevRec
  <2>5. dev'[x].ref = dev[x].ref + One(c = x) /\ One(c = x) \in Nat
    <3>1. CASE x = c
      <4>1. One(c = x) = 1
        BY <3>1 DEF One
      <4> QED BY <1>9, <1>13, <3>1, <4>1
    <3>2. CASE x # c
      <4>1. One(c = x) = 0 /\ dev'[x].ref = dev[x].ref
        BY <1>5, <1>12, <1>14, <3>2 DEF One
      <4> QED BY <2>4, <4>1
    <3> QED BY <3>1, <3>2
  <2> DEFINE i == One(IsPut(th'[t], x))  j == One(c = x)  k == Count(dev[g].ctrls, x)
             m == Count(l, x)  n == dev[x].ref  o == dev'[x].ref
  <2>6. /\ i = 0 /\ j \in Nat /\ k \in Nat /\ n \in Nat /\ m = k + j /\ o = n + j
    BY <1>7, <2>1, <2>2, <2>3, <2>4, <2>5
  <2> HIDE DEF i, j, k, m, n, o
  <2>7. o + k = n + m + i
    BY <2>6
  <2> QED BY <1>20, <2>7 DEF i, k, m, n, o
<1> QED BY <1>1, <1>3, <1>4, <1>16, <1>18, <1>19, <1>21, CreateOnGood, SMTT(30)

(* The numbers and cdev_add, device_create, and their error paths, which   *)
(* go on to put the controllers in reverse order                           *)
LEMMA CreateNextGood ==
  ASSUME Inv, NEW t \in Thread,
         CreateAdd(t) \/ CreateDev(t) \/ CreateAddFails(t) \/ CreateDevFails(t)
  PROVE  Good(t)
<1>1. /\ pci' = pci /\ coreRef' = coreRef /\ found' = found
      /\ kept' = kept /\ file' = file /\ ready' = ready
      /\ th[t].pc \in {"create_get", "create_dev"} /\ th[t].pc \in CreatePc
      /\ th[t].pc = "create_get" => th[t].left = <<>>
  BY DEF CreateAdd, CreateDev, CreateAddFails, CreateDevFails, Runs, At, kernVars, CreatePc
<1>2. Here(t) /\ MinorsExact
  BY InvHere
<1>3. Fits(t)
  BY <1>2, CreateFits DEF CreateStep
<1>4. PICK g : Creating(t, g)
  BY <1>1, <1>2, CreateFacts
<1>5. /\ g \in Group /\ g \in Dev /\ g = th[t].o /\ g # NULL
      /\ th[t].stack = <<>> /\ th[t].left \in Seq(Ctrl)
      /\ dev[g] \in DevRec /\ dev[g].heap = "live" /\ dev[g].ctrls \in Seq(Ctrl)
      /\ th[t].pc = "create_get" => dev[g].minor = NULL
      /\ th[t].pc = "create_dev" => dev[g].minor # NULL
      /\ NamesOf(th[t]) = (IF th[t].pc = "create_get" THEN dev[g].ctrls \o th[t].left
                           ELSE dev[g].ctrls)
  BY <1>4 DEF Creating
<1>6. /\ th \in [Thread -> ThreadRec] /\ th[t] \in ThreadRec /\ dev \in [Dev -> DevRec]
  BY <1>2, HereFacts
<1>7. PICK l : l = Reverse(dev[g].ctrls)
  OBVIOUS
<1>8. PICK pc, left, n, d :
        /\ dev' = [dev EXCEPT ![g] = d] /\ th' = [th EXCEPT ![t].pc = pc, ![t].left = left]
        /\ \/ /\ th[t].pc = "create_get" /\ pc = "create_dev" /\ left = th[t].left
              /\ n \in Minor \ minors /\ minors' = minors \cup {n}
              /\ d = [dev[g] EXCEPT !.minor = n, !.cdev = TRUE]
           \/ /\ th[t].pc = "create_dev" /\ pc = "create_ref" /\ left = th[t].left
              /\ minors' = minors /\ d = [dev[g] EXCEPT !.shown = TRUE]
           \/ /\ th[t].pc = "create_get" /\ pc = "create_undo" /\ left = l
              /\ minors' = minors /\ d = dev[g]
           \/ /\ th[t].pc = "create_dev" /\ pc = "create_undo" /\ left = l
              /\ minors' = minors \ {dev[g].minor} /\ d = [dev[g] EXCEPT !.cdev = FALSE]
  <2>1. CASE CreateAdd(t)
    <3>1. PICK n \in Minor \ minors :
            minors' = minors \cup {n} /\ dev' = [dev EXCEPT ![g].minor = n, ![g].cdev = TRUE]
      BY <1>5, <2>1 DEF CreateAdd, FreeMinor
    <3>2. Goto(t, "create_dev") /\ th[t].pc = "create_get"
      BY <2>1 DEF CreateAdd, Runs, At
    <3>3. th' = [th EXCEPT ![t].pc = "create_dev", ![t].left = th[t].left]
      BY <1>6, <3>2 DEF Goto, ThreadRec
    <3>4. dev' = [dev EXCEPT ![g] = [dev[g] EXCEPT !.minor = n, !.cdev = TRUE]]
      BY <3>1
    <3> QED BY <3>1, <3>2, <3>3, <3>4, ZenonT(40)
  <2>2. CASE CreateDev(t)
    <3>1. /\ Goto(t, "create_ref") /\ th[t].pc = "create_dev" /\ minors' = minors
          /\ dev' = [dev EXCEPT ![g].shown = TRUE]
      BY <1>5, <2>2 DEF CreateDev, Runs, At, kernVars
    <3>2. th' = [th EXCEPT ![t].pc = "create_ref", ![t].left = th[t].left]
      BY <1>6, <3>1 DEF Goto, ThreadRec
    <3>3. dev' = [dev EXCEPT ![g] = [dev[g] EXCEPT !.shown = TRUE]]
      BY <3>1
    <3> QED BY <3>1, <3>2, <3>3
  <2>3. CASE CreateAddFails(t)
    <3>1. /\ th' = [th EXCEPT ![t].pc = "create_undo", ![t].left = l]
          /\ th[t].pc = "create_get" /\ minors' = minors /\ dev' = dev
      BY <1>5, <1>7, <2>3 DEF CreateAddFails, CreateUndoes, Runs, At, kernVars
    <3>2. dev' = [dev EXCEPT ![g] = dev[g]]
      BY <1>5, <1>6, <3>1
    <3> QED BY <3>1, <3>2, Zenon
  <2>4. CASE CreateDevFails(t)
    <3>1. /\ th' = [th EXCEPT ![t].pc = "create_undo", ![t].left = l]
          /\ th[t].pc = "create_dev" /\ minors' = minors \ {dev[g].minor}
          /\ dev' = [dev EXCEPT ![g].cdev = FALSE]
      BY <1>5, <1>7, <2>4 DEF CreateDevFails, CreateUndoes, Runs, At, kernVars
    <3>2. dev' = [dev EXCEPT ![g] = [dev[g] EXCEPT !.cdev = FALSE]]
      BY <3>1
    <3> QED BY <3>1, <3>2
  <2> QED BY <2>1, <2>2, <2>3, <2>4, Zenon
<1>9. /\ d.ctrls = dev[g].ctrls /\ d.heap = "live" /\ d.ref = dev[g].ref
      /\ pc # "create_dev" => d.minor = dev[g].minor
      /\ pc = "create_dev" => d.minor = n
      /\ pc \in CreatePc /\ pc # "create_get"
  BY <1>5, <1>8 DEF DevRec, CreatePc
<1>10. dev'[g] = d /\ \A x \in Dev : x # g => dev'[x] = dev[x]
  BY <1>5, <1>6, <1>8
<1>11. CreateOn(t, g, pc, left)
  <2>1. /\ th'[t].pc = pc /\ th'[t].o = g /\ th'[t].op = th[t].op
        /\ th'[t].p = th[t].p /\ th'[t].f = th[t].f /\ th'[t].stack = <<>>
        /\ th'[t].left = left
    <3>1. th' = [th EXCEPT ![t].pc = pc, ![t].left = left]
      BY <1>8
    <3> QED BY <1>5, <1>6, <3>1 DEF ThreadRec
  <2> QED BY <1>9, <1>10, <2>1 DEF CreateOn
<1>12. /\ \A x \in Dev : ~IsPut(th'[t], x)
       /\ OthersKeep(g) /\ Unnumbered(t, g)
       /\ HasNumber(g) <=> dev[g].minor # NULL /\ th[t].pc # "create_undo"
       /\ HasNumber(g)' <=> dev'[g].minor # NULL /\ pc # "create_undo"
       /\ Members[g] = (IF th[t].pc = "create_undo" THEN th[t].left ELSE dev[g].ctrls)
       /\ Members'[g] = (IF pc = "create_undo" THEN left ELSE dev'[g].ctrls)
       /\ NamesOf(th[t])' = (IF pc = "create_get" THEN dev'[g].ctrls \o left ELSE dev'[g].ctrls)
  BY <1>2, <1>3, <1>4, <1>11, CreateMoves
<1>13. NamesOf(th[t])' = NamesOf(th[t])
  <2>1. dev[g].ctrls \o <<>> = dev[g].ctrls
    BY <1>5, ConcatEmptySeq
  <2>2. NamesOf(th[t])' = dev[g].ctrls
    BY <1>9, <1>10, <1>12
  <2>3. CASE th[t].pc = "create_get"
    <3>1. NamesOf(th[t]) = dev[g].ctrls \o th[t].left
      BY <1>5, <2>3
    <3>2. dev[g].ctrls \o th[t].left = dev[g].ctrls
      BY <1>1, <2>1, <2>3
    <3> QED BY <2>2, <3>1, <3>2
  <2>4. CASE th[t].pc # "create_get"
    BY <1>5, <2>2, <2>4
  <2> QED BY <2>3, <2>4
<1>14. MinorsExact'
  <2>1. CASE pc = "create_dev"
    <3>1. /\ ~HasNumber(g) /\ HasNumber(g)' /\ dev'[g].minor \notin minors
          /\ minors' = minors \cup {dev'[g].minor}
      BY <1>5, <1>8, <1>9, <1>10, <1>12, <2>1, Consts, Zenon
    <3> QED BY <1>2, <1>3, <1>5, <1>12, <3>1, MinorsTaken
  <2>2. CASE th[t].pc = "create_dev" /\ pc = "create_undo"
    <3>1. HasNumber(g) /\ ~HasNumber(g)' /\ minors' = minors \ {dev[g].minor}
      BY <1>5, <1>8, <1>12, <2>2
    <3> QED BY <1>2, <1>3, <1>5, <1>12, <3>1, MinorsGiven
  <2>3. CASE pc # "create_dev" /\ ~(th[t].pc = "create_dev" /\ pc = "create_undo")
    <3>1. /\ HasNumber(g)' <=> HasNumber(g)
          /\ minors' = minors /\ dev'[g].minor = dev[g].minor
      BY <1>5, <1>8, <1>9, <1>10, <1>12, <2>3
    <3> QED BY <1>2, <1>3, <1>5, <1>12, <3>1, MinorsKept
  <2> QED BY <2>1, <2>2, <2>3
<1>15. GroupBalance(t, g)
  <2> SUFFICES ASSUME NEW x \in Dev
               PROVE  dev'[x].ref + Count(Members[g], x)
                        = dev[x].ref + Count(Members'[g], x) + One(IsPut(th'[t], x))
    BY DEF GroupBalance
  <2>1. One(IsPut(th'[t], x)) = 0
    BY <1>12 DEF One
  <2>2. Members[g] = dev[g].ctrls /\ Members'[g] \in {dev[g].ctrls, l}
    BY <1>1, <1>8, <1>9, <1>10, <1>12
  <2>3. Count(l, x) = Count(dev[g].ctrls, x)
    BY <1>5, <1>7, CountReverse
  <2>4. Count(dev[g].ctrls, x) \in Nat
    BY <1>5, PlacesCount
  <2>5. Count(Members'[g], x) = Count(Members[g], x) /\ Count(Members[g], x) \in Nat
    BY <2>2, <2>3, <2>4
  <2>6. dev[x].ref \in Nat /\ dev'[x].ref = dev[x].ref
    <3>1. dev[x].ref \in Nat
      BY <1>2, HereFacts DEF DevRec
    <3> QED BY <1>9, <1>10, <3>1
  <2> QED BY <2>1, <2>5, <2>6
<1> QED BY <1>1, <1>3, <1>4, <1>11, <1>13, <1>14, <1>15, CreateOnGood

(* Devices found by name are put, or found, for the list l. *)
LEMMA FoundStep ==
  ASSUME Inv, NEW t \in Thread, Fits(t), NEW s \in Seq(Ctrl), NEW l \in Seq(Ctrl),
         NamesOf(th[t]) = s, NamesOf(th[t])' = l,
         \A c \in Ctrl : found'[c] = found[c] + Count(l, c) - Count(s, c)
  PROVE  FoundExact'
<1> SUFFICES ASSUME NEW c \in Ctrl
             PROVE  found'[c] = Total([u \in Thread |-> NamesOf(th[u])'], c)
  BY DEF FoundExact
<1>1. Here(t) /\ FoundExact /\ TypeOK
  BY InvHere
<1>2. found[c] \in Nat
  BY <1>1, Consts DEF TypeOK
<1>3. Count(s, c) \in Nat /\ Count(l, c) \in Nat
  BY PlacesCount
<1>4. found'[c] = found[c] + Count(l, c) - Count(s, c)
  OBVIOUS
<1>5. found'[c] \in Int /\ found'[c] + Count(NamesOf(th[t]), c) = found[c] + Count(NamesOf(th[t])', c)
  <2> DEFINE a == found[c]  b == Count(l, c)  d == Count(s, c)  e == found'[c]
  <2>1. a \in Nat /\ b \in Nat /\ d \in Nat /\ e = a + b - d
    BY <1>2, <1>3, <1>4
  <2> HIDE DEF a, b, d, e
  <2>2. e \in Int /\ e + d = a + b
    BY <2>1
  <2> QED BY <2>2 DEF a, b, d, e
<1> QED BY <1>1, <1>5, NamesStep

(* out_put_devices of a failed CREATE_GROUP, and kref_init of the new      *)
(* group, whose count of one is the call's reference                       *)
LEMMA CreateEndGood ==
  ASSUME Inv, NEW t \in Thread, CreateUndone(t) \/ CreateRef(t)
  PROVE  Good(t)
<1>1. /\ pci' = pci /\ minors' = minors /\ kept' = kept /\ file' = file /\ ready' = ready
      /\ th[t].pc \in CreatePc
      /\ \/ CreateUndone(t) /\ th[t].pc = "create_undo" /\ th[t].left = <<>>
            /\ coreRef' = coreRef - 1
         \/ CreateRef(t) /\ th[t].pc = "create_ref" /\ coreRef' = coreRef
  BY DEF CreateUndone, CreateRef, Runs, At, CreatePc
<1>2. Here(t) /\ MinorsExact /\ CoreRefExact /\ TypeOK
  BY InvHere
<1>3. Fits(t)
  BY <1>2, CreateFits DEF CreateStep
<1>4. PICK g : Creating(t, g)
  BY <1>1, <1>2, CreateFacts
<1>5. /\ g \in Group /\ g \in Dev /\ g = th[t].o /\ g # NULL /\ g \notin Ctrl
      /\ th[t].stack = <<>> /\ th[t].p = NULL /\ th[t].op = "create" /\ th[t].pc \in GroupPc
      /\ dev[g] \in DevRec /\ dev[g].heap = "live" /\ dev[g].ref = 0 /\ dev[g].ctrls \in Seq(Ctrl)
      /\ th[t].pc = "create_ref" => dev[g].minor # NULL
      /\ NamesOf(th[t]) = dev[g].ctrls
  BY <1>1, <1>4 DEF Creating
<1>6. /\ th \in [Thread -> ThreadRec] /\ th[t] \in ThreadRec /\ dev \in [Dev -> DevRec]
  BY <1>2, HereFacts
<1>7. PICK d :
        /\ dev' = [dev EXCEPT ![g] = d]
        /\ \/ th[t].pc = "create_undo" /\ d = [dev[g] EXCEPT !.heap = "freed"]
           \/ th[t].pc = "create_ref" /\ d = [dev[g] EXCEPT !.ref = 1]
  <2>1. CASE CreateUndone(t)
    <3>1. dev' = [dev EXCEPT ![g] = [dev[g] EXCEPT !.heap = "freed"]] /\ th[t].pc = "create_undo"
      BY <1>5, <2>1 DEF CreateUndone, Runs, At
    <3> QED BY <3>1
  <2>2. CASE CreateRef(t)
    <3>1. dev' = [dev EXCEPT ![g] = [dev[g] EXCEPT !.ref = 1]] /\ th[t].pc = "create_ref"
      BY <1>5, <2>2 DEF CreateRef, Runs, At
    <3> QED BY <3>1
  <2> QED BY <2>1, <2>2
<1>8. /\ d.ctrls = dev[g].ctrls /\ d.minor = dev[g].minor
      /\ th[t].pc = "create_undo" => d.heap = "freed" /\ d.ref = 0
      /\ th[t].pc = "create_ref" => d.heap = "live" /\ d.ref = 1
  BY <1>5, <1>7 DEF DevRec
<1>9. dev'[g] = d /\ \A x \in Dev : x # g => dev'[x] = dev[x]
  BY <1>5, <1>6, <1>7
<1>10. /\ th[t].pc = "create_undo" => th'[t] = Idle
       /\ th[t].pc = "create_ref" => /\ th'[t].pc = "create_copy" /\ th'[t].o = g
                                     /\ th'[t].op = th[t].op /\ th'[t].p = th[t].p
                                     /\ th'[t].f = th[t].f /\ th'[t].stack = <<>>
  <2>1. CASE CreateUndone(t)
    <3>1. th[t].pc = "create_undo" /\ Return(t)
      BY <2>1 DEF CreateUndone, Runs, At
    <3> QED BY <1>2, <3>1, ReturnFits
  <2>2. CASE CreateRef(t)
    <3>1. th[t].pc = "create_ref" /\ Goto(t, "create_copy")
      BY <2>2 DEF CreateRef, Runs, At
    <3>2. "create_copy" \in Pc
      BY DEF Pc
    <3> QED BY <1>2, <1>5, <3>1, <3>2, GotoFacts
  <2> QED BY <2>1, <2>2
<1>11. /\ Idle.op = "none" /\ Idle.p = NULL /\ Idle.f = NULL /\ Idle.pc = "idle" /\ Idle.o = NULL
       /\ Idle.stack = <<>>
  BY DEF Idle
<1>12. th'[t].pc \in {"idle", "create_copy"} /\ th'[t].stack = <<>>
  BY <1>1, <1>10, <1>11
<1>13. GroupFrame(th'[t]) = NoFrame /\ GroupOf(th'[t]) = NULL /\ CtrlOf(th'[t]) = NULL
  BY <1>12 DEF CtrlOf, CtrlPc, RelPc, ProbePc, GroupOf, GroupFrame, GroupPc, CreatePc, RelgPc,
     NoFrame
<1>14. GroupMoves(t, g)
  <2>1. \A h \in Group : Makes(th'[t], h) => Makes(th[t], h)
    BY <1>1, <1>5, <1>10, <1>11 DEF Makes
  <2>2. dev'[g].heap # "unused"
    BY <1>1, <1>8, <1>9
  <2>3. th'[t].p = NULL /\ th'[t].f \in {th[t].f, NULL}
    BY <1>1, <1>5, <1>10, <1>11
  <2> QED BY <1>5, <1>9, <1>12, <1>13, <2>1, <2>2, <2>3 DEF GroupMoves
<1>15. GroupKnown(t, g)
  BY <1>2, <1>3, <1>14, GroupOthers
<1>16. /\ OthersKeep(g) /\ Unnumbered(t, g)
       /\ HasNumber(g) <=> dev[g].minor # NULL /\ th[t].pc # "create_undo"
       /\ HasNumber(g)' <=> /\ dev'[g].heap = "live" /\ dev'[g].minor # NULL
                            /\ ~Unnumbers(th'[t], g)
       /\ Members[g] = (IF th[t].pc \in UndoPc THEN th[t].left ELSE dev[g].ctrls)
       /\ Members'[g] = (IF dev'[g].heap # "live" THEN <<>>
                         ELSE IF Undoes(th'[t], g) THEN GroupFrame(th'[t]).left
                         ELSE dev'[g].ctrls)
  BY <1>15 DEF GroupKnown
<1>17. ~Undoes(th'[t], g) /\ ~Unnumbers(th'[t], g)
  BY <1>5, <1>13 DEF Undoes, Unnumbers
<1>18. Members'[g] = Members[g]
  <2>1. CASE th[t].pc = "create_undo"
    BY <1>1, <1>8, <1>9, <1>16, <2>1 DEF UndoPc
  <2>2. CASE th[t].pc = "create_ref"
    BY <1>8, <1>9, <1>16, <1>17, <2>2 DEF UndoPc
  <2> QED BY <1>1, <2>1, <2>2
<1>19. FoundExact'
  <2> DEFINE s == dev[g].ctrls  l == <<>>
  <2>1. NoFrame.pc \notin CreatePc /\ NoFrame.pc # "create_get"
    BY DEF NoFrame, CreatePc
  <2>2. NamesOf(th[t]) = s /\ NamesOf(th[t])' = l
    BY <1>5, <1>13, <2>1 DEF NamesOf
  <2>3. s \in Seq(Ctrl) /\ l \in Seq(Ctrl)
    BY <1>5
  <2>4. ASSUME NEW c \in Ctrl
        PROVE  found'[c] = found[c] + Count(l, c) - Count(s, c)
    <3>1. found' = [o \in Dev |-> found[o] - Count(s, o)]
      BY <1>1, <1>5 DEF CreateUndone, CreateRef, PutFound
    <3>2. c \in Dev
      BY Consts
    <3>3. found[c] \in Nat
      BY <1>2, <3>2 DEF TypeOK
    <3>4. Count(l, c) = 0
      <4>1. \A i \in DOMAIN l : l[i] # c
        OBVIOUS
      <4> HIDE DEF l
      <4> QED BY <4>1, CountNone
    <3>5. Count(s, c) \in Nat
      BY <2>3, PlacesCount
    <3>6. found'[c] = found[c] - Count(s, c)
      BY <3>1, <3>2
    <3> HIDE DEF s, l
    <3> QED BY <3>3, <3>4, <3>5, <3>6
  <2> HIDE DEF s, l
  <2> QED BY <1>3, <2>2, <2>3, <2>4, FoundStep
<1>20. MinorsExact'
  <2>1. HasNumber(g)' <=> HasNumber(g)
    BY <1>1, <1>8, <1>9, <1>16, <1>17
  <2>2. dev'[g].minor = dev[g].minor
    BY <1>8, <1>9
  <2> QED BY <1>1, <1>2, <1>3, <1>16, <2>1, <2>2, MinorsKept
<1>21. CoreRefExact'
  <2>1. coreRef \in Nat
    BY <1>2 DEF TypeOK
  <2>2. One(HoldsCore(dev[g], g)) = 1
    BY <1>5 DEF One, HoldsCore
  <2>3. CASE th[t].pc = "create_undo"
    <3>1. One(HoldsCore(dev'[g], g)) = 0
      BY <1>5, <1>8, <1>9, <2>3 DEF One, HoldsCore
    <3>2. coreRef' = coreRef - 1
      BY <1>1, <2>3
    <3> QED BY <1>2, <1>5, <1>16, <2>1, <2>2, <3>1, <3>2, CoreStep
  <2>4. CASE th[t].pc = "create_ref"
    <3>1. One(HoldsCore(dev'[g], g)) = 1
      BY <1>5, <1>8, <1>9, <2>4 DEF One, HoldsCore
    <3>2. coreRef' = coreRef
      BY <1>1, <2>4
    <3> QED BY <1>2, <1>5, <1>16, <2>1, <2>2, <3>1, <3>2, CoreStep
  <2> QED BY <1>1, <2>3, <2>4
<1>22. GroupBalance(t, g)
  <2> SUFFICES ASSUME NEW x \in Dev
               PROVE  dev'[x].ref + Count(Members[g], x)
                        = dev[x].ref + Count(Members'[g], x) + One(IsPut(th'[t], x))
    BY DEF GroupBalance
  <2>1. Members[g] \in Seq(Ctrl)
    BY <1>2, <1>3, <1>5, MembersType
  <2>2. Count(Members[g], x) \in Nat
    BY <2>1, PlacesCount
  <2>3. dev[x].ref \in Nat
    BY <1>2, HereFacts DEF DevRec
  <2>4. dev'[x].ref = dev[x].ref + One(IsPut(th'[t], x)) /\ One(IsPut(th'[t], x)) \in Nat
    <3>1. CASE th[t].pc = "create_ref" /\ x = g
      <4>1. IsPut(th'[t], x)
        BY <1>5, <1>10, <3>1 DEF IsPut
      <4>2. One(IsPut(th'[t], x)) = 1
        BY <4>1 DEF One
      <4> QED BY <1>5, <1>8, <1>9, <3>1, <4>2
    <3>2. CASE ~(th[t].pc = "create_ref" /\ x = g)
      <4>1. ~IsPut(th'[t], x)
        BY <1>1, <1>10, <1>11, <3>2 DEF IsPut
      <4>2. One(IsPut(th'[t], x)) = 0
        BY <4>1 DEF One
      <4>3. dev'[x].ref = dev[x].ref
        BY <1>1, <1>5, <1>8, <1>9, <3>2
      <4> QED BY <2>3, <4>2, <4>3
    <3> QED BY <3>1, <3>2
  <2> QED BY <1>18, <2>2, <2>3, <2>4
<1> QED BY <1>1, <1>3, <1>14, <1>19, <1>20, <1>21, <1>22, GroupGood

(* CREATE_GROUP begins with a new object and the devices it has found. *)
LEMMA CreateStartGood ==
  ASSUME Inv, NEW t \in Thread, NEW g \in Group, NEW names \in Names, CreateStart(t, g, names)
  PROVE  Good(t)
<1>1. /\ pci' = pci /\ minors' = minors /\ kept' = kept /\ file' = file /\ ready' = ready
      /\ coreRef' = coreRef + 1 /\ MayStart(t, "create") /\ dev[g].heap = "unused"
      /\ found' = [o \in Dev |-> found[o] + Count(names, o)]
  BY DEF CreateStart
<1>2. /\ Here(t) /\ th[t] = Idle /\ th[t].p = NULL /\ th[t].f = NULL /\ th[t].op = "none"
      /\ th[t].pc = "idle" /\ \A x \in Ctrl : ~Deletes(th[t], x)
  BY <1>1, IdleFacts
<1>3. Regions /\ MinorsExact /\ CoreRefExact /\ TypeOK /\ Creators /\ Opening
  BY InvHere
<1>4. names \in Seq(Ctrl)
  BY ConstantsAssumption
<1>5. /\ th' \in [Thread -> ThreadRec]
      /\ \A u \in Thread : u # t => th'[u] = th[u]
      /\ th'[t].pc = "create_get" /\ th'[t].o = g /\ th'[t].op = "create"
      /\ th'[t].p = NULL /\ th'[t].f = NULL
      /\ th'[t].left = names /\ th'[t].stack = <<>>
  <2> DEFINE r == [Idle EXCEPT !.op = "create", !.pc = "create_get", !.o = g, !.left = names]
  <2>1. th \in [Thread -> ThreadRec]
    BY <1>2, HereFacts
  <2>2. Idle \in ThreadRec /\ Idle.p = NULL /\ Idle.f = NULL /\ Idle.stack = <<>>
    BY DEF Idle, ThreadRec, Pc
  <2>3. /\ r.pc = "create_get" /\ r.o = g /\ r.op = "create" /\ r.p = NULL /\ r.f = NULL
        /\ r.left = names /\ r.stack = <<>>
    BY <2>2 DEF ThreadRec
  <2>4. r \in ThreadRec
    BY <1>4, <2>2, Consts DEF ThreadRec, Op, Pc
  <2>5. th' = [th EXCEPT ![t] = r]
    BY DEF CreateStart
  <2> HIDE DEF r
  <2> QED BY <2>1, <2>3, <2>4, <2>5
<1>6. /\ g \in Dev /\ g # NULL /\ g \notin Ctrl /\ dev[g] = Unused /\ dev \in [Dev -> DevRec]
      /\ dev[g] \in DevRec
  BY <1>1, <1>2, HereFacts, Consts DEF ObjectOK
<1>7. PICK d : d = [dev[g] EXCEPT !.heap = "live"]
  OBVIOUS
<1>8. dev' = [dev EXCEPT ![g] = d]
  BY <1>6, <1>7 DEF CreateStart
<1>9. /\ d.heap = "live" /\ d.ref = 0 /\ ~d.cdev /\ ~d.shown /\ d.minor = NULL
      /\ d.ctrls = <<>> /\ d \in DevRec
  <2>1. d \in DevRec
    BY <1>6, <1>7 DEF DevRec
  <2> QED BY <1>6, <1>7, <2>1 DEF Unused
<1>10. /\ dev' \in [Dev -> DevRec] /\ dev'[g] = d /\ \A x \in Dev : x # g => dev'[x] = dev[x]
  BY <1>6, <1>8, <1>9
<1>11. dev[g].ref = 0 /\ dev[g].minor = NULL
  BY <1>6 DEF Unused
<1>12. /\ CtrlOf(th[t]) = NULL /\ GroupFrame(th[t]) = NoFrame /\ GroupOf(th[t]) = NULL
  <2>1. Frames1(th[t])
    BY <1>2, ThreadFrames DEF Here
  <2> QED BY <1>2, <2>1 DEF Frames1, GroupPc, CreatePc, RelgPc, RelPc, CtrlPc, ProbePc
<1>13. /\ CtrlOf(th'[t]) = NULL /\ GroupOf(th'[t]) = g
       /\ GroupFrame(th'[t]).pc = "create_get" /\ GroupFrame(th'[t]).o = g
       /\ GroupFrame(th'[t]).left = names
  BY <1>5 DEF CtrlOf, CtrlPc, RelPc, ProbePc, GroupFrame, GroupPc, CreatePc, GroupOf
<1>14. Fits(t)
  <2>1. ThreadFits(t)
    BY <1>5, <1>6 DEF ThreadFits, StackOK, LocalsOK, Above, RelPc, RelgPc, CtrlPc, GroupPc,
                      CreatePc, ProbePc
  <2>2. Takeable(g)
    BY <1>1, <1>6 DEF Takeable
  <2>3. ObjectOK(dev'[g], g)
    BY <1>6, <1>9, <1>10 DEF ObjectOK
  <2>4. GroupStage(th[t])'
    BY <1>9, <1>10, <1>13 DEF GroupStage, RelgPc
  <2> QED BY <1>2, <1>10, <1>12, <1>13, <2>1, <2>2, <2>3, <2>4, TakeGroup
<1>15. OthersKeep(g) /\ Unnumbered(t, g)
  BY <1>6, <1>10, <1>12, <1>13 DEF OthersKeep, Unnumbered, Unnumbers, NoFrame
<1>16. BindingsKept(t)
  BY <1>1, <1>2, <1>5, <1>6, <1>10, Consts DEF BindingsKept
<1>17. Regions'
  <2>1. \A c \in Ctrl : /\ dev'[c].heap = dev[c].heap /\ dev'[c].minor = dev[c].minor
                        /\ dev'[c].pdev = dev[c].pdev
    BY <1>6, <1>10, Consts
  <2>2. \A c \in Ctrl : NoRegion(th'[t], c) <=> NoRegion(th[t], c)
    BY <1>12, <1>13, Consts DEF NoRegion
  <2>3. \A p \in Pdev : PciKept(p)
    BY <1>1 DEF PciKept
  <2> QED BY <1>2, <1>3, <1>14, <2>1, <2>2, <2>3, RegionsKept
<1>18. MinorsExact'
  <2>1. ~HasNumber(g) /\ ~HasNumber(g)'
    BY <1>1, <1>9, <1>10 DEF HasNumber
  <2> QED BY <1>1, <1>2, <1>3, <1>14, <1>15, <2>1, MinorsKept
<1>19. CoreRefExact'
  <2>1. coreRef \in Nat
    BY <1>3 DEF TypeOK
  <2>2. One(HoldsCore(dev[g], g)) = 0 /\ One(HoldsCore(dev'[g], g)) = 1
    BY <1>1, <1>6, <1>9, <1>10 DEF One, HoldsCore
  <2> QED BY <1>1, <1>3, <1>6, <1>15, <2>1, <2>2, CoreStep
<1>20. FoundExact'
  <2> DEFINE s == <<>>  l == names
  <2>1. NoFrame.pc \notin CreatePc /\ NoFrame.pc # "create_get"
    BY DEF NoFrame, CreatePc
  <2>2. NamesOf(th[t])' = dev'[g].ctrls \o names
    BY <1>13, SMTT(30) DEF NamesOf
  <2>3. NamesOf(th[t]) = s /\ NamesOf(th[t])' = l
    <3>1. <<>> \o names = names
      BY <1>4, ConcatEmptySeq
    <3> QED BY <1>9, <1>10, <1>12, <2>1, <2>2, <3>1 DEF NamesOf
  <2>4. s \in Seq(Ctrl) /\ l \in Seq(Ctrl)
    BY <1>4
  <2>5. ASSUME NEW c \in Ctrl
        PROVE  found'[c] = found[c] + Count(l, c) - Count(s, c)
    <3>1. c \in Dev
      BY Consts
    <3>2. found[c] \in Nat
      BY <1>3, <3>1 DEF TypeOK
    <3>3. Count(s, c) = 0
      <4>1. \A i \in DOMAIN s : s[i] # c
        OBVIOUS
      <4> HIDE DEF s
      <4> QED BY <4>1, CountNone
    <3>4. Count(l, c) \in Nat
      BY <2>4, PlacesCount
    <3>5. found'[c] = found[c] + Count(l, c)
      BY <1>1, <3>1
    <3> HIDE DEF s, l
    <3> QED BY <3>2, <3>3, <3>4, <3>5
  <2> HIDE DEF s, l
  <2> QED BY <1>14, <2>3, <2>4, <2>5, FoundStep
<1>21. \A h \in Group : Members'[h] = Members[h]
  <2>1. ~Undoes(th[t], g) /\ ~Undoes(th'[t], g)
    BY <1>6, <1>12, <1>13 DEF Undoes, UndoPc
  <2>2. MembersAre /\ MembersAre'
    BY <1>2, <1>14, FitsShape DEF Facts
  <2>3. \A u \in Thread : ~Undoes(th'[u], g)
    <3>1. ASSUME NEW u \in Thread, u # t PROVE ~Undoes(th'[u], g)
      BY <1>2, <1>6, <1>13, <1>14, <3>1, FitsOthers DEF Undoes
    <3> QED BY <2>1, <3>1
  <2>4. Members[g] = <<>> /\ Members'[g] = dev'[g].ctrls
    BY <1>1, <1>9, <1>10, <2>2, <2>3 DEF MembersAre
  <2>5. ASSUME NEW h \in Group, h # g PROVE Members'[h] = Members[h]
    <3>1. h \in Dev /\ dev'[h] = dev[h] /\ h # NULL
      BY <1>10, <2>5, Consts
    <3>2. ~Undoes(th[t], h) /\ ~Undoes(th'[t], h)
      BY <1>12, <1>13, <2>5, <3>1 DEF Undoes
    <3> QED BY <1>2, <1>14, <3>1, <3>2, MembersFrame
  <2> QED BY <1>9, <1>10, <2>4, <2>5
<1>22. kept' \in [Dev -> Nat] /\ \A x \in Dev : Balanced(x)
  <2>1. \A x \in Dev : dev'[x].ref = dev[x].ref
    BY <1>9, <1>10, <1>11
  <2>2. \A x \in Dev : ~IsPut(th[t], x) /\ ~IsPut(th'[t], x)
    BY <1>2, <1>5 DEF IsPut
  <2> QED BY <1>1, <1>2, <1>14, <1>16, <1>21, <2>1, <2>2, StillBalanced
<1>23. Creators'
  <2>1. g \notin ready /\ \A u \in Thread : ~Makes(th[u], g)
    BY <1>1, <1>3 DEF Creators
  <2>2. \A h \in Group : Makes(th'[t], h) <=> h = g
    BY <1>5 DEF Makes
  <2>3. \A h \in Group : dev'[h].heap # dev[h].heap => h = g
    BY <1>10, Consts
  <2>4. ASSUME NEW u \in Thread, NEW h \in Group, Makes(th'[u], h)
        PROVE  /\ dev'[h].heap # "unused" /\ h \notin ready'
               /\ \A v \in Thread : Makes(th'[v], h) => v = u
    <3>1. CASE h = g
      BY <1>1, <1>5, <1>9, <1>10, <2>1, <2>4, <3>1
    <3>2. CASE h # g
      <4>1. \A v \in Thread : Makes(th'[v], h) => Makes(th[v], h)
        BY <1>5, <2>2, <3>2
      <4> QED BY <1>1, <1>3, <2>3, <2>4, <3>2, <4>1 DEF Creators
    <3> QED BY <3>1, <3>2
  <2>5. \A h \in Group : h \in ready' => dev'[h].heap # "unused"
    BY <1>1, <1>3, <2>1, <2>3 DEF Creators
  <2> QED BY <2>4, <2>5 DEF Creators
<1>24. Opening'
  <2> SUFFICES ASSUME NEW u \in Thread, IsOpening(th'[u])
               PROVE  /\ file'[th'[u].f] = NULL
                      /\ \A v \in Thread : th'[v].f = th'[u].f => v = u
    BY DEF Opening
  <2>1. u # t /\ th'[u] = th[u]
    BY <1>5 DEF IsOpening
  <2>2. th[u].f # NULL
    <3>1. LocalsOK(th[u])
      BY <1>2 DEF Here, Threads
    <3> QED BY <2>1, <3>1 DEF IsOpening, LocalsOK
  <2>3. \A v \in Thread : th'[v].f = th'[u].f => th[v].f = th[u].f
    BY <1>5, <2>1, <2>2
  <2> QED BY <1>1, <1>3, <2>1, <2>3 DEF Opening
<1> QED BY <1>1, <1>2, <1>14, <1>16, <1>17, <1>18, <1>19, <1>20, <1>22, <1>23, <1>24, KeptGood
     DEF KernelKept

----------------------------------------------------------------------------
(* Types. *)

(* The types of the variables that the shape of a step does not give. *)
PciInt == [drv : Ctrl \cup {NULL}, bound : BOOLEAN, master : BOOLEAN,
           region : Ctrl \cup {NULL}, enabled : Int]

FoundType(f) == f \in [Dev -> Int] /\ \A g \in Group : f[g] \in Nat

TypeRest ==
  /\ pci' \in [Pdev -> PciInt] /\ minors' \subseteq Minor /\ FoundType(found')
  /\ kept' \in [Dev -> 0 .. MaxKept] /\ file' \in [File -> Dev \cup {NULL}]
  /\ ready' \subseteq Dev /\ fault' \in Fault
  /\ mapped' \in [Dev -> Nat] /\ MappedOK'

(* What the steps use of the types. *)
LEMMA RestNow ==
  ASSUME Inv
  PROVE  /\ pci \in [Pdev -> PciInt] /\ pci \in [Pdev -> PciRec]
         /\ minors \subseteq Minor /\ FoundType(found)
         /\ kept \in [Dev -> 0 .. MaxKept] /\ file \in [File -> Dev \cup {NULL}]
         /\ ready \subseteq Dev /\ fault \in Fault
         /\ mapped \in [Dev -> Nat] /\ MappedOK
<1>1. TypeOK /\ MappedOK
  BY DEF Inv
<1>2. pci \in [Pdev -> PciRec] /\ PciRec \subseteq PciInt
  BY <1>1 DEF TypeOK, PciRec, PciInt
<1>3. pci \in [Pdev -> PciInt]
  BY <1>2
<1>4. FoundType(found)
  <2>1. found \in [Dev -> Nat]
    BY <1>1 DEF TypeOK
  <2> QED BY <2>1, Consts DEF FoundType
<1> QED BY <1>1, <1>2, <1>3, <1>4 DEF TypeOK

(* Steps that change nothing but threads, objects, files and ready. *)
LEMMA RestKept ==
  ASSUME Inv, UNCHANGED <<kernVars, kept, mapped, fault>>,
         file' \in [File -> Dev \cup {NULL}], ready' \subseteq Dev
  PROVE  TypeRest
BY RestNow DEF TypeRest, MappedOK, kernVars

(* The object of a call in flight. *)
LEMMA AtObject ==
  ASSUME Inv, NEW t \in Thread, NEW pc, Runs(t, pc)
  PROVE  /\ pc # "idle" => th[t].o \in Dev
         /\ pc \in CtrlPc => /\ th[t].o \in Ctrl /\ th[t].o \in Dev
                             /\ dev[th[t].o].pdev \in Pdev
         /\ pc \in ProbePc => th[t].p \in Pdev
         /\ pc \in GroupPc => th[t].o \in Group /\ th[t].o \in Dev
         /\ th[t].op = "remove" => th[t].p \in Pdev
         /\ IsOpening(th[t]) => th[t].f \in File
<1>1. Here(t)
  BY InvHere
<1>2. th[t] \in ThreadRec /\ LocalsOK(th[t]) /\ CtrlStage(th[t])
  BY <1>1, HereFacts
<1>3. th[t].pc = pc
  BY DEF Runs, At
<1>4. th[t].p \in Pdev \cup {NULL} /\ th[t].f \in File \cup {NULL}
  BY <1>2 DEF ThreadRec
<1>5. ASSUME pc \in CtrlPc
      PROVE  th[t].o \in Ctrl /\ th[t].o \in Dev /\ dev[th[t].o].pdev \in Pdev
  <2>1. th[t].o \in Ctrl
    BY <1>2, <1>3, <1>5 DEF LocalsOK
  <2>2. dev[th[t].o].heap = "live"
    BY <1>2, <1>3, <1>5 DEF CtrlStage
  <2> QED BY <1>1, <2>1, <2>2, CtrlPdev, Consts
<1>6. /\ pc # "idle" => th[t].o \in Dev
      /\ pc \in ProbePc => th[t].p \in Pdev
      /\ pc \in GroupPc => th[t].o \in Group /\ th[t].o \in Dev
      /\ th[t].op = "remove" => th[t].p \in Pdev
  BY <1>2, <1>3, <1>4, Consts DEF LocalsOK
<1>7. IsOpening(th[t]) => th[t].f \in File
  BY <1>2, <1>4 DEF LocalsOK, IsOpening
<1> QED BY <1>5, <1>6, <1>7

(* Every step that moves only references and calls. *)
LEMMA PlainRest ==
  ASSUME Inv, NEW t \in Thread,
         \/ PutLast(t) \/ RelGroupDev(t) \/ RelGroupCtrl(t) \/ ProbeDev(t)
         \/ CreateGet(t) \/ CreateAddFails(t) \/ CreateDev(t) \/ CreateUndo(t)
         \/ CreateCopy(t) \/ CreateCopyFails(t) \/ OpenGet(t) \/ OpenDone(t) \/ OpenFails(t)
         \/ IoctlGet(t) \/ IoctlDone(t) \/ IoctlMapFails(t) \/ MmapGet(t)
  PROVE  TypeRest
<1>1. /\ UNCHANGED <<kernVars, kept, mapped, fault>>
      /\ ~CreateCopy(t) => ready' = ready
      /\ ~OpenDone(t) => file' = file
  BY Zenon DEF PutLast, RelGroupDev, RelGroupCtrl, ProbeDev, CreateGet, CreateAddFails, CreateDev,
         CreateUndo, CreateCopy, CreateCopyFails, OpenGet, OpenDone, OpenFails, IoctlGet,
         IoctlDone, IoctlMapFails, MmapGet
<1>2. file \in [File -> Dev \cup {NULL}] /\ ready \subseteq Dev
  BY RestNow
<1>3. ready' \subseteq Dev
  <2>1. CASE CreateCopy(t)
    <3>1. Runs(t, "create_copy") /\ ready' = ready \cup {th[t].o}
      BY <2>1 DEF CreateCopy
    <3>2. th[t].o \in Dev
      BY <3>1, AtObject
    <3> QED BY <1>2, <3>1, <3>2
  <2> QED BY <1>1, <1>2, <2>1
<1>4. file' \in [File -> Dev \cup {NULL}]
  <2>1. CASE OpenDone(t)
    <3>1. Runs(t, "open_ctx") /\ file' = [file EXCEPT ![th[t].f] = th[t].o]
      BY <2>1 DEF OpenDone
    <3>2. th[t].o \in Dev
      BY <3>1, AtObject
    <3> QED BY <1>2, <3>1, <3>2
  <2> QED BY <1>1, <1>2, <2>1
<1> QED BY <1>1, <1>3, <1>4, RestKept

(* The controllers cs get references that outlive the call. *)
LEMMA KeepRest ==
  ASSUME Inv, NEW cs \in Seq(Ctrl), Keep(cs)
  PROVE  /\ kept' \in [Dev -> 0 .. MaxKept]
         /\ \A o \in Dev : /\ kept[o] \in Nat /\ Count(cs, o) \in Nat
                           /\ kept'[o] = kept[o] + Count(cs, o)
<1>1. kept \in [Dev -> 0 .. MaxKept] /\ MaxKept \in Nat
  BY RestNow, ConstantsAssumption
<1>2. kept' = [o \in Dev |-> kept[o] + Count(cs, o)]
  BY DEF Keep
<1>3. ASSUME NEW o \in Dev
      PROVE  Count(cs, o) \in Nat /\ kept[o] \in Nat /\ kept[o] + Count(cs, o) \in 0 .. MaxKept
  <2>1. Count(cs, o) \in Nat /\ kept[o] \in 0 .. MaxKept
    BY <1>1, PlacesCount
  <2>2. CASE o \in Ctrl
    <3>1. kept[o] + Count(cs, o) <= MaxKept
      BY <2>2 DEF Keep
    <3> QED BY <1>1, <2>1, <3>1
  <2>3. CASE o \notin Ctrl
    <3>1. Count(cs, o) = 0
      BY <2>3, CountZero
    <3> QED BY <1>1, <2>1, <3>1
  <2> QED BY <2>2, <2>3
<1> QED BY <1>2, <1>3

(* References that a call leaves behind. *)
LEMMA LeftRest ==
  ASSUME Inv, NEW t \in Thread,
         IoctlRegFails(t) \/ MmapCtrl(t) \/ MmapGroup(t) \/ IoctlMaps(t)
  PROVE  TypeRest
<1>1. UNCHANGED <<kernVars, file, ready, fault>>
  BY DEF IoctlRegFails, MmapCtrl, MmapGroup, IoctlMaps
<1>2. /\ kept \in [Dev -> 0 .. MaxKept] /\ file \in [File -> Dev \cup {NULL}]
      /\ ready \subseteq Dev /\ MaxKept \in Nat
      /\ mapped \in [Dev -> Nat] /\ \A o \in Dev : mapped[o] <= kept[o]
  BY RestNow, ConstantsAssumption DEF MappedOK
<1>3. /\ kept' \in [Dev -> 0 .. MaxKept] /\ mapped' \in [Dev -> Nat]
      /\ \A o \in Dev : mapped'[o] <= kept'[o]
  <2>1. CASE IoctlRegFails(t)
    <3>1. /\ Runs(t, "ioctl_do") /\ kept[th[t].o] < MaxKept /\ mapped' = mapped
          /\ kept' = [kept EXCEPT ![th[t].o] = kept[th[t].o] + 1]
      BY <2>1 DEF IoctlRegFails
    <3>2. PICK x \in Dev : x = th[t].o
      BY <3>1, AtObject
    <3>3. kept[x] + 1 \in 0 .. MaxKept
      BY <1>2, <3>1, <3>2
    <3>4. kept' \in [Dev -> 0 .. MaxKept] /\ kept'[x] = kept[x] + 1
          /\ \A o \in Dev : o # x => kept'[o] = kept[o]
      BY <1>2, <3>1, <3>2, <3>3
    <3> QED BY <1>2, <3>1, <3>4
  <2>2. ASSUME NEW cs \in Seq(Ctrl), Keep(cs), mapped' = mapped
        PROVE  /\ kept' \in [Dev -> 0 .. MaxKept] /\ mapped' \in [Dev -> Nat]
               /\ \A o \in Dev : mapped'[o] <= kept'[o]
    <3>1. /\ kept' \in [Dev -> 0 .. MaxKept]
          /\ \A o \in Dev : /\ kept[o] \in Nat /\ Count(cs, o) \in Nat
                            /\ kept'[o] = kept[o] + Count(cs, o)
      BY <2>2, KeepRest
    <3> QED BY <1>2, <2>2, <3>1
  <2>3. CASE MmapCtrl(t)
    <3>1. th[t].o \in Ctrl /\ (Keep(<<th[t].o>>) \/ kept' = kept) /\ mapped' = mapped
      BY <2>3 DEF MmapCtrl
    <3>2. <<th[t].o>> \in Seq(Ctrl)
      BY <3>1
    <3> QED BY <1>2, <2>2, <3>1, <3>2
  <2>4. CASE MmapGroup(t)
    <3>1. th[t].o \in Dev /\ mapped' = mapped
      BY <2>4, Consts DEF MmapGroup
    <3>2. PICK k \in 0 .. Len(dev[th[t].o].ctrls) : Keep(SubSeq(dev[th[t].o].ctrls, 1, k))
      BY <2>4 DEF MmapGroup
    <3>3. dev[th[t].o].ctrls \in Seq(Ctrl)
      BY <3>1 DEF Inv, TypeOK
    <3>4. SubSeq(dev[th[t].o].ctrls, 1, k) \in Seq(Ctrl)
      BY <3>3
    <3> QED BY <2>2, <3>1, <3>2, <3>4
  <2>5. CASE IoctlMaps(t)
    <3> DEFINE cs == Behind(th[t].o)
    <3>1. /\ Runs(t, "ioctl_map") /\ Keep(cs)
          /\ mapped' = [o \in Dev |-> mapped[o] + Count(cs, o)]
      BY <2>5 DEF IoctlMaps
    <3>2. th[t].o \in Dev /\ dev[th[t].o].ref > 0
      BY <3>1, InvHere, RunsFacts
    <3>3. cs \in Seq(Ctrl)
      BY <3>2, BehindInUse
    <3> HIDE DEF cs
    <3>4. /\ kept' \in [Dev -> 0 .. MaxKept]
          /\ \A o \in Dev : /\ kept[o] \in Nat /\ Count(cs, o) \in Nat
                            /\ kept'[o] = kept[o] + Count(cs, o)
      BY <3>1, <3>3, KeepRest
    <3>5. ASSUME NEW o \in Dev PROVE mapped'[o] \in Nat /\ mapped'[o] <= kept'[o]
      <4>1. mapped'[o] = mapped[o] + Count(cs, o) /\ mapped[o] \in Nat /\ mapped[o] <= kept[o]
        BY <1>2, <3>1
      <4> QED BY <3>4, <4>1
    <3> QED BY <3>1, <3>4, <3>5
  <2> QED BY <2>1, <2>3, <2>4, <2>5
<1> QED BY <1>1, <1>2, <1>3, RestNow DEF TypeRest, MappedOK, kernVars

(* A step on one PCI function. *)
LEMMA PciSet ==
  ASSUME NEW p \in Pdev, NEW q \in [Pdev -> PciInt], NEW r \in PciInt
  PROVE  [q EXCEPT ![p] = r] \in [Pdev -> PciInt]
OBVIOUS

(* PCI resources that are taken or given back. *)
LEMMA PciRest ==
  ASSUME Inv, NEW t \in Thread,
         \/ ReturnLast(t) \/ RelPci(t) \/ RelFree(t) \/ ProbeRegion(t) \/ ProbeRegionFails(t)
         \/ ProbeAdd(t) \/ ProbeAddFails(t) \/ ProbeDevFails(t) \/ ProbeRef(t)
  PROVE  TypeRest
<1>1. /\ found' = found /\ kept' = kept /\ mapped' = mapped /\ file' = file /\ fault' = fault
      /\ ~ProbeRef(t) => ready' = ready
      /\ minors' \subseteq minors \cup Minor
  BY Zenon DEF ReturnLast, RelPci, RelFree, ProbeRegion, ProbeRegionFails, ProbeAdd, ProbeAddFails,
         ProbeDevFails, ProbeRef
<1>2. /\ pci \in [Pdev -> PciInt] /\ ready \subseteq Dev /\ minors \subseteq Minor
  BY RestNow
<1>3. /\ {"probe_region", "probe_add", "probe_dev", "probe_ref"} \subseteq ProbePc
      /\ ProbePc \subseteq CtrlPc /\ {"rel_pci", "rel_free"} \subseteq CtrlPc
  BY DEF ProbePc, CtrlPc, RelPc
<1>4. ready' \subseteq Dev
  <2>1. CASE ProbeRef(t)
    <3>1. Runs(t, "probe_ref") /\ ready' = ready \cup {th[t].o}
      BY <2>1 DEF ProbeRef
    <3>2. th[t].o \in Dev
      BY <1>3, <3>1, AtObject
    <3> QED BY <1>2, <3>1, <3>2
  <2> QED BY <1>1, <1>2, <2>1
<1>5. pci' \in [Pdev -> PciInt]
  <2>1. CASE ReturnLast(t)
    <3>1. CASE th[t].op # "remove"
      BY <1>2, <2>1, <3>1 DEF ReturnLast
    <3>2. CASE th[t].op = "remove"
      <4>1. th[t].p \in Pdev
        BY <2>1, <3>2, AtObject DEF ReturnLast
      <4>2. pci' = [pci EXCEPT ![th[t].p] = [pci[th[t].p] EXCEPT !.bound = FALSE, !.drv = NULL]]
        BY <1>2, <2>1, <3>2, <4>1 DEF ReturnLast
      <4>3. [pci[th[t].p] EXCEPT !.bound = FALSE, !.drv = NULL] \in PciInt
        BY <1>2, <4>1 DEF PciInt
      <4> QED BY <1>2, <4>1, <4>2, <4>3, PciSet
    <3> QED BY <3>1, <3>2
  <2>2. CASE RelPci(t) \/ RelFree(t)
    <3>1. dev[th[t].o].pdev \in Pdev
      BY <1>3, <2>2, AtObject, Zenon DEF RelPci, RelFree
    <3>2. PICK p \in Pdev : p = dev[th[t].o].pdev
      BY <3>1
    <3>3. \/ pci' = [pci EXCEPT ![p] = [pci[p] EXCEPT !.enabled = pci[p].enabled - 1, !.region = NULL]]
          \/ pci' = [pci EXCEPT ![p] = [pci[p] EXCEPT !.master = FALSE]]
      BY <1>2, <2>2, <3>2, Zenon DEF RelPci, RelFree
    <3>4. /\ [pci[p] EXCEPT !.enabled = pci[p].enabled - 1, !.region = NULL] \in PciInt
          /\ [pci[p] EXCEPT !.master = FALSE] \in PciInt
      <4>1. pci[p] \in PciInt
        BY <1>2
      <4>2. pci[p].enabled - 1 \in Int
        BY <4>1 DEF PciInt
      <4>3. [pci[p] EXCEPT !.enabled = pci[p].enabled - 1, !.region = NULL] \in PciInt
        BY <4>1, <4>2 DEF PciInt
      <4>4. [pci[p] EXCEPT !.master = FALSE] \in PciInt
        BY <4>1 DEF PciInt
      <4> QED BY <4>3, <4>4
    <3> QED BY <1>2, <3>3, <3>4, PciSet
  <2>3. CASE ProbeRegionFails(t) \/ ProbeAddFails(t) \/ ProbeDevFails(t)
    <3>1. th[t].p \in Pdev
      BY <1>3, <2>3, AtObject DEF ProbeRegionFails, ProbeAddFails, ProbeDevFails
    <3>2. PICK p \in Pdev : p = th[t].p
      BY <3>1
    <3>3. pci[p] \in PciInt /\ pci[p].region \in Ctrl \cup {NULL} /\ pci[p].enabled \in Int
      BY <1>2 DEF PciInt
    <3>4. PICK r \in Ctrl \cup {NULL}, n \in Int : ProbeUndo(t, r, n)
      BY <2>3, <3>2, <3>3, SMTT(30) DEF ProbeRegionFails, ProbeAddFails, ProbeDevFails
    <3>5. pci' = [pci EXCEPT ![p] = [pci[p] EXCEPT !.drv = NULL, !.master = FALSE,
                                                   !.region = r, !.enabled = n]]
      BY <1>2, <3>2, <3>4 DEF ProbeUndo
    <3>6. [pci[p] EXCEPT !.drv = NULL, !.master = FALSE, !.region = r, !.enabled = n] \in PciInt
      BY <3>3 DEF PciInt
    <3> QED BY <1>2, <3>5, <3>6, PciSet
  <2>4. CASE ProbeRegion(t) \/ ProbeAdd(t) \/ ProbeRef(t)
    <3>1. th[t].p \in Pdev /\ th[t].o \in Ctrl
      BY <1>3, <2>4, AtObject DEF ProbeRegion, ProbeAdd, ProbeRef
    <3>2. PICK p \in Pdev : p = th[t].p
      BY <3>1
    <3>3. \/ pci' = [pci EXCEPT ![p] = [pci[p] EXCEPT !.region = th[t].o]]
          \/ pci' = [pci EXCEPT ![p] = [pci[p] EXCEPT !.enabled = pci[p].enabled + 1]]
          \/ pci' = [pci EXCEPT ![p] = [pci[p] EXCEPT !.bound = TRUE]]
      BY <1>2, <2>4, <3>2 DEF ProbeRegion, ProbeAdd, ProbeRef
    <3>4. /\ [pci[p] EXCEPT !.region = th[t].o] \in PciInt
          /\ [pci[p] EXCEPT !.enabled = pci[p].enabled + 1] \in PciInt
          /\ [pci[p] EXCEPT !.bound = TRUE] \in PciInt
      <4>1. pci[p] \in PciInt
        BY <1>2
      <4>2. pci[p].enabled + 1 \in Int
        BY <4>1 DEF PciInt
      <4>3. [pci[p] EXCEPT !.enabled = pci[p].enabled + 1] \in PciInt
        BY <4>1, <4>2 DEF PciInt
      <4>4. [pci[p] EXCEPT !.region = th[t].o] \in PciInt
        BY <3>1, <4>1 DEF PciInt
      <4>5. [pci[p] EXCEPT !.bound = TRUE] \in PciInt
        BY <4>1 DEF PciInt
      <4> QED BY <4>3, <4>4, <4>5
    <3> QED BY <1>2, <3>3, <3>4, PciSet, ZenonT(40)
  <2> QED BY <2>1, <2>2, <2>3, <2>4
<1> QED BY <1>1, <1>2, <1>4, <1>5, RestNow DEF TypeRest, MappedOK

(* The names of a CREATE_GROUP call are controllers'. *)
LEMMA FoundSet ==
  ASSUME NEW s \in Seq(Ctrl), FoundType(found),
         \/ found' = [o \in Dev |-> found[o] + Count(s, o)]
         \/ found' = [o \in Dev |-> found[o] - Count(s, o)]
  PROVE  FoundType(found')
<1>1. \A o \in Dev : found[o] \in Int /\ Count(s, o) \in Nat
  BY PlacesCount DEF FoundType
<1>2. \A g \in Group : Count(s, g) = 0 /\ found[g] \in Nat /\ g \in Dev
  BY CountZero, Consts DEF FoundType
<1>3. found' \in [Dev -> Int]
  BY <1>1
<1>4. ASSUME NEW g \in Group PROVE found'[g] \in Nat
  <2>1. found'[g] = found[g] + Count(s, g) \/ found'[g] = found[g] - Count(s, g)
    BY <1>2
  <2> QED BY <1>2, <2>1
<1> QED BY <1>3, <1>4 DEF FoundType

(* Numbers, the core device and devices found by name. *)
LEMMA NumberRest ==
  ASSUME Inv, NEW t \in Thread,
         \/ RelDev(t) \/ RelGroupFree(t) \/ CreateAdd(t) \/ CreateDevFails(t)
         \/ CreateUndone(t) \/ CreateRef(t)
  PROVE  TypeRest
<1>1. /\ pci' = pci /\ kept' = kept /\ mapped' = mapped /\ file' = file /\ fault' = fault
      /\ ready' = ready
      /\ minors' \subseteq minors \cup Minor
      /\ ~(CreateUndone(t) \/ CreateRef(t)) => found' = found
  BY DEF RelDev, RelGroupFree, CreateAdd, CreateDevFails, CreateUndone, CreateRef
<1>2. minors \subseteq Minor /\ FoundType(found)
  BY RestNow
<1>3. FoundType(found')
  <2>1. CASE CreateUndone(t) \/ CreateRef(t)
    <3>1. th[t].o \in Dev
      BY <2>1, AtObject DEF CreateUndone, CreateRef
    <3>2. dev[th[t].o].ctrls \in Seq(Ctrl)
      BY <3>1 DEF Inv, TypeOK
    <3>3. found' = [o \in Dev |-> found[o] - Count(dev[th[t].o].ctrls, o)]
      BY <2>1 DEF CreateUndone, CreateRef, PutFound
    <3> QED BY <1>2, <3>2, <3>3, FoundSet
  <2> QED BY <1>1, <1>2, <2>1
<1> QED BY <1>1, <1>2, <1>3, RestNow, SMTT(30) DEF TypeRest, MappedOK

(* Calls that begin. *)
LEMMA StartRest ==
  ASSUME Inv, NEW t \in Thread,
         \/ \E p \in Pdev, c \in Ctrl : ProbeStart(t, p, c)
         \/ \E p \in Pdev : RemoveStart(t, p)
         \/ \E g \in Group, names \in Names : CreateStart(t, g, names)
         \/ \E g \in Group : CreateMismatch(t, g)
         \/ \E o \in Dev : DeleteStart(t, o)
         \/ \E o \in Dev, f \in File : OpenStart(t, o, f)
         \/ \E f \in File : CloseStart(t, f) \/ IoctlStart(t, f) \/ MmapStart(t, f)
         \/ \E c \in Ctrl : MunmapStart(t, c)
  PROVE  TypeRest
<1>1. /\ pci \in [Pdev -> PciInt] /\ minors \subseteq Minor /\ FoundType(found)
      /\ kept \in [Dev -> 0 .. MaxKept] /\ file \in [File -> Dev \cup {NULL}]
      /\ ready \subseteq Dev /\ fault \in Fault
      /\ mapped \in [Dev -> Nat] /\ \A o \in Dev : mapped[o] <= kept[o]
  BY RestNow DEF MappedOK
<1>2. ASSUME NEW p \in Pdev, NEW c \in Ctrl, ProbeStart(t, p, c) PROVE TypeRest
  <2>1. /\ UNCHANGED <<minors, coreRef, found, kept, mapped, file, ready, fault>>
        /\ pci' = [pci EXCEPT ![p] = [pci[p] EXCEPT !.master = TRUE, !.drv = c]]
    BY <1>1, <1>2 DEF ProbeStart
  <2>2. [pci[p] EXCEPT !.master = TRUE, !.drv = c] \in PciInt
    BY <1>1 DEF PciInt
  <2>3. pci' \in [Pdev -> PciInt]
    BY <1>1, <2>1, <2>2, PciSet
  <2> QED BY <1>1, <2>1, <2>3 DEF TypeRest, MappedOK
<1>3. ASSUME NEW p \in Pdev, RemoveStart(t, p) PROVE TypeRest
  BY <1>1, <1>3, RestKept DEF RemoveStart
<1>4. ASSUME NEW g \in Group, NEW names \in Names, CreateStart(t, g, names) PROVE TypeRest
  <2>1. names \in Seq(Ctrl)
    BY ConstantsAssumption
  <2>2. /\ UNCHANGED <<pci, minors, kept, mapped, file, ready, fault>>
        /\ found' = [o \in Dev |-> found[o] + Count(names, o)]
    BY <1>4, Zenon DEF CreateStart
  <2>3. FoundType(found')
    BY <1>1, <2>1, <2>2, FoundSet
  <2> QED BY <1>1, <2>2, <2>3 DEF TypeRest, MappedOK
<1>5. ASSUME NEW g \in Group, CreateMismatch(t, g) PROVE TypeRest
  <2>1. /\ UNCHANGED <<pci, minors, kept, mapped, file, ready, fault>>
        /\ found' = [found EXCEPT ![g] = found[g] + 1]
    BY <1>5 DEF CreateMismatch
  <2>2. FoundType(found')
    BY <1>1, <2>1, Consts DEF FoundType
  <2> QED BY <1>1, <2>1, <2>2 DEF TypeRest, MappedOK
<1>6. ASSUME NEW o \in Dev, DeleteStart(t, o) PROVE TypeRest
  BY <1>1, <1>6, RestKept DEF DeleteStart
<1>7. ASSUME NEW o \in Dev, NEW f \in File, OpenStart(t, o, f) PROVE TypeRest
  BY <1>1, <1>7, RestKept DEF OpenStart
<1>8. ASSUME NEW f \in File, CloseStart(t, f) PROVE TypeRest
  BY <1>1, <1>8, RestKept DEF CloseStart
<1>9. ASSUME NEW f \in File, IoctlStart(t, f) \/ MmapStart(t, f) PROVE TypeRest
  BY <1>1, <1>9, RestKept DEF IoctlStart, MmapStart, FileCall
<1>10. ASSUME NEW c \in Ctrl, MunmapStart(t, c) PROVE TypeRest
  <2>1. /\ UNCHANGED <<pci, minors, found, file, ready, fault>> /\ c \in Dev /\ mapped[c] > 0
        /\ mapped' = [mapped EXCEPT ![c] = mapped[c] - 1]
        /\ kept' = [kept EXCEPT ![c] = kept[c] - 1]
    BY <1>10, Consts DEF MunmapStart, kernVars
  <2>2. mapped[c] - 1 \in Nat /\ kept[c] - 1 \in 0 .. MaxKept /\ mapped[c] - 1 <= kept[c] - 1
    BY <1>1, <2>1, ConstantsAssumption
  <2>3. mapped' \in [Dev -> Nat] /\ kept' \in [Dev -> 0 .. MaxKept]
    BY <1>1, <2>1, <2>2
  <2>4. \A o \in Dev : mapped'[o] <= kept'[o]
    BY <1>1, <2>1, <2>2
  <2> QED BY <1>1, <2>1, <2>3, <2>4 DEF TypeRest, MappedOK
<1> QED BY <1>2, <1>3, <1>4, <1>5, <1>6, <1>7, <1>8, <1>9, <1>10

(* The devices found by name are counted by natural numbers. *)
NamesNat ==
  \A c \in Ctrl : Total([u \in Thread |-> NamesOf(th[u])], c) \in Nat

(* The lists of names that calls were given are finite. *)
LEMMA NamesFacts == Shape => NamesNat
<1> SUFFICES ASSUME Shape, NEW c \in Ctrl
             PROVE  Total([u \in Thread |-> NamesOf(th[u])], c) \in Nat
  BY DEF NamesNat
<1>1. ASSUME NEW u \in Thread PROVE NamesOf(th[u]) \in Seq(Ctrl)
  <2>1. Frames1(th[u])
    BY <1>1, RecordFrames DEF Shape, Threads
  <2>2. CreatePc \subseteq GroupPc /\ "create_get" \in CreatePc
    BY DEF GroupPc, CreatePc
  <2>3. GroupFrame(th[u]).left \in Seq(Ctrl)
    BY <2>1 DEF Frames1, Frame
  <2>4. GroupFrame(th[u]).pc \in CreatePc => dev[GroupFrame(th[u]).o].ctrls \in Seq(Ctrl)
    BY <2>1, <2>2, Consts DEF Frames1, GroupOf, Shape, DevRec
  <2> QED BY <2>2, <2>3, <2>4 DEF NamesOf
<1> DEFINE L == [u \in Thread |-> NamesOf(th[u])]
<1>2. (\A u \in Thread : L[u] \in Seq(Ctrl)) /\ DOMAIN L = Thread
  BY <1>1
<1> HIDE DEF L
<1>3. IsFiniteSet(AllPlaces(Thread, L, c))
  BY <1>2, ConstantsAssumption, PlacesFinite
<1>4. Total(L, c) = Cardinality(AllPlaces(Thread, L, c))
  BY <1>2 DEF Total, AllPlaces
<1> QED BY <1>3, <1>4, FS_CardinalityType DEF L

(* A good step keeps the invariant. *)
LEMMA GoodInv ==
  ASSUME Inv, NEW t \in Thread, Good(t), TypeRest
  PROVE  Inv' /\ (ProtocolInv => ProtocolInv')
<1>1. Here(t)
  BY InvHere
<1>2. /\ Fits(t) /\ Regions' /\ MinorsExact' /\ CoreRefExact' /\ FoundExact' /\ Driver' /\ Counts'
      /\ Creators' /\ Opening' /\ (ProtocolInv => ProtocolInv')
  BY DEF Good, KernelKept
<1>3. Threads' /\ Owners' /\ Stages' /\ Objects'
  BY <1>1, <1>2, FitsInv DEF Here
<1>4. th' \in [Thread -> ThreadRec] /\ dev' \in [Dev -> DevRec]
  BY <1>2 DEF Fits, ThreadFits, ObjectsFit
<1>5. coreRef' \in Nat
  <2>1. IsFiniteSet({c \in Ctrl : dev'[c].cdev}) /\ IsFiniteSet({g \in Group : dev'[g].heap = "live"})
    BY ConstantsAssumption, FS_Subset
  <2>2. coreRef' = Cardinality({c \in Ctrl : dev'[c].cdev})
                   + Cardinality({g \in Group : dev'[g].heap = "live"})
    BY <1>2 DEF CoreRefExact
  <2> QED BY <2>1, <2>2, FS_CardinalityType
<1>6. found' \in [Dev -> Nat]
  <2>1. Shape'
    BY <1>1, <1>2, FitsShape
  <2>2. NamesNat'
    BY <2>1, NamesFacts, PTL
  <2>3. \A c \in Ctrl : found'[c] \in Nat
    BY <1>2, <2>2 DEF NamesNat, FoundExact
  <2>4. found' \in [Dev -> Int] /\ \A g \in Group : found'[g] \in Nat
    BY DEF TypeRest, FoundType
  <2>5. \A o \in Dev : found'[o] \in Nat
    BY <2>3, <2>4 DEF Dev
  <2> QED BY <2>4, <2>5
<1>7. pci' \in [Pdev -> PciRec]
  <2>1. pci' \in [Pdev -> PciInt]
    BY DEF TypeRest
  <2>2. \A p \in Pdev : pci'[p].enabled \in Nat
    BY <1>2 DEF Regions
  <2>3. \A p \in Pdev : pci'[p] \in PciRec
    BY <2>1, <2>2 DEF PciInt, PciRec
  <2> QED BY <2>1, <2>3
<1>8. TypeOK'
  BY <1>4, <1>5, <1>6, <1>7 DEF TypeOK, TypeRest, PciRec, DevRec, ThreadRec
<1>9. MappedOK'
  BY DEF TypeRest
<1> QED BY <1>2, <1>3, <1>8, <1>9 DEF Inv

(* Every step of a call in flight is good. *)
LEMMA StepGood ==
  ASSUME Inv, NEW t \in Thread, Step(t)
  PROVE  Good(t) /\ TypeRest
<1>1. CASE PutLast(t)
  BY <1>1, PutLastGood, PlainRest
<1>2. CASE ReturnLast(t)
  BY <1>2, ReturnLastGood, PciRest
<1>3. CASE RelDev(t)
  BY <1>3, RelDevGood, NumberRest
<1>4. CASE RelPci(t)
  BY <1>4, RelPciGood, PciRest
<1>5. CASE RelFree(t)
  BY <1>5, RelFreeGood, PciRest
<1>6. CASE RelGroupDev(t)
  BY <1>6, RelGroupGood, PlainRest
<1>7. CASE RelGroupCtrl(t)
  BY <1>7, PutMemberGood, PlainRest
<1>8. CASE RelGroupFree(t)
  BY <1>8, RelGroupGood, NumberRest
<1>9. CASE ProbeRegion(t)
  BY <1>9, ProbeGood, PciRest
<1>10. CASE ProbeRegionFails(t) \/ ProbeAddFails(t) \/ ProbeDevFails(t)
  BY <1>10, ProbeFailsGood, PciRest
<1>11. CASE ProbeAdd(t)
  BY <1>11, ProbeGood, PciRest
<1>12. CASE ProbeDev(t)
  BY <1>12, ProbeGood, PlainRest
<1>13. CASE ProbeRef(t)
  BY <1>13, ProbeRefGood, PciRest
<1>14. CASE CreateGet(t)
  BY <1>14, CreateGetGood, PlainRest
<1>15. CASE CreateAdd(t)
  BY <1>15, CreateNextGood, NumberRest
<1>16. CASE CreateAddFails(t) \/ CreateDev(t)
  BY <1>16, CreateNextGood, PlainRest
<1>17. CASE CreateDevFails(t)
  BY <1>17, CreateNextGood, NumberRest
<1>18. CASE CreateUndo(t)
  BY <1>18, PutMemberGood, PlainRest
<1>19. CASE CreateUndone(t) \/ CreateRef(t)
  BY <1>19, CreateEndGood, NumberRest
<1>20. CASE CreateCopy(t)
  BY <1>20, CreateCopyGood, PlainRest
<1>21. CASE OpenFails(t) \/ IoctlDone(t) \/ IoctlMapFails(t) \/ CreateCopyFails(t)
  BY <1>21, GoPutGood, PlainRest
<1>22. CASE OpenGet(t) \/ IoctlGet(t) \/ MmapGet(t)
  BY <1>22, GetGood, PlainRest
<1>23. CASE OpenDone(t)
  BY <1>23, OpenDoneGood, PlainRest
<1>24. CASE IoctlRegFails(t)
  BY <1>24, RegFailsGood, LeftRest
<1>25. CASE MmapCtrl(t)
  BY <1>25, MmapCtrlGood, LeftRest
<1>26. CASE MmapGroup(t)
  BY <1>26, MmapGroupGood, LeftRest
<1>27. CASE IoctlMaps(t)
  BY <1>27, IoctlMapsGood, LeftRest
<1> QED BY <1>1, <1>2, <1>3, <1>4, <1>5, <1>6, <1>7, <1>8, <1>9, <1>10, <1>11, <1>12, <1>13,
           <1>14, <1>15, <1>16, <1>17, <1>18, <1>19, <1>20, <1>21, <1>22, <1>23, <1>24, <1>25,
           <1>26, <1>27 DEF Step

(* Every call that begins is good, but for a CREATE_GROUP that names a     *)
(* group.                                                                  *)
LEMMA ClientGood ==
  ASSUME Inv, NEW t \in Thread, Client(t), \A g \in Group : ~CreateMismatch(t, g)
  PROVE  Good(t) /\ TypeRest
<1>1. ASSUME NEW p \in Pdev, NEW c \in Ctrl, ProbeStart(t, p, c) PROVE Good(t) /\ TypeRest
  BY <1>1, ProbeStartGood, StartRest
<1>2. ASSUME NEW p \in Pdev, RemoveStart(t, p) PROVE Good(t) /\ TypeRest
  BY <1>2, RemoveStartGood, StartRest
<1>3. ASSUME NEW g \in Group, NEW names \in Names, CreateStart(t, g, names)
      PROVE  Good(t) /\ TypeRest
  BY <1>3, CreateStartGood, StartRest
<1>4. ASSUME NEW o \in IF Protocol THEN Group ELSE Dev, MayName(o), DeleteStart(t, o)
      PROVE  Good(t) /\ TypeRest
  <2>1. o \in Dev /\ (Protocol => o \in Group /\ o \in ready)
    BY <1>4, Consts, ConstantsAssumption DEF MayName
  <2> QED BY <1>4, <2>1, DeleteStartGood, StartRest
<1>5. ASSUME NEW o \in Dev, NEW f \in File, OpenStart(t, o, f) PROVE Good(t) /\ TypeRest
  <2> DEFINE op == "open"  pc == "open_get"
  <2>1. /\ MayStart(t, op) /\ Call(t, o, NULL, f, op, pc)
        /\ UNCHANGED <<kernVars, dev, kept, file, ready, fault>>
        /\ FileFree(f) /\ file[f] = NULL /\ op = "open" /\ pc = "open_get"
    BY <1>5 DEF OpenStart
  <2> HIDE DEF op, pc
  <2>2. Good(t)
    BY <2>1, UseStartGood
  <2> QED BY <1>5, <2>2, StartRest
<1>6. ASSUME NEW f \in File, CloseStart(t, f) PROVE Good(t) /\ TypeRest
  BY <1>6, CloseStartGood, StartRest
<1>7. ASSUME NEW f \in File, IoctlStart(t, f) \/ MmapStart(t, f) PROVE Good(t) /\ TypeRest
  <2>1. PICK o : o = file[f]
    OBVIOUS
  <2>2. o # NULL /\ o \in Dev
    <3>1. file[f] # NULL
      BY <1>7 DEF IoctlStart, MmapStart, FileCall
    <3> QED BY <2>1, <3>1, RestNow
  <2>3. CASE IoctlStart(t, f)
    <3> DEFINE op == "ioctl"  pc == "ioctl_get"
    <3>1. /\ MayStart(t, op) /\ Call(t, o, NULL, f, op, pc)
          /\ UNCHANGED <<kernVars, dev, kept, file, ready, fault>>
          /\ file[f] # NULL /\ op = "ioctl" /\ pc = "ioctl_get"
      BY <2>1, <2>3 DEF IoctlStart, FileCall
    <3> HIDE DEF op, pc
    <3> QED BY <1>7, <2>2, <3>1, UseStartGood, StartRest
  <2>4. CASE MmapStart(t, f)
    <3> DEFINE op == "mmap"  pc == IF o \in Group THEN "mmap_get" ELSE "mmap_do"
    <3>1. /\ MayStart(t, op) /\ Call(t, o, NULL, f, op, pc)
          /\ UNCHANGED <<kernVars, dev, kept, file, ready, fault>>
          /\ file[f] # NULL /\ op = "mmap" /\ pc = (IF o \in Group THEN "mmap_get" ELSE "mmap_do")
      BY <2>1, <2>4 DEF MmapStart, FileCall
    <3> HIDE DEF op, pc
    <3> QED BY <1>7, <2>2, <3>1, UseStartGood, StartRest
  <2> QED BY <1>7, <2>3, <2>4
<1>8. ASSUME NEW c \in Ctrl, MunmapStart(t, c) PROVE Good(t) /\ TypeRest
  BY <1>8, MunmapStartGood, StartRest
<1> QED BY <1>1, <1>2, <1>3, <1>4, <1>5, <1>6, <1>7, <1>8 DEF Client

(* A step that touches no object, and at most marks a group as found. *)
LEMMA UnmovedInv ==
  ASSUME Inv, UNCHANGED <<pci, minors, coreRef, dev, kept, mapped, file, ready, th>>,
         found' \in [Dev -> Nat], \A c \in Ctrl : found'[c] = found[c], fault' \in Fault
  PROVE  Inv' /\ (ProtocolInv => ProtocolInv')
<1>1. /\ pci' = pci /\ minors' = minors /\ coreRef' = coreRef /\ dev' = dev /\ kept' = kept
      /\ mapped' = mapped /\ file' = file /\ ready' = ready /\ th' = th
  OBVIOUS
<1>2. TypeOK'
  BY <1>1 DEF Inv, TypeOK
<1>3. Threads' /\ Owners' /\ Stages' /\ Objects'
  BY <1>1 DEF Inv, Threads, Owners, Stages, CtrlStage, GroupStage, Objects, Owned
<1>4. Driver'
  BY <1>1 DEF Inv, Driver, At, PciIdle
<1>5. Regions'
  BY <1>1 DEF Inv, Regions, HasRegion
<1>6. \A o \in Dev : Undoing(o)' = Undoing(o)
  BY <1>1 DEF Undoing, Frames
<1>7. MinorsExact' /\ CoreRefExact'
  <2>1. Numbered' = Numbered
    BY <1>1, <1>6 DEF Numbered
  <2> QED BY <1>1, <2>1 DEF Inv, MinorsExact, CoreRefExact
<1>8. FoundExact'
  BY <1>1 DEF Inv, FoundExact, NamesOf
<1>9. \A o \in Dev : Uses(o)' = Uses(o)
  <2>1. Members' = Members
    BY <1>1 DEF Members, Undoing, Frames
  <2>2. \A o \in Dev : Base(o)' = Base(o)
    BY <1>1 DEF Base, Bound, PciIdle
  <2>3. \A o \in Dev : FilesOf(o)' = FilesOf(o) /\ Puts(o)' = Puts(o)
    BY <1>1 DEF FilesOf, Puts
  <2> QED BY <1>1, <2>1, <2>2, <2>3 DEF Uses
<1>10. Counts' /\ (GroupsExact => GroupsExact')
  BY <1>1, <1>9, Consts DEF Inv, Counts, GroupsExact
<1>11. Creators' /\ Opening'
  BY <1>1 DEF Inv, Creators, Opening
<1>12. ReadyOK => ReadyOK'
  BY <1>1 DEF ReadyOK, Bound, PciIdle
<1>13. MappedOK'
  BY <1>1 DEF Inv, MappedOK
<1> QED BY <1>2, <1>3, <1>4, <1>5, <1>7, <1>8, <1>10, <1>11, <1>12, <1>13 DEF Inv, ProtocolInv

(* Every step keeps the invariant. *)
LEMMA InvNext ==
  ASSUME Inv, [Next]_vars
  PROVE  Inv' /\ (ProtocolInv => ProtocolInv')
<1>1. found \in [Dev -> Nat] /\ fault \in Fault
  BY DEF Inv, TypeOK
<1>2. ASSUME NEW t \in Thread, Step(t) PROVE Inv' /\ (ProtocolInv => ProtocolInv')
  BY <1>2, StepGood, GoodInv
<1>3. ASSUME NEW t \in Thread, NEW g \in Group, CreateMismatch(t, g)
      PROVE  Inv' /\ (ProtocolInv => ProtocolInv')
  <2>1. /\ UNCHANGED <<pci, minors, coreRef, dev, kept, mapped, file, ready, th>> /\ fault' = fault
        /\ found' = [found EXCEPT ![g] = found[g] + 1]
    BY <1>3 DEF CreateMismatch
  <2>2. found' \in [Dev -> Nat] /\ \A c \in Ctrl : found'[c] = found[c]
    BY <1>1, <2>1, Consts
  <2> QED BY <1>1, <2>1, <2>2, UnmovedInv
<1>4. ASSUME NEW t \in Thread, Client(t), \A g \in Group : ~CreateMismatch(t, g)
      PROVE  Inv' /\ (ProtocolInv => ProtocolInv')
  BY <1>4, ClientGood, GoodInv
<1>5. ASSUME NEW t \in Thread, Oops(t) PROVE Inv' /\ (ProtocolInv => ProtocolInv')
  <2>1. UNCHANGED <<pci, minors, coreRef, dev, kept, mapped, file, ready, th>> /\ found' = found
    BY <1>5 DEF Oops, kernVars
  <2>2. fault' \in Fault
    BY <1>5 DEF Oops, Fault
  <2> QED BY <1>1, <2>1, <2>2, UnmovedInv
<1>6. ASSUME UNCHANGED vars PROVE Inv' /\ (ProtocolInv => ProtocolInv')
  <2>1. /\ UNCHANGED <<pci, minors, coreRef, dev, kept, mapped, file, ready, th>> /\ found' = found
        /\ fault' = fault
    BY <1>6 DEF vars, kernVars
  <2> QED BY <1>1, <2>1, UnmovedInv
<1> QED BY <1>2, <1>3, <1>4, <1>5, <1>6 DEF Next, Halted

----------------------------------------------------------------------------
(* The invariant holds. *)

(* Nothing is there at the beginning. *)
LEMMA InitInv ==
  ASSUME Init
  PROVE  Inv /\ ProtocolInv
<1>1. /\ \A p \in Pdev : /\ pci[p].drv = NULL /\ ~pci[p].bound /\ ~pci[p].master
                         /\ pci[p].region = NULL /\ pci[p].enabled = 0
      /\ \A o \in Dev : /\ dev[o] = Unused /\ found[o] = 0
                        /\ kept[o] = 0 /\ mapped[o] = 0
      /\ \A f \in File : file[f] = NULL
      /\ \A t \in Thread : th[t] = Idle
      /\ minors = {} /\ coreRef = 0 /\ ready = {} /\ fault = "none"
  BY DEF Init
<1>2. /\ Unused \in DevRec /\ Unused.heap = "unused" /\ Unused.ref = 0 /\ ~Unused.cdev
      /\ ~Unused.shown /\ Unused.ctrls = <<>>
  BY DEF Unused, DevRec
<1>3. /\ Idle \in ThreadRec /\ Idle.pc = "idle" /\ Idle.op = "none" /\ Idle.o = NULL
      /\ Idle.p = NULL /\ Idle.f = NULL /\ Idle.stack = <<>>
  BY DEF Idle, ThreadRec, Pc
<1>4. TypeOK
  <2>1. pci \in [Pdev -> PciRec]
    BY DEF Init, PciRec
  <2>2. dev \in [Dev -> DevRec]
    BY <1>2 DEF Init
  <2>3. th \in [Thread -> ThreadRec]
    BY <1>3 DEF Init
  <2>4. /\ minors \subseteq Minor /\ coreRef \in Nat /\ found \in [Dev -> Nat]
        /\ kept \in [Dev -> 0 .. MaxKept] /\ file \in [File -> Dev \cup {NULL}]
        /\ ready \subseteq Dev /\ fault \in Fault /\ mapped \in [Dev -> Nat]
    BY ConstantsAssumption DEF Init, Fault
  <2> QED BY <2>1, <2>2, <2>3, <2>4 DEF TypeOK, PciRec, DevRec, ThreadRec
<1>5. \A t \in Thread : /\ CtrlOf(th[t]) = NULL /\ GroupOf(th[t]) = NULL
                        /\ GroupFrame(th[t]) = NoFrame
  BY <1>1, <1>3 DEF CtrlOf, CtrlPc, ProbePc, RelPc, GroupOf, GroupFrame, GroupPc, CreatePc,
                    RelgPc, NoFrame
<1>6. Threads
  BY <1>1, <1>3, Consts DEF Threads, StackOK, LocalsOK, RelPc, RelgPc, CtrlPc, GroupPc, CreatePc,
                            ProbePc
<1>7. Owners /\ Stages
  <2>1. \A t \in Thread : th[t].pc \notin CtrlPc
    BY <1>1, <1>3 DEF CtrlPc, ProbePc, RelPc
  <2> QED BY <1>5, <2>1 DEF Owners, Stages, CtrlStage, GroupStage
<1>8. Objects
  BY <1>1, <1>2 DEF Objects, ObjectOK
<1>9. Driver
  BY <1>1, <1>3 DEF Driver
<1>10. Regions
  <2>1. \A c \in Ctrl : ~HasRegion(c)
    BY <1>1, <1>2, Consts DEF HasRegion
  <2> QED BY <1>1, <2>1 DEF Regions
<1>11. MinorsExact
  <2>1. Numbered = {}
    BY <1>1, <1>2 DEF Numbered
  <2> QED BY <1>1, <2>1 DEF MinorsExact
<1>12. CoreRefExact
  <2>1. {c \in Ctrl : dev[c].cdev} = {} /\ {g \in Group : dev[g].heap = "live"} = {}
    BY <1>1, <1>2, Consts
  <2>2. /\ Cardinality({c \in Ctrl : dev[c].cdev}) = 0
        /\ Cardinality({g \in Group : dev[g].heap = "live"}) = 0
    BY <2>1, FS_EmptySet, Zenon
  <2> QED BY <1>1, <2>2 DEF CoreRefExact
<1>13. FoundExact
  <2> SUFFICES ASSUME NEW c \in Ctrl
               PROVE  found[c] = Total([t \in Thread |-> NamesOf(th[t])], c)
    BY DEF FoundExact
  <2> DEFINE L == [t \in Thread |-> NamesOf(th[t])]
  <2>1. NoFrame.pc \notin CreatePc /\ NoFrame.pc # "create_get"
    BY DEF NoFrame, CreatePc
  <2>2. \A t \in DOMAIN L : L[t] = <<>>
    BY <1>5, <2>1 DEF NamesOf
  <2>3. \A t \in DOMAIN L : \A i \in DOMAIN L[t] : L[t][i] # c
    BY <2>2
  <2> HIDE DEF L
  <2>4. Total(L, c) = 0
    BY <2>3, TotalZero
  <2> QED BY <1>1, <2>4, Consts DEF L
<1>14. ASSUME NEW o \in Dev PROVE Uses(o) = 0
  <2>1. Base(o) = 0
    BY <1>1 DEF Base, Bound, One
  <2>2. FilesOf(o) = {} /\ Puts(o) = {}
    BY <1>1, <1>3, Consts DEF FilesOf, Puts, IsPut
  <2>3. Total(Members, o) = 0
    <3>1. \A g \in DOMAIN Members : Members[g] = <<>>
      BY <1>1, <1>2, Consts DEF Members
    <3>2. \A g \in DOMAIN Members : \A i \in DOMAIN Members[g] : Members[g][i] # o
      BY <3>1
    <3> QED BY <3>2, TotalZero
  <2> QED BY <1>1, <2>1, <2>2, <2>3, FS_EmptySet DEF Uses
<1>15. Counts /\ GroupsExact
  BY <1>1, <1>2, <1>14, Consts DEF Counts, GroupsExact
<1>16. Creators /\ Opening
  BY <1>1, <1>3 DEF Creators, Opening, Makes, IsOpening
<1>17. ReadyOK
  BY <1>1 DEF ReadyOK, Bound
<1>18. MappedOK
  BY <1>1 DEF MappedOK
<1> QED BY <1>4, <1>6, <1>7, <1>8, <1>9, <1>10, <1>11, <1>12, <1>13, <1>15, <1>16, <1>17, <1>18
     DEF Inv, ProtocolInv

(* The controllers and groups, their numbers, their references on the core *)
(* device and the PCI resources stay as the invariant says in every        *)
(* behaviour, with or without the protocol, faults included.               *)
THEOREM Invariance == Spec => [](Inv /\ ProtocolInv)
<1>1. Init => Inv /\ ProtocolInv
  BY InitInv
<1>2. Inv /\ ProtocolInv /\ [Next]_vars => Inv' /\ ProtocolInv'
  BY InvNext
<1> QED BY <1>1, <1>2, PTL DEF Spec

(* No count of references or of enabled functions falls below zero. *)
THEOREM TypeCorrect == Spec => []TypeOK
<1>1. Inv => TypeOK
  BY DEF Inv
<1> QED BY <1>1, Invariance, PTL

(* Controllers and groups have different minor numbers, and a number is    *)
(* in use exactly as long as its device is, on all error paths too.        *)
THEOREM MinorsAlwaysExact == Spec => []MinorsExact
<1>1. Inv => MinorsExact
  BY DEF Inv
<1> QED BY <1>1, Invariance, PTL

(* The core device has a reference for every controller and group.         *)
THEOREM CoreRefAlwaysExact == Spec => []CoreRefExact
<1>1. Inv => CoreRefExact
  BY DEF Inv
<1> QED BY <1>1, Invariance, PTL

(* BAR 0 belongs to a live controller of its function.                     *)
THEOREM RegionAlwaysOwned == Spec => []RegionOwned
<1>1. Inv => RegionOwned
  BY DEF Inv, Regions, RegionOwned, HasRegion
<1> QED BY <1>1, Invariance, PTL

(* When the last call has returned, all is given back.                     *)
THEOREM NothingIsLeft == Spec => []NothingLeft
<1>1. Inv => NothingLeft
  <2> SUFFICES ASSUME Inv, AllDown
               PROVE  /\ \A o \in Dev : dev[o].heap # "live" /\ ~dev[o].cdev /\ ~dev[o].shown
                      /\ \A c \in Ctrl : found[c] = 0
                      /\ minors = {} /\ coreRef = 0
                      /\ \A p \in Pdev : /\ pci[p].region = NULL /\ pci[p].drv = NULL
                                         /\ pci[p].enabled = 0 /\ ~pci[p].master
    BY DEF NothingLeft
  <2>1. /\ \A t \in Thread : th[t] = Idle
        /\ \A f \in File : file[f] = NULL
        /\ ready = {} /\ \A o \in Dev : kept[o] = 0
    BY DEF AllDown
  <2>2. /\ Idle.pc = "idle" /\ Idle.op = "none" /\ Idle.o = NULL
        /\ Idle.p = NULL /\ Idle.stack = <<>>
    BY DEF Idle
  <2>3. \A t \in Thread : CtrlOf(th[t]) = NULL /\ GroupOf(th[t]) = NULL /\ GroupFrame(th[t]) = NoFrame
    BY <2>1, <2>2 DEF CtrlOf, CtrlPc, ProbePc, RelPc, GroupOf, GroupFrame, GroupPc, CreatePc,
                      RelgPc, NoFrame
  <2>4. \A p \in Pdev : PciIdle(p)
    BY <2>1, <2>2, Consts DEF PciIdle
  <2>5. \A p \in Pdev : ~pci[p].bound
    BY <2>1, <2>2, <2>4 DEF Inv, Driver
  <2>6. TypeOK /\ Objects /\ Counts /\ Regions /\ Driver /\ MinorsExact /\ CoreRefExact /\ FoundExact
    BY DEF Inv
  <2>7. \A o \in Dev : dev[o].heap = "live" => dev[o].ref # 0
    BY <2>3, <2>6, Consts DEF Objects, Owned
  <2>8. ASSUME NEW o \in Dev
        PROVE  /\ Base(o) = 0 /\ Cardinality(FilesOf(o)) = 0 /\ Cardinality(Puts(o)) = 0
               /\ kept[o] = 0
    <3>1. Base(o) = 0
      BY <2>1, <2>5 DEF Base, Bound, One
    <3>2. FilesOf(o) = {} /\ Puts(o) = {}
      BY <2>1, <2>2, <2>8, Consts DEF FilesOf, Puts, IsPut
    <3> QED BY <2>1, <3>1, <3>2, FS_EmptySet
  <2>9. Shape
    BY <2>6 DEF Shape, Inv, TypeOK, ThreadRec, DevRec
  <2>10. MembersAre
    BY <2>9, MembersFacts
  <2>11. DOMAIN Members = Group
    BY DEF Members
  <2>12. ASSUME NEW g \in Group PROVE dev[g].heap # "live" /\ g \in Dev
    <3>1. \A h \in DOMAIN Members : \A i \in DOMAIN Members[h] : Members[h][i] # g
      BY <2>10, <2>11, Consts DEF MembersAre
    <3>2. Total(Members, g) = 0
      BY <3>1, TotalZero
    <3>3. Uses(g) = 0
      BY <2>8, <2>12, <3>2, Consts DEF Uses
    <3>4. g \in Dev /\ dev[g].ref \in Nat /\ dev[g].ref <= Uses(g)
      BY <2>6, <2>12, Consts DEF TypeOK, Counts
    <3> QED BY <2>7, <3>3, <3>4
  <2>13. ASSUME NEW c \in Ctrl PROVE dev[c].heap # "live" /\ c \in Dev
    <3>1. \A h \in DOMAIN Members : Members[h] = <<>>
      BY <2>10, <2>11, <2>12 DEF MembersAre
    <3>2. \A h \in DOMAIN Members : \A i \in DOMAIN Members[h] : Members[h][i] # c
      BY <3>1
    <3>3. Total(Members, c) = 0
      BY <3>2, TotalZero
    <3>4. Uses(c) = 0
      BY <2>8, <2>13, <3>3, Consts DEF Uses
    <3> QED BY <2>6, <2>7, <2>13, <3>4, Consts DEF Counts
  <2>14. \A o \in Dev : dev[o].heap # "live"
    BY <2>12, <2>13 DEF Dev
  <2>15. \A o \in Dev : ~dev[o].cdev /\ ~dev[o].shown
    <3>1. \A o \in Dev : dev[o].heap \in {"unused", "freed"} /\ ObjectOK(dev[o], o)
      BY <2>6, <2>14 DEF TypeOK, Objects
    <3> QED BY <3>1 DEF ObjectOK, Unused
  <2>16. ASSUME NEW c \in Ctrl PROVE found[c] = 0
    <3> DEFINE L == [t \in Thread |-> NamesOf(th[t])]
    <3>1. NoFrame.pc \notin CreatePc /\ NoFrame.pc # "create_get"
      BY DEF NoFrame, CreatePc
    <3>2. \A t \in DOMAIN L : L[t] = <<>>
      BY <2>3, <3>1 DEF NamesOf
    <3>3. \A t \in DOMAIN L : \A i \in DOMAIN L[t] : L[t][i] # c
      BY <3>2
    <3>4. found[c] = Total(L, c)
      BY <2>6 DEF FoundExact
    <3> HIDE DEF L
    <3> QED BY <3>3, <3>4, TotalZero
  <2>17. minors = {}
    BY <2>6, <2>14 DEF MinorsExact, Numbered
  <2>18. coreRef = 0
    <3>1. {c \in Ctrl : dev[c].cdev} = {} /\ {g \in Group : dev[g].heap = "live"} = {}
      BY <2>12, <2>13, <2>15
    <3>2. /\ Cardinality({c \in Ctrl : dev[c].cdev}) = 0
          /\ Cardinality({g \in Group : dev[g].heap = "live"}) = 0
      BY <3>1, FS_EmptySet, Zenon
    <3> QED BY <2>6, <3>2 DEF CoreRefExact
  <2>19. ASSUME NEW p \in Pdev
         PROVE  /\ pci[p].region = NULL /\ pci[p].drv = NULL
                /\ pci[p].enabled = 0 /\ ~pci[p].master
    <3>1. pci[p].region \in Ctrl \cup {NULL}
      BY <2>6 DEF TypeOK
    <3>2. pci[p].region = NULL
      BY <2>6, <2>13, <3>1 DEF Regions, HasRegion
    <3>3. pci[p].drv = NULL
      BY <2>4, <2>5, <2>6 DEF Driver
    <3>4. pci[p].enabled = 0 /\ ~pci[p].master
      BY <2>6, <2>13, <3>2 DEF Regions
    <3> QED BY <3>2, <3>3, <3>4
  <2> QED BY <2>14, <2>15, <2>16, <2>17, <2>18, <2>19
<1> QED BY <1>1, Invariance, PTL

----------------------------------------------------------------------------
(* Under the protocol and the contract. *)

(* Only groups are deleted. *)
DeletesOK == \A t \in Thread : th[t].op = "delete" /\ At(t, "put") => th[t].o \in Group

(* Under the contract: the protocol, and no call that names a device, or   *)
(* probe of a function, while it may be going away.                        *)
Contract ==
  /\ Protocol
  /\ {"open", "remove"} \notin Overlap /\ {"open", "delete"} \notin Overlap
  /\ {"create", "remove"} \notin Overlap
  /\ {"probe", "close"} \notin Overlap /\ {"probe", "delete"} \notin Overlap
  /\ {"probe", "munmap"} \notin Overlap

Overlaps ==
  \A t, u \in Thread : t # u /\ th[t].op # "none" /\ th[u].op # "none" =>
    {th[t].op, th[u].op} \in Overlap

(* The devices a call uses stay in use until it is over, so that it never  *)
(* drops their last reference.                                             *)
AllReady(s) == \A i \in DOMAIN s : s[i] \in ready

CallOK(t) ==
  LET r == th[t]
  IN /\ r.op = "open" => r.pc \notin RelPc \cup RelgPc /\ (r.pc # "ret" => r.o \in ready)
     /\ r.op \in {"ioctl", "mmap"} =>
          r.pc \notin RelPc \cup RelgPc /\ (r.pc # "ret" => file[r.f] = r.o)
     /\ r.op = "create" =>
          /\ r.o \in Group /\ r.pc \notin RelPc
          /\ r.pc # "ret" => AllReady(r.left) /\ AllReady(dev[r.o].ctrls)
     /\ r.op = "remove" /\ r.pc \in {"put"} \cup RelPc => dev[r.o].pdev = r.p

CallsOK == \A t \in Thread : CallOK(t)

(* A function that is probed or bound is a bus master, and no earlier      *)
(* controller of a bound one is about to clear that.                       *)
Masters ==
  /\ \A t \in Thread : th[t].op = "probe" => pci[th[t].p].master
  /\ \A c \in ready \cap Ctrl : pci[dev[c].pdev].master
  /\ \A c \in ready \cap Ctrl, t \in Thread :
       th[t].pc \in RelPc => dev[th[t].o].pdev # dev[c].pdev

ContractInv == DeletesOK /\ Overlaps /\ CallsOK /\ Masters

(* The protocol and the contract, with what they keep. *)
Careful == Inv /\ Contract /\ ProtocolInv /\ ContractInv

(* Under the protocol a count is exact, and each use is one reference. *)
LEMMA InUse ==
  ASSUME Inv, Protocol, ProtocolInv, NEW o \in Dev
  PROVE  /\ dev[o].ref \in Nat /\ dev[o].ref = Uses(o)
         /\ o \in ready => dev[o].ref >= 1
         /\ \A f \in File : file[f] = o => dev[o].ref >= 1
         /\ \A t \in Thread : IsPut(th[t], o) =>
              /\ dev[o].ref >= 1
              /\ o \in ready => dev[o].ref >= 2
              /\ \A f \in File : file[f] = o => dev[o].ref >= 2
         /\ o \in ready /\ Total(Members, o) > 0 => dev[o].ref >= 2
<1> DEFINE b == Base(o)  f == Cardinality(FilesOf(o))  m == Total(Members, o)
           p == Cardinality(Puts(o))  l == kept[o]
<1>1. /\ Uses(o) = b + f + m + p + l
      /\ b \in Nat /\ f \in Nat /\ m \in Nat /\ p \in Nat /\ l \in Nat /\ dev[o].ref \in Nat
  BY UsesNow
<1>2. ReadyOK /\ GroupsExact
  BY DEF ProtocolInv
<1>3. dev[o].ref = Uses(o)
  BY <1>2 DEF Inv, Counts, GroupsExact, Dev
<1>4. o \in ready => b = 1
  BY <1>2 DEF ReadyOK, Base, One
<1>5. ASSUME NEW h \in File, file[h] = o PROVE f # 0
  <2>1. h \in FilesOf(o) /\ IsFiniteSet(FilesOf(o))
    BY <1>5, ConstantsAssumption, FS_Subset DEF FilesOf
  <2> QED BY <2>1, FS_EmptySet
<1>6. ASSUME NEW t \in Thread, IsPut(th[t], o) PROVE p # 0
  <2>1. t \in Puts(o) /\ IsFiniteSet(Puts(o))
    BY <1>6, ConstantsAssumption, FS_Subset DEF Puts
  <2> QED BY <2>1, FS_EmptySet
<1>7. dev[o].ref = b + f + m + p + l
  BY <1>1, <1>3
<1>8. PICK n : n = dev[o].ref
  OBVIOUS
<1>9. (m > 0 <=> Total(Members, o) > 0) /\ n = b + f + m + p + l /\ n \in Nat
  BY <1>1, <1>7, <1>8
<1> HIDE DEF b, f, m, p, l
<1>10. /\ o \in ready => n >= 1
       /\ o \in ready /\ m > 0 => n >= 2
  BY <1>1, <1>4, <1>9
<1>11. \A h \in File : file[h] = o => n >= 1
  BY <1>1, <1>5, <1>9
<1>12. \A t \in Thread : IsPut(th[t], o) =>
         /\ n >= 1
         /\ o \in ready => n >= 2
         /\ \A h \in File : file[h] = o => n >= 2
  BY <1>1, <1>4, <1>5, <1>6, <1>9
<1> QED BY <1>3, <1>8, <1>9, <1>10, <1>11, <1>12

(* A list of controllers still to be put. *)
LEMMA LeftCounted ==
  ASSUME Inv, NEW t \in Thread, th[t].pc \in {"create_undo", "rel_ctrls"}, th[t].left # <<>>
  PROVE  /\ Head(th[t].left) \in Ctrl
         /\ Total(Members, Head(th[t].left)) > 0 /\ dev[Head(th[t].left)].ref > 0
<1>1. Here(t)
  BY InvHere
<1>2. PICK g : g = th[t].o
  OBVIOUS
<1>3. th[t] \in ThreadRec /\ Frames1(th[t]) /\ LocalsOK(th[t]) /\ GroupStage(th[t])
  BY <1>1, ThreadFrames, HereFacts DEF Here
<1>4. th[t].pc \in GroupPc /\ th[t].pc \in UndoPc
  BY DEF GroupPc, CreatePc, RelgPc, UndoPc
<1>5. g \in Group /\ g # NULL
  BY <1>2, <1>3, <1>4, Consts DEF LocalsOK
<1>6. GroupFrame(th[t]) = [pc |-> th[t].pc, o |-> th[t].o, left |-> th[t].left]
  BY <1>3, <1>4 DEF Frames1
<1>7. GroupOf(th[t]) = g /\ GroupFrame(th[t]).pc = th[t].pc /\ GroupFrame(th[t]).left = th[t].left
  BY <1>2, <1>6 DEF GroupOf
<1>8. Undoes(th[t], g) /\ dev[g].heap = "live"
  BY <1>3, <1>4, <1>5, <1>7 DEF Undoes, GroupStage
<1>9. Shape
  BY DEF Inv, TypeOK, Shape, ThreadRec, DevRec
<1>10. Members[g] = th[t].left
  BY <1>5, <1>7, <1>8, <1>9, MembersFacts DEF MembersAre
<1>11. th[t].left \in Seq(Ctrl)
  BY <1>3 DEF ThreadRec
<1>12. 1 \in DOMAIN Members[g] /\ Members[g][1] = Head(th[t].left)
  BY <1>10, <1>11
<1> QED BY <1>5, <1>12, MemberCounted, MemberInUse

(* No call is about to touch freed memory, a count of zero, or a           *)
(* controller as if it were a group.                                       *)
LEMMA NoOops ==
  ASSUME Careful, NEW t \in Thread
  PROVE  ~UseAfterFree(t) /\ ~DeadRef(t) /\ ~WrongType(t)
<1>1. /\ Inv /\ Protocol /\ ProtocolInv /\ DeletesOK /\ CallOK(t) /\ Here(t)
      /\ th[t] \in ThreadRec /\ LocalsOK(th[t])
  <2>1. Here(t) /\ Inv
    BY InvHere DEF Careful
  <2> QED BY <2>1, HereFacts DEF Careful, Contract, ContractInv, CallsOK
<1>2. ~WrongType(t)
  BY <1>1, Consts DEF WrongType, DeletesOK
<1>3. ASSUME Target(t) # NULL PROVE Target(t) \in Dev /\ dev[Target(t)].ref > 0
  <2>1. CASE th[t].pc \in {"create_undo", "rel_ctrls"} /\ th[t].left # <<>>
    <3>1. Target(t) = Head(th[t].left)
      BY <2>1 DEF Target
    <3> QED BY <1>1, <2>1, <3>1, LeftCounted, Consts
  <2>2. CASE th[t].pc = "create_get" /\ th[t].left # <<>>
    <3>1. Target(t) = Head(th[t].left)
      BY <2>2 DEF Target
    <3>2. th[t].left \in Seq(Ctrl)
      BY <1>1 DEF ThreadRec
    <3>3. 1 \in DOMAIN th[t].left /\ Head(th[t].left) = th[t].left[1]
      BY <2>2, <3>2
    <3>4. th[t].op = "create" /\ AllReady(th[t].left)
      BY <1>1, <2>2 DEF LocalsOK, CallOK, CreatePc
    <3>5. Head(th[t].left) \in ready /\ Head(th[t].left) \in Ctrl
      BY <3>2, <3>3, <3>4 DEF AllReady
    <3>6. Target(t) \in Dev /\ Target(t) \in ready
      BY <3>1, <3>5, Consts
    <3>7. dev[Target(t)].ref \in Nat /\ dev[Target(t)].ref >= 1
      BY <1>1, <3>6, InUse
    <3> QED BY <3>6, <3>7
  <2>3. CASE th[t].pc \in {"open_get", "put", "ioctl_get", "ioctl_map", "mmap_get", "mmap_do"}
    <3>1. Target(t) = th[t].o
      BY <2>3 DEF Target
    <3>2. PICK o : o = th[t].o
      OBVIOUS
    <3>3. o \in Dev
      BY <1>1, <2>3, <3>2 DEF LocalsOK
    <3>4. CASE th[t].pc = "open_get"
      <4>1. o \in ready
        BY <1>1, <3>2, <3>4 DEF LocalsOK, CallOK
      <4>2. dev[o].ref \in Nat /\ dev[o].ref >= 1
        BY <1>1, <3>3, <4>1, InUse
      <4> QED BY <3>1, <3>2, <3>3, <4>2
    <3>5. CASE th[t].pc = "put"
      <4>1. IsPut(th[t], o)
        BY <1>1, <3>2, <3>5, Consts DEF IsPut, DeletesOK, At
      <4>2. dev[o].ref \in Nat /\ dev[o].ref >= 1
        BY <1>1, <3>3, <4>1, InUse
      <4> QED BY <3>1, <3>2, <3>3, <4>2
    <3>6. CASE th[t].pc \in {"ioctl_get", "ioctl_map", "mmap_get", "mmap_do"}
      <4>1. th[t].op \in {"ioctl", "mmap"} /\ th[t].f \in File
        BY <1>1, <3>6 DEF LocalsOK, ThreadRec
      <4>2. file[th[t].f] = o
        BY <1>1, <3>2, <3>6, <4>1 DEF CallOK
      <4>3. dev[o].ref \in Nat /\ dev[o].ref >= 1
        BY <1>1, <3>3, <4>1, <4>2, InUse
      <4> QED BY <3>1, <3>2, <3>3, <4>3
    <3> QED BY <2>3, <3>4, <3>5, <3>6
  <2>4. CASE ~(\/ th[t].pc \in {"create_get", "create_undo", "rel_ctrls"} /\ th[t].left # <<>>
               \/ th[t].pc \in {"open_get", "put", "ioctl_get", "ioctl_map", "mmap_get",
                               "mmap_do"})
    BY <1>3, <2>4 DEF Target
  <2> QED BY <2>1, <2>2, <2>3, <2>4
<1>4. ASSUME Target(t) # NULL PROVE dev[Target(t)].ref # 0 /\ dev[Target(t)].heap = "live"
  <2>1. /\ Target(t) \in Dev /\ dev[Target(t)].ref > 0 /\ dev[Target(t)] \in DevRec
        /\ ObjectOK(dev[Target(t)], Target(t))
    BY <1>1, <1>3, <1>4, HereFacts
  <2> QED BY <2>1 DEF ObjectOK, DevRec
<1>5. ASSUME At(t, "create_copy") PROVE dev[th[t].o].shown
  <2>1. PICK o : o = th[t].o
    OBVIOUS
  <2>2. o \in Dev /\ th[t].op = "create"
    BY <1>1, <1>5, <2>1, Consts DEF At, LocalsOK, GroupPc, CreatePc
  <2>3. IsPut(th[t], o)
    BY <1>5, <2>1, <2>2 DEF At, IsPut
  <2>4. dev[o].ref \in Nat /\ dev[o].ref >= 1
    BY <1>1, <2>2, <2>3, InUse
  <2>5. dev[o].ref > 0 /\ ObjectOK(dev[o], o)
    BY <1>1, <2>2, <2>4, HereFacts
  <2> QED BY <2>1, <2>5 DEF ObjectOK
<1> QED BY <1>2, <1>4, <1>5 DEF UseAfterFree, DeadRef

(* A device that is ready, or whose file is open, is not let go by a call. *)
LEMMA NotLast ==
  ASSUME Careful, NEW t \in Thread
  PROVE  /\ th[t].pc = "put" /\ th[t].o \in ready => dev[th[t].o].ref # 1
         /\ th[t].pc = "put" /\ th[t].op \in {"open", "ioctl", "mmap"} => dev[th[t].o].ref # 1
         /\ th[t].pc \in {"create_undo", "rel_ctrls"} /\ th[t].left # <<>>
              /\ Head(th[t].left) \in ready => dev[Head(th[t].left)].ref # 1
<1>1. /\ Inv /\ Protocol /\ ProtocolInv /\ DeletesOK /\ CallOK(t) /\ Here(t)
      /\ th[t] \in ThreadRec /\ LocalsOK(th[t])
  <2>1. Here(t) /\ Inv
    BY InvHere DEF Careful
  <2> QED BY <2>1, HereFacts DEF Careful, Contract, ContractInv, CallsOK
<1>2. ASSUME th[t].pc = "put"
      PROVE  /\ th[t].o \in ready => dev[th[t].o].ref # 1
             /\ th[t].op \in {"open", "ioctl", "mmap"} => dev[th[t].o].ref # 1
  <2>1. PICK o : o = th[t].o
    OBVIOUS
  <2>2. o \in Dev
    BY <1>1, <1>2, <2>1 DEF LocalsOK
  <2>3. IsPut(th[t], o)
    BY <1>1, <1>2, <2>1, Consts DEF IsPut, DeletesOK, At
  <2>4. /\ dev[o].ref \in Nat /\ (o \in ready => dev[o].ref >= 2)
        /\ \A f \in File : file[f] = o => dev[o].ref >= 2
    BY <1>1, <2>2, <2>3, InUse
  <2>5. th[t].op = "open" => o \in ready
    BY <1>1, <1>2, <2>1 DEF CallOK
  <2>6. th[t].op \in {"ioctl", "mmap"} => th[t].f \in File /\ file[th[t].f] = o
    BY <1>1, <1>2, <2>1 DEF CallOK, LocalsOK, ThreadRec
  <2> QED BY <2>1, <2>4, <2>5, <2>6
<1>3. ASSUME th[t].pc \in {"create_undo", "rel_ctrls"}, th[t].left # <<>>,
             Head(th[t].left) \in ready
      PROVE  dev[Head(th[t].left)].ref # 1
  <2>1. PICK o : o = Head(th[t].left)
    OBVIOUS
  <2>2. o \in Ctrl /\ o \in Dev /\ Total(Members, o) > 0
    BY <1>1, <1>3, <2>1, LeftCounted, Consts
  <2>3. dev[o].ref \in Nat /\ dev[o].ref >= 2
    BY <1>1, <1>3, <2>1, <2>2, InUse
  <2> QED BY <2>1, <2>3
<1> QED BY <1>2, <1>3

(* What a step of a call in flight leaves alone. *)
StepKeeps(t) ==
  /\ \A o \in Dev : dev'[o].pdev = dev[o].pdev
  /\ \A o \in Dev : dev'[o].ctrls = dev[o].ctrls \/ (CreateGet(t) /\ o = th[t].o)
  /\ ready \subseteq ready'
  /\ \A f \in File : file'[f] = file[f] \/ (OpenDone(t) /\ f = th[t].f)

(* The objects keep their function and their controllers. *)
SameParts == \A o \in Dev : dev'[o].pdev = dev[o].pdev /\ dev'[o].ctrls = dev[o].ctrls

(* Every step keeps the parts of the objects, but for CreateGet. *)
LEMMA StepParts ==
  ASSUME Inv, NEW t \in Thread, Step(t)
  PROVE  SameParts \/ CreateGet(t)
<1>1. dev \in [Dev -> DevRec]
  BY DEF Inv, TypeOK, DevRec
<1>2. \A o \in Dev : dev[o] \in DevRec
  BY <1>1
<1>3. ASSUME dev' = dev PROVE SameParts
  BY <1>3 DEF SameParts
<1>4. CASE \/ ReturnLast(t) \/ RelPci(t) \/ ProbeRegion(t) \/ CreateAddFails(t) \/ CreateCopy(t)
           \/ CreateCopyFails(t) \/ OpenDone(t) \/ OpenFails(t) \/ IoctlDone(t)
           \/ IoctlRegFails(t) \/ IoctlMapFails(t)
  BY <1>3, <1>4 DEF ReturnLast, RelPci, ProbeRegion, CreateAddFails, CreateCopy, CreateCopyFails,
                    OpenDone, OpenFails, IoctlDone, IoctlRegFails, IoctlMapFails, kernVars
<1>5. ASSUME NEW x, NEW n, dev' = [dev EXCEPT ![x].ref = n] PROVE SameParts
  <2>1. \A o \in Dev : o # x => dev'[o] = dev[o]
    BY <1>1, <1>5
  <2>2. x \in Dev => dev'[x] = [dev[x] EXCEPT !.ref = n] /\ dev[x] \in DevRec
    BY <1>1, <1>5
  <2>3. x \in Dev => dev'[x].pdev = dev[x].pdev /\ dev'[x].ctrls = dev[x].ctrls
    BY <2>2 DEF DevRec
  <2> QED BY <2>1, <2>3 DEF SameParts
<1>6. CASE PutLast(t) \/ RelGroupCtrl(t) \/ CreateUndo(t)
  <2>1. \E x : dev' = [dev EXCEPT ![x].ref = dev[x].ref - 1]
    BY <1>6 DEF PutLast, RelGroupCtrl, CreateUndo, Put
  <2> QED BY <1>5, <2>1
<1>7. CASE OpenGet(t) \/ IoctlGet(t) \/ MmapGet(t)
  <2>1. dev' = [dev EXCEPT ![th[t].o].ref = dev[th[t].o].ref + 1]
    BY <1>7 DEF OpenGet, IoctlGet, MmapGet
  <2> QED BY <1>5, <2>1
<1>8. CASE ProbeRef(t) \/ CreateRef(t)
  BY <1>5, <1>8 DEF ProbeRef, CreateRef
<1>9. ASSUME NEW cs, Keep(cs) PROVE SameParts
  <2>1. dev' = [o \in Dev |-> [dev[o] EXCEPT !.ref = dev[o].ref + Count(cs, o)]]
    BY <1>9 DEF Keep
  <2>2. ASSUME NEW o \in Dev
        PROVE  dev'[o].pdev = dev[o].pdev /\ dev'[o].ctrls = dev[o].ctrls
    <3>1. PICK n : n = dev[o].ref + Count(cs, o)
      OBVIOUS
    <3>2. dev'[o] = [dev[o] EXCEPT !.ref = n]
      BY <2>1, <3>1
    <3> QED BY <1>2, <3>2 DEF DevRec
  <2> QED BY <2>2 DEF SameParts
<1>10. CASE MmapCtrl(t) \/ MmapGroup(t) \/ IoctlMaps(t)
  <2>1. dev' = dev \/ \E cs : Keep(cs)
    BY <1>10, Zenon DEF MmapCtrl, MmapGroup, IoctlMaps
  <2> QED BY <1>3, <1>9, <2>1
<1>11. CASE RelDev(t)
  <2>1. dev' = [dev EXCEPT ![th[t].o].shown = FALSE, ![th[t].o].cdev = FALSE]
    BY <1>11 DEF RelDev
  <2> QED BY <1>1, <2>1 DEF SameParts, DevRec
<1>12. CASE RelFree(t) \/ CreateUndone(t)
  <2>1. dev' = [dev EXCEPT ![th[t].o].heap = "freed"]
    BY <1>12 DEF RelFree, CreateUndone
  <2> QED BY <1>1, <2>1 DEF SameParts, DevRec
<1>13. CASE RelGroupDev(t)
  <2>1. dev' = [dev EXCEPT ![th[t].o].shown = FALSE]
    BY <1>13 DEF RelGroupDev
  <2> QED BY <1>1, <2>1 DEF SameParts, DevRec
<1>14. CASE \/ RelGroupFree(t) \/ ProbeRegionFails(t) \/ ProbeAddFails(t) \/ ProbeDevFails(t)
  <2>1. dev' = [dev EXCEPT ![th[t].o].heap = "freed", ![th[t].o].cdev = FALSE]
    BY <1>14, Zenon DEF RelGroupFree, ProbeRegionFails, ProbeAddFails, ProbeDevFails, ProbeUndo
  <2> QED BY <1>1, <2>1 DEF SameParts, DevRec
<1>15. CASE ProbeAdd(t) \/ CreateAdd(t)
  <2>1. PICK n : dev' = [dev EXCEPT ![th[t].o].minor = n, ![th[t].o].cdev = TRUE]
    BY <1>15 DEF ProbeAdd, CreateAdd
  <2> QED BY <1>1, <2>1 DEF SameParts, DevRec
<1>16. CASE ProbeDev(t) \/ CreateDev(t)
  <2>1. dev' = [dev EXCEPT ![th[t].o].shown = TRUE]
    BY <1>16 DEF ProbeDev, CreateDev
  <2> QED BY <1>1, <2>1 DEF SameParts, DevRec
<1>17. CASE CreateDevFails(t)
  <2>1. dev' = [dev EXCEPT ![th[t].o].cdev = FALSE]
    BY <1>17 DEF CreateDevFails
  <2> QED BY <1>1, <2>1 DEF SameParts, DevRec
<1> QED BY <1>4, <1>6, <1>7, <1>8, <1>10, <1>11, <1>12, <1>13, <1>14, <1>15, <1>16, <1>17
     DEF Step

(* A call goes on to its next step with the object it has. *)
Goes(t) ==
  /\ th'[t].op = th[t].op /\ th'[t].p = th[t].p /\ th'[t].f = th[t].f
  /\ th'[t].o = th[t].o /\ th'[t].left = th[t].left
  /\ th[t].pc \notin {"ret", "put"} /\ th'[t].pc # "ret"
  /\ th'[t].pc \in RelPc => th[t].pc \in RelPc
  /\ th'[t].pc \in RelgPc => th[t].pc \in RelgPc
  /\ th'[t].pc = "put" => th[t].op \in {"create", "open", "ioctl", "mmap"}

(* A release handler comes back. *)
GoesBack(t) ==
  /\ th'[t].op = th[t].op /\ th'[t].p = th[t].p /\ th'[t].f = th[t].f
  /\ th[t].pc \in RelPc \cup RelgPc
  /\ \/ th'[t].pc = "ret" /\ th'[t].o = th[t].o
     \/ th[t].pc \in RelPc /\ th'[t].pc \in {"create_undo", "rel_ctrls"} /\ th[t].op # "remove"

(* The controllers of a group that is not made are put. *)
Reverses(t) ==
  /\ th'[t].op = th[t].op /\ th'[t].p = th[t].p /\ th'[t].f = th[t].f
  /\ th[t].op = "create" /\ th[t].pc \in {"create_get", "create_dev"}
  /\ th'[t].pc = "create_undo" /\ th'[t].o = th[t].o
  /\ th'[t].left = Reverse(dev[th[t].o].ctrls)

(* The ways in which a call goes on. *)
GoesOn(t) ==
  \/ th'[t] = Idle \/ Goes(t) \/ GoesBack(t) \/ Reverses(t)
  \/ PutLast(t) \/ RelGroupCtrl(t) \/ CreateUndo(t) \/ CreateGet(t)

(* Every step of a call is one of these. *)
LEMMA StepGoesOn ==
  ASSUME Inv, NEW t \in Thread, Step(t)
  PROVE  GoesOn(t)
<1>1. /\ Here(t) /\ th \in [Thread -> ThreadRec] /\ th[t] \in ThreadRec
      /\ LocalsOK(th[t]) /\ StackOK(th[t]) /\ dev \in [Dev -> DevRec]
  BY InvHere, HereFacts
<1>2. CASE \/ ReturnLast(t) \/ OpenDone(t) \/ IoctlRegFails(t) \/ MmapCtrl(t) \/ CreateCopy(t)
           \/ CreateUndone(t) \/ ProbeRef(t) \/ ProbeRegionFails(t) \/ ProbeAddFails(t)
           \/ ProbeDevFails(t)
  <2>1. Return(t)
    BY <1>2, Zenon DEF ReturnLast, OpenDone, IoctlRegFails, MmapCtrl, CreateCopy, CreateUndone,
                       ProbeRef, ProbeRegionFails, ProbeAddFails, ProbeDevFails, ProbeUndo
  <2>2. th'[t] = Idle
    BY <1>1, <2>1, ReturnFits
  <2> QED BY <2>2 DEF GoesOn
<1>3. ASSUME NEW a, NEW pc \in Pc, At(t, a), Goto(t, pc), a \notin {"ret", "put"}, pc # "ret",
             pc \in RelPc => a \in RelPc, pc \in RelgPc => a \in RelgPc,
             pc = "put" => th[t].op \in {"create", "open", "ioctl", "mmap"}
      PROVE  GoesOn(t)
  <2>1. /\ th'[t].pc = pc /\ th'[t].o = th[t].o /\ th'[t].op = th[t].op
        /\ th'[t].p = th[t].p /\ th'[t].f = th[t].f /\ th'[t].left = th[t].left
    BY <1>1, <1>3, GotoFacts
  <2>2. Goes(t)
    BY <1>3, <2>1 DEF Goes, At
  <2> QED BY <2>2 DEF GoesOn
<1>4. CASE RelDev(t) \/ RelPci(t) \/ RelGroupDev(t)
  <2>1. \E a \in {"rel_dev", "rel_pci", "relg_dev"}, pc \in {"rel_pci", "rel_free", "rel_ctrls"} :
          At(t, a) /\ Goto(t, pc) /\ (pc \in RelPc <=> a \in RelPc)
    BY <1>4, Zenon DEF RelDev, RelPci, RelGroupDev, Runs, RelPc
  <2> QED BY <1>3, <2>1 DEF Pc, RelPc, RelgPc
<1>5. CASE \/ ProbeRegion(t) \/ ProbeAdd(t) \/ ProbeDev(t) \/ CreateAdd(t) \/ CreateDev(t)
           \/ CreateRef(t) \/ OpenGet(t) \/ IoctlGet(t) \/ MmapGet(t)
  <2>1. \E a \in {"probe_region", "probe_add", "probe_dev", "create_get", "create_dev",
                  "create_ref", "open_get", "ioctl_get", "mmap_get"} :
          \E pc \in {"probe_add", "probe_dev", "probe_ref", "create_dev", "create_ref",
                     "create_copy", "open_ctx", "ioctl_do", "ioctl_map", "mmap_do"} :
            At(t, a) /\ Goto(t, pc)
    BY <1>5, Zenon DEF ProbeRegion, ProbeAdd, ProbeDev, CreateAdd, CreateDev, CreateRef, OpenGet,
                       IoctlGet, MmapGet, Runs
  <2> QED BY <1>3, <2>1 DEF Pc, RelPc, RelgPc
<1>6. CASE \/ CreateCopyFails(t) \/ OpenFails(t) \/ IoctlDone(t) \/ MmapGroup(t)
           \/ IoctlMaps(t) \/ IoctlMapFails(t)
  <2>1. \E a \in {"create_copy", "open_ctx", "ioctl_do", "ioctl_map", "mmap_do"} :
          At(t, a) /\ Goto(t, "put")
    BY <1>6, Zenon DEF CreateCopyFails, OpenFails, IoctlDone, MmapGroup, IoctlMaps, IoctlMapFails,
                       Runs
  <2>2. th[t].op \in {"create", "open", "ioctl", "mmap"}
    BY <1>1, <2>1 DEF LocalsOK, At
  <2>3. "put" \in Pc /\ "put" # "ret" /\ "put" \notin RelPc \cup RelgPc
    BY DEF Pc, RelPc, RelgPc
  <2> QED BY <1>3, <2>1, <2>2, <2>3
<1>7. CASE RelFree(t) \/ RelGroupFree(t)
  <2>1. th[t].pc \in {"rel_free", "rel_ctrls"} /\ Back(t)
    BY <1>7, Zenon DEF RelFree, RelGroupFree, Runs, At
  <2> DEFINE s == Head(th[t].stack)
  <2>2. th[t].stack \in Seq(Frame) /\ th[t].stack # <<>>
    BY <1>1, <2>1 DEF ThreadRec, StackOK, Above, RelPc, RelgPc
  <2>3. s \in Frame /\ Tail(th[t].stack) \in Seq(Frame)
    BY <2>2, Pop
  <2>4. th' = [th EXCEPT ![t].pc = s.pc, ![t].o = s.o, ![t].left = s.left, ![t].stack = Tail(@)]
    BY <2>1 DEF Back
  <2>5. \/ s.pc = "ret" /\ s.o = th[t].o
        \/ /\ th[t].pc = "rel_free" /\ s.pc \in {"create_undo", "rel_ctrls"}
           /\ th[t].op # "remove"
    BY <1>1, <2>1 DEF StackOK, Above, RelPc, RelgPc
  <2> HIDE DEF s
  <2>6. /\ th'[t].pc = s.pc /\ th'[t].o = s.o
        /\ th'[t].op = th[t].op /\ th'[t].p = th[t].p /\ th'[t].f = th[t].f
    BY <1>1, <2>3, <2>4 DEF ThreadRec, Frame
  <2>7. GoesBack(t)
    BY <2>1, <2>5, <2>6 DEF GoesBack, RelPc, RelgPc
  <2> QED BY <2>7 DEF GoesOn
<1>8. CASE CreateAddFails(t) \/ CreateDevFails(t)
  <2>1. th[t].pc \in {"create_get", "create_dev"} /\ CreateUndoes(t)
    BY <1>8, Zenon DEF CreateAddFails, CreateDevFails, Runs, At
  <2> DEFINE s == Reverse(dev[th[t].o].ctrls)
  <2>2. th' = [th EXCEPT ![t].pc = "create_undo", ![t].left = s]
    BY <2>1 DEF CreateUndoes
  <2> HIDE DEF s
  <2>3. /\ th'[t].pc = "create_undo" /\ th'[t].o = th[t].o /\ th'[t].left = s
        /\ th'[t].op = th[t].op /\ th'[t].p = th[t].p /\ th'[t].f = th[t].f
    BY <1>1, <2>2 DEF ThreadRec
  <2>4. th[t].op = "create"
    BY <1>1, <2>1 DEF LocalsOK, CreatePc
  <2>5. Reverses(t)
    BY <2>1, <2>3, <2>4 DEF Reverses, s
  <2> QED BY <2>5 DEF GoesOn
<1> QED BY <1>2, <1>4, <1>5, <1>6, <1>7, <1>8 DEF Step, GoesOn

(* A reference on object o is dropped, and the call goes on at next. *)
Drops(t, o, next, left) ==
  /\ th'[t].op = th[t].op /\ th'[t].p = th[t].p /\ th'[t].f = th[t].f
  /\ o \in Dev /\ dev[o].ref > 0
  /\ dev[o].ref # 1 => th'[t].pc = next /\ th'[t].o = th[t].o /\ th'[t].left = left
  /\ dev[o].ref = 1 => /\ th'[t].pc = IF o \in Ctrl THEN "rel_dev" ELSE "relg_dev"
                       /\ th'[t].o = o /\ th'[t].left = dev[o].ctrls

(* The three places where references are dropped. *)
LEMMA PutDrops ==
  ASSUME Inv, NEW t \in Thread
  PROVE  /\ PutLast(t) => At(t, "put") /\ Drops(t, th[t].o, "ret", <<>>)
         /\ RelGroupCtrl(t) => /\ At(t, "rel_ctrls") /\ th[t].left # <<>>
                               /\ Drops(t, Head(th[t].left), "rel_ctrls", Tail(th[t].left))
         /\ CreateUndo(t) => /\ At(t, "create_undo") /\ th[t].left # <<>>
                             /\ Drops(t, Head(th[t].left), "create_undo", Tail(th[t].left))
<1>1. Here(t) /\ th[t] \in ThreadRec
  BY InvHere, HereFacts
<1>2. ASSUME NEW o \in Dev, NEW next \in Pc, NEW left \in Seq(Ctrl), Put(t, o, next, left),
             dev[o].ref > 0
      PROVE  Drops(t, o, next, left)
  <2>1. CASE dev[o].ref = 1
    <3>1. /\ th'[t].pc = (IF o \in Ctrl THEN "rel_dev" ELSE "relg_dev")
          /\ th'[t].o = o /\ th'[t].op = th[t].op
          /\ th'[t].p = th[t].p /\ th'[t].f = th[t].f
          /\ th'[t].left = dev[o].ctrls
      BY <1>1, <1>2, <2>1, PutEnd
    <3> QED BY <1>2, <2>1, <3>1 DEF Drops
  <2>2. CASE dev[o].ref # 1
    <3>1. /\ th'[t].pc = next /\ th'[t].o = th[t].o /\ th'[t].op = th[t].op
          /\ th'[t].p = th[t].p /\ th'[t].f = th[t].f /\ th'[t].left = left
      BY <1>1, <1>2, <2>2, PutSome
    <3> QED BY <1>2, <2>2, <3>1 DEF Drops
  <2> QED BY <2>1, <2>2
<1>3. ASSUME PutLast(t) PROVE At(t, "put") /\ Drops(t, th[t].o, "ret", <<>>)
  <2>1. Runs(t, "put") /\ Put(t, th[t].o, "ret", <<>>)
    BY <1>3 DEF PutLast
  <2>2. th[t].o \in Dev /\ dev[th[t].o].ref > 0
    BY <1>1, <2>1, RunsFacts
  <2>3. "ret" \in Pc /\ <<>> \in Seq(Ctrl)
    BY DEF Pc
  <2> QED BY <1>2, <2>1, <2>2, <2>3 DEF Runs
<1>4. ASSUME NEW next \in {"rel_ctrls", "create_undo"}, Runs(t, next), th[t].left # <<>>,
             Put(t, Head(th[t].left), next, Tail(th[t].left))
      PROVE  At(t, next) /\ Drops(t, Head(th[t].left), next, Tail(th[t].left))
  <2>1. Head(th[t].left) \in Dev /\ dev[Head(th[t].left)].ref > 0
    BY <1>1, <1>4, RunsFacts, Consts
  <2>2. next \in Pc /\ Tail(th[t].left) \in Seq(Ctrl)
    BY <1>1, <1>4 DEF Pc, ThreadRec
  <2> QED BY <1>2, <1>4, <2>1, <2>2 DEF Runs
<1> QED BY <1>3, <1>4 DEF RelGroupCtrl, CreateUndo

(* A step ends its call or goes on with it, and leaves the others alone.   *)
LEMMA SameCall ==
  ASSUME Inv, NEW t \in Thread, Step(t)
  PROVE  /\ \A u \in Thread : u # t => th'[u] = th[u]
         /\ \/ th'[t] = Idle
            \/ /\ th'[t].op = th[t].op /\ th'[t].p = th[t].p /\ th'[t].f = th[t].f
               /\ th'[t].op = "delete" => th'[t].pc # "put"
<1>1. Here(t) /\ GoesOn(t) /\ th[t] \in ThreadRec /\ LocalsOK(th[t]) /\ th \in [Thread -> ThreadRec]
  BY InvHere, HereFacts, StepGoesOn
<1>2. \A u \in Thread : u # t => th'[u] = th[u]
  BY StepGood DEF Good, Fits, ThreadFits
<1>3. ASSUME Goes(t) \/ GoesBack(t) \/ Reverses(t)
      PROVE  /\ th'[t].op = th[t].op /\ th'[t].p = th[t].p /\ th'[t].f = th[t].f
             /\ th'[t].op = "delete" => th'[t].pc # "put"
  BY <1>3 DEF Goes, GoesBack, Reverses
<1>4. ASSUME PutLast(t) \/ RelGroupCtrl(t) \/ CreateUndo(t)
      PROVE  /\ th'[t].op = th[t].op /\ th'[t].p = th[t].p /\ th'[t].f = th[t].f
             /\ th'[t].op = "delete" => th'[t].pc # "put"
  <2>1. \E o, next, left : Drops(t, o, next, left) /\ next # "put"
    BY <1>4, PutDrops
  <2> QED BY <2>1 DEF Drops
<1>5. ASSUME CreateGet(t)
      PROVE  /\ th'[t].op = th[t].op /\ th'[t].p = th[t].p /\ th'[t].f = th[t].f
             /\ th'[t].op = "delete" => th'[t].pc # "put"
  <2>1. th[t].pc = "create_get" /\ th' = [th EXCEPT ![t].left = Tail(th[t].left)]
    BY <1>1, <1>5 DEF CreateGet, Runs, At
  <2> QED BY <1>1, <2>1 DEF ThreadRec
<1> QED BY <1>1, <1>2, <1>3, <1>4, <1>5 DEF GoesOn

(* Under the protocol only groups are deleted. *)
LEMMA DeletesKept ==
  ASSUME Inv, Protocol, DeletesOK, [Next]_vars
  PROVE  DeletesOK'
<1>1. ASSUME NEW t \in Thread, Step(t) PROVE DeletesOK'
  <2>1. /\ \A u \in Thread : u # t => th'[u] = th[u]
        /\ th'[t] = Idle \/ (th'[t].op = "delete" => th'[t].pc # "put")
    BY <1>1, SameCall
  <2>2. Idle.op # "delete"
    BY DEF Idle
  <2> QED BY <2>1, <2>2 DEF DeletesOK, At
<1>2. ASSUME th' = th PROVE DeletesOK'
  BY <1>2 DEF DeletesOK, At
<1>3. ASSUME NEW t \in Thread, NEW o, NEW p, NEW f, NEW op, NEW pc, Call(t, o, p, f, op, pc),
             op = "delete" => o \in Group
      PROVE  DeletesOK'
  <2>1. th \in [Thread -> ThreadRec]
    BY HereFacts, InvHere, <1>3
  <2>2. /\ \A u \in Thread : u # t => th'[u] = th[u]
        /\ th'[t] = [Idle EXCEPT !.op = op, !.pc = pc, !.o = o, !.p = p, !.f = f]
    BY <1>3, <2>1 DEF Call
  <2>3. th'[t].op = op /\ th'[t].o = o
    BY <2>2 DEF Idle
  <2> QED BY <1>3, <2>2, <2>3 DEF DeletesOK, At
<1>4. ASSUME NEW t \in Thread, Client(t) PROVE DeletesOK'
  <2>1. ASSUME NEW p \in Pdev, NEW c \in Ctrl, ProbeStart(t, p, c) PROVE DeletesOK'
    <3>1. Call(t, c, p, NULL, "probe", "probe_region")
      BY <2>1 DEF ProbeStart
    <3> QED BY <1>3, <3>1
  <2>2. ASSUME NEW p \in Pdev, RemoveStart(t, p) PROVE DeletesOK'
    <3>1. Call(t, pci[p].drv, p, NULL, "remove", "put")
      BY <2>2 DEF RemoveStart
    <3> QED BY <1>3, <3>1
  <2>3. ASSUME NEW g \in Group, NEW names \in Names, CreateStart(t, g, names) PROVE DeletesOK'
    <3>1. th' = [th EXCEPT ![t] = [Idle EXCEPT !.op = "create", !.pc = "create_get",
                                               !.o = g, !.left = names]]
      BY <2>3 DEF CreateStart
    <3>2. th \in [Thread -> ThreadRec]
      BY HereFacts, InvHere, <1>4
    <3>3. /\ \A u \in Thread : u # t => th'[u] = th[u]
          /\ th'[t].op = "create"
      BY <3>1, <3>2 DEF Idle
    <3> QED BY <3>3 DEF DeletesOK, At
  <2>4. ASSUME NEW g \in Group, CreateMismatch(t, g) PROVE DeletesOK'
    BY <1>2, <2>4 DEF CreateMismatch
  <2>5. ASSUME NEW g \in Group, DeleteStart(t, g) PROVE DeletesOK'
    <3>1. Call(t, g, NULL, NULL, "delete", "put")
      BY <2>5 DEF DeleteStart
    <3> QED BY <1>3, <2>5, <3>1
  <2>6. ASSUME NEW o \in Dev, NEW f \in File, OpenStart(t, o, f) PROVE DeletesOK'
    <3>1. Call(t, o, NULL, f, "open", "open_get")
      BY <2>6 DEF OpenStart
    <3> QED BY <1>3, <3>1
  <2>7. ASSUME NEW f \in File, CloseStart(t, f) \/ IoctlStart(t, f) \/ MmapStart(t, f)
        PROVE  DeletesOK'
    <3>1. \E op \in {"close", "ioctl", "mmap"} : \E pc : Call(t, file[f], NULL, f, op, pc)
      BY <2>7, Zenon DEF CloseStart, IoctlStart, MmapStart, FileCall
    <3> QED BY <1>3, <3>1
  <2>8. ASSUME NEW c \in Ctrl, MunmapStart(t, c) PROVE DeletesOK'
    <3>1. Call(t, c, NULL, NULL, "munmap", "put")
      BY <2>8 DEF MunmapStart
    <3> QED BY <1>3, <3>1
  <2> QED BY <1>4, <2>1, <2>2, <2>3, <2>4, <2>5, <2>6, <2>7, <2>8 DEF Client
<1>5. ASSUME NEW t \in Thread, Oops(t) PROVE DeletesOK'
  BY <1>2, <1>5 DEF Oops
<1>6. ASSUME UNCHANGED vars PROVE DeletesOK'
  BY <1>2, <1>6 DEF vars
<1> QED BY <1>1, <1>4, <1>5, <1>6 DEF Next, Halted

(* The count of a device in use is the number of its holders. *)
LEMMA CountIsExact ==
  ASSUME Inv, Protocol, ProtocolInv, DeletesOK
  PROVE  RefExact
<1> SUFFICES ASSUME NEW o \in Dev
             PROVE  dev[o].ref = Cardinality({o} \cap ready) + Cardinality({f \in File : file[f] = o})
                                 + Cardinality(UNION {Held(g, o) : g \in Group})
                                 + Cardinality(Holders(o)) + kept[o]
  BY DEF RefExact
<1>1. dev[o].ref = Uses(o)
  BY InUse
<1>2. Cardinality({o} \cap ready) = Base(o)
  <2>1. Base(o) = One(o \in ready)
    <3>1. ReadyOK
      BY DEF ProtocolInv
    <3>2. CASE o \in Ctrl
      BY <3>1, <3>2 DEF Base, ReadyOK, One
    <3>3. CASE o \notin Ctrl
      BY <3>3 DEF Base
    <3> QED BY <3>2, <3>3
  <2>2. CASE o \in ready
    <3>1. {o} \cap ready = {o}
      BY <2>2
    <3>2. Cardinality({o} \cap ready) = 1
      BY <3>1, FS_Singleton, Zenon
    <3> QED BY <2>1, <2>2, <3>2 DEF One
  <2>3. CASE o \notin ready
    <3>1. {o} \cap ready = {}
      BY <2>3
    <3>2. Cardinality({o} \cap ready) = 0
      BY <3>1, FS_EmptySet, Zenon
    <3> QED BY <2>1, <2>3, <3>2 DEF One
  <2> QED BY <2>2, <2>3
<1>3. ASSUME NEW g \in Group PROVE Held(g, o) = Places(g, Members[g], o)
  <2>1. Members[g] = IF dev[g].heap # "live" THEN <<>>
                     ELSE IF Undoing(g) = {} THEN dev[g].ctrls
                          ELSE (CHOOSE fr \in Undoing(g) : TRUE).left
    BY DEF Members
  <2>2. CASE dev[g].heap = "live"
    BY <2>1, <2>2 DEF Held, Places
  <2>3. CASE dev[g].heap # "live"
    <3>1. Members[g] = <<>> /\ Held(g, o) = {}
      BY <2>1, <2>3 DEF Held
    <3>2. DOMAIN Members[g] = {}
      BY <3>1
    <3> QED BY <3>1, <3>2 DEF Places
  <2> QED BY <2>2, <2>3
<1>4. DOMAIN Members = Group
  BY DEF Members
<1>5. {Held(g, o) : g \in Group} = {Places(g, Members[g], o) : g \in DOMAIN Members}
  BY <1>3, <1>4
<1>6. Cardinality(UNION {Held(g, o) : g \in Group}) = Total(Members, o)
  BY <1>5, Zenon DEF Total
<1>7. Holders(o) = Puts(o)
  <2>1. ASSUME NEW t \in Thread, o \in Ctrl, th[t].op = "delete", th[t].o = o,
               th[t].pc \in {"put", "open_ctx", "ioctl_do", "ioctl_map", "create_copy",
                             "mmap_do"}
        PROVE  FALSE
    <3>1. LocalsOK(th[t])
      BY InvHere, HereFacts
    <3>2. th[t].pc = "put"
      BY <2>1, <3>1 DEF LocalsOK
    <3> QED BY <2>1, <3>2, Consts DEF DeletesOK, At
  <2> QED BY <2>1 DEF Holders, Puts, IsPut
<1>8. {f \in File : file[f] = o} = FilesOf(o)
  BY DEF FilesOf
<1> QED BY <1>1, <1>2, <1>6, <1>7, <1>8 DEF Uses

(* When devices are named only while they are ready, and only groups are   *)
(* deleted, every count is the number of the holders, whatever calls       *)
(* overlap and whichever steps fail.                                       *)
THEOREM RefAlwaysExact ==
  ASSUME Protocol
  PROVE  Spec => []RefExact
<1>1. Init => DeletesOK
  BY DEF Init, DeletesOK, Idle
<1>2. Inv /\ DeletesOK /\ [Next]_vars => DeletesOK'
  BY DeletesKept
<1>3. Inv /\ ProtocolInv /\ DeletesOK => RefExact
  BY CountIsExact
<1> QED BY <1>1, <1>2, <1>3, Invariance, PTL DEF Spec

(* Every step of a call in flight leaves them alone. *)
LEMMA KeepsParts ==
  ASSUME Inv, NEW t \in Thread, Step(t)
  PROVE  StepKeeps(t)
<1>1. /\ Here(t) /\ dev \in [Dev -> DevRec] /\ th[t] \in ThreadRec
      /\ file \in [File -> Dev \cup {NULL}] /\ LocalsOK(th[t])
  BY InvHere, HereFacts DEF TypeOK
<1>2. ready \subseteq ready'
  BY Zenon DEF Step, PutLast, ReturnLast, RelDev, RelPci, RelFree, RelGroupDev, RelGroupCtrl,
         RelGroupFree, ProbeRegion, ProbeRegionFails, ProbeAdd, ProbeAddFails, ProbeDev,
         ProbeDevFails, ProbeRef, CreateGet, CreateAdd, CreateAddFails, CreateDev, CreateDevFails,
         CreateUndo, CreateUndone, CreateRef, CreateCopy, CreateCopyFails, OpenGet, OpenDone,
         OpenFails, IoctlGet, IoctlDone, IoctlRegFails, IoctlMaps, IoctlMapFails,
         MmapCtrl, MmapGet, MmapGroup
<1>3. file' = file \/ OpenDone(t)
  BY Zenon DEF Step, PutLast, ReturnLast, RelDev, RelPci, RelFree, RelGroupDev, RelGroupCtrl,
         RelGroupFree, ProbeRegion, ProbeRegionFails, ProbeAdd, ProbeAddFails, ProbeDev,
         ProbeDevFails, ProbeRef, CreateGet, CreateAdd, CreateAddFails, CreateDev, CreateDevFails,
         CreateUndo, CreateUndone, CreateRef, CreateCopy, CreateCopyFails, OpenGet,
         OpenFails, IoctlGet, IoctlDone, IoctlRegFails, IoctlMaps, IoctlMapFails,
         MmapCtrl, MmapGet, MmapGroup
<1>4. OpenDone(t) => file' = [file EXCEPT ![th[t].f] = th[t].o]
  BY DEF OpenDone
<1>5. \A f \in File : file'[f] = file[f] \/ (OpenDone(t) /\ f = th[t].f)
  BY <1>1, <1>3, <1>4
<1>6. CASE SameParts
  BY <1>2, <1>5, <1>6 DEF SameParts, StepKeeps
<1>7. CASE CreateGet(t)
  <2>1. /\ th[t].pc = "create_get" /\ th[t].left # <<>>
        /\ LET c == Head(th[t].left)
           IN dev' = [dev EXCEPT ![c].ref = dev[c].ref + 1,
                                 ![th[t].o].ctrls = Append(dev[th[t].o].ctrls, c)]
    <3>1. th[t].left \in Seq(Ctrl) /\ th[t].pc = "create_get" /\ th[t].left # <<>>
      BY <1>1, <1>7 DEF CreateGet, Runs, At, ThreadRec
    <3>2. th[t].o \in Group /\ Head(th[t].left) \in Ctrl
      BY <1>1, <3>1 DEF LocalsOK, GroupPc, CreatePc
    <3>3. th[t].o \in Dev /\ Head(th[t].left) # th[t].o
      BY <3>2, Consts
    <3>4. LET c == Head(th[t].left)
          IN dev' = [dev EXCEPT ![c].ref = @ + 1, ![th[t].o].ctrls = Append(@, c)]
      BY <1>7 DEF CreateGet
    <3> QED BY <1>1, <3>1, <3>2, <3>3, <3>4
  <2>2. PICK n, s : dev' = [dev EXCEPT ![Head(th[t].left)].ref = n, ![th[t].o].ctrls = s]
    BY <2>1
  <2>3. ASSUME NEW o \in Dev
        PROVE  dev'[o].pdev = dev[o].pdev /\ (o # th[t].o => dev'[o].ctrls = dev[o].ctrls)
    <3>1. dev[o] \in DevRec
      BY <1>1
    <3> QED BY <1>1, <2>2, <3>1 DEF DevRec
  <2> QED BY <1>2, <1>5, <1>7, <2>3 DEF StepKeeps
<1> QED BY <1>6, <1>7, StepParts

(* Elements of a list that is still ready. *)
LEMMA ReadyLists ==
  ASSUME NEW s \in Seq(Ctrl), AllReady(s)
  PROVE  /\ AllReady(Reverse(s))
         /\ s # <<>> => Head(s) \in ready /\ AllReady(Tail(s))
<1>1. ASSUME NEW i \in DOMAIN Reverse(s) PROVE Reverse(s)[i] \in ready
  <2>1. DOMAIN Reverse(s) = 1 .. Len(s) /\ Len(s) \in Nat
    BY DEF Reverse
  <2>2. Reverse(s)[i] = s[Len(s) + 1 - i] /\ Len(s) + 1 - i \in 1 .. Len(s)
    BY <1>1, <2>1 DEF Reverse
  <2> QED BY <2>2 DEF AllReady
<1>2. ASSUME s # <<>> PROVE Head(s) \in ready /\ AllReady(Tail(s))
  <2>1. 1 \in DOMAIN s /\ Head(s) = s[1]
    BY <1>2
  <2>2. \A i \in DOMAIN Tail(s) : i + 1 \in DOMAIN s /\ Tail(s)[i] = s[i + 1]
    BY <1>2
  <2> QED BY <2>1, <2>2 DEF AllReady
<1> QED BY <1>1, <1>2 DEF AllReady

(* One more controller that is ready. *)
LEMMA ReadyAppend ==
  ASSUME NEW s \in Seq(Ctrl), NEW c \in Ctrl, AllReady(s), c \in ready
  PROVE  AllReady(Append(s, c))
<1>1. /\ Len(s) \in Nat /\ DOMAIN s = 1 .. Len(s) /\ DOMAIN Append(s, c) = 1 .. (Len(s) + 1)
      /\ \A i \in 1 .. Len(s) : Append(s, c)[i] = s[i]
      /\ Append(s, c)[Len(s) + 1] = c
  OBVIOUS
<1>2. ASSUME NEW i \in DOMAIN Append(s, c) PROVE Append(s, c)[i] \in ready
  <2>1. i \in 1 .. Len(s) \/ i = Len(s) + 1
    BY <1>1, <1>2
  <2> QED BY <1>1, <2>1 DEF AllReady
<1> QED BY <1>2 DEF AllReady

(* The devices of a call stay in use when the call takes a step. *)
LEMMA OwnCall ==
  ASSUME Careful, NEW t \in Thread, Step(t)
  PROVE  CallOK(t)'
<1>1. /\ Inv /\ Here(t) /\ CallOK(t) /\ th[t] \in ThreadRec /\ LocalsOK(th[t]) /\ StackOK(th[t])
      /\ dev \in [Dev -> DevRec] /\ StepKeeps(t) /\ GoesOn(t) /\ th \in [Thread -> ThreadRec]
  <2>1. Inv /\ CallOK(t)
    BY DEF Careful, ContractInv, CallsOK
  <2> QED BY <2>1, InvHere, HereFacts, KeepsParts, StepGoesOn
<1> DEFINE r == th[t]
           n == th'[t]
           Listed(s) == \A i \in DOMAIN s : s[i] \in ready'
<1>2. ready \subseteq ready' /\ \A s : AllReady(s) => Listed(s)
  BY <1>1 DEF StepKeeps, AllReady
<1>3. SUFFICES /\ n.op = "open" => n.pc \notin RelPc \cup RelgPc /\ (n.pc # "ret" => n.o \in ready')
               /\ n.op \in {"ioctl", "mmap"} =>
                    n.pc \notin RelPc \cup RelgPc /\ (n.pc # "ret" => file'[n.f] = n.o)
               /\ n.op = "create" =>
                    /\ n.o \in Group /\ n.pc \notin RelPc
                    /\ n.pc # "ret" => Listed(n.left) /\ Listed(dev'[n.o].ctrls)
               /\ n.op = "remove" /\ n.pc \in {"put"} \cup RelPc => dev'[n.o].pdev = n.p
  BY DEF CallOK, AllReady
<1>4. /\ r.op = "open" => r.pc \notin RelPc \cup RelgPc /\ (r.pc # "ret" => r.o \in ready)
      /\ r.op \in {"ioctl", "mmap"} =>
           r.pc \notin RelPc \cup RelgPc /\ (r.pc # "ret" => file[r.f] = r.o)
      /\ r.op = "create" =>
           /\ r.o \in Group /\ r.pc \notin RelPc
           /\ r.pc # "ret" => AllReady(r.left) /\ AllReady(dev[r.o].ctrls)
      /\ r.op = "remove" /\ r.pc \in {"put"} \cup RelPc => dev[r.o].pdev = r.p
  BY <1>1 DEF CallOK
<1>5. r.op \in {"ioctl", "mmap"} => r.f \in File /\ file'[r.f] = file[r.f]
  <2>1. r.op \in {"ioctl", "mmap"} => r.f \in File /\ ~OpenDone(t)
    BY <1>1 DEF LocalsOK, ThreadRec, OpenDone, Runs, At
  <2> QED BY <1>1, <2>1 DEF StepKeeps
<1>6. \A o \in Dev : /\ dev'[o].pdev = dev[o].pdev
                     /\ ~CreateGet(t) => dev'[o].ctrls = dev[o].ctrls
  BY <1>1 DEF StepKeeps
<1>7. r.op \in {"create", "remove"} => r.o \in Dev
  BY <1>1, <1>4, Consts DEF LocalsOK
<1>8. CASE n = Idle
  BY <1>8 DEF Idle
<1>9. CASE Goes(t)
  <2>1. /\ n.op = r.op /\ n.p = r.p /\ n.f = r.f /\ n.o = r.o /\ n.left = r.left
        /\ r.pc \notin {"ret", "put"} /\ n.pc # "ret"
        /\ n.pc \in RelPc => r.pc \in RelPc
        /\ n.pc \in RelgPc => r.pc \in RelgPc
        /\ n.pc = "put" => r.op \in {"create", "open", "ioctl", "mmap"}
    BY <1>9 DEF Goes
  <2>2. ~CreateGet(t)
    <3>1. SUFFICES ASSUME CreateGet(t) PROVE FALSE
      OBVIOUS
    <3>2. th' = [th EXCEPT ![t].left = Tail(r.left)] /\ r.left # <<>>
      BY <1>1, <3>1 DEF CreateGet
    <3>3. n.left = Tail(r.left) /\ r.left \in Seq(Ctrl)
      BY <1>1, <3>2 DEF ThreadRec
    <3>4. Len(Tail(r.left)) # Len(r.left)
      BY <3>2, <3>3
    <3> QED BY <2>1, <3>3, <3>4
  <2>3. r.op = "create" => Listed(n.left) /\ Listed(dev'[n.o].ctrls)
    BY <1>2, <1>4, <1>6, <1>7, <2>1, <2>2
  <2> HIDE DEF Listed, n, r
  <2> QED BY <1>2, <1>4, <1>5, <1>6, <1>7, <2>1, <2>3
<1>10. CASE GoesBack(t)
  <2>1. /\ n.op = r.op /\ n.p = r.p /\ n.f = r.f
        /\ r.pc \in RelPc \cup RelgPc
        /\ \/ n.pc = "ret" /\ n.o = r.o
           \/ r.pc \in RelPc /\ n.pc \in {"create_undo", "rel_ctrls"} /\ r.op # "remove"
    BY <1>10 DEF GoesBack
  <2>2. "ret" \notin RelPc \cup RelgPc \cup {"put"}
    BY DEF RelPc, RelgPc
  <2> HIDE DEF Listed, n, r
  <2> QED BY <1>4, <2>1, <2>2
<1>11. CASE Reverses(t)
  <2>1. /\ n.op = r.op /\ n.p = r.p /\ n.f = r.f
        /\ r.op = "create" /\ r.pc \in {"create_get", "create_dev"}
        /\ n.pc = "create_undo" /\ n.o = r.o /\ n.left = Reverse(dev[r.o].ctrls)
    BY <1>11 DEF Reverses
  <2>2. dev[r.o].ctrls \in Seq(Ctrl)
    BY <1>1, <1>7, <2>1 DEF DevRec
  <2>3. AllReady(n.left) /\ AllReady(dev[r.o].ctrls)
    BY <1>4, <2>1, <2>2, ReadyLists
  <2>4. ~CreateGet(t)
    <3>1. SUFFICES ASSUME CreateGet(t) PROVE FALSE
      OBVIOUS
    <3>2. th' = [th EXCEPT ![t].left = Tail(r.left)] /\ r.pc = "create_get"
      BY <1>1, <3>1 DEF CreateGet, Runs, At
    <3>3. n.pc = r.pc
      BY <1>1, <3>2 DEF ThreadRec
    <3> QED BY <2>1, <3>2, <3>3
  <2>5. Listed(n.left) /\ Listed(dev'[n.o].ctrls)
    BY <1>2, <1>6, <1>7, <2>1, <2>3, <2>4
  <2>6. n.pc \notin RelPc
    BY <2>1 DEF RelPc
  <2> HIDE DEF Listed, n, r
  <2> QED BY <1>4, <2>1, <2>5, <2>6
<1>12. CASE PutLast(t)
  <2>1. r.pc = "put" /\ Drops(t, r.o, "ret", <<>>)
    BY <1>1, <1>12, PutDrops DEF At
  <2>2. /\ n.op = r.op /\ n.p = r.p /\ n.f = r.f /\ r.o \in Dev
        /\ dev[r.o].ref # 1 => n.pc = "ret" /\ n.o = r.o
        /\ dev[r.o].ref = 1 => /\ n.pc = IF r.o \in Ctrl THEN "rel_dev" ELSE "relg_dev"
                               /\ n.o = r.o /\ n.left = dev[r.o].ctrls
    BY <2>1 DEF Drops
  <2>3. ~CreateGet(t)
    BY <2>1 DEF CreateGet, Runs, At
  <2>4. r.op \in {"open", "ioctl", "mmap"} => dev[r.o].ref # 1
    BY <2>1, NotLast
  <2>5. r.op = "create" => AllReady(dev[r.o].ctrls) /\ r.o \in Group /\ r.o \notin Ctrl
    BY <1>4, <2>1, Consts
  <2>6. r.op = "create" => Listed(dev[r.o].ctrls) /\ Listed(dev'[r.o].ctrls)
    BY <1>2, <1>6, <2>2, <2>3, <2>5
  <2>7. r.op = "remove" => dev'[r.o].pdev = r.p
    BY <1>4, <1>6, <2>1, <2>2
  <2>8. "ret" \notin RelPc \cup RelgPc \cup {"put"} /\ "relg_dev" \notin RelPc
    BY DEF RelPc, RelgPc
  <2> HIDE DEF Listed, n, r
  <2> QED BY <2>2, <2>4, <2>5, <2>6, <2>7, <2>8
<1>13. CASE RelGroupCtrl(t) \/ CreateUndo(t)
  <2>1. PICK pc \in {"rel_ctrls", "create_undo"} :
          r.pc = pc /\ r.left # <<>> /\ Drops(t, Head(r.left), pc, Tail(r.left))
    BY <1>1, <1>13, PutDrops DEF At
  <2>2. /\ n.op = r.op /\ n.p = r.p /\ n.f = r.f
        /\ dev[Head(r.left)].ref # 1 => n.pc = pc /\ n.o = r.o /\ n.left = Tail(r.left)
    BY <2>1 DEF Drops
  <2>3. r.op \notin {"open", "ioctl", "mmap", "remove"}
    BY <1>1, <1>4, <2>1 DEF LocalsOK, CreatePc, RelPc, RelgPc
  <2>4. ASSUME r.op = "create"
        PROVE  /\ n.pc = pc /\ n.o = r.o /\ n.o \in Group /\ pc \notin RelPc
               /\ Listed(n.left) /\ Listed(dev'[n.o].ctrls)
    <3>1. AllReady(r.left) /\ AllReady(dev[r.o].ctrls) /\ r.left \in Seq(Ctrl)
      BY <1>1, <1>4, <2>1, <2>4 DEF ThreadRec
    <3>2. Head(r.left) \in ready /\ AllReady(Tail(r.left))
      BY <2>1, <3>1, ReadyLists
    <3>3. dev[Head(r.left)].ref # 1
      BY <2>1, <3>2, NotLast
    <3>4. ~CreateGet(t)
      BY <2>1 DEF CreateGet, Runs, At
    <3>5. n.o = r.o /\ n.left = Tail(r.left) /\ n.pc = pc
      BY <2>2, <3>3
    <3>6. Listed(n.left) /\ Listed(dev'[n.o].ctrls)
      BY <1>2, <1>6, <1>7, <2>4, <3>1, <3>2, <3>4, <3>5
    <3> QED BY <1>4, <2>1, <2>4, <3>5, <3>6 DEF RelPc
  <2> HIDE DEF Listed, n, r
  <2> QED BY <2>2, <2>3, <2>4
<1>14. CASE CreateGet(t)
  <2> DEFINE c == Head(r.left)
             s == dev[r.o].ctrls
  <2>1. r.pc = "create_get" /\ r.left # <<>> /\ th' = [th EXCEPT ![t].left = Tail(r.left)]
    BY <1>1, <1>14 DEF CreateGet, Runs, At
  <2>2. r.op = "create" /\ r.left \in Seq(Ctrl) /\ r.o \in Group
    BY <1>1, <2>1 DEF LocalsOK, CreatePc, GroupPc, ThreadRec
  <2>3. n.op = r.op /\ n.pc = r.pc /\ n.o = r.o /\ n.left = Tail(r.left)
    BY <1>1, <2>1 DEF ThreadRec
  <2>4. c \in ready /\ AllReady(Tail(r.left)) /\ AllReady(s) /\ c \in Ctrl /\ s \in Seq(Ctrl)
    <3>1. AllReady(r.left) /\ AllReady(s)
      BY <1>4, <2>1, <2>2
    <3> QED BY <1>1, <1>7, <2>1, <2>2, <3>1, ReadyLists DEF DevRec
  <2>5. dev'[r.o].ctrls = Append(s, c)
    <3>1. r.o \in Dev /\ c \in Dev /\ c # r.o
      BY <2>2, <2>4, Consts
    <3>2. dev' = [dev EXCEPT ![c].ref = @ + 1, ![r.o].ctrls = Append(@, c)]
      BY <1>14 DEF CreateGet
    <3> QED BY <1>1, <3>1, <3>2 DEF DevRec
  <2>6. Listed(Append(s, c))
    <3>1. \A i \in DOMAIN Append(s, c) : Append(s, c)[i] \in ready
      BY <2>4, ReadyAppend DEF AllReady
    <3> QED BY <1>2, <3>1 DEF AllReady
  <2>7. Listed(n.left)
    BY <1>2, <2>3, <2>4
  <2>8. "create_get" \notin RelPc
    BY DEF RelPc
  <2> HIDE DEF Listed, n, r, c, s
  <2> QED BY <2>1, <2>2, <2>3, <2>5, <2>6, <2>7, <2>8
<1> QED BY <1>1, <1>8, <1>9, <1>10, <1>11, <1>12, <1>13, <1>14 DEF GoesOn

(* What a step of another thread leaves of the devices of a call. *)
CallKept(u) ==
  /\ th'[u] = th[u]
  /\ \A o \in Dev : /\ dev[o].heap # "unused" => dev'[o].pdev = dev[o].pdev
                    /\ \/ dev'[o].ctrls = dev[o].ctrls
                       \/ th[u].op # "create" \/ th[u].o # o
  /\ \A f \in File : file'[f] = file[f] \/ th[u].f # f
  /\ th[u].op = "open" => ready \subseteq ready'
  /\ th[u].op = "create" => ready \cap Ctrl \subseteq ready'

(* The devices of a call stay in use when another thread takes a step. *)
LEMMA OtherCall ==
  ASSUME Inv, NEW u \in Thread, CallOK(u), CallKept(u)
  PROVE  CallOK(u)'
<1>1. /\ th[u] \in ThreadRec /\ LocalsOK(th[u])
      /\ \A o \in Dev : dev[o] \in DevRec /\ ObjectOK(dev[o], o)
  BY InvHere, HereFacts
<1> DEFINE r == th[u]
<1>2. ASSUME NEW s \in Seq(Ctrl), r.op = "create", AllReady(s)
      PROVE  \A i \in DOMAIN s : s[i] \in ready'
  <2>1. \A i \in DOMAIN s : s[i] \in Ctrl
    OBVIOUS
  <2> QED BY <1>2, <2>1 DEF CallKept, AllReady
<1>3. r.op = "open" => r.pc \notin RelPc \cup RelgPc /\ (r.pc # "ret" => r.o \in ready')
  BY DEF CallOK, CallKept
<1>4. r.op \in {"ioctl", "mmap"} =>
        r.pc \notin RelPc \cup RelgPc /\ (r.pc # "ret" => file'[r.f] = r.o)
  <2>1. r.op \in {"ioctl", "mmap"} => r.f \in File
    BY <1>1 DEF LocalsOK, ThreadRec
  <2> QED BY <2>1 DEF CallOK, CallKept
<1>5. ASSUME r.op = "create"
      PROVE  /\ r.o \in Group /\ r.pc \notin RelPc
             /\ r.pc # "ret" => /\ \A i \in DOMAIN r.left : r.left[i] \in ready'
                                /\ \A i \in DOMAIN dev'[r.o].ctrls : dev'[r.o].ctrls[i] \in ready'
  <2>1. /\ r.o \in Group /\ r.pc \notin RelPc
        /\ r.pc # "ret" => AllReady(r.left) /\ AllReady(dev[r.o].ctrls)
    BY <1>5 DEF CallOK
  <2>2. r.o \in Dev /\ r.left \in Seq(Ctrl) /\ dev[r.o].ctrls \in Seq(Ctrl)
    BY <1>1, <2>1, Consts DEF ThreadRec, DevRec
  <2>3. dev'[r.o].ctrls = dev[r.o].ctrls
    BY <1>5, <2>2 DEF CallKept
  <2> QED BY <1>2, <1>5, <2>1, <2>2, <2>3
<1>6. r.op = "remove" /\ r.pc \in {"put"} \cup RelPc => dev'[r.o].pdev = r.p
  <2> SUFFICES ASSUME r.op = "remove", r.pc \in {"put"} \cup RelPc PROVE dev'[r.o].pdev = r.p
    OBVIOUS
  <2>1. r.o \in Dev /\ r.p # NULL /\ dev[r.o].pdev = r.p
    BY <1>1, Consts DEF LocalsOK, CallOK
  <2>2. dev[r.o].heap # "unused"
    BY <1>1, <2>1 DEF ObjectOK, Unused
  <2> QED BY <2>1, <2>2 DEF CallKept
<1>7. th'[u] = r
  BY DEF CallKept
<1> HIDE DEF r
<1> QED BY <1>3, <1>4, <1>5, <1>6, <1>7 DEF CallOK, AllReady

(* The devices of all calls stay in use when one of them takes a step. *)
LEMMA CallsStay ==
  ASSUME Careful, NEW t \in Thread, Step(t)
  PROVE  CallsOK' /\ Overlaps'
<1>1. /\ Inv /\ Here(t) /\ StepKeeps(t) /\ th[t] \in ThreadRec /\ LocalsOK(th[t])
      /\ CallsOK /\ Overlaps /\ Creators /\ Opening
  <2>1. Inv /\ CallsOK /\ Overlaps
    BY DEF Careful, ContractInv
  <2> QED BY <2>1, InvHere, HereFacts, KeepsParts
<1>2. /\ \A u \in Thread : u # t => th'[u] = th[u]
      /\ th'[t] = Idle \/ th'[t].op = th[t].op
  BY <1>1, SameCall
<1>3. Overlaps'
  <2>1. Idle.op = "none"
    BY DEF Idle
  <2> QED BY <1>1, <1>2, <2>1 DEF Overlaps
<1>4. ASSUME NEW u \in Thread, u # t PROVE CallOK(u)'
  <2>1. \A f \in File : file'[f] = file[f] \/ th[u].f # f
    <3>1. OpenDone(t) => IsOpening(th[t])
      BY DEF OpenDone, Runs, At, IsOpening
    <3>2. OpenDone(t) => th[u].f # th[t].f
      BY <1>1, <1>4, <3>1 DEF Opening
    <3> QED BY <1>1, <3>2 DEF StepKeeps
  <2>2. ASSUME NEW o \in Dev
        PROVE  dev'[o].ctrls = dev[o].ctrls \/ th[u].op # "create" \/ th[u].o # o
    <3>1. SUFFICES ASSUME CreateGet(t), o = th[t].o, th[u].op = "create", th[u].o = o PROVE FALSE
      BY <1>1, <2>2 DEF StepKeeps
    <3>2. th[t].pc = "create_get"
      BY <3>1 DEF CreateGet, Runs, At
    <3>3. o \in Group /\ th[t].op = "create"
      BY <1>1, <3>1, <3>2 DEF LocalsOK, GroupPc, CreatePc
    <3>4. Makes(th[t], o) /\ Makes(th[u], o)
      BY <3>1, <3>3 DEF Makes
    <3> QED BY <1>1, <1>4, <3>3, <3>4 DEF Creators
  <2>3. CallKept(u)
    BY <1>1, <1>2, <1>4, <2>1, <2>2 DEF CallKept, StepKeeps
  <2> QED BY <1>1, <2>3, OtherCall DEF CallsOK
<1>5. CallOK(t)'
  BY OwnCall
<1>6. \A u \in Thread : CallOK(u)'
  BY <1>4, <1>5
<1> QED BY <1>3, <1>6 DEF CallsOK

(* Thread t begins a call. *)
Begins(t, op) ==
  /\ MayStart(t, op) /\ th'[t].op = op
  /\ \A u \in Thread : u # t => th'[u] = th[u]

(* A call begins: the others keep what they have, and it has what it needs. *)
LEMMA CallsBegin ==
  ASSUME Inv, CallsOK, Overlaps, NEW t \in Thread, NEW op, Begins(t, op),
         \A u \in Thread : u # t => CallKept(u), CallOK(t)'
  PROVE  CallsOK' /\ Overlaps'
<1>1. Overlaps'
  <2>1. \A u \in Thread : u # t /\ th[u].op # "none" =>
          {op, th[u].op} \in Overlap /\ {th[u].op, op} = {op, th[u].op}
    BY DEF Begins, MayStart
  <2> QED BY <2>1 DEF Overlaps, Begins
<1>2. \A u \in Thread : u # t => CallOK(u)'
  BY OtherCall DEF CallsOK
<1>3. \A u \in Thread : CallOK(u)'
  BY <1>2
<1> QED BY <1>1, <1>3 DEF CallsOK

(* What may not be in flight when a device goes away. *)
LEMMA NotBeside ==
  ASSUME Contract, NEW t \in Thread, NEW op, Begins(t, op)
  PROVE  \A u \in Thread \ {t} :
           /\ op = "remove" => th[u].op \notin {"open", "create"}
           /\ op = "delete" => th[u].op \notin {"open", "probe"}
           /\ op = "close" => th[u].op # "probe"
           /\ op = "probe" => th[u].op \notin {"close", "delete"}
<1> SUFFICES ASSUME NEW u \in Thread \ {t}
             PROVE  /\ op = "remove" => th[u].op \notin {"open", "create"}
                    /\ op = "delete" => th[u].op \notin {"open", "probe"}
                    /\ op = "close" => th[u].op # "probe"
                    /\ op = "probe" => th[u].op \notin {"close", "delete"}
  OBVIOUS
<1>1. th[u].op # "none" => {op, th[u].op} \in Overlap
  BY DEF Begins, MayStart
<1>2. \A a, b : {a, b} = {b, a}
  OBVIOUS
<1> QED BY <1>1, <1>2 DEF Contract

(* What the first step of a call does to the devices of other calls. *)
Begun(t, op) ==
  /\ Begins(t, op) /\ th'[t].pc \notin RelPc
  /\ \A o \in Dev : /\ dev[o].heap # "unused" => dev'[o].pdev = dev[o].pdev
                    /\ dev'[o].ctrls = dev[o].ctrls
  /\ \A p \in Pdev : pci[p].master => pci'[p].master
  /\ op = "probe" => pci'[th'[t].p].master
  /\ ready' \subseteq ready
  /\ op \notin {"remove", "delete"} => ready' = ready
  /\ op = "delete" => ready \cap Ctrl \subseteq ready'
  /\ \A f \in File : file'[f] = file[f] \/ FileFree(f)

(* A controller that is ready is bound. *)
LEMMA ReadyFacts ==
  ASSUME Inv, Protocol, ProtocolInv, NEW c \in Ctrl, c \in ready
  PROVE  /\ dev[c].pdev \in Pdev /\ pci[dev[c].pdev].bound /\ pci[dev[c].pdev].drv = c
         /\ PciIdle(dev[c].pdev) /\ dev[c].heap = "live" /\ dev[c].ref \in Nat /\ dev[c].ref >= 1
<1>1. PICK p \in Pdev : pci[p].bound /\ pci[p].drv = c /\ PciIdle(p)
  BY DEF ProtocolInv, ReadyOK, Bound
<1>2. dev[c].pdev = p
  BY <1>1 DEF Inv, Driver
<1>3. c \in Dev /\ dev[c].ref \in Nat /\ dev[c].ref >= 1
  BY InUse, Consts
<1>4. dev[c].heap = "live"
  BY <1>3 DEF Inv, Objects, ObjectOK
<1> QED BY <1>1, <1>2, <1>3, <1>4

(* The devices of all calls stay in use when a call begins. *)
LEMMA BegunKeeps ==
  ASSUME Careful, NEW t \in Thread, NEW op, Begun(t, op), CallOK(t)'
  PROVE  CallsOK' /\ Overlaps' /\ Masters'
<1>1. /\ Inv /\ Contract /\ Protocol /\ ProtocolInv /\ CallsOK /\ Overlaps /\ Masters /\ Begins(t, op)
  BY DEF Careful, ContractInv, Contract, Begun
<1>2. ASSUME NEW u \in Thread, u # t PROVE CallKept(u)
  <2>1. th'[u] = th[u]
    BY <1>1, <1>2 DEF Begins
  <2>2. \A f \in File : file'[f] = file[f] \/ th[u].f # f
    BY DEF Begun, FileFree
  <2>3. th[u].op \in {"open", "create"} => op # "remove"
    BY <1>1, <1>2, NotBeside
  <2>4. th[u].op = "open" => op # "delete"
    BY <1>1, <1>2, NotBeside
  <2>5. th[u].op = "open" => ready \subseteq ready'
    BY <2>3, <2>4 DEF Begun
  <2>6. th[u].op = "create" => ready \cap Ctrl \subseteq ready'
    BY <2>3 DEF Begun
  <2> QED BY <2>1, <2>2, <2>5, <2>6 DEF CallKept, Begun
<1>3. CallsOK' /\ Overlaps'
  BY <1>1, <1>2, CallsBegin
<1>4. \A u \in Thread : u # t => th'[u] = th[u]
  BY <1>1 DEF Begins
<1>5. \A u \in Thread : th[u] \in ThreadRec /\ LocalsOK(th[u]) /\ CtrlStage(th[u])
  BY <1>1, InvHere, HereFacts
<1>6. ASSUME NEW u \in Thread, th'[u].op = "probe" PROVE pci'[th'[u].p].master
  <2>1. CASE u = t
    BY <1>6, <2>1 DEF Begun, Begins
  <2>2. CASE u # t
    <3>1. th[u].op = "probe" /\ th[u].p \in Pdev
      BY <1>4, <1>5, <1>6, <2>2 DEF LocalsOK, ThreadRec
    <3> QED BY <1>1, <1>4, <2>2, <3>1 DEF Masters, Begun
  <2> QED BY <2>1, <2>2
<1>7. ASSUME NEW c \in ready' \cap Ctrl
      PROVE  c \in ready \cap Ctrl /\ dev'[c].pdev = dev[c].pdev /\ dev[c].pdev \in Pdev
  <2>1. c \in ready \cap Ctrl
    BY <1>7 DEF Begun
  <2>2. dev[c].pdev \in Pdev /\ dev[c].heap = "live" /\ c \in Dev
    BY <1>1, <2>1, ReadyFacts, Consts
  <2> QED BY <2>1, <2>2 DEF Begun
<1>8. \A c \in ready' \cap Ctrl : pci'[dev'[c].pdev].master
  BY <1>1, <1>7 DEF Masters, Begun
<1>9. ASSUME NEW c \in ready' \cap Ctrl, NEW u \in Thread, th'[u].pc \in RelPc
      PROVE  dev'[th'[u].o].pdev # dev'[c].pdev
  <2>1. u # t /\ th'[u] = th[u] /\ th[u].pc \in RelPc
    BY <1>4, <1>9 DEF Begun
  <2>2. th[u].o \in Dev /\ dev[th[u].o].heap = "live"
    BY <1>5, <2>1, Consts DEF LocalsOK, CtrlStage, CtrlPc
  <2>3. dev'[th[u].o].pdev = dev[th[u].o].pdev
    BY <2>2 DEF Begun
  <2> QED BY <1>1, <1>7, <2>1, <2>3 DEF Masters
<1>10. Masters'
  BY <1>6, <1>8, <1>9 DEF Masters
<1> QED BY <1>3, <1>10

(* A call that begins and changes no object and no function. *)
LEMMA PlainBegun ==
  ASSUME Inv, NEW t \in Thread, NEW o, NEW p, NEW f, NEW op, NEW pc, MayStart(t, op),
         Call(t, o, p, f, op, pc), dev' = dev, pci' = pci, op # "probe", pc \notin RelPc,
         ready' \subseteq ready, op \notin {"remove", "delete"} => ready' = ready,
         op = "delete" => ready \cap Ctrl \subseteq ready',
         \A h \in File : file'[h] = file[h] \/ FileFree(h)
  PROVE  Begun(t, op)
<1>1. Here(t) /\ th \in [Thread -> ThreadRec]
  BY InvHere, HereFacts
<1>2. th'[t].pc = pc /\ th'[t].op = op
  BY <1>1, CallFields
<1>3. \A u \in Thread : u # t => th'[u] = th[u]
  BY <1>1 DEF Call
<1> QED BY <1>2, <1>3 DEF Begun, Begins

(* The same, for each call that users and the administrator make. *)
LEMMA ClientCalls ==
  ASSUME Careful, NEW t \in Thread, Client(t), \A g \in Group : ~CreateMismatch(t, g)
  PROVE  CallsOK' /\ Overlaps' /\ Masters'
<1>1. /\ Inv /\ Protocol /\ ProtocolInv /\ Here(t) /\ th \in [Thread -> ThreadRec]
      /\ dev \in [Dev -> DevRec] /\ \A o \in Dev : dev[o] \in DevRec /\ ObjectOK(dev[o], o)
      /\ pci \in [Pdev -> PciRec] /\ Driver /\ file \in [File -> Dev \cup {NULL}]
  <2>1. Inv /\ Protocol /\ ProtocolInv
    BY DEF Careful, Contract
  <2>2. pci \in [Pdev -> PciRec] /\ file \in [File -> Dev \cup {NULL}]
    BY <2>1 DEF Inv, TypeOK, PciRec
  <2> QED BY <2>1, <2>2, InvHere, HereFacts
<1>2. ASSUME NEW op, Begun(t, op), CallOK(t)' PROVE CallsOK' /\ Overlaps' /\ Masters'
  BY <1>2, BegunKeeps
<1>3. ASSUME th'[t].op \in {"probe", "delete", "close", "munmap"} PROVE CallOK(t)'
  BY <1>3 DEF CallOK
<1>4. RelPc \cap {"probe_region", "put", "create_get", "open_get", "ioctl_get", "mmap_get", "mmap_do"} = {}
  BY DEF RelPc
<1>5. ASSUME NEW p \in Pdev, NEW c \in Ctrl, ProbeStart(t, p, c)
      PROVE  CallsOK' /\ Overlaps' /\ Masters'
  <2>1. /\ MayStart(t, "probe") /\ dev[c].heap = "unused" /\ c \in Dev
        /\ dev' = [dev EXCEPT ![c].heap = "live", ![c].pdev = p]
        /\ pci' = [pci EXCEPT ![p].master = TRUE, ![p].drv = c]
        /\ Call(t, c, p, NULL, "probe", "probe_region") /\ file' = file /\ ready' = ready
    BY <1>5, Consts DEF ProbeStart
  <2>2. th'[t].pc = "probe_region" /\ th'[t].op = "probe" /\ th'[t].p = p
    BY <1>1, <2>1, CallFields
  <2>3. \A u \in Thread : u # t => th'[u] = th[u]
    BY <1>1, <2>1 DEF Call
  <2>4. \A o \in Dev : /\ dev[o].heap # "unused" => dev'[o].pdev = dev[o].pdev
                       /\ dev'[o].ctrls = dev[o].ctrls
    BY <1>1, <2>1 DEF DevRec
  <2>5. pci'[p].master /\ \A q \in Pdev : pci[q].master => pci'[q].master
    BY <1>1, <2>1 DEF PciRec
  <2>6. Begun(t, "probe")
    BY <1>4, <2>1, <2>2, <2>3, <2>4, <2>5 DEF Begun, Begins
  <2> QED BY <1>2, <1>3, <2>2, <2>6
<1>6. ASSUME NEW p \in Pdev, RemoveStart(t, p) PROVE CallsOK' /\ Overlaps' /\ Masters'
  <2>1. /\ MayStart(t, "remove") /\ pci[p].bound /\ ready' = ready \ {pci[p].drv}
        /\ Call(t, pci[p].drv, p, NULL, "remove", "put")
        /\ pci' = pci /\ dev' = dev /\ file' = file
    BY <1>6 DEF RemoveStart, kernVars
  <2>2. Begun(t, "remove")
    BY <1>1, <1>4, <2>1, PlainBegun
  <2>3. th'[t].op = "remove" /\ th'[t].o = pci[p].drv /\ th'[t].p = p
    BY <1>1, <2>1, CallFields
  <2>4. dev'[th'[t].o].pdev = th'[t].p
    BY <1>1, <2>1, <2>3 DEF Driver
  <2>5. CallOK(t)'
    BY <2>3, <2>4 DEF CallOK
  <2> QED BY <1>2, <2>2, <2>5
<1>7. ASSUME NEW g \in Group, NEW names \in Names, \A i \in DOMAIN names : MayName(names[i]),
             CreateStart(t, g, names)
      PROVE  CallsOK' /\ Overlaps' /\ Masters'
  <2> DEFINE r == [Idle EXCEPT !.op = "create", !.pc = "create_get", !.o = g, !.left = names]
  <2>1. /\ MayStart(t, "create") /\ dev[g].heap = "unused" /\ g \in Dev
        /\ dev' = [dev EXCEPT ![g].heap = "live"] /\ th' = [th EXCEPT ![t] = r]
        /\ pci' = pci /\ file' = file /\ ready' = ready
    BY <1>7, Consts DEF CreateStart
  <2>2. r.pc = "create_get" /\ r.op = "create" /\ r.o = g /\ r.left = names
    BY DEF Idle
  <2> HIDE DEF r
  <2>3. th'[t] = r /\ \A u \in Thread : u # t => th'[u] = th[u]
    BY <1>1, <2>1
  <2>4. \A o \in Dev : dev'[o].pdev = dev[o].pdev /\ dev'[o].ctrls = dev[o].ctrls
    BY <1>1, <2>1 DEF DevRec
  <2>5. Begun(t, "create")
    BY <1>4, <2>1, <2>2, <2>3, <2>4 DEF Begun, Begins
  <2>6. dev'[g].ctrls = <<>>
    BY <1>1, <2>1, <2>4 DEF ObjectOK, Unused
  <2>7. \A i \in DOMAIN names : names[i] \in ready'
    BY <1>1, <1>7, <2>1 DEF MayName
  <2>8. CallOK(t)'
    <3>1. DOMAIN <<>> = {}
      OBVIOUS
    <3> QED BY <1>4, <1>7, <2>2, <2>3, <2>6, <2>7, <3>1 DEF CallOK, AllReady
  <2> QED BY <1>2, <2>5, <2>8
<1>8. ASSUME NEW g \in Group, DeleteStart(t, g) PROVE CallsOK' /\ Overlaps' /\ Masters'
  <2>1. /\ MayStart(t, "delete") /\ ready' = ready \ {g}
        /\ Call(t, g, NULL, NULL, "delete", "put")
        /\ pci' = pci /\ dev' = dev /\ file' = file
    BY <1>8 DEF DeleteStart, kernVars
  <2>2. g \notin Ctrl
    BY <1>8, Consts
  <2>3. Begun(t, "delete")
    BY <1>1, <1>4, <2>1, <2>2, PlainBegun
  <2>4. th'[t].op = "delete"
    BY <1>1, <2>1, CallFields
  <2> QED BY <1>2, <1>3, <2>3, <2>4
<1>9. ASSUME NEW o \in Dev, NEW f \in File, MayName(o), OpenStart(t, o, f)
      PROVE  CallsOK' /\ Overlaps' /\ Masters'
  <2>1. /\ MayStart(t, "open") /\ Call(t, o, NULL, f, "open", "open_get")
        /\ pci' = pci /\ dev' = dev /\ file' = file /\ ready' = ready
    BY <1>9 DEF OpenStart, kernVars
  <2>2. Begun(t, "open")
    BY <1>1, <1>4, <2>1, PlainBegun
  <2>3. th'[t].op = "open" /\ th'[t].o = o /\ th'[t].pc = "open_get"
    BY <1>1, <2>1, CallFields
  <2>4. CallOK(t)'
    BY <1>1, <1>9, <2>1, <2>3 DEF CallOK, MayName, RelPc, RelgPc
  <2> QED BY <1>2, <2>2, <2>4
<1>10. ASSUME NEW f \in File, CloseStart(t, f) PROVE CallsOK' /\ Overlaps' /\ Masters'
  <2>1. /\ MayStart(t, "close") /\ Call(t, file[f], NULL, f, "close", "put") /\ FileFree(f)
        /\ file' = [file EXCEPT ![f] = NULL] /\ pci' = pci /\ dev' = dev /\ ready' = ready
    BY <1>10 DEF CloseStart, kernVars
  <2>2. \A h \in File : file'[h] = file[h] \/ FileFree(h)
    BY <1>1, <2>1
  <2>3. Begun(t, "close")
    BY <1>1, <1>4, <2>1, <2>2, PlainBegun
  <2>4. th'[t].op = "close"
    BY <1>1, <2>1, CallFields
  <2> QED BY <1>2, <1>3, <2>3, <2>4
<1>11. ASSUME NEW f \in File, IoctlStart(t, f) \/ MmapStart(t, f)
       PROVE  CallsOK' /\ Overlaps' /\ Masters'
  <2>1. PICK op \in {"ioctl", "mmap"}, pc \in {"ioctl_get", "mmap_get", "mmap_do"} :
          FileCall(t, f, op, pc)
    BY <1>11 DEF IoctlStart, MmapStart
  <2>2. /\ MayStart(t, op) /\ Call(t, file[f], NULL, f, op, pc)
        /\ pci' = pci /\ dev' = dev /\ file' = file /\ ready' = ready
    BY <2>1 DEF FileCall, kernVars
  <2>3. Begun(t, op)
    BY <1>1, <1>4, <2>1, <2>2, PlainBegun
  <2>4. th'[t].op = op /\ th'[t].o = file[f] /\ th'[t].f = f /\ th'[t].pc = pc
    BY <1>1, <2>2, CallFields
  <2>5. CallOK(t)'
    BY <2>1, <2>2, <2>4 DEF CallOK, RelPc, RelgPc
  <2> QED BY <1>2, <2>3, <2>5
<1>12. ASSUME NEW c \in Ctrl, MunmapStart(t, c) PROVE CallsOK' /\ Overlaps' /\ Masters'
  <2>1. /\ MayStart(t, "munmap") /\ Call(t, c, NULL, NULL, "munmap", "put")
        /\ pci' = pci /\ dev' = dev /\ file' = file /\ ready' = ready
    BY <1>12 DEF MunmapStart, kernVars
  <2>2. Begun(t, "munmap")
    BY <1>1, <1>4, <2>1, PlainBegun
  <2>3. th'[t].op = "munmap"
    BY <1>1, <2>1, CallFields
  <2> QED BY <1>2, <1>3, <2>2, <2>3
<1> QED BY <1>1, <1>5, <1>6, <1>7, <1>8, <1>9, <1>10, <1>11, <1>12 DEF Client

(* The steps that give up a probe. *)
ProbeFails(t) == ProbeRegionFails(t) \/ ProbeAddFails(t) \/ ProbeDevFails(t)

(* Bus mastering is turned off by a release and by a probe that fails, and *)
(* a controller is announced by the end of its probe.                      *)
LEMMA MasterSteps ==
  ASSUME Inv, NEW t \in Thread, Step(t)
  PROVE  /\ \A p \in Pdev : \/ pci[p].master => pci'[p].master
                            \/ RelFree(t) /\ p = dev[th[t].o].pdev
                            \/ ProbeFails(t) /\ p = th[t].p
         /\ \A c \in Ctrl : c \in ready' => c \in ready \/ (ProbeRef(t) /\ c = th[t].o)
<1>1. /\ Here(t) /\ th[t] \in ThreadRec /\ LocalsOK(th[t]) /\ pci \in [Pdev -> PciRec]
  <2>1. pci \in [Pdev -> PciRec]
    BY DEF Inv, TypeOK, PciRec
  <2> QED BY <2>1, InvHere, HereFacts
<1>2. \A p \in Pdev : pci[p] \in PciRec
  BY <1>1
<1>3. ASSUME NEW p \in Pdev
      PROVE  \/ pci[p].master => pci'[p].master
             \/ RelFree(t) /\ p = dev[th[t].o].pdev
             \/ ProbeFails(t) /\ p = th[t].p
  <2>1. CASE ReturnLast(t)
    <3>1. \/ pci' = pci
          \/ pci' = [pci EXCEPT ![th[t].p].bound = FALSE, ![th[t].p].drv = NULL]
      BY <2>1 DEF ReturnLast
    <3> QED BY <1>1, <1>2, <3>1 DEF PciRec
  <2>2. CASE RelPci(t)
    <3>1. PICK q, n : pci' = [pci EXCEPT ![q].enabled = n, ![q].region = NULL]
      BY <2>2 DEF RelPci
    <3> QED BY <1>1, <1>2, <3>1 DEF PciRec
  <2>3. CASE RelFree(t)
    <3>1. pci' = [pci EXCEPT ![dev[th[t].o].pdev].master = FALSE]
      BY <2>3 DEF RelFree
    <3> QED BY <1>1, <2>3, <3>1
  <2>4. CASE ProbeFails(t)
    <3>1. \E a, b : ProbeUndo(t, a, b)
      BY <2>4 DEF ProbeFails, ProbeRegionFails, ProbeAddFails, ProbeDevFails
    <3>2. PICK a, b : pci' = [pci EXCEPT ![th[t].p].drv = NULL, ![th[t].p].master = FALSE,
                                        ![th[t].p].region = a, ![th[t].p].enabled = b]
      BY <3>1 DEF ProbeUndo
    <3> QED BY <1>1, <2>4, <3>2
  <2>5. CASE ProbeRegion(t)
    <3>1. pci' = [pci EXCEPT ![th[t].p].region = th[t].o]
      BY <2>5 DEF ProbeRegion
    <3> QED BY <1>1, <1>2, <3>1 DEF PciRec
  <2>6. CASE ProbeAdd(t)
    <3>1. PICK n : pci' = [pci EXCEPT ![th[t].p].enabled = n]
      BY <2>6 DEF ProbeAdd
    <3> QED BY <1>1, <1>2, <3>1 DEF PciRec
  <2>7. CASE ProbeRef(t)
    <3>1. pci' = [pci EXCEPT ![th[t].p].bound = TRUE]
      BY <2>7 DEF ProbeRef
    <3> QED BY <1>1, <1>2, <3>1 DEF PciRec
  <2>8. ASSUME pci' = pci PROVE pci[p].master => pci'[p].master
    BY <2>8
  <2>9. CASE ~(\/ ReturnLast(t) \/ RelPci(t) \/ RelFree(t) \/ ProbeFails(t) \/ ProbeRegion(t)
               \/ ProbeAdd(t) \/ ProbeRef(t))
    <3>1. pci' = pci
      BY <2>9, Zenon DEF Step, ProbeFails, PutLast, RelDev, RelGroupDev, RelGroupCtrl, RelGroupFree,
           ProbeDev, CreateGet, CreateAdd, CreateAddFails, CreateDev, CreateDevFails, CreateUndo,
           CreateUndone, CreateRef, CreateCopy, CreateCopyFails, OpenGet, OpenDone, OpenFails,
           IoctlGet, IoctlDone, IoctlRegFails, IoctlMaps, IoctlMapFails,
         MmapCtrl, MmapGet, MmapGroup, kernVars
    <3> QED BY <2>8, <3>1
  <2> QED BY <2>1, <2>2, <2>3, <2>4, <2>5, <2>6, <2>7, <2>9
<1>4. ASSUME NEW c \in Ctrl, c \in ready' PROVE c \in ready \/ (ProbeRef(t) /\ c = th[t].o)
  <2>1. ready' = ready \/ ProbeRef(t) \/ CreateCopy(t)
    BY Zenon DEF Step, PutLast, ReturnLast, RelDev, RelPci, RelFree, RelGroupDev, RelGroupCtrl,
         RelGroupFree, ProbeRegion, ProbeRegionFails, ProbeAdd, ProbeAddFails, ProbeDev,
         ProbeDevFails, CreateGet, CreateAdd, CreateAddFails, CreateDev, CreateDevFails,
         CreateUndo, CreateUndone, CreateRef, CreateCopyFails, OpenGet, OpenDone,
         OpenFails, IoctlGet, IoctlDone, IoctlRegFails, IoctlMaps, IoctlMapFails,
         MmapCtrl, MmapGet, MmapGroup
  <2>2. CASE ProbeRef(t)
    BY <1>4, <2>2 DEF ProbeRef
  <2>3. CASE CreateCopy(t)
    <3>1. th[t].pc = "create_copy" /\ ready' = ready \cup {th[t].o}
      BY <2>3 DEF CreateCopy, Runs, At
    <3>2. th[t].o \in Group
      BY <1>1, <3>1 DEF LocalsOK
    <3> QED BY <1>4, <3>1, <3>2, Consts
  <2> QED BY <1>4, <2>1, <2>2, <2>3
<1> QED BY <1>3, <1>4

(* A controller in use has BAR 0 of its function. *)
LEMMA UsedRegion ==
  ASSUME Inv, NEW c \in Ctrl, dev[c].ref > 0
  PROVE  HasRegion(c) /\ pci[dev[c].pdev].region = c
<1>1. c \in Dev /\ dev[c].ref # 0 /\ dev[c].heap = "live"
  <2>1. c \in Dev
    BY Consts
  <2>2. dev[c].ref \in Nat /\ ObjectOK(dev[c], c)
    BY <2>1 DEF Inv, TypeOK, Objects
  <2> QED BY <2>1, <2>2 DEF ObjectOK
<1>2. ASSUME NEW u \in Thread PROVE ~NoRegion(th[u], c)
  <2>1. CtrlStage(th[u])
    BY DEF Inv, Stages
  <2>2. CtrlOf(th[u]) = c => th[u].pc \in CtrlPc /\ th[u].o = c
    BY Consts DEF CtrlOf
  <2> QED BY <1>1, <2>1, <2>2 DEF NoRegion, CtrlStage
<1>3. HasRegion(c)
  BY <1>1, <1>2 DEF HasRegion
<1> QED BY <1>3 DEF Inv, Regions

(* A function that is probed is not that of a controller being released. *)
LEMMA ProbedApart ==
  ASSUME Careful, NEW t \in Thread, NEW u \in Thread, th[t].pc \in RelPc, th[u].op = "probe"
  PROVE  dev[th[t].o].pdev # th[u].p
<1>1. /\ Inv /\ Contract /\ Overlaps /\ CallOK(t) /\ LocalsOK(th[t]) /\ th[t] \in ThreadRec
      /\ Driver /\ LocalsOK(th[u])
  <2>1. Inv /\ Contract /\ Overlaps /\ CallOK(t)
    BY DEF Careful, ContractInv, CallsOK
  <2> QED BY <2>1, InvHere, HereFacts
<1>2. RelPc \cap (ProbePc \cup {"idle", "ret"}) = {}
  BY DEF RelPc, ProbePc
<1>3. th[t].op \in {"close", "delete", "remove", "munmap"}
  <2>1. th[t].op \notin {"open", "ioctl", "mmap", "create"}
    BY <1>1 DEF CallOK
  <2>2. th[t].op \notin {"probe", "none"}
    BY <1>1, <1>2 DEF LocalsOK
  <2> QED BY <1>1, <2>1, <2>2 DEF ThreadRec, Op
<1>4. t # u
  BY <1>3
<1>5. {"probe", th[t].op} \in Overlap
  BY <1>1, <1>3, <1>4 DEF Overlaps
<1>6. th[t].op = "remove"
  BY <1>1, <1>3, <1>5 DEF Contract
<1>7. dev[th[t].o].pdev = th[t].p
  BY <1>1, <1>6 DEF CallOK
<1>8. th[u].p # NULL
  BY <1>1 DEF LocalsOK
<1> QED BY <1>1, <1>4, <1>7, <1>8 DEF Driver

(* A call gets to a release by dropping the last reference. *)
LEMMA RelEnters ==
  ASSUME Careful, NEW t \in Thread, Step(t), th'[t].pc \in RelPc
  PROVE  \/ th[t].pc \in RelPc /\ th'[t].o = th[t].o
         \/ \E d \in Ctrl : dev[d].ref = 1 /\ d \notin ready /\ th'[t].o = d
<1>1. Inv /\ GoesOn(t) /\ th \in [Thread -> ThreadRec] /\ th[t] \in ThreadRec
  <2>1. Inv
    BY DEF Careful
  <2> QED BY <2>1, StepGoesOn, InvHere, HereFacts
<1>2. RelPc \cap {"ret", "rel_ctrls", "create_undo", "create_get", "idle", "relg_dev"} = {}
  BY DEF RelPc
<1>3. ~(th'[t] = Idle \/ GoesBack(t) \/ Reverses(t))
  BY <1>2 DEF Idle, GoesBack, Reverses
<1>4. CASE Goes(t)
  BY <1>4 DEF Goes
<1>5. CASE CreateGet(t)
  <2>1. th[t].pc = "create_get" /\ th' = [th EXCEPT ![t].left = Tail(th[t].left)]
    BY <1>1, <1>5 DEF CreateGet, Runs, At
  <2>2. th'[t].pc = "create_get"
    BY <1>1, <2>1 DEF ThreadRec
  <2> QED BY <1>2, <2>2
<1>6. ASSUME NEW d, NEW next, NEW left, Drops(t, d, next, left), next \notin RelPc,
             d \in ready => dev[d].ref # 1
      PROVE  \E x \in Ctrl : dev[x].ref = 1 /\ x \notin ready /\ th'[t].o = x
  <2>1. dev[d].ref = 1
    BY <1>6 DEF Drops
  <2>2. d \in Ctrl /\ th'[t].o = d
    BY <1>2, <1>6, <2>1 DEF Drops
  <2> QED BY <1>6, <2>1, <2>2
<1>7. CASE PutLast(t)
  <2>1. th[t].pc = "put" /\ Drops(t, th[t].o, "ret", <<>>)
    BY <1>1, <1>7, PutDrops DEF At
  <2>2. th[t].o \in ready => dev[th[t].o].ref # 1
    BY <2>1, NotLast
  <2> QED BY <1>2, <1>6, <2>1, <2>2
<1>8. CASE RelGroupCtrl(t) \/ CreateUndo(t)
  <2>1. PICK pc \in {"rel_ctrls", "create_undo"} :
          /\ th[t].pc = pc /\ th[t].left # <<>>
          /\ Drops(t, Head(th[t].left), pc, Tail(th[t].left))
    BY <1>1, <1>8, PutDrops DEF At
  <2>2. Head(th[t].left) \in ready => dev[Head(th[t].left)].ref # 1
    BY <2>1, NotLast
  <2> QED BY <1>2, <1>6, <2>1, <2>2
<1> QED BY <1>1, <1>3, <1>4, <1>5, <1>7, <1>8 DEF GoesOn

(* Functions that are probed or bound stay bus masters. *)
LEMMA MastersStay ==
  ASSUME Careful, NEW t \in Thread, Step(t)
  PROVE  Masters'
<1>1. /\ Inv /\ Protocol /\ ProtocolInv /\ Masters /\ Driver /\ StepKeeps(t)
      /\ \A u \in Thread : th[u] \in ThreadRec /\ LocalsOK(th[u]) /\ CtrlStage(th[u])
  <2>1. Inv /\ Protocol /\ ProtocolInv /\ Masters
    BY DEF Careful, Contract, ContractInv
  <2> QED BY <2>1, InvHere, HereFacts, KeepsParts
<1>2. /\ \A u \in Thread : u # t => th'[u] = th[u]
      /\ th'[t] = Idle \/ (th'[t].op = th[t].op /\ th'[t].p = th[t].p)
  BY <1>1, SameCall
<1>3. /\ \A p \in Pdev : \/ pci[p].master => pci'[p].master
                         \/ RelFree(t) /\ p = dev[th[t].o].pdev
                         \/ ProbeFails(t) /\ p = th[t].p
      /\ \A c \in Ctrl : c \in ready' => c \in ready \/ (ProbeRef(t) /\ c = th[t].o)
  BY <1>1, MasterSteps
<1>4. \A o \in Dev : dev'[o].pdev = dev[o].pdev
  BY <1>1 DEF StepKeeps
<1>5. RelFree(t) => th[t].pc \in RelPc
  BY DEF RelFree, Runs, At, RelPc
<1>6. ProbeFails(t) \/ ProbeRef(t) => th[t].op = "probe" /\ th[t].pc \in ProbePc
  <2>1. ProbeFails(t) \/ ProbeRef(t) => th[t].pc \in ProbePc
    BY Zenon DEF ProbeFails, ProbeRegionFails, ProbeAddFails, ProbeDevFails, ProbeRef, Runs, At,
       ProbePc
  <2> QED BY <1>1, <2>1 DEF LocalsOK
<1>7. ProbeFails(t) \/ ProbeRef(t) => th'[t] = Idle
  <2>1. ProbeFails(t) \/ ProbeRef(t) => Return(t)
    BY Zenon DEF ProbeFails, ProbeRegionFails, ProbeAddFails, ProbeDevFails, ProbeRef, ProbeUndo
  <2> QED BY <1>1, <2>1, InvHere, ReturnFits
<1>8. Idle.op = "none" /\ Idle.pc \notin RelPc
  BY DEF Idle, RelPc
<1>9. ASSUME NEW u \in Thread, th'[u].op = "probe" PROVE pci'[th'[u].p].master
  <2>1. th[u].op = "probe" /\ th'[u].p = th[u].p
    BY <1>2, <1>8, <1>9
  <2>2. th[u].p \in Pdev /\ th[u].p # NULL
    BY <1>1, <2>1 DEF LocalsOK, ThreadRec
  <2>3. pci[th[u].p].master
    BY <1>1, <2>1 DEF Masters
  <2>4. ~(RelFree(t) /\ th[u].p = dev[th[t].o].pdev)
    BY <1>5, <2>1, ProbedApart
  <2>5. ProbeFails(t) => u # t
    BY <1>7, <1>8, <1>9
  <2>6. ~(ProbeFails(t) /\ th[u].p = th[t].p)
    BY <1>1, <2>2, <2>5 DEF Driver
  <2> QED BY <1>3, <2>1, <2>2, <2>3, <2>4, <2>6
<1>10. ASSUME NEW c \in ready \cap Ctrl
       PROVE  c \in Dev /\ dev[c].pdev \in Pdev /\ pci'[dev[c].pdev].master
  <2>1. dev[c].pdev \in Pdev /\ PciIdle(dev[c].pdev) /\ c \in Dev
    BY <1>1, <1>10, ReadyFacts, Consts
  <2>2. pci[dev[c].pdev].master
    BY <1>1, <1>10 DEF Masters
  <2>3. ~(RelFree(t) /\ dev[c].pdev = dev[th[t].o].pdev)
    BY <1>1, <1>5, <1>10 DEF Masters
  <2>4. dev[c].pdev # th[t].p
    BY <2>1 DEF PciIdle
  <2> QED BY <1>3, <2>1, <2>2, <2>3, <2>4
<1>11. ASSUME NEW c \in Ctrl, ProbeRef(t), c = th[t].o
       PROVE  /\ c \in Dev /\ dev[c].pdev = th[t].p /\ dev[c].pdev \in Pdev
              /\ pci'[dev[c].pdev].master
  <2>1. c \in Dev /\ dev[c].pdev = th[t].p /\ th[t].op = "probe"
    BY <1>1, <1>6, <1>11, Consts DEF CtrlStage, CtrlPc
  <2>2. th[t].p \in Pdev /\ pci[th[t].p].master
    BY <1>1, <2>1 DEF LocalsOK, ThreadRec, Masters
  <2>3. ~RelFree(t) /\ ~ProbeFails(t)
    BY <1>11, Zenon
       DEF ProbeRef, RelFree, ProbeFails, ProbeRegionFails, ProbeAddFails, ProbeDevFails,
                        Runs, At
  <2> QED BY <1>3, <2>1, <2>2, <2>3
<1>12. \A c \in ready' \cap Ctrl : pci'[dev'[c].pdev].master
  BY <1>3, <1>4, <1>10, <1>11
<1>13. ASSUME NEW c \in ready' \cap Ctrl, NEW u \in Thread, th[u].pc \in RelPc
       PROVE  dev[th[u].o].pdev # dev[c].pdev
  <2>1. CASE c \in ready
    BY <1>1, <1>13, <2>1 DEF Masters
  <2>2. CASE c \notin ready
    <3>1. ProbeRef(t) /\ c = th[t].o
      BY <1>3, <1>13, <2>2
    <3>2. dev[c].pdev = th[t].p /\ th[t].op = "probe"
      BY <1>6, <1>11, <3>1, <1>13
    <3> QED BY <1>13, <3>2, ProbedApart
  <2> QED BY <2>1, <2>2
<1>14. ASSUME NEW d \in Ctrl, dev[d].ref = 1, d \notin ready, th'[t].o = d, th'[t].pc \in RelPc,
              NEW c \in ready' \cap Ctrl
       PROVE  dev[d].pdev # dev[c].pdev
  <2>1. c \in ready
    BY <1>3, <1>7, <1>8, <1>14
  <2>2. dev[c].ref > 0
    BY <1>1, <1>14, <2>1, ReadyFacts
  <2>3. pci[dev[c].pdev].region = c /\ pci[dev[d].pdev].region = d
    BY <1>1, <1>14, <2>2, UsedRegion
  <2> QED BY <1>14, <2>1, <2>3
<1>15. ASSUME NEW c \in ready' \cap Ctrl, NEW u \in Thread, th'[u].pc \in RelPc
       PROVE  dev'[th'[u].o].pdev # dev'[c].pdev
  <2>1. c \in Dev /\ dev'[c].pdev = dev[c].pdev
    BY <1>4, Consts
  <2>2. CASE th[u].pc \in RelPc /\ th'[u].o = th[u].o
    <3>1. th[u].o \in Dev
      BY <1>1, <2>2, Consts DEF LocalsOK, CtrlPc
    <3> QED BY <1>4, <1>13, <1>15, <2>1, <2>2, <3>1
  <2>3. CASE u = t /\ ~(th[u].pc \in RelPc /\ th'[u].o = th[u].o)
    <3>1. PICK d \in Ctrl : dev[d].ref = 1 /\ d \notin ready /\ th'[t].o = d
      BY <1>15, <2>3, RelEnters
    <3>2. d \in Dev /\ dev'[d].pdev = dev[d].pdev
      BY <1>4, Consts
    <3> QED BY <1>14, <1>15, <2>1, <2>3, <3>1, <3>2
  <2> QED BY <1>2, <1>15, <2>2, <2>3
<1> QED BY <1>9, <1>12, <1>15 DEF Masters

(* Under the contract every step keeps what the contract keeps, and none   *)
(* is a fault.                                                             *)
LEMMA ContractNext ==
  ASSUME Careful, NoFault, [Next]_vars
  PROVE  ContractInv' /\ NoFault'
<1>1. Inv /\ Protocol /\ DeletesOK /\ Overlaps /\ CallsOK /\ Masters
  BY DEF Careful, Contract, ContractInv
<1>2. DeletesOK'
  BY <1>1, DeletesKept
<1>3. ASSUME NEW t \in Thread, Step(t) PROVE CallsOK' /\ Overlaps' /\ Masters' /\ NoFault'
  <2>1. fault' = fault
    BY <1>3, Zenon
       DEF Step, PutLast, ReturnLast, RelDev, RelPci, RelFree, RelGroupDev, RelGroupCtrl,
         RelGroupFree, ProbeRegion, ProbeRegionFails, ProbeAdd, ProbeAddFails, ProbeDev,
         ProbeDevFails, ProbeRef, CreateGet, CreateAdd, CreateAddFails, CreateDev, CreateDevFails,
         CreateUndo, CreateUndone, CreateRef, CreateCopy, CreateCopyFails, OpenGet, OpenDone,
         OpenFails, IoctlGet, IoctlDone, IoctlRegFails, IoctlMaps, IoctlMapFails,
         MmapCtrl, MmapGet, MmapGroup
  <2> QED BY <1>3, <2>1, CallsStay, MastersStay DEF NoFault
<1>4. ASSUME NEW t \in Thread, Client(t), \A g \in Group : ~CreateMismatch(t, g)
      PROVE  CallsOK' /\ Overlaps' /\ Masters' /\ NoFault'
  <2>1. fault' = fault
    BY <1>4, Zenon
       DEF Client, ProbeStart, RemoveStart, CreateStart, DeleteStart, OpenStart, CloseStart,
         IoctlStart, MmapStart, FileCall, MunmapStart
  <2> QED BY <1>4, <2>1, ClientCalls DEF NoFault
<1>5. ASSUME UNCHANGED <<pci, dev, file, ready, th>>, fault' = fault
      PROVE  CallsOK' /\ Overlaps' /\ Masters' /\ NoFault'
  <2>1. pci' = pci /\ dev' = dev /\ file' = file /\ ready' = ready /\ th' = th
    BY <1>5
  <2>2. \A u \in Thread : CallOK(u)'
    BY <1>1, <2>1 DEF CallsOK, CallOK, AllReady
  <2>3. Overlaps' /\ Masters'
    BY <1>1, <2>1 DEF Overlaps, Masters
  <2> QED BY <1>5, <2>2, <2>3 DEF CallsOK, NoFault
<1>6. ASSUME NEW t \in Thread, NEW g \in Group, CreateMismatch(t, g)
      PROVE  CallsOK' /\ Overlaps' /\ Masters' /\ NoFault'
  BY <1>5, <1>6 DEF CreateMismatch
<1>7. ASSUME NEW t \in Thread PROVE ~Oops(t)
  BY NoOops DEF Oops
<1>8. ASSUME UNCHANGED vars PROVE CallsOK' /\ Overlaps' /\ Masters' /\ NoFault'
  BY <1>5, <1>8 DEF vars, kernVars
<1>9. CallsOK' /\ Overlaps' /\ Masters' /\ NoFault'
  BY <1>3, <1>4, <1>6, <1>7, <1>8 DEF Next, Halted
<1> QED BY <1>2, <1>9 DEF ContractInv

(* Nobody calls at the beginning. *)
LEMMA ContractInit ==
  ASSUME Init
  PROVE  ContractInv /\ NoFault
<1>1. ready = {} /\ fault = "none" /\ \A t \in Thread : th[t] = Idle
  BY DEF Init
<1>2. Idle.op = "none" /\ Idle.pc = "idle"
  BY DEF Idle
<1>3. DeletesOK /\ Overlaps /\ CallsOK
  BY <1>1, <1>2 DEF DeletesOK, Overlaps, CallsOK, CallOK
<1>4. Masters
  BY <1>1, <1>2 DEF Masters
<1> QED BY <1>1, <1>3, <1>4 DEF ContractInv, NoFault

(* Under the contract the devices that calls use stay in use.              *)
LEMMA ContractHolds ==
  ASSUME Contract
  PROVE  Spec => [](Careful /\ NoFault)
<1>1. Init => ContractInv /\ NoFault
  BY ContractInit
<1>2. Inv /\ ProtocolInv /\ ContractInv => Careful
  BY DEF Careful
<1>3. Careful /\ NoFault /\ [Next]_vars => ContractInv' /\ NoFault'
  BY ContractNext
<1> QED BY <1>1, <1>2, <1>3, Invariance, PTL DEF Spec

(* When devices are named only while they are ready, and opens, creations  *)
(* and probes do not overlap the calls that may take their devices away,   *)
(* the munmap of a range with DMA mappings among them, no call touches a   *)
(* freed controller or group, takes a reference from one that is being     *)
(* released, or takes one for the other.                                   *)
THEOREM NeverFaults ==
  ASSUME Contract
  PROVE  Spec => []NoFault
BY ContractHolds, PTL

(* Under the same contract the late release of an earlier controller, by   *)
(* the last close, DELETE_GROUP or munmap that used it, never takes BAR 0, *)
(* the enable count or bus mastering from a bound function.                *)
THEOREM BoundAlwaysUsable ==
  ASSUME Contract
  PROVE  Spec => []BoundIsUsable
<1>1. Careful => BoundIsUsable
  <2> SUFFICES ASSUME Careful, NEW c \in Ctrl \cap ready
               PROVE  LET p == pci[dev[c].pdev]
                      IN p.bound /\ p.drv = c /\ p.region = c /\ p.enabled = 1 /\ p.master
    BY DEF BoundIsUsable
  <2>1. Inv /\ Protocol /\ ProtocolInv /\ Masters /\ Regions /\ c \in Ctrl /\ c \in ready
    BY DEF Careful, Contract, ContractInv, Inv
  <2>2. /\ dev[c].pdev \in Pdev /\ pci[dev[c].pdev].bound /\ pci[dev[c].pdev].drv = c
        /\ dev[c].ref > 0
    BY <2>1, ReadyFacts
  <2>3. pci[dev[c].pdev].region = c
    BY <2>1, <2>2, UsedRegion
  <2>4. c \in Dev /\ c # NULL /\ ObjectOK(dev[c], c)
    BY <2>1, Consts DEF Inv, Objects
  <2>5. pci[dev[c].pdev].enabled = 1
    BY <2>1, <2>2, <2>3, <2>4 DEF Regions, ObjectOK
  <2>6. pci[dev[c].pdev].master
    BY <2>1 DEF Masters
  <2> QED BY <2>2, <2>3, <2>5, <2>6
<1> QED BY <1>1, ContractHolds, PTL

=============================================================================
