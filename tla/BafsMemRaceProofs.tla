------------------------ MODULE BafsMemRaceProofs -------------------------
(***************************************************************************)
(* Proofs about BafsMem for a process that keeps to the protocol and lets  *)
(* some pairs of calls not overlap.  Each theorem names the pairs it needs *)
(* apart; all others, and the GPU callback, may interleave as they like.   *)
(*                                                                         *)
(* The invariant RaceInv says which registration every handle, vma and     *)
(* call in flight names, and how much of a registration's count belongs to *)
(* neither a DMA mapping nor a call: one reference while a handle, a vma   *)
(* or an mmap or munmap in flight stands for it, and none or one after.    *)
(* The invariants after it need more pairs apart: OwnInv says who owns     *)
(* that one reference, MapInv which registration a DMA_MAP_MEM works on    *)
(* and who releases one, EndInv what is left for a closing file to sweep.  *)
(* With all of them BafsMem implements BafsMemAbs (MemRefinement).         *)
(***************************************************************************)
EXTENDS BafsMemProofs

USE ConstantsAssumption

----------------------------------------------------------------------------
(* A process that follows the protocol.  Two calls of the driver race: the *)
(* sweep of a closing file takes a registration that another thread has    *)
(* just been given the handle of, or is about to pin.                      *)

Races == Protocol /\ {"reg", "close"} \notin Overlap /\ {"pin", "close"} \notin Overlap

(* bafs_mem_xa and mem_list hold the same registrations. *)
XaOK ==
  /\ \A i \in Id : memXa[i] # NULL => memXa[i] \in memList /\ mem[memXa[i]].id = i
  /\ \A m \in memList : memXa[mem[m].id] = m

(* A registration nobody has pinned, or looked up, yet. *)
Blank(m) ==
  /\ mem[m].state = "STALE" /\ mem[m].vaddr = NULL
  /\ ~mem[m].table /\ mem[m].dmas = {} /\ cb[m] = "idle"

Fresh ==
  \A m \in Mem :
    mem[m].heap = "unused" \/ (\E t \in Thread : th[t].op = "reg" /\ th[t].m = m) => Blank(m)

(* A handle in the process's hands names a registration that no call works *)
(* on and that is mapped nowhere.                                          *)
IsKnown(m) == \E h \in known : memXa[h - 1] = m

Unpinned == {"STALE", "DEAD_CB"}
Pinned == {"LIVE", "DEAD_CB"}
PinPc == {"pin_get", "pin_do"}
TakenPc == PinPc \cup {"unmap_do", "unmap_put", "reg_copy", "reg_erase"}

Nowhere(m) == \A a \in Addr : vma[a].m # m

Waits(m) ==
  /\ mem[m].state \in Unpinned /\ Nowhere(m)
  /\ \A t \in Thread : th[t].m = m => th[t].pc \notin TakenPc

KnownOK ==
  /\ \A h \in known : memXa[h - 1] \in Mem
  /\ \A m \in Mem : IsKnown(m) => Waits(m)

(* A pin works on a registration and at an address that nobody else uses. *)
PinsOK ==
  /\ \A t \in Thread : th[t].pc \in PinPc =>
       /\ th[t].m \in memList /\ mem[th[t].m].state \in Unpinned
       /\ th[t].a \in Addr /\ vma[th[t].a] = NoVma
       /\ \A a \in Addr : vma[a].m # th[t].m
       /\ \A n \in memList : mem[n].state = "STALE" /\ n # th[t].m => mem[n].vaddr # th[t].a
  /\ \A t \in Thread : th[t].pc = "pin_put" =>
       /\ th[t].m \in memList
       /\ \/ \E h \in known : memXa[h - 1] = th[t].m
          \/ \E a \in Addr : vma[a].m = th[t].m

(* A vma maps a listed registration that was pinned at its address. *)
VmasOK ==
  \A a \in Addr : vma[a].m # NULL =>
    /\ vma[a].m \in memList
    /\ mem[vma[a].m].state \in Pinned /\ mem[vma[a].m].vaddr = a

(* An unmap takes away the vma's registration, and the last put finds it   *)
(* in the list.                                                            *)
UnmapsOK ==
  /\ \A t \in Thread : th[t].pc = "unmap_do" => th[t].a \in Addr /\ vma[th[t].a].m = th[t].m
  /\ \A t \in Thread : th[t].pc = "unmap_put" =>
       /\ th[t].m \in memList /\ mem[th[t].m].state \in Pinned
       /\ \A a \in Addr : vma[a].m # th[t].m
  /\ \A t \in Thread : th[t].pc = "rel_unlink" => th[t].m \in memList

(* Only a lookup comes across a registration that REG_MEM still works on. *)
RegPc == {"reg_copy", "reg_erase"}

RegsOK ==
  \A t \in Thread : th[t].pc \in RegPc =>
    /\ th[t].m \in memList
    /\ \A u \in Thread : th[u].m = th[t].m => u = t \/ th[u].pc \in WalkPc

MapAddrs == \A t \in Thread : th[t].op = "map" => th[t].a \in Addr

NameInv ==
  XaOK /\ Fresh /\ KnownOK /\ PinsOK /\ VmasOK /\ UnmapsOK /\ RegsOK /\ MapAddrs

(* A live registration has a page table when, and only when, it is LIVE. *)
Tables == \A m \in Mem : mem[m].heap = "live" => (mem[m].table <=> mem[m].state = "LIVE")

(* A callback that may still run finds its registration. *)
Callbacks ==
  \A m \in Mem :
    /\ cb[m] # "idle" => mem[m].loc = "CUDA"
    /\ cb[m] = "armed" => mem[m].heap = "live" /\ mem[m].state = "LIVE"
    /\ cb[m] = "spinning" => mem[m].heap \in {"live", "limbo"}

(* The reference kref_init made is still there, and will be dropped. *)
Token(m) ==
  \/ mem[m].state = "STALE"
  \/ mem[m].heap # "live"
  \/ IsKnown(m)
  \/ \E t \in Thread : th[t].pc \in PinPc \cup {"unmap_put"} /\ th[t].m = m
  \/ \E a \in Addr : vma[a].m = m

(* References of m that neither a DMA mapping nor a call holds. *)
Slack(m) == mem[m].ref - Cardinality(mem[m].dmas) - Cardinality(Holders(m))

Refs ==
  \A m \in Mem : mem[m].heap # "unused" /\ mem[m].state # "DEAD" =>
    Slack(m) \in {0, 1} /\ (Token(m) => Slack(m) = 1)

(* Nothing uses the page table of a registration that was released. *)
Held == \A m \in Mem : mem[m].table /\ mem[m].heap # "live" => mem[m].dmas = {} /\ Holders(m) = {}

(* What a mapping reaches still has its page table. *)
NoCbMap == {"cb", "map"} \notin Overlap

Mapped ==
  /\ \A d \in Dma : dma[d].mapped => dma[d].heap # "unused"
  /\ \A d \in Dma, m \in Mem :
       dma[d].mapped /\ dma[d].mem = m /\ (mem[m].loc = "CPU" \/ NoCbMap) =>
         dma[d].heap = "live" /\ mem[m].heap = "live" /\ mem[m].table

CbMaps ==
  NoCbMap => \A t \in Thread, m \in Mem :
    th[t].op = "map" /\ cb[m] = "spinning" /\ mem[m].heap = "live" => mem[m].state # "LIVE"

CountInv == Tables /\ Callbacks /\ Refs /\ Held /\ Mapped /\ CbMaps

RaceInv == NameInv /\ CountInv

----------------------------------------------------------------------------
(* Steps that leave what a conjunct speaks of alone. *)
StateKept(m) ==
  /\ mem[m].state \in Unpinned => mem'[m].state \in Unpinned
  /\ mem[m].state \in Pinned => mem'[m].state \in Pinned
  /\ mem'[m].state = "STALE" => mem[m].state = "STALE"

Plain(m) == StateKept(m) /\ mem'[m].vaddr = mem[m].vaddr

BlankKept(m) ==
  /\ mem'[m].heap = "unused" => mem[m].heap = "unused"
  /\ Blank(m) => Blank(m)'

HandlesKept(S) == \A h \in S : h \in known \cap known' /\ memXa'[h - 1] = memXa[h - 1]

VmasKept == \A a \in Addr : vma'[a].m \in Mem \cup {NULL} /\ (vma'[a].m # NULL => vma'[a].m = vma[a].m)

TakenKept(u) == th'[u].pc \in TakenPc => th[u].pc \in TakenPc /\ th'[u].m = th[u].m

PinKept(u) ==
  /\ th'[u].pc \in PinPc => th[u].pc \in PinPc
  /\ th'[u].pc = "pin_put" => th[u].pc = "pin_put"
  /\ th'[u].pc \in PinPc \cup {"pin_put"} => th'[u].m = th[u].m /\ th'[u].a = th[u].a

UnmapPc == {"unmap_do", "unmap_put", "rel_unlink"}

UnmapKept(u) ==
  th'[u].pc \in UnmapPc => th'[u].pc = th[u].pc /\ th'[u].m = th[u].m /\ th'[u].a = th[u].a

RegKept(u) ==
  /\ th'[u].op = "reg" => th[u].op = "reg" /\ th'[u].m = th[u].m
  /\ th'[u].pc \in RegPc => th[u].pc \in RegPc /\ th'[u].m = th[u].m

NoNewUse(u) ==
  th'[u].m # NULL /\ th'[u].pc \notin WalkPc => th[u].pc \notin WalkPc /\ th'[u].m = th[u].m

AddrKept(u) == th'[u].op = "map" => th[u].op = "map" /\ th'[u].a = th[u].a

(* A registration that u works on stays in the list. *)
ListKept(u) ==
  th'[u].pc \in PinPc \cup RegPc \cup UnmapPc \cup {"pin_put"} /\ th[u].m \in memList =>
    th[u].m \in memList'

LEMMA XaFrame ==
  ASSUME XaOK, memList' = memList, memXa' = memXa, \A m \in memList : mem'[m].id = mem[m].id
  PROVE  XaOK'
BY DEF XaOK

LEMMA FreshFrame ==
  ASSUME Fresh, \A m \in Mem : BlankKept(m), \A u \in Thread : RegKept(u)
  PROVE  Fresh'
BY DEF Fresh, BlankKept, RegKept

(* A known handle is one of a listed registration. *)
LEMMA KnownListed ==
  ASSUME Inv, XaOK, KnownOK
  PROVE  \A h \in known : /\ h \in Int /\ h - 1 \in Id /\ memXa[h - 1] \in memList
                          /\ mem[memXa[h - 1]].id = h - 1
<1>1. \A h \in known : h \in Handle
  BY DEF Inv, TypeOK
<1>2. \A h \in Handle : h \in Int
  BY DEF Handle, ConstantsAssumption
<1>3. \A h \in known : memXa[h - 1] # NULL
  BY NullOut DEF KnownOK
<1> QED BY <1>1, <1>2, <1>3, HandleId DEF XaOK

LEMMA KnownFrame ==
  ASSUME Inv, XaOK, KnownOK, HandlesKept(known'), VmasKept, \A m \in memList : StateKept(m),
         \A u \in Thread : TakenKept(u)
  PROVE  KnownOK'
<1>1. \A m \in memList : mem[m].state \in Unpinned => mem'[m].state \in Unpinned
  BY DEF StateKept
<1>2. \A u \in Thread : th'[u].pc \in TakenPc => th[u].pc \in TakenPc /\ th'[u].m = th[u].m
  BY DEF TakenKept
<1>3. \A m \in memList : Waits(m) => Waits(m)'
  BY <1>1, <1>2, NullOut, ListTypes DEF Waits, Nowhere, VmasKept
<1>4. \A h \in known' : h \in known /\ memXa'[h - 1] = memXa[h - 1] /\ memXa[h - 1] \in memList
  BY KnownListed DEF HandlesKept
<1>5. \A m \in Mem : IsKnown(m)' => IsKnown(m) /\ m \in memList
  BY <1>4 DEF IsKnown
<1> QED BY <1>3, <1>4, <1>5 DEF KnownOK

LEMMA PinsFrame ==
  ASSUME Inv, PinsOK, memList' \subseteq memList, HandlesKept(known), vma' = vma,
         \A m \in memList : Plain(m), \A u \in Thread : PinKept(u), \A u \in Thread : ListKept(u)
  PROVE  PinsOK'
<1>1. memList \subseteq Mem
  BY ListTypes
<1>2. \A m \in memList : /\ mem[m].state \in Unpinned => mem'[m].state \in Unpinned
                         /\ mem'[m].state = "STALE" => mem[m].state = "STALE"
                         /\ mem'[m].vaddr = mem[m].vaddr
  BY DEF Plain, StateKept
<1>3. ASSUME NEW t \in Thread, th'[t].pc \in PinPc
      PROVE  /\ th'[t].m \in memList' /\ mem'[th'[t].m].state \in Unpinned
             /\ th'[t].a \in Addr /\ vma[th'[t].a] = NoVma
             /\ \A a \in Addr : vma[a].m # th'[t].m
             /\ \A n \in memList' : mem'[n].state = "STALE" /\ n # th'[t].m =>
                                   mem'[n].vaddr # th'[t].a
  <2>1. th[t].pc \in PinPc /\ th'[t].m = th[t].m /\ th'[t].a = th[t].a
    BY <1>3 DEF PinKept
  <2>2. /\ th[t].m \in memList /\ mem[th[t].m].state \in Unpinned
        /\ th[t].a \in Addr /\ vma[th[t].a] = NoVma
        /\ \A a \in Addr : vma[a].m # th[t].m
        /\ \A n \in memList : mem[n].state = "STALE" /\ n # th[t].m => mem[n].vaddr # th[t].a
    BY <2>1 DEF PinsOK
  <2>3. th[t].m \in memList'
    BY <1>3, <2>1, <2>2 DEF ListKept
  <2> QED BY <1>2, <2>1, <2>2, <2>3
<1>4. ASSUME NEW t \in Thread, th'[t].pc = "pin_put"
      PROVE  /\ th'[t].m \in memList'
             /\ \/ \E h \in known' : memXa'[h - 1] = th'[t].m
                \/ \E a \in Addr : vma[a].m = th'[t].m
  <2>1. th[t].pc = "pin_put" /\ th'[t].m = th[t].m
    BY <1>4 DEF PinKept
  <2>2. /\ th[t].m \in memList
        /\ \/ \E h \in known : memXa[h - 1] = th[t].m
           \/ \E a \in Addr : vma[a].m = th[t].m
    BY <2>1 DEF PinsOK
  <2>3. th[t].m \in memList'
    BY <1>4, <2>1, <2>2 DEF ListKept
  <2> QED BY <2>1, <2>2, <2>3 DEF HandlesKept
<1> QED BY <1>3, <1>4 DEF PinsOK

LEMMA VmasFrame ==
  ASSUME VmasOK, VmasKept, \A m \in memList : Plain(m),
         \A a \in Addr : vma[a].m \in memList => vma[a].m \in memList' \/ vma'[a].m = NULL
  PROVE  VmasOK'
BY DEF VmasOK, VmasKept, Plain, StateKept

LEMMA UnmapsFrame ==
  ASSUME Inv, UnmapsOK, vma' = vma, \A m \in memList : StateKept(m),
         \A u \in Thread : UnmapKept(u), \A u \in Thread : ListKept(u)
  PROVE  UnmapsOK'
<1>1. \A u \in Thread : th'[u].pc \in {"unmap_put", "rel_unlink"} /\ th[u].m \in memList =>
        th[u].m \in memList'
  BY DEF ListKept, UnmapKept, UnmapPc
<1> QED BY <1>1 DEF UnmapsOK, StateKept, UnmapKept, UnmapPc

LEMMA RegsFrame ==
  ASSUME Inv, RegsOK, \A u \in Thread : RegKept(u), \A u \in Thread : NoNewUse(u),
         \A u \in Thread : ListKept(u)
  PROVE  RegsOK'
<1>1. \A u \in Thread : th[u].pc \in RegPc => th[u].m # NULL
  BY NullOut, ThreadTypes DEF RegPc, NeedsMem
<1>2. \A u \in Thread : th'[u].pc \in RegPc /\ th[u].m \in memList => th[u].m \in memList'
  BY DEF ListKept
<1> QED BY <1>1, <1>2 DEF RegsOK, RegKept, NoNewUse

LEMMA AddrsFrame ==
  ASSUME MapAddrs, \A u \in Thread : AddrKept(u)
  PROVE  MapAddrs'
BY DEF MapAddrs, AddrKept

(* Steps that leave all of it alone. *)
NamesKept == memList' = memList /\ memXa' = memXa /\ known' = known /\ vma' = vma

MemKept(m) == BlankKept(m) /\ (m \in memList => Plain(m) /\ mem'[m].id = mem[m].id)

ThreadKept(u) == TakenKept(u) /\ PinKept(u) /\ UnmapKept(u) /\ RegKept(u) /\ AddrKept(u)

LEMMA KeptParts ==
  ASSUME Inv, NamesKept
  PROVE  /\ HandlesKept(known) /\ HandlesKept(known') /\ VmasKept
         /\ \A u \in Thread : ListKept(u)
         /\ memList' = memList /\ memXa' = memXa /\ vma' = vma
<1>1. \A a \in Addr : vma[a].m \in Mem \cup {NULL}
  BY VmaTypes, NoVmaFields
<1> QED BY <1>1 DEF NamesKept, HandlesKept, VmasKept, ListKept

LEMMA NamesFrame ==
  ASSUME Inv, NameInv, NamesKept, \A m \in Mem : MemKept(m)
  PROVE  /\ XaOK'
         /\ (\A u \in Thread : RegKept(u)) => Fresh'
         /\ (\A u \in Thread : TakenKept(u)) => KnownOK'
         /\ (\A u \in Thread : PinKept(u)) => PinsOK'
         /\ VmasOK'
         /\ (\A u \in Thread : UnmapKept(u)) => UnmapsOK'
         /\ (\A u \in Thread : AddrKept(u)) => MapAddrs'
         /\ (\A u \in Thread : RegKept(u)) /\ (\A u \in Thread : NoNewUse(u)) => RegsOK'
<1>1. /\ HandlesKept(known) /\ HandlesKept(known') /\ VmasKept
      /\ \A u \in Thread : ListKept(u)
      /\ memList' = memList /\ memXa' = memXa /\ vma' = vma
  BY KeptParts
<1>2. /\ \A m \in memList : Plain(m)
      /\ \A m \in memList : StateKept(m)
      /\ \A m \in memList : mem'[m].id = mem[m].id
      /\ \A m \in Mem : BlankKept(m)
  BY ListTypes DEF MemKept, Plain
<1>3. XaOK'
  BY <1>1, <1>2, XaFrame DEF NameInv
<1>4. (\A u \in Thread : RegKept(u)) => Fresh'
  BY <1>2, FreshFrame DEF NameInv
<1>5. (\A u \in Thread : TakenKept(u)) => KnownOK'
  BY <1>1, <1>2, KnownFrame DEF NameInv
<1>6. (\A u \in Thread : PinKept(u)) => PinsOK'
  BY <1>1, <1>2, PinsFrame DEF NameInv
<1>7. VmasOK'
  BY <1>1, <1>2, VmasFrame DEF NameInv
<1>8. (\A u \in Thread : UnmapKept(u)) => UnmapsOK'
  BY <1>1, <1>2, UnmapsFrame DEF NameInv
<1>9. (\A u \in Thread : AddrKept(u)) => MapAddrs'
  BY AddrsFrame DEF NameInv
<1>10. (\A u \in Thread : RegKept(u)) /\ (\A u \in Thread : NoNewUse(u)) => RegsOK'
  BY <1>1, RegsFrame DEF NameInv
<1> QED BY <1>3, <1>4, <1>5, <1>6, <1>7, <1>8, <1>9, <1>10

(* A step that leaves the names alone and in which no thread changes its part. *)
LEMMA NamesFrameAll ==
  ASSUME Inv, NameInv, NamesKept, \A m \in Mem : MemKept(m), \A u \in Thread : ThreadKept(u),
         \A u \in Thread : NoNewUse(u)
  PROVE  NameInv'
<1>1. /\ \A u \in Thread : TakenKept(u)
      /\ \A u \in Thread : PinKept(u)
      /\ \A u \in Thread : UnmapKept(u)
      /\ \A u \in Thread : RegKept(u)
      /\ \A u \in Thread : AddrKept(u)
  BY DEF ThreadKept
<1> QED BY <1>1, NamesFrame DEF NameInv

(* Only a lookup shares a registration with the call that makes it. *)
LEMMA RegAlone ==
  ASSUME CtxInv, NameInv, NEW t \in Thread, NEW u \in Thread, th[t].op = "reg",
         th[u].m = th[t].m
  PROVE  u = t \/ th[u].pc \in WalkPc
<1>1. th[t].pc = "reg_insert" \/ th[t].pc \in RegPc
  BY DEF CtxInv, Ops, OpOK, RegPc
<1>2. CASE th[t].pc = "reg_insert"
  BY <1>2 DEF CtxInv, Making
<1>3. CASE th[t].pc \in RegPc
  BY <1>3 DEF NameInv, RegsOK
<1> QED BY <1>1, <1>2, <1>3

(* A registration that a pin, a map or an unmap works on is not a new one. *)
LEMMA UsedNotNew ==
  ASSUME CtxInv, NameInv, NEW t \in Thread, th[t].m \in Mem, th[t].pc \notin WalkPc,
         th[t].op # "reg"
  PROVE  /\ mem[th[t].m].heap # "unused"
         /\ \A u \in Thread : th[u].op = "reg" => th[u].m # th[t].m
<1>1. mem[th[t].m].heap # "unused"
  BY DEF CtxInv, Unused
<1> QED BY <1>1, RegAlone

(* mm->mmap_lock keeps pins and unmaps apart. *)
LEMMA MmapAlone ==
  ASSUME CtxInv, BaseInv, NEW t \in Thread, mmapLock = t \/ mmapLock = NULL
  PROVE  \A u \in Thread : th[u].pc \in PinPc \cup {"pin_put", "unmap_do", "unmap_put"} =>
           u = t /\ mmapLock = t
<1>1. \A u \in Thread : th[u].pc \in PinPc \cup {"pin_put", "unmap_do", "unmap_put"} =>
        th[u].op \in {"pin", "unmap"}
  BY DEF CtxInv, Ops, OpOK, PinPc
<1> QED BY <1>1, NullOut DEF BaseInv, Mmap

(* The registrations of the list have distinct indices. *)
LEMMA IdsDistinct ==
  ASSUME XaOK, NEW m \in memList, NEW n \in memList, mem[m].id = mem[n].id
  PROVE  m = n
BY DEF XaOK

(* A mapping that a call takes back is in its registration's list. *)
LEMMA MineListed ==
  ASSUME Inv, BaseInv, NEW t \in Thread, NEW d \in Elems(th[t].mine), d \in Dma,
         dma[d].heap = "live"
  PROVE  d \in mem[dma[d].mem].dmas
<1>1. \A u \in Thread : th[u].pc \in DmaPc => th[u].d # d
  BY DEF Inv, DmaInv, InFlight
<1> QED BY <1>1 DEF BaseInv, DmaPlaced, Placed

(* A registration leaves the list and the array together. *)
LEMMA XaRemove ==
  ASSUME Inv, XaOK, NEW m \in memList, memList' = memList \ {m},
         \A i \in Id : memXa'[i] = IF i = mem[m].id THEN NULL ELSE memXa[i],
         \A n \in Mem : mem'[n].id = mem[n].id
  PROVE  /\ XaOK'
         /\ \A i \in Id : memXa[i] \in memList /\ memXa[i] # m => memXa'[i] = memXa[i]
<1>1. /\ \A i \in Id : memXa[i] # NULL => memXa[i] \in memList /\ mem[memXa[i]].id = i
      /\ \A n \in memList : memXa[mem[n].id] = n /\ n \in Mem /\ n # NULL /\ mem[n].id \in Id
  BY MemTypes, ListTypes, NullOut DEF XaOK
<1>2. \A i \in Id : memXa[i] \in memList /\ memXa[i] # m => memXa'[i] = memXa[i]
  BY <1>1
<1>3. \A n \in memList' : memXa'[mem'[n].id] = n
  BY <1>1
<1>4. \A i \in Id : memXa'[i] # NULL => memXa'[i] \in memList' /\ mem'[memXa'[i]].id = i
  BY <1>1
<1> QED BY <1>2, <1>3, <1>4 DEF XaOK

(* Counts over the sets of the model. *)
LEMMA SlackTypes ==
  ASSUME Inv, NEW m \in Mem
  PROVE  /\ Cardinality(mem[m].dmas) \in Nat /\ IsFiniteSet(mem[m].dmas)
         /\ Cardinality(Holders(m)) \in Nat /\ IsFiniteSet(Holders(m))
         /\ mem[m].ref \in Nat
<1>1. mem[m].dmas \subseteq Dma /\ mem[m].ref \in Nat
  BY MemTypes
<1>2. Holders(m) \subseteq Thread
  BY DEF Holders
<1>3. IsFiniteSet(Dma) /\ IsFiniteSet(Thread)
  BY DEF ConstantsAssumption
<1> QED BY <1>1, <1>2, <1>3, FS_Subset, FS_CardinalityType

(* A registration whose count is zero is in nobody's hands any more. *)
LEMMA NoToken ==
  ASSUME Inv, CtxInv, BaseInv, RaceInv, NEW m \in memList, mem[m].ref = 0
  PROVE  m \in Mem /\ mem[m].heap = "live" /\ ~Token(m)
<1>1. m \in Mem /\ mem[m].heap = "live"
  BY ListTypes DEF CtxInv, Lists
<1>2. mem[m].state # "DEAD"
  BY <1>1 DEF Inv, TableInv, TableOK, Gone
<1>3. Token(m) => Slack(m) = 1
  BY <1>1, <1>2 DEF RaceInv, CountInv, Refs
<1> QED BY <1>1, <1>3, SlackTypes DEF Slack

LEMMA ReleasedUnused ==
  ASSUME Inv, CtxInv, BaseInv, RaceInv, NEW t \in Thread, th[t].pc = "rel_unlink"
  PROVE  /\ th[t].m \in memList /\ th[t].m \in Mem /\ mem[th[t].m].heap = "live"
         /\ ~Token(th[t].m)
<1>1. th[t].m \in memList /\ mem[th[t].m].ref = 0
  BY DEF RaceInv, NameInv, UnmapsOK, BaseInv, Releases, LastPc
<1> QED BY <1>1, NoToken

(* A call that holds the last reference on a registration finds it listed. *)
LEMMA LastHolder ==
  ASSUME Inv, CtxInv, BaseInv, RaceInv, NEW t \in Thread, NEW m \in Mem, m = th[t].m,
         th[t].pc = "map_put", mem[m].ref = 1, mem[m].heap # "freed"
  PROVE  m \in memList
<1>1. mem[m].heap # "unused"
  BY DEF CtxInv, Unused
<1>2. mem[m].state # "DEAD"
  BY DEF BaseInv, DeadRefs
<1>3. t \in Holders(m)
  BY DEF Holders
<1>4. Cardinality(Holders(m)) > 0
  BY <1>3, SlackTypes, FS_EmptySet
<1>5. Slack(m) # 1
  BY <1>4, SlackTypes DEF Slack
<1>6. ~Token(m)
  BY <1>1, <1>2, <1>5 DEF RaceInv, CountInv, Refs
<1>7. mem[m].heap = "live"
  BY <1>6 DEF Token
<1>8. \A u \in Thread : th[u].pc \in {"reg_insert", "rel_free"} => th[u].m # m
  BY DEF CtxInv, Making, BaseInv, Releases, LastPc
<1> QED BY <1>7, <1>8 DEF BaseInv, Listed

(* Nobody registers or pins while a file closes. *)
LEMMA CloseAlone ==
  ASSUME Races, CtxInv, BaseInv, NEW t \in Thread, th[t].pc = "close_do"
  PROVE  \A u \in Thread : th[u].op \notin {"reg", "pin"}
<1>1. th[t].op = "close"
  BY DEF CtxInv, Ops, OpOK
<1> SUFFICES ASSUME NEW u \in Thread, th[u].op \in {"reg", "pin"} PROVE FALSE
  OBVIOUS
<1>2. u # t
  BY <1>1
<1>3. {th[u].op, "close"} \in Overlap
  BY <1>1, <1>2 DEF BaseInv, Overlaps
<1> QED BY <1>3 DEF Races

----------------------------------------------------------------------------
(* Every step keeps NameInv. *)

LEMMA RegStartName ==
  ASSUME Inv, CtxInv, BaseInv, Races, RaceInv, NEW t \in Thread, NEW f \in File, NEW l
         \in Loc, NEW m \in Mem, RegStartEff(t, f, l, m)
  PROVE  NameInv'
<1>1. NamesKept
  BY DEF NamesKept, RegStartEff
<1>2. /\ m \notin memList /\ \A u \in Thread : th[u].m # m
      /\ mem[m].state = "STALE" /\ cb[m] = "idle" /\ m # NULL
  BY NullOut DEF CtxInv, Unused, Unseen, RaceInv, NameInv, Fresh, Blank, RegStartEff
<1>3. \A n \in Mem : n # m => mem'[n] = mem[n]
  BY DEF RegStartEff, Only
<1>4. \A n \in memList : Plain(n) /\ StateKept(n) /\ mem'[n].id = mem[n].id
  BY <1>2, <1>3, ListTypes DEF Plain, StateKept
<1>5. Blank(m)'
  BY <1>2 DEF Blank, RegStartEff
<1>6. /\ \A u \in Thread \ {t} : th'[u] = th[u]
      /\ th'[t].pc = "reg_insert" /\ th'[t].op = "reg" /\ th'[t].m = m
      /\ memList' = memList /\ memXa' = memXa /\ vma' = vma
      /\ mem'[m].heap = "live" /\ cb' = cb
  BY DEF RegStartEff, Starts
<1>7. /\ HandlesKept(known) /\ HandlesKept(known') /\ VmasKept
      /\ \A u \in Thread : ListKept(u)
  BY <1>1, KeptParts
<1>8. /\ \A u \in Thread : TakenKept(u)
      /\ \A u \in Thread : PinKept(u)
      /\ \A u \in Thread : UnmapKept(u)
      /\ \A u \in Thread : AddrKept(u)
  BY <1>6 DEF TakenKept, PinKept, UnmapKept, AddrKept, TakenPc, PinPc, RegPc, UnmapPc
<1>9. Fresh'
  <2>1. \A n \in Mem : n # m => (Blank(n) => Blank(n)')
    BY <1>3, <1>6 DEF Blank
  <2>2. \A n \in Mem : n # m /\ mem'[n].heap = "unused" => Blank(n)
    BY <1>3 DEF RaceInv, NameInv, Fresh
  <2>3. \A n \in Mem : n # m /\ (\E u \in Thread : th'[u].op = "reg" /\ th'[u].m = n) => Blank(n)
    BY <1>6 DEF RaceInv, NameInv, Fresh
  <2> QED BY <1>5, <2>1, <2>2, <2>3 DEF Fresh
<1>10. RegsOK'
  BY <1>2, <1>6 DEF RaceInv, NameInv, RegsOK, RegPc
<1>11. XaOK' /\ KnownOK' /\ MapAddrs'
  BY <1>4, <1>6, <1>7, <1>8, XaFrame, KnownFrame, AddrsFrame DEF RaceInv, NameInv
<1>12. PinsOK'
  BY <1>4, <1>6, <1>7, <1>8, PinsFrame DEF RaceInv, NameInv
<1>13. VmasOK' /\ UnmapsOK'
  BY <1>4, <1>6, <1>7, <1>8, VmasFrame, UnmapsFrame DEF RaceInv, NameInv
<1> QED BY <1>9, <1>10, <1>11, <1>12, <1>13 DEF NameInv

LEMMA RegInsertName ==
  ASSUME Inv, CtxInv, BaseInv, Races, RaceInv, NEW t \in Thread, RegInsertEff(t)
  PROVE  NameInv'
<1> DEFINE m == th[t].m
<1>1. PICK i \in Id : /\ memXa[i] = NULL /\ memXa'[i] = m
                      /\ \A j \in Id \ {i} : memXa'[j] = memXa[j]
                      /\ mem'[m].id = i
  BY DEF RegInsertEff
<1>2. /\ m \in Mem /\ th[t].pc = "reg_insert" /\ memList' = memList \cup {m}
      /\ \A n \in Mem : n # m => mem'[n] = mem[n]
      /\ known' = known /\ vma' = vma
  BY DEF RegInsertEff, Only, Moves
<1>3. /\ \A n \in Mem : Plain(n) /\ StateKept(n)
      /\ \A n \in Mem : BlankKept(n)
  BY DEF Plain, StateKept, BlankKept, Blank, RegInsertEff, Only, SameUse, SameCounts
<1>4. /\ Unseen(m) /\ \A u \in Thread : th[u].m = m => u = t
  BY <1>2 DEF CtxInv, Making
<1>5. Blank(m)
  BY <1>2 DEF CtxInv, Ops, OpOK, RaceInv, NameInv, Fresh
<1>6. /\ \A u \in Thread \ {t} : th'[u] = th[u]
      /\ th'[t].pc = "reg_copy" /\ th'[t].op = th[t].op /\ th'[t].m = m /\ th'[t].a = th[t].a
  BY DEF RegInsertEff, Moves, Keeps
<1>7. /\ \A j \in Id : memXa[j] # NULL => memXa[j] \in memList /\ mem[memXa[j]].id = j
      /\ \A n \in memList : memXa[mem[n].id] = n /\ n \in Mem /\ mem[n].id \in Id
  BY MemTypes, ListTypes DEF RaceInv, NameInv, XaOK
<1>8. m \notin memList /\ m # NULL /\ \A j \in Id : memXa[j] # m
  BY <1>2, <1>4, NullOut DEF Unseen
<1>9. XaOK'
  <2>1. \A n \in memList : n # m /\ mem[n].id # i /\ mem'[n] = mem[n]
    BY <1>1, <1>2, <1>7, <1>8, NullOut
  <2>2. \A n \in memList : memXa'[mem'[n].id] = n
    BY <1>1, <1>7, <2>1
  <2>3. \A j \in Id : memXa'[j] # NULL => memXa'[j] \in memList' /\ mem'[memXa'[j]].id = j
    BY <1>1, <1>2, <1>7, <2>1
  <2> QED BY <1>1, <1>2, <2>2, <2>3 DEF XaOK
<1>11. \A h \in known : memXa'[h - 1] = memXa[h - 1] /\ memXa[h - 1] # m /\ memXa[h - 1] \in memList
  BY <1>1, <1>8, KnownListed, NullOut, ListTypes DEF RaceInv, NameInv
<1>12. KnownOK'
  <2>1. \A n \in Mem : n # m /\ Waits(n) => Waits(n)'
    BY <1>2, <1>6 DEF Waits, Nowhere
  <2>2. \A n \in Mem : IsKnown(n)' => IsKnown(n) /\ n # m
    BY <1>2, <1>11 DEF IsKnown
  <2>3. \A h \in known' : memXa'[h - 1] \in Mem
    BY <1>2, <1>11, ListTypes
  <2> QED BY <2>1, <2>2, <2>3 DEF KnownOK, RaceInv, NameInv
<1>13. PinsOK'
  <2>1. \A u \in Thread : th'[u].pc \in PinPc \cup {"pin_put"} =>
          u # t /\ th'[u] = th[u] /\ th[u].m # m
    BY <1>4, <1>6 DEF PinPc
  <2>2. mem'[m].vaddr = NULL
    BY <1>2, <1>3, <1>5 DEF Plain, Blank
  <2>3. ASSUME NEW u \in Thread, th'[u].pc \in PinPc
        PROVE  /\ th[u].m \in memList /\ mem[th[u].m].state \in Unpinned
               /\ th[u].a \in Addr /\ vma[th[u].a] = NoVma
               /\ \A a \in Addr : vma[a].m # th[u].m
               /\ \A n \in memList : mem[n].state = "STALE" /\ n # th[u].m => mem[n].vaddr # th[u].a
    BY <2>1, <2>3 DEF RaceInv, NameInv, PinsOK
  <2>4. ASSUME NEW u \in Thread, th'[u].pc = "pin_put"
        PROVE  /\ th[u].m \in memList
               /\ \/ \E h \in known : memXa'[h - 1] = th[u].m
                  \/ \E a \in Addr : vma[a].m = th[u].m
    BY <1>11, <2>1, <2>4 DEF RaceInv, NameInv, PinsOK
  <2>5. \A n \in memList : n \in Mem /\ n # m /\ mem'[n] = mem[n]
    BY <1>2, <1>8, ListTypes
  <2> QED BY <1>2, <2>1, <2>2, <2>3, <2>4, <2>5, NullOut DEF PinsOK
<1>14. VmasKept /\ \A u \in Thread : ListKept(u)
  BY <1>2, VmaTypes, NoVmaFields DEF VmasKept, ListKept
<1>15. /\ \A u \in Thread : UnmapKept(u)
       /\ \A u \in Thread : AddrKept(u)
       /\ memList \subseteq Mem
  BY <1>6, ListTypes DEF UnmapKept, UnmapPc, AddrKept
<1>16. Fresh' /\ MapAddrs'
  BY <1>3, <1>6, <1>15, AddrsFrame DEF RaceInv, NameInv, Fresh, BlankKept
<1>17. VmasOK' /\ UnmapsOK'
  BY <1>2, <1>3, <1>14, <1>15, VmasFrame, UnmapsFrame DEF RaceInv, NameInv
<1>18. RegsOK'
  BY <1>2, <1>4, <1>6 DEF RaceInv, NameInv, RegsOK, RegPc
<1> QED BY <1>9, <1>12, <1>13, <1>16, <1>17, <1>18 DEF NameInv

LEMMA RegInsertFailsName ==
  ASSUME Inv, CtxInv, BaseInv, Races, RaceInv, NEW t \in Thread, RegInsertFailsEff(t)
  PROVE  NameInv'
<1>1. NamesKept
  BY DEF NamesKept, RegInsertFailsEff
<1>2. \A n \in Mem : MemKept(n)
  BY DEF MemKept, Plain, StateKept, BlankKept, Blank, RegInsertFailsEff, Ends, HeapTo,
     Only, SameCounts, SameId
<1>3. \A u \in Thread : ThreadKept(u)
  BY DEF ThreadKept, TakenKept, PinKept, UnmapKept, RegKept, AddrKept, TakenPc, PinPc,
     RegPc, UnmapPc, RegInsertFailsEff, Ends
<1>4. \A u \in Thread : NoNewUse(u)
  BY DEF NoNewUse, WalkPc, RegInsertFailsEff, Ends
<1> QED BY <1>1, <1>2, <1>3, <1>4, NamesFrameAll DEF RaceInv

LEMMA RegCopyName ==
  ASSUME Inv, CtxInv, BaseInv, Races, RaceInv, NEW t \in Thread, RegCopyEff(t)
  PROVE  NameInv'
<1>0. PICK m \in Mem : m = th[t].m
  BY DEF RegCopyEff
<1>1. /\ m \in Mem /\ th[t].pc = "reg_copy" /\ memList' = memList /\ memXa' = memXa /\ vma' = vma
      /\ mem' = mem /\ known' = known \cup {mem[m].id + 1} /\ cb' = cb
  BY <1>0 DEF RegCopyEff, Ends
<1>2. /\ \A u \in Thread \ {t} : th'[u] = th[u]
      /\ th'[t].op = "none" /\ th'[t].pc = "idle" /\ th'[t].m = NULL
  BY DEF RegCopyEff, Ends
<1>3. /\ m \in memList
      /\ \A u \in Thread : th[u].m = m => u = t \/ th[u].pc \in WalkPc
  BY <1>0, <1>1 DEF RaceInv, NameInv, RegsOK, RegPc
<1>4. mem[m].state = "STALE"
  BY <1>0, <1>1 DEF CtxInv, Ops, OpOK, RaceInv, NameInv, Fresh, Blank
<1>5. Nowhere(m)
  BY <1>1, <1>4, NullOut DEF Nowhere, RaceInv, NameInv, VmasOK, Pinned
<1>6. mem[m].id \in Int /\ (mem[m].id + 1) - 1 = mem[m].id /\ memXa[mem[m].id] = m
  BY <1>1, <1>3, MemTypes DEF RaceInv, NameInv, XaOK, Id
<1>7. KnownOK'
  <2>1. Waits(m)'
    BY <1>1, <1>2, <1>3, <1>4, <1>5, NullOut DEF Waits, Nowhere, Unpinned, TakenPc, PinPc, WalkPc
  <2>2. \A n \in Mem : Waits(n) => Waits(n)'
    BY <1>1, <1>2, NullOut DEF Waits, Nowhere
  <2>3. \A n \in Mem : IsKnown(n)' => IsKnown(n) \/ n = m
    BY <1>1, <1>6 DEF IsKnown
  <2>4. \A h \in known' : memXa'[h - 1] \in Mem
    BY <1>1, <1>6 DEF RaceInv, NameInv, KnownOK
  <2> QED BY <2>1, <2>2, <2>3, <2>4 DEF KnownOK, RaceInv, NameInv
<1>8. /\ HandlesKept(known) /\ VmasKept
      /\ \A u \in Thread : ListKept(u)
  BY <1>1, VmaTypes, NoVmaFields DEF HandlesKept, VmasKept, ListKept
<1>9. \A n \in Mem : Plain(n) /\ StateKept(n) /\ BlankKept(n)
  BY <1>1 DEF Plain, StateKept, BlankKept, Blank
<1>10. /\ \A u \in Thread : PinKept(u)
       /\ \A u \in Thread : UnmapKept(u)
       /\ \A u \in Thread : RegKept(u)
       /\ \A u \in Thread : NoNewUse(u)
       /\ \A u \in Thread : AddrKept(u)
  BY <1>2 DEF PinKept, UnmapKept, RegKept, NoNewUse, AddrKept, PinPc, RegPc, UnmapPc, WalkPc
<1>11. memList \subseteq Mem
  BY ListTypes
<1>12. XaOK' /\ Fresh' /\ MapAddrs'
  BY <1>1, <1>9, <1>10, XaFrame, FreshFrame, AddrsFrame DEF RaceInv, NameInv
<1>13. PinsOK'
  BY <1>1, <1>8, <1>9, <1>10, <1>11, PinsFrame DEF RaceInv, NameInv
<1>14. VmasOK' /\ UnmapsOK' /\ RegsOK'
  BY <1>1, <1>8, <1>9, <1>10, <1>11, VmasFrame, UnmapsFrame, RegsFrame DEF RaceInv, NameInv
<1> QED BY <1>7, <1>12, <1>13, <1>14 DEF NameInv

LEMMA GoesOnName ==
  ASSUME Inv, CtxInv, BaseInv, Races, RaceInv, NEW t \in Thread, NEW pc, NEW to,
         GoesOnPc(pc, to), GoesOn(t, pc, to)
  PROVE  NameInv'
<1>1. NamesKept
  BY DEF NamesKept, GoesOn
<1>2. \A n \in Mem : MemKept(n)
  BY DEF MemKept, Plain, StateKept, BlankKept, Blank, GoesOn
<1>3. \A u \in Thread : ThreadKept(u)
  BY DEF ThreadKept, TakenKept, PinKept, UnmapKept, RegKept, AddrKept, TakenPc, PinPc,
     RegPc, UnmapPc, GoesOnPc, GoesOn, Moves, Keeps
<1>4. \A u \in Thread : NoNewUse(u)
  BY DEF NoNewUse, WalkPc, GoesOnPc, GoesOn, Moves, Keeps
<1> QED BY <1>1, <1>2, <1>3, <1>4, NamesFrameAll DEF RaceInv

LEMMA RegEraseName ==
  ASSUME Inv, CtxInv, BaseInv, Races, RaceInv, NEW t \in Thread, RegEraseEff(t)
  PROVE  NameInv'
<1>0. PICK m \in Mem : m = th[t].m
  BY DEF RegEraseEff
<1>1. /\ th[t].pc = "reg_erase" /\ memList' = memList \ {m} /\ vma' = vma /\ known' = known
      /\ \A i \in Id : memXa'[i] = IF i = mem[m].id THEN NULL ELSE memXa[i]
  BY <1>0 DEF RegEraseEff, Ends
<1>2. /\ \A u \in Thread \ {t} : th'[u] = th[u]
      /\ th'[t].op = "none" /\ th'[t].pc = "idle" /\ th'[t].m = NULL
  BY DEF RegEraseEff, Ends
<1>3. \A n \in Mem : Plain(n) /\ StateKept(n) /\ mem'[n].id = mem[n].id
  BY DEF Plain, StateKept, RegEraseEff, HeapTo, Only, SameId
<1>4. \A n \in Mem : BlankKept(n)
  BY DEF BlankKept, Blank, RegEraseEff, HeapTo, Only, SameCounts
<1>5. /\ m \in memList
      /\ \A u \in Thread : th[u].m = m => u = t \/ th[u].pc \in WalkPc
  BY <1>0, <1>1 DEF RaceInv, NameInv, RegsOK, RegPc
<1>6. mem[m].state = "STALE"
  BY <1>0, <1>1 DEF CtxInv, Ops, OpOK, RaceInv, NameInv, Fresh, Blank
<1>7. \A a \in Addr : vma[a].m # m
  BY <1>6, NullOut DEF RaceInv, NameInv, VmasOK, Pinned
<1>8. ~IsKnown(m)
  BY <1>0, <1>1 DEF RaceInv, NameInv, KnownOK, Waits, TakenPc
<1>9. /\ XaOK'
      /\ \A i \in Id : memXa[i] \in memList /\ memXa[i] # m => memXa'[i] = memXa[i]
  BY <1>1, <1>3, <1>5, XaRemove DEF RaceInv, NameInv
<1>10. HandlesKept(known) /\ HandlesKept(known')
  BY <1>1, <1>8, <1>9, KnownListed DEF HandlesKept, IsKnown, RaceInv, NameInv
<1>11. /\ \A u \in Thread : TakenKept(u)
       /\ \A u \in Thread : PinKept(u)
       /\ \A u \in Thread : UnmapKept(u)
       /\ \A u \in Thread : RegKept(u)
       /\ \A u \in Thread : NoNewUse(u)
       /\ \A u \in Thread : AddrKept(u)
  BY <1>2 DEF TakenKept, PinKept, UnmapKept, RegKept, NoNewUse, AddrKept, TakenPc, PinPc, RegPc,
     UnmapPc, WalkPc
<1>12. /\ VmasKept
       /\ \A u \in Thread : ListKept(u)
  BY <1>1, <1>2, <1>5, VmaTypes, NoVmaFields DEF VmasKept, ListKept, PinPc, RegPc, UnmapPc, WalkPc
<1>13. memList \subseteq Mem /\ memList' \subseteq memList
  BY <1>1, ListTypes
<1>14. KnownOK' /\ Fresh' /\ MapAddrs'
  BY <1>3, <1>4, <1>10, <1>11, <1>12, <1>13, KnownFrame, FreshFrame, AddrsFrame DEF RaceInv, NameInv
<1>15. PinsOK'
  BY <1>1, <1>3, <1>10, <1>11, <1>12, <1>13, PinsFrame DEF RaceInv, NameInv
<1>16. VmasOK'
  BY <1>1, <1>3, <1>7, <1>12, <1>13, VmasFrame DEF RaceInv, NameInv
<1>17. UnmapsOK' /\ RegsOK'
  BY <1>1, <1>3, <1>11, <1>12, <1>13, UnmapsFrame, RegsFrame DEF RaceInv, NameInv
<1> QED BY <1>9, <1>14, <1>15, <1>16, <1>17 DEF NameInv

LEMMA PinStartName ==
  ASSUME Inv, CtxInv, BaseInv, Races, RaceInv, NEW t \in Thread, NEW f \in File, NEW p
         \in Handle, NEW a \in Addr, MayPin(p, a), PinStartEff(t, f, p, a)
  PROVE  NameInv'
<1>0. PICK m \in Mem : m = memXa[p - 1]
  BY DEF PinStartEff
<1>1. /\ memList' = memList /\ memXa' = memXa /\ vma' = vma /\ mem' = mem /\ cb' = cb
      /\ known' = known \ {p} /\ mmapLock = NULL /\ vma[a] = NoVma
  BY DEF PinStartEff
<1>2. /\ \A u \in Thread \ {t} : th'[u] = th[u]
      /\ th'[t].op = "pin" /\ th'[t].pc = "pin_get" /\ th'[t].m = m /\ th'[t].a = a
  BY <1>0 DEF PinStartEff, Starts
<1>3. /\ p \in known
      /\ \A n \in memList : n # m => ~(mem[n].state = "STALE" /\ mem[n].vaddr = a)
  BY <1>0 DEF Races, MayPin, MemOfPgoff
<1>4. /\ m \in memList /\ mem[m].state \in Unpinned
      /\ \A x \in Addr : vma[x].m # m
      /\ \A u \in Thread : th[u].m = m => th[u].pc \notin TakenPc
  BY <1>0, <1>3, KnownListed DEF RaceInv, NameInv, KnownOK, IsKnown, Waits, Nowhere
<1>5. \A h \in known' : memXa[h - 1] # m
  BY <1>0, <1>1, <1>3, KnownListed DEF RaceInv, NameInv
<1>6. \A n \in Mem : Plain(n) /\ StateKept(n) /\ BlankKept(n) /\ mem'[n].id = mem[n].id
  BY <1>1 DEF Plain, StateKept, BlankKept, Blank
<1>7. \A u \in Thread : th[u].pc \notin PinPc \cup {"pin_put", "unmap_do", "unmap_put"}
  BY <1>1, NullOut, MmapAlone
<1>8. KnownOK'
  <2>1. \A n \in Mem : n # m /\ Waits(n) => Waits(n)'
    BY <1>1, <1>2 DEF Waits, Nowhere
  <2>2. \A n \in Mem : IsKnown(n)' => IsKnown(n) /\ n # m
    BY <1>1, <1>5 DEF IsKnown
  <2>3. \A h \in known' : memXa'[h - 1] \in Mem
    BY <1>1 DEF RaceInv, NameInv, KnownOK
  <2> QED BY <2>1, <2>2, <2>3 DEF KnownOK, RaceInv, NameInv
<1>9. PinsOK'
  <2>1. \A u \in Thread : /\ th'[u].pc \in PinPc => u = t
                          /\ th'[u].pc # "pin_put"
    BY <1>2, <1>7 DEF PinPc
  <2> QED BY <1>1, <1>2, <1>3, <1>4, <2>1 DEF PinsOK
<1>10. /\ VmasKept
       /\ \A u \in Thread : ListKept(u)
       /\ memList \subseteq Mem
  BY <1>1, VmaTypes, NoVmaFields, ListTypes DEF VmasKept, ListKept
<1>11. /\ \A u \in Thread : UnmapKept(u)
       /\ \A u \in Thread : RegKept(u)
       /\ \A u \in Thread : AddrKept(u)
  BY <1>2 DEF UnmapKept, RegKept, AddrKept, UnmapPc, RegPc
<1>12. XaOK' /\ Fresh' /\ MapAddrs'
  BY <1>1, <1>6, <1>10, <1>11, XaFrame, FreshFrame, AddrsFrame DEF RaceInv, NameInv
<1>13. VmasOK' /\ UnmapsOK'
  BY <1>1, <1>6, <1>10, <1>11, VmasFrame, UnmapsFrame DEF RaceInv, NameInv
<1>14. RegsOK'
  BY SMTT(30), <1>1, <1>2, <1>4 DEF RaceInv, NameInv, RegsOK, RegPc, TakenPc
<1> QED BY <1>8, <1>9, <1>12, <1>13, <1>14 DEF NameInv

LEMMA PinGetName ==
  ASSUME Inv, CtxInv, BaseInv, Races, RaceInv, NEW t \in Thread, PinGetEff(t)
  PROVE  NameInv'
<1>1. NamesKept
  BY DEF NamesKept, PinGetEff
<1>2. \A n \in Mem : MemKept(n)
  BY DEF MemKept, Plain, StateKept, BlankKept, Blank, PinGetEff, Moves, Keeps, RefTo,
     Only, SameUse, SameId
<1>3. \A u \in Thread : ThreadKept(u)
  BY DEF ThreadKept, TakenKept, PinKept, UnmapKept, RegKept, AddrKept, TakenPc, PinPc,
     RegPc, UnmapPc, PinGetEff, Moves, Keeps
<1>4. \A u \in Thread : NoNewUse(u)
  BY DEF NoNewUse, WalkPc, PinGetEff, Moves, Keeps
<1> QED BY <1>1, <1>2, <1>3, <1>4, NamesFrameAll DEF RaceInv

LEMMA PinDoName ==
  ASSUME Inv, CtxInv, BaseInv, Races, RaceInv, NEW t \in Thread, PinDoEff(t)
  PROVE  NameInv'
<1>0. PICK m \in Mem : m = th[t].m
  BY DEF PinDoEff
<1>a. PICK a \in Addr : a = th[t].a
  BY DEF RaceInv, NameInv, PinsOK, PinPc, PinDoEff, Moves
<1>1. /\ memList' = memList /\ memXa' = memXa /\ known' = known /\ th[t].pc = "pin_do"
      /\ \A x \in Addr \ {a} : vma'[x] = vma[x]
      /\ vma'[a].m = m
  BY <1>0, <1>a DEF PinDoEff, Moves
<1>2. /\ \A u \in Thread \ {t} : th'[u] = th[u]
      /\ th'[t].op = th[t].op /\ th'[t].pc = "pin_put" /\ th'[t].m = m /\ th'[t].a = a
  BY <1>0, <1>a DEF PinDoEff, Moves, Keeps
<1>3. /\ \A n \in Mem : n # m => mem'[n] = mem[n] /\ cb'[n] = cb[n]
      /\ mem'[m].heap = mem[m].heap /\ mem'[m].vaddr = a /\ mem'[m].state = "LIVE"
      /\ \A n \in Mem : mem'[n].id = mem[n].id
  BY <1>0, <1>a DEF PinDoEff, Only, SameId
<1>4. /\ m \in memList /\ mem[m].state \in Unpinned /\ vma[a] = NoVma
      /\ \A x \in Addr : vma[x].m # m
  BY <1>0, <1>a, <1>1 DEF RaceInv, NameInv, PinsOK, PinPc
<1>5. ~IsKnown(m)
  BY <1>0, <1>1 DEF RaceInv, NameInv, KnownOK, Waits, TakenPc, PinPc
<1>6. /\ mem[m].heap # "unused"
      /\ \A u \in Thread : th[u].op = "reg" => th[u].m # m
  <2>1. th[t].op # "reg"
    BY <1>1 DEF CtxInv, Ops, OpOK
  <2> QED BY <1>0, <1>1, <2>1, UsedNotNew DEF RaceInv, WalkPc
<1>7. \A u \in Thread : th[u].pc \in PinPc \cup {"pin_put", "unmap_do", "unmap_put"} => u = t
  <2>1. mmapLock = t
    BY <1>1 DEF CtxInv, Ops, OpOK, BaseInv, Mmap
  <2> QED BY <2>1, MmapAlone
<1>8. Fresh'
  <2>1. \A n \in Mem : n # m => (Blank(n) => Blank(n)')
    BY <1>3 DEF Blank
  <2>2. \A n \in Mem : mem'[n].heap = "unused" => n # m /\ Blank(n)
    BY <1>3, <1>6 DEF RaceInv, NameInv, Fresh
  <2>3. \A n \in Mem : (\E u \in Thread : th'[u].op = "reg" /\ th'[u].m = n) => n # m /\ Blank(n)
    BY <1>0, <1>2, <1>6 DEF RaceInv, NameInv, Fresh
  <2> QED BY <2>1, <2>2, <2>3 DEF Fresh
<1>9. KnownOK'
  <2>1. \A n \in Mem : n # m /\ Waits(n) => Waits(n)'
    <3>1. ASSUME NEW n \in Mem, n # m, Nowhere(n) PROVE Nowhere(n)'
      BY <1>1, <3>1 DEF Nowhere
    <3> QED BY <1>2, <1>3, <3>1 DEF Waits
  <2>2. \A n \in Mem : IsKnown(n)' => IsKnown(n) /\ n # m
    BY <1>1, <1>5 DEF IsKnown
  <2>3. \A h \in known' : memXa'[h - 1] \in Mem
    BY <1>1 DEF RaceInv, NameInv, KnownOK
  <2> QED BY <2>1, <2>2, <2>3 DEF KnownOK, RaceInv, NameInv
<1>10. PinsOK'
  <2>1. \A u \in Thread : /\ th'[u].pc \notin PinPc
                          /\ th'[u].pc = "pin_put" => u = t
    BY <1>2, <1>7 DEF PinPc
  <2> QED BY <1>1, <1>2, <1>4, <2>1 DEF PinsOK
<1>11. VmasOK'
  <2>1. \A n \in memList : n # m => mem'[n] = mem[n]
    BY <1>3, ListTypes
  <2> QED BY <1>1, <1>3, <1>4, <2>1 DEF RaceInv, NameInv, VmasOK, Pinned
<1>12. UnmapsOK'
  <2>1. \A u \in Thread : th'[u].pc = "rel_unlink" => u # t /\ th[u].pc = "rel_unlink" /\ th'[u] = th[u]
    BY <1>2
  <2>2. \A u \in Thread : th'[u].pc \notin {"unmap_do", "unmap_put"}
    BY <1>2, <1>7
  <2> QED BY <1>1, <2>1, <2>2 DEF RaceInv, NameInv, UnmapsOK
<1>13. /\ \A u \in Thread : RegKept(u)
       /\ \A u \in Thread : AddrKept(u)
       /\ \A u \in Thread : NoNewUse(u)
       /\ \A u \in Thread : ListKept(u)
  BY <1>0, <1>a, <1>1, <1>2 DEF RegKept, AddrKept, NoNewUse, ListKept, RegPc, WalkPc
<1>14. XaOK' /\ RegsOK' /\ MapAddrs'
  BY <1>1, <1>3, <1>13, ListTypes, XaFrame, RegsFrame, AddrsFrame DEF RaceInv, NameInv
<1> QED BY <1>8, <1>9, <1>10, <1>11, <1>12, <1>14 DEF NameInv

LEMMA PinDoFailsName ==
  ASSUME Inv, CtxInv, BaseInv, Races, RaceInv, NEW t \in Thread, PinDoFailsEff(t)
  PROVE  NameInv'
<1>0. PICK m \in Mem : m = th[t].m
  BY DEF PinDoFailsEff
<1>1. /\ memList' = memList /\ memXa' = memXa /\ vma' = vma /\ th[t].pc = "pin_do"
      /\ known' = known \cup {mem[m].id + 1}
  BY <1>0 DEF PinDoFailsEff, Moves
<1>2. /\ \A u \in Thread \ {t} : th'[u] = th[u]
      /\ th'[t].op = th[t].op /\ th'[t].pc = "pin_put" /\ th'[t].m = m /\ th'[t].a = th[t].a
  BY <1>0 DEF PinDoFailsEff, Moves, Keeps
<1>3. /\ \A n \in Mem : n # m => mem'[n] = mem[n] /\ cb'[n] = cb[n]
      /\ mem'[m].heap = mem[m].heap /\ mem'[m].state = mem[m].state
      /\ \A n \in Mem : mem'[n].id = mem[n].id
  BY <1>0 DEF PinDoFailsEff, Only, SameId
<1>4. /\ m \in memList /\ mem[m].state \in Unpinned
      /\ \A x \in Addr : vma[x].m # m
  BY <1>0, <1>1 DEF RaceInv, NameInv, PinsOK, PinPc
<1>5. \A n \in Mem : StateKept(n)
  BY <1>3 DEF StateKept
<1>6. /\ mem[m].heap # "unused"
      /\ \A u \in Thread : th[u].op = "reg" => th[u].m # m
  <2>1. th[t].op # "reg"
    BY <1>1 DEF CtxInv, Ops, OpOK
  <2> QED BY <1>0, <1>1, <2>1, UsedNotNew DEF RaceInv, WalkPc
<1>7. \A u \in Thread : th[u].pc \in PinPc \cup {"pin_put", "unmap_do", "unmap_put"} => u = t
  <2>1. mmapLock = t
    BY <1>1 DEF CtxInv, Ops, OpOK, BaseInv, Mmap
  <2> QED BY <2>1, MmapAlone
<1>8. Fresh'
  <2>1. \A n \in Mem : n # m => (Blank(n) => Blank(n)')
    BY <1>3 DEF Blank
  <2>2. \A n \in Mem : mem'[n].heap = "unused" => n # m /\ Blank(n)
    BY <1>3, <1>6 DEF RaceInv, NameInv, Fresh
  <2>3. \A n \in Mem : (\E u \in Thread : th'[u].op = "reg" /\ th'[u].m = n) => n # m /\ Blank(n)
    BY <1>0, <1>2, <1>6 DEF RaceInv, NameInv, Fresh
  <2> QED BY <2>1, <2>2, <2>3 DEF Fresh
<1>9. mem[m].id \in Int /\ (mem[m].id + 1) - 1 = mem[m].id /\ memXa[mem[m].id] = m
  BY <1>4, MemTypes DEF RaceInv, NameInv, XaOK, Id
<1>10. KnownOK'
  <2>1. Waits(m)'
    <3>1. \A u \in Thread : th[u].pc \in RegPc => th[u].op = "reg"
      BY DEF CtxInv, Ops, OpOK, RegPc
    <3>2. \A u \in Thread : u # t /\ th[u].m = m => th[u].pc \notin TakenPc
      BY <1>6, <1>7, <3>1 DEF TakenPc, RegPc
    <3> QED BY <1>1, <1>2, <1>3, <1>4, <3>2 DEF Waits, Nowhere, TakenPc, PinPc
  <2>2. \A n \in Mem : n # m /\ Waits(n) => Waits(n)'
    BY <1>1, <1>2, <1>3 DEF Waits, Nowhere
  <2>3. \A n \in Mem : IsKnown(n)' => IsKnown(n) \/ n = m
    BY <1>1, <1>9 DEF IsKnown
  <2>4. \A h \in known' : memXa'[h - 1] \in Mem
    BY <1>1, <1>9 DEF RaceInv, NameInv, KnownOK
  <2> QED BY <2>1, <2>2, <2>3, <2>4 DEF KnownOK, RaceInv, NameInv
<1>11. PinsOK'
  <2>1. \A u \in Thread : /\ th'[u].pc \notin PinPc
                          /\ th'[u].pc = "pin_put" => u = t
    BY <1>2, <1>7 DEF PinPc
  <2> QED BY <1>1, <1>2, <1>4, <1>9, <2>1 DEF PinsOK
<1>12. VmasOK'
  <2>1. \A n \in memList : n # m => mem'[n] = mem[n]
    BY <1>3, ListTypes
  <2> QED BY <1>1, <1>4, <2>1 DEF RaceInv, NameInv, VmasOK
<1>13. /\ \A u \in Thread : UnmapKept(u)
       /\ \A u \in Thread : RegKept(u)
       /\ \A u \in Thread : AddrKept(u)
       /\ \A u \in Thread : NoNewUse(u)
       /\ \A u \in Thread : ListKept(u)
  BY <1>0, <1>1, <1>2 DEF UnmapKept, RegKept, AddrKept, NoNewUse, ListKept, RegPc, WalkPc, UnmapPc
<1>14. XaOK' /\ RegsOK' /\ MapAddrs' /\ UnmapsOK'
  BY <1>1, <1>3, <1>5, <1>13, ListTypes, XaFrame, RegsFrame, AddrsFrame, UnmapsFrame
     DEF RaceInv, NameInv
<1> QED BY <1>8, <1>10, <1>11, <1>12, <1>14 DEF NameInv

LEMMA PutName ==
  ASSUME Inv, CtxInv, BaseInv, Races, RaceInv, NEW t \in Thread, NEW pc, NEW next,
         PutPc(pc, next), PutEff(t, pc, next)
  PROVE  NameInv'
<1>1. NamesKept
  BY DEF NamesKept, PutEff
<1>2. \A n \in Mem : MemKept(n)
  BY DEF MemKept, Plain, StateKept, BlankKept, Blank, PutPc, PutEff, Puts, Keeps, RefTo,
     Only, SameUse, SameId
<1>3. \A u \in Thread : TakenKept(u) /\ PinKept(u) /\ RegKept(u) /\ AddrKept(u) /\ NoNewUse(u)
  BY DEF TakenKept, PinKept, RegKept, NoNewUse, AddrKept, TakenPc, PinPc, RegPc, WalkPc, PutPc, PutEff,
     Puts, Keeps
<1>4. PICK m \in Mem : m = th[t].m
  BY DEF PutEff, Puts
<1>5. /\ th[t].pc = pc /\ mem[m].ref > 0 /\ mem[m].heap # "freed"
      /\ (mem[m].ref = 1 /\ th'[t].pc = "rel_unlink") \/ th'[t].pc = next
      /\ memList' = memList
      /\ \A u \in Thread \ {t} : th'[u] = th[u]
      /\ th'[t].m = th[t].m /\ th'[t].a = th[t].a
  BY <1>4 DEF PutEff, Puts, Keeps
<1>6. ASSUME th'[t].pc = "rel_unlink" PROVE m \in memList
  <2>1. CASE pc \in {"unmap_put", "pin_put"}
    BY <1>4, <1>5, <2>1 DEF RaceInv, NameInv, UnmapsOK, PinsOK
  <2>2. CASE pc = "map_put"
    <3>1. mem[m].ref = 1
      BY <1>5, <1>6 DEF PutPc
    <3> QED BY <1>4, <1>5, <2>2, <3>1, LastHolder
  <2> QED BY <2>1, <2>2 DEF PutPc
<1>7. UnmapsOK'
  <2>1. /\ \A u \in Thread : th'[u].pc \in {"unmap_do", "unmap_put"} =>
             th'[u].pc = th[u].pc /\ th'[u].m = th[u].m /\ th'[u].a = th[u].a
        /\ \A u \in Thread : th'[u].pc = "rel_unlink" =>
             th'[u].m \in memList'
    BY <1>4, <1>5, <1>6 DEF PutPc, RaceInv, NameInv, UnmapsOK
  <2>2. vma' = vma /\ \A n \in Mem : mem'[n].state = mem[n].state
    BY DEF PutEff, Puts, RefTo, Only, SameUse
  <2>3. memList \subseteq Mem
    BY ListTypes
  <2>4. /\ \A u \in Thread : th[u].pc = "unmap_do" => th[u].a \in Addr /\ vma[th[u].a].m = th[u].m
        /\ \A u \in Thread : th[u].pc = "unmap_put" =>
             /\ th[u].m \in memList /\ mem[th[u].m].state \in Pinned
             /\ \A a \in Addr : vma[a].m # th[u].m
    BY DEF RaceInv, NameInv, UnmapsOK
  <2>5. \A u \in Thread : th'[u].pc = "unmap_put" => mem'[th'[u].m].state \in Pinned
    BY <2>1, <2>2, <2>3, <2>4
  <2> QED BY <1>5, <2>1, <2>2, <2>4, <2>5 DEF UnmapsOK
<1>8. /\ \A u \in Thread : TakenKept(u)
      /\ \A u \in Thread : PinKept(u)
      /\ \A u \in Thread : RegKept(u)
      /\ \A u \in Thread : NoNewUse(u)
      /\ \A u \in Thread : AddrKept(u)
  BY <1>3
<1> QED BY <1>1, <1>2, <1>7, <1>8, NamesFrame DEF RaceInv, NameInv

LEMMA PinReturnName ==
  ASSUME Inv, CtxInv, BaseInv, Races, RaceInv, NEW t \in Thread, PinReturnEff(t)
  PROVE  NameInv'
<1>1. NamesKept
  BY DEF NamesKept, PinReturnEff
<1>2. \A n \in Mem : MemKept(n)
  BY DEF MemKept, Plain, StateKept, BlankKept, Blank, PinReturnEff
<1>3. \A u \in Thread : ThreadKept(u)
  BY DEF ThreadKept, TakenKept, PinKept, UnmapKept, RegKept, AddrKept, TakenPc, PinPc,
     RegPc, UnmapPc, PinReturnEff, Ends
<1>4. \A u \in Thread : NoNewUse(u)
  BY DEF NoNewUse, WalkPc, PinReturnEff, Ends
<1> QED BY <1>1, <1>2, <1>3, <1>4, NamesFrameAll DEF RaceInv

LEMMA RelUnlinkName ==
  ASSUME Inv, CtxInv, BaseInv, Races, RaceInv, NEW t \in Thread, RelUnlinkEff(t)
  PROVE  NameInv'
<1>0. PICK m \in Mem : m = th[t].m
  BY DEF RelUnlinkEff
<1>1. /\ th[t].pc = "rel_unlink" /\ memList' = memList \ {m} /\ vma' = vma /\ known' = known
      /\ \A i \in Id : memXa'[i] = IF i = mem[m].id THEN NULL ELSE memXa[i]
      /\ mem' = mem /\ cb' = cb
  BY <1>0 DEF RelUnlinkEff, Moves
<1>2. /\ \A u \in Thread \ {t} : th'[u] = th[u]
      /\ th'[t].op = th[t].op /\ th'[t].pc = "rel_free" /\ th'[t].m = th[t].m /\ th'[t].a = th[t].a
  BY DEF RelUnlinkEff, Moves, Keeps
<1>3. \A n \in Mem : Plain(n) /\ StateKept(n) /\ mem'[n].id = mem[n].id /\ BlankKept(n)
  BY <1>1 DEF Plain, StateKept, BlankKept, Blank
<1>4. /\ m \in memList /\ mem[m].state # "STALE" /\ ~IsKnown(m)
      /\ \A u \in Thread : th[u].pc \in PinPc \cup {"unmap_put"} => th[u].m # m
      /\ \A a \in Addr : vma[a].m # m
  BY <1>0, <1>1, ReleasedUnused DEF Token
<1>5. \A u \in Thread : th[u].pc \in {"pin_put", "unmap_do"} => th[u].m # m
  BY <1>4 DEF RaceInv, NameInv, PinsOK, UnmapsOK, IsKnown
<1>6. \A u \in Thread : th[u].pc \in RegPc => th[u].m # m
  BY <1>4 DEF CtxInv, Ops, OpOK, RegPc, RaceInv, NameInv, Fresh, Blank
<1>7. \A u \in Thread : th[u].pc = "rel_unlink" /\ th[u].m = m => u = t
  BY <1>0, <1>1 DEF BaseInv, Releases, LastPc
<1>9. /\ XaOK'
      /\ \A i \in Id : memXa[i] \in memList /\ memXa[i] # m => memXa'[i] = memXa[i]
  BY <1>1, <1>3, <1>4, XaRemove DEF RaceInv, NameInv
<1>10. HandlesKept(known) /\ HandlesKept(known')
  BY <1>1, <1>4, <1>9, KnownListed DEF HandlesKept, IsKnown, RaceInv, NameInv
<1>11. /\ \A u \in Thread : TakenKept(u)
       /\ \A u \in Thread : PinKept(u)
       /\ \A u \in Thread : UnmapKept(u)
       /\ \A u \in Thread : RegKept(u)
       /\ \A u \in Thread : NoNewUse(u)
       /\ \A u \in Thread : AddrKept(u)
  BY <1>1, <1>2 DEF TakenKept, PinKept, UnmapKept, RegKept, NoNewUse, AddrKept, TakenPc, PinPc,
     RegPc, UnmapPc, WalkPc
<1>12. VmasKept
  BY <1>1, VmaTypes, NoVmaFields DEF VmasKept
<1>13. \A u \in Thread : ListKept(u)
  BY <1>1, <1>2, <1>4, <1>5, <1>6, <1>7 DEF ListKept, PinPc, RegPc, UnmapPc
<1>14. memList \subseteq Mem /\ memList' \subseteq memList
  BY <1>1, ListTypes
<1>15. KnownOK' /\ Fresh' /\ MapAddrs'
  BY <1>3, <1>10, <1>11, <1>12, <1>14, KnownFrame, FreshFrame, AddrsFrame DEF RaceInv, NameInv
<1>16. PinsOK'
  BY <1>1, <1>3, <1>10, <1>11, <1>13, <1>14, PinsFrame DEF RaceInv, NameInv
<1>17. VmasOK'
  BY <1>1, <1>3, <1>4, <1>12, <1>14, VmasFrame DEF RaceInv, NameInv
<1>18. UnmapsOK' /\ RegsOK'
  BY <1>1, <1>3, <1>11, <1>13, <1>14, UnmapsFrame, RegsFrame DEF RaceInv, NameInv
<1> QED BY <1>9, <1>15, <1>16, <1>17, <1>18 DEF NameInv

LEMMA RelFreeName ==
  ASSUME Inv, CtxInv, BaseInv, Races, RaceInv, NEW t \in Thread, RelFreeEff(t)
  PROVE  NameInv'
<1>1. NamesKept
  BY DEF NamesKept, RelFreeEff
<1>2. \A n \in Mem : MemKept(n)
  <2>1. /\ \A n \in Mem : n # th[t].m => mem'[n] = mem[n] /\ cb'[n] = cb[n]
        /\ th[t].m \notin memList
    BY DEF RelFreeEff, Only, Moves, CtxInv, Lists
  <2>2. \A n \in Mem : BlankKept(n)
    BY DEF BlankKept, Blank, RelFreeEff, Only, SameCounts
  <2> QED BY <2>1, <2>2 DEF MemKept, Plain, StateKept
<1>3. \A u \in Thread : ThreadKept(u)
  BY DEF ThreadKept, TakenKept, PinKept, UnmapKept, RegKept, AddrKept, TakenPc, PinPc, RegPc, UnmapPc,
     RelFreeEff, Moves, Keeps
<1>4. \A u \in Thread : NoNewUse(u)
  BY DEF NoNewUse, WalkPc, RelFreeEff, Moves, Keeps
<1> QED BY <1>1, <1>2, <1>3, <1>4, NamesFrameAll DEF RaceInv

LEMMA RelCtxName ==
  ASSUME Inv, CtxInv, BaseInv, Races, RaceInv, NEW t \in Thread, RelCtxEff(t)
  PROVE  NameInv'
<1>1. NamesKept
  BY DEF NamesKept, RelCtxEff
<1>2. \A n \in Mem : MemKept(n)
  BY DEF MemKept, Plain, StateKept, BlankKept, Blank, RelCtxEff
<1>3. \A u \in Thread : ThreadKept(u)
  BY DEF ThreadKept, TakenKept, PinKept, UnmapKept, RegKept, AddrKept, TakenPc, PinPc,
     RegPc, UnmapPc, RelCtxEff, Keeps, RelRet
<1>4. \A u \in Thread : NoNewUse(u)
  BY DEF NoNewUse, WalkPc, RelCtxEff, Keeps, RelRet
<1> QED BY <1>1, <1>2, <1>3, <1>4, NamesFrameAll DEF RaceInv

LEMMA UnmapStartName ==
  ASSUME Inv, CtxInv, BaseInv, Races, RaceInv, NEW t \in Thread, NEW a \in Addr,
         UnmapStartEff(t, a)
  PROVE  NameInv'
<1>1. NamesKept
  BY DEF NamesKept, UnmapStartEff
<1>2. \A n \in Mem : MemKept(n)
  BY DEF MemKept, Plain, StateKept, BlankKept, Blank, UnmapStartEff
<1>3. PICK m \in Mem : m = vma[a].m
  BY DEF UnmapStartEff
<1>4. /\ vma' = vma /\ memList' = memList /\ mmapLock = NULL /\ mem' = mem
      /\ \A u \in Thread \ {t} : th'[u] = th[u]
      /\ th'[t].op = "unmap" /\ th'[t].pc = "unmap_do" /\ th'[t].m = m /\ th'[t].a = a
  BY <1>3 DEF UnmapStartEff, Starts
<1>5. \A u \in Thread : th[u].pc \notin PinPc \cup {"pin_put", "unmap_do", "unmap_put"}
  BY <1>4, NullOut, MmapAlone
<1>6. ~IsKnown(m)
  BY <1>3 DEF RaceInv, NameInv, KnownOK, Waits, Nowhere
<1>7. \A u \in Thread : th[u].pc \in RegPc => th[u].m # m
  <2>1. mem[m].state # "STALE"
    BY <1>3, NullOut DEF RaceInv, NameInv, VmasOK, Pinned
  <2> QED BY <2>1 DEF CtxInv, Ops, OpOK, RegPc, RaceInv, NameInv, Fresh, Blank
<1>8. KnownOK'
  <2>1. \A n \in Mem : n # m /\ Waits(n) => Waits(n)'
    BY <1>4 DEF Waits, Nowhere
  <2>2. \A n \in Mem : IsKnown(n)' => IsKnown(n) /\ n # m
    BY <1>1, <1>6 DEF IsKnown, NamesKept
  <2>3. \A h \in known' : memXa'[h - 1] \in Mem
    BY <1>1 DEF RaceInv, NameInv, KnownOK, NamesKept
  <2> QED BY <2>1, <2>2, <2>3 DEF KnownOK, RaceInv, NameInv
<1>9. UnmapsOK'
  <2>1. \A u \in Thread : /\ th'[u].pc = "unmap_do" => u = t
                          /\ th'[u].pc # "unmap_put"
                          /\ th'[u].pc = "rel_unlink" => th'[u] = th[u]
    BY <1>4, <1>5
  <2> QED BY <1>3, <1>4, <2>1 DEF RaceInv, NameInv, UnmapsOK
<1>10. RegsOK'
  BY <1>4, <1>7 DEF RaceInv, NameInv, RegsOK, RegPc
<1>11. /\ \A u \in Thread : PinKept(u)
       /\ \A u \in Thread : RegKept(u)
       /\ \A u \in Thread : AddrKept(u)
  BY <1>4 DEF PinKept, RegKept, AddrKept, PinPc, RegPc
<1> QED BY <1>1, <1>2, <1>8, <1>9, <1>10, <1>11, NamesFrame DEF RaceInv, NameInv

LEMMA UnmapDoName ==
  ASSUME Inv, CtxInv, BaseInv, Races, RaceInv, NEW t \in Thread, UnmapDoEff(t)
  PROVE  NameInv'
<1>0. PICK m \in Mem : m = th[t].m
  BY DEF UnmapDoEff
<1>a. PICK a \in Addr : a = th[t].a /\ vma[a].m = m
  BY <1>0 DEF RaceInv, NameInv, UnmapsOK, UnmapDoEff, Moves
<1>1. /\ memList' = memList /\ memXa' = memXa /\ known' = known /\ th[t].pc = "unmap_do"
      /\ \A x \in Addr \ {a} : vma'[x] = vma[x]
      /\ vma'[a].m = NULL
  BY <1>0, <1>a, NoVmaFields DEF UnmapDoEff, Moves
<1>2. /\ \A u \in Thread \ {t} : th'[u] = th[u]
      /\ th'[t].op = th[t].op /\ th'[t].pc = "unmap_put" /\ th'[t].m = m /\ th'[t].a = a
  BY <1>0, <1>a DEF UnmapDoEff, Moves, Keeps
<1>3. \A n \in Mem : Plain(n) /\ StateKept(n) /\ mem'[n].state = mem[n].state /\ mem'[n].id = mem[n].id
  BY DEF Plain, StateKept, UnmapDoEff, Only, SameUse, SameId
<1>4. \A n \in Mem : BlankKept(n)
  BY DEF BlankKept, Blank, UnmapDoEff, Only, SameUse
<1>5. /\ m \in memList /\ mem[m].state \in Pinned
      /\ \A x \in Addr \ {a} : vma[x].m # m
  BY <1>a, NullOut DEF RaceInv, NameInv, VmasOK
<1>6. \A u \in Thread : th[u].pc \in PinPc \cup {"pin_put", "unmap_do", "unmap_put"} => u = t
  <2>1. mmapLock = t
    BY <1>1 DEF CtxInv, Ops, OpOK, BaseInv, Mmap
  <2> QED BY <2>1, MmapAlone
<1>7. HandlesKept(known) /\ HandlesKept(known')
  BY <1>1 DEF HandlesKept
<1>8. /\ VmasKept
      /\ \A u \in Thread : ListKept(u)
      /\ memList \subseteq Mem
  BY <1>1, VmaTypes, NoVmaFields, ListTypes DEF VmasKept, ListKept
<1>9. /\ \A u \in Thread : TakenKept(u)
      /\ \A u \in Thread : RegKept(u)
      /\ \A u \in Thread : NoNewUse(u)
      /\ \A u \in Thread : AddrKept(u)
  BY <1>0, <1>a, <1>1, <1>2 DEF TakenKept, RegKept, NoNewUse, AddrKept, TakenPc, PinPc, RegPc, WalkPc
<1>10. PinsOK'
  <2>1. \A u \in Thread : th'[u].pc \notin PinPc \cup {"pin_put"}
    BY <1>1, <1>2, <1>6 DEF PinPc
  <2> QED BY <2>1 DEF PinsOK
<1>11. UnmapsOK'
  <2>1. \A u \in Thread : /\ th'[u].pc # "unmap_do"
                          /\ th'[u].pc = "unmap_put" => u = t
                          /\ th'[u].pc = "rel_unlink" => th'[u] = th[u]
    BY <1>2, <1>6
  <2>2. \A x \in Addr : vma'[x].m # m
    BY <1>1, <1>5, NullOut
  <2> QED BY <1>1, <1>2, <1>3, <1>5, <2>1, <2>2 DEF RaceInv, NameInv, UnmapsOK
<1>12. XaOK' /\ Fresh' /\ MapAddrs'
  BY <1>1, <1>3, <1>4, <1>8, <1>9, XaFrame, FreshFrame, AddrsFrame DEF RaceInv, NameInv
<1>13. KnownOK' /\ VmasOK'
  BY <1>1, <1>3, <1>7, <1>8, <1>9, KnownFrame, VmasFrame DEF RaceInv, NameInv
<1>14. RegsOK'
  BY <1>8, <1>9, RegsFrame DEF RaceInv, NameInv
<1> QED BY <1>10, <1>11, <1>12, <1>13, <1>14 DEF NameInv

LEMMA UnmapReturnName ==
  ASSUME Inv, CtxInv, BaseInv, Races, RaceInv, NEW t \in Thread, UnmapReturnEff(t)
  PROVE  NameInv'
<1>1. NamesKept
  BY DEF NamesKept, UnmapReturnEff
<1>2. \A n \in Mem : MemKept(n)
  BY DEF MemKept, Plain, StateKept, BlankKept, Blank, UnmapReturnEff
<1>3. \A u \in Thread : ThreadKept(u)
  BY DEF ThreadKept, TakenKept, PinKept, UnmapKept, RegKept, AddrKept, TakenPc, PinPc,
     RegPc, UnmapPc, UnmapReturnEff, Ends
<1>4. \A u \in Thread : NoNewUse(u)
  BY DEF NoNewUse, WalkPc, UnmapReturnEff, Ends
<1> QED BY <1>1, <1>2, <1>3, <1>4, NamesFrameAll DEF RaceInv

LEMMA SplitVmaName ==
  ASSUME Inv, CtxInv, BaseInv, Races, RaceInv, NEW a \in Addr, NEW b \in Addr,
         SplitVmaEff(a, b)
  PROVE  NameInv'
<1> QED BY DEF Races, SplitVmaEff

LEMMA CloseStartName ==
  ASSUME Inv, CtxInv, BaseInv, Races, RaceInv, NEW t \in Thread, NEW f \in File,
         CloseStartEff(t, f)
  PROVE  NameInv'
<1>1. NamesKept
  BY DEF NamesKept, CloseStartEff
<1>2. \A n \in Mem : MemKept(n)
  BY DEF MemKept, Plain, StateKept, BlankKept, Blank, CloseStartEff
<1>3. \A u \in Thread : ThreadKept(u)
  BY DEF ThreadKept, TakenKept, PinKept, UnmapKept, RegKept, AddrKept, TakenPc, PinPc,
     RegPc, UnmapPc, CloseStartEff, Starts
<1>4. \A u \in Thread : NoNewUse(u)
  BY DEF NoNewUse, WalkPc, CloseStartEff, Starts
<1> QED BY <1>1, <1>2, <1>3, <1>4, NamesFrameAll DEF RaceInv

LEMMA CloseDoName ==
  ASSUME Inv, CtxInv, BaseInv, Races, RaceInv, NEW t \in Thread, CloseDoEff(t)
  PROVE  NameInv'
<1>1. /\ vma' = vma /\ known' = {} /\ memList' = memList \ Stale /\ th[t].pc = "close_do"
      /\ \A i \in Id : memXa'[i] = IF \E m \in Stale : mem[m].id = i THEN NULL ELSE memXa[i]
  BY DEF CloseDoEff, Moves
<1>2. /\ \A u \in Thread \ {t} : th'[u] = th[u]
      /\ th'[t].op = th[t].op /\ th'[t].pc = "close_ctx" /\ th'[t].m = th[t].m /\ th'[t].a = th[t].a
  BY DEF CloseDoEff, Moves, Keeps
<1>3. \A n \in Mem : Plain(n) /\ StateKept(n) /\ mem'[n].id = mem[n].id
  BY DEF Plain, StateKept, CloseDoEff, SameId
<1>4. \A n \in Mem : BlankKept(n)
  BY DEF BlankKept, Blank, CloseDoEff, SameCounts
<1>5. \A u \in Thread : th[u].op \notin {"reg", "pin"}
  BY <1>1, CloseAlone
<1>6. \A u \in Thread : th[u].pc \notin PinPc \cup RegPc \cup {"pin_put"}
  BY <1>5 DEF CtxInv, Ops, OpOK, PinPc, RegPc
<1>7. XaOK'
  <2>1. /\ \A i \in Id : memXa[i] # NULL => memXa[i] \in memList /\ mem[memXa[i]].id = i
        /\ \A n \in memList : memXa[mem[n].id] = n /\ n \in Mem /\ n # NULL /\ mem[n].id \in Id
    BY MemTypes, ListTypes, NullOut DEF RaceInv, NameInv, XaOK
  <2>2. \A n \in Stale : n \in memList
    BY DEF Stale
  <2>3. \A n \in memList' : memXa'[mem'[n].id] = n
    BY <1>1, <1>3, <2>1, <2>2
  <2>4. \A i \in Id : memXa'[i] # NULL => memXa'[i] \in memList' /\ mem'[memXa'[i]].id = i
    BY <1>1, <1>3, <2>1, <2>2
  <2> QED BY <2>3, <2>4 DEF XaOK
<1>8. KnownOK' /\ PinsOK'
  BY <1>1, <1>2, <1>6 DEF KnownOK, IsKnown, PinsOK, PinPc
<1>9. /\ \A a \in Addr : vma[a].m # NULL => mem[vma[a].m].state # "STALE"
      /\ \A u \in Thread : th[u].pc = "unmap_put" => mem[th[u].m].state # "STALE"
      /\ \A u \in Thread : th[u].pc = "rel_unlink" => mem[th[u].m].state # "STALE"
  BY ReleasedUnused DEF RaceInv, NameInv, VmasOK, UnmapsOK, Pinned, Token
<1>10. /\ VmasKept
       /\ \A u \in Thread : UnmapKept(u)
       /\ \A u \in Thread : RegKept(u)
       /\ \A u \in Thread : NoNewUse(u)
       /\ \A u \in Thread : AddrKept(u)
       /\ memList \subseteq Mem
  BY <1>1, <1>2, VmaTypes, NoVmaFields, ListTypes
     DEF VmasKept, UnmapKept, RegKept, NoNewUse, AddrKept, UnmapPc, RegPc, WalkPc
<1>11. Fresh' /\ MapAddrs'
  BY <1>4, <1>10, FreshFrame, AddrsFrame DEF RaceInv, NameInv
<1>12. VmasOK'
  <2>1. \A a \in Addr : vma[a].m \in memList => vma[a].m \in memList' \/ vma'[a].m = NULL
    BY <1>1, <1>9 DEF Stale
  <2> QED BY <1>3, <1>10, <2>1, VmasFrame DEF RaceInv, NameInv
<1>13. UnmapsOK'
  <2>1. /\ \A u \in Thread : th[u].pc = "unmap_do" => th[u].a \in Addr /\ vma[th[u].a].m = th[u].m
        /\ \A u \in Thread : th[u].pc = "unmap_put" =>
             /\ th[u].m \in memList' /\ mem[th[u].m].state \in Pinned
             /\ \A a \in Addr : vma[a].m # th[u].m
        /\ \A u \in Thread : th[u].pc = "rel_unlink" => th[u].m \in memList'
    BY <1>1, <1>9 DEF RaceInv, NameInv, UnmapsOK, Stale
  <2>2. \A u \in Thread : th'[u].pc \in {"unmap_do", "unmap_put", "rel_unlink"} => th'[u] = th[u]
    BY <1>2
  <2>3. \A n \in memList' : mem[n].state \in Pinned => mem'[n].state \in Pinned
    BY <1>1, <1>3, <1>10 DEF StateKept
  <2> QED BY <1>1, <2>1, <2>2, <2>3 DEF UnmapsOK
<1>14. RegsOK'
  BY <1>2, <1>6 DEF RegsOK, RegPc
<1> QED BY <1>7, <1>8, <1>11, <1>12, <1>13, <1>14 DEF NameInv

LEMMA CloseReturnName ==
  ASSUME Inv, CtxInv, BaseInv, Races, RaceInv, NEW t \in Thread, CloseReturnEff(t)
  PROVE  NameInv'
<1>1. NamesKept
  BY DEF NamesKept, CloseReturnEff
<1>2. \A n \in Mem : MemKept(n)
  BY DEF MemKept, Plain, StateKept, BlankKept, Blank, CloseReturnEff
<1>3. \A u \in Thread : ThreadKept(u)
  BY DEF ThreadKept, TakenKept, PinKept, UnmapKept, RegKept, AddrKept, TakenPc, PinPc,
     RegPc, UnmapPc, CloseReturnEff, Ends
<1>4. \A u \in Thread : NoNewUse(u)
  BY DEF NoNewUse, WalkPc, CloseReturnEff, Ends
<1> QED BY <1>1, <1>2, <1>3, <1>4, NamesFrameAll DEF RaceInv

LEMMA MapStartName ==
  ASSUME Inv, CtxInv, BaseInv, Races, RaceInv, NEW t \in Thread, NEW f \in File, NEW a,
         MayMap(a), MapStartEff(t, f, a)
  PROVE  NameInv'
<1>1. NamesKept
  BY DEF NamesKept, MapStartEff
<1>2. \A n \in Mem : MemKept(n)
  BY DEF MemKept, Plain, StateKept, BlankKept, Blank, MapStartEff
<1>3. a \in Addr
  BY DEF MayMap, Races
<1>4. \A u \in Thread : TakenKept(u) /\ PinKept(u) /\ UnmapKept(u) /\ RegKept(u) /\ NoNewUse(u)
  BY DEF TakenKept, PinKept, UnmapKept, RegKept, NoNewUse, TakenPc, PinPc, RegPc, UnmapPc, WalkPc,
     MapStartEff, Starts
<1>5. MapAddrs'
  BY <1>3 DEF RaceInv, NameInv, MapAddrs, MapStartEff, Starts
<1> QED BY <1>1, <1>2, <1>4, <1>5, NamesFrame DEF RaceInv, NameInv

LEMMA MapLockName ==
  ASSUME Inv, CtxInv, BaseInv, Races, RaceInv, NEW t \in Thread, MapLockEff(t)
  PROVE  NameInv'
<1>1. NamesKept
  BY DEF NamesKept, MapLockEff
<1>2. \A n \in Mem : MemKept(n)
  BY DEF MemKept, Plain, StateKept, BlankKept, Blank, MapLockEff
<1>3. th[t].op # "reg"
  BY DEF CtxInv, Ops, OpOK, MapLockEff
<1>4. \A u \in Thread : ThreadKept(u)
  BY <1>3 DEF ThreadKept, TakenKept, PinKept, UnmapKept, RegKept, AddrKept, TakenPc, PinPc,
     RegPc, UnmapPc, MapLockEff, Looks
<1>5. \A u \in Thread : NoNewUse(u)
  BY DEF NoNewUse, WalkPc, MapLockEff, Looks
<1> QED BY <1>1, <1>2, <1>4, <1>5, NamesFrameAll DEF RaceInv

LEMMA WalkMatchName ==
  ASSUME Inv, CtxInv, BaseInv, Races, RaceInv, NEW t \in Thread, WalkMatchEff(t)
  PROVE  NameInv'
<1>1. NamesKept
  BY DEF NamesKept, WalkMatchEff
<1>2. \A n \in Mem : MemKept(n)
  BY DEF MemKept, Plain, StateKept, BlankKept, Blank, WalkMatchEff, RefTo, Only,
     SameUse, SameId
<1>3. \A u \in Thread : ThreadKept(u)
  BY DEF ThreadKept, TakenKept, PinKept, UnmapKept, RegKept, AddrKept, TakenPc, PinPc, RegPc,
     UnmapPc, WalkMatchEff
<1>4. th[t].op = "map"
  BY DEF CtxInv, Ops, OpOK, WalkMatchEff
<1>5. mem[th[t].m].vaddr # NULL
  BY <1>4, NullOut DEF RaceInv, NameInv, MapAddrs, WalkMatchEff, Matches
<1>6. \A u \in Thread : th[u].pc \in RegPc => th[u].m # th[t].m
  BY <1>5 DEF CtxInv, Ops, OpOK, RegPc, RaceInv, NameInv, Fresh, Blank, WalkMatchEff
<1>7. /\ \A u \in Thread \ {t} : th'[u] = th[u]
      /\ th'[t].pc \notin RegPc /\ th'[t].m = th[t].m /\ memList' = memList
  BY DEF WalkMatchEff, RegPc
<1>8. RegsOK'
  BY <1>6, <1>7 DEF RaceInv, NameInv, RegsOK
<1>9. /\ \A u \in Thread : TakenKept(u)
      /\ \A u \in Thread : PinKept(u)
      /\ \A u \in Thread : UnmapKept(u)
      /\ \A u \in Thread : RegKept(u)
      /\ \A u \in Thread : AddrKept(u)
  BY <1>3 DEF ThreadKept
<1> QED BY <1>1, <1>2, <1>8, <1>9, NamesFrame DEF RaceInv, NameInv

LEMMA WalkSkipName ==
  ASSUME Inv, CtxInv, BaseInv, Races, RaceInv, NEW t \in Thread, WalkSkipEff(t)
  PROVE  NameInv'
<1>1. NamesKept
  BY DEF NamesKept, WalkSkipEff
<1>2. \A n \in Mem : MemKept(n)
  BY DEF MemKept, Plain, StateKept, BlankKept, Blank, WalkSkipEff, Moves, Keeps, RefTo,
     Only, SameUse, SameId
<1>3. \A u \in Thread : ThreadKept(u)
  BY DEF ThreadKept, TakenKept, PinKept, UnmapKept, RegKept, AddrKept, TakenPc, PinPc,
     RegPc, UnmapPc, WalkSkipEff, Moves, Keeps
<1>4. \A u \in Thread : NoNewUse(u)
  BY DEF NoNewUse, WalkPc, WalkSkipEff, Moves, Keeps
<1> QED BY <1>1, <1>2, <1>3, <1>4, NamesFrameAll DEF RaceInv

LEMMA WalkPutName ==
  ASSUME Inv, CtxInv, BaseInv, Races, RaceInv, NEW t \in Thread, WalkPutEff(t)
  PROVE  NameInv'
<1>1. NamesKept
  BY DEF NamesKept, WalkPutEff
<1>2. \A n \in Mem : MemKept(n)
  BY DEF MemKept, Plain, StateKept, BlankKept, Blank, WalkPutEff, Looks, RefTo, Only,
     SameUse, SameId
<1>3. th[t].op # "reg"
  BY DEF CtxInv, Ops, OpOK, WalkPutEff
<1>4. \A u \in Thread : ThreadKept(u)
  BY <1>3 DEF ThreadKept, TakenKept, PinKept, UnmapKept, RegKept, AddrKept, TakenPc, PinPc,
     RegPc, UnmapPc, WalkPutEff, Looks
<1>5. \A u \in Thread : NoNewUse(u)
  BY DEF NoNewUse, WalkPc, WalkPutEff, Looks
<1> QED BY <1>1, <1>2, <1>4, <1>5, NamesFrameAll DEF RaceInv

LEMMA WalkEndName ==
  ASSUME Inv, CtxInv, BaseInv, Races, RaceInv, NEW t \in Thread, WalkEndEff(t)
  PROVE  NameInv'
<1>1. NamesKept
  BY DEF NamesKept, WalkEndEff
<1>2. \A n \in Mem : MemKept(n)
  BY DEF MemKept, Plain, StateKept, BlankKept, Blank, WalkEndEff
<1>3. \A u \in Thread : ThreadKept(u)
  BY DEF ThreadKept, TakenKept, PinKept, UnmapKept, RegKept, AddrKept, TakenPc, PinPc,
     RegPc, UnmapPc, WalkEndEff, Moves, Keeps
<1>4. \A u \in Thread : NoNewUse(u)
  BY DEF NoNewUse, WalkPc, WalkEndEff, Moves, Keeps
<1> QED BY <1>1, <1>2, <1>3, <1>4, NamesFrameAll DEF RaceInv

LEMMA MapAllocName ==
  ASSUME Inv, CtxInv, BaseInv, Races, RaceInv, NEW t \in Thread, NEW d \in Dma,
         MapAllocEff(t, d)
  PROVE  NameInv'
<1>1. NamesKept
  BY DEF NamesKept, MapAllocEff
<1>2. \A n \in Mem : MemKept(n)
  BY DEF MemKept, Plain, StateKept, BlankKept, Blank, MapAllocEff
<1>3. \A u \in Thread : ThreadKept(u)
  BY DEF ThreadKept, TakenKept, PinKept, UnmapKept, RegKept, AddrKept, TakenPc, PinPc,
     RegPc, UnmapPc, MapAllocEff
<1>4. \A u \in Thread : NoNewUse(u)
  BY DEF NoNewUse, WalkPc, MapAllocEff
<1> QED BY <1>1, <1>2, <1>3, <1>4, NamesFrameAll DEF RaceInv

LEMMA MapDmaName ==
  ASSUME Inv, CtxInv, BaseInv, Races, RaceInv, NEW t \in Thread, MapDmaEff(t)
  PROVE  NameInv'
<1>1. NamesKept
  BY DEF NamesKept, MapDmaEff
<1>2. \A n \in Mem : MemKept(n)
  BY DEF MemKept, Plain, StateKept, BlankKept, Blank, MapDmaEff
<1>3. \A u \in Thread : ThreadKept(u)
  BY DEF ThreadKept, TakenKept, PinKept, UnmapKept, RegKept, AddrKept, TakenPc, PinPc,
     RegPc, UnmapPc, MapDmaEff, Moves, Keeps
<1>4. \A u \in Thread : NoNewUse(u)
  BY DEF NoNewUse, WalkPc, MapDmaEff, Moves, Keeps
<1> QED BY <1>1, <1>2, <1>3, <1>4, NamesFrameAll DEF RaceInv

LEMMA MapFailsName ==
  ASSUME Inv, CtxInv, BaseInv, Races, RaceInv, NEW t \in Thread, MapFailsEff(t)
  PROVE  NameInv'
<1>1. NamesKept
  BY DEF NamesKept, MapFailsEff
<1>2. \A n \in Mem : MemKept(n)
  BY DEF MemKept, Plain, StateKept, BlankKept, Blank, MapFailsEff
<1>3. \A u \in Thread : ThreadKept(u)
  BY DEF ThreadKept, TakenKept, PinKept, UnmapKept, RegKept, AddrKept, TakenPc, PinPc,
     RegPc, UnmapPc, MapFailsEff, Moves, Keeps, DmaPc
<1>4. \A u \in Thread : NoNewUse(u)
  BY DEF NoNewUse, WalkPc, MapFailsEff, Moves, Keeps, DmaPc
<1> QED BY <1>1, <1>2, <1>3, <1>4, NamesFrameAll DEF RaceInv

LEMMA MapLinkName ==
  ASSUME Inv, CtxInv, BaseInv, Races, RaceInv, NEW t \in Thread, MapLinkEff(t)
  PROVE  NameInv'
<1>1. memList' = memList /\ memXa' = memXa /\ known' = known /\ vma' = vma
  BY DEF MapLinkEff
<1>2. \A n \in Mem : Plain(n) /\ StateKept(n) /\ mem'[n].id = mem[n].id
  BY DEF Plain, StateKept, MapLinkEff, Only, SameUse, SameId
<1>3. /\ HandlesKept(known) /\ HandlesKept(known') /\ VmasKept
      /\ \A u \in Thread : ListKept(u)
  BY <1>1, KeptParts DEF NamesKept
<1>4. /\ \A u \in Thread : TakenKept(u)
      /\ \A u \in Thread : PinKept(u)
      /\ \A u \in Thread : UnmapKept(u)
      /\ \A u \in Thread : RegKept(u)
      /\ \A u \in Thread : NoNewUse(u)
      /\ \A u \in Thread : AddrKept(u)
  BY DEF TakenKept, PinKept, UnmapKept, RegKept, NoNewUse, AddrKept, TakenPc, PinPc, RegPc, UnmapPc,
     WalkPc, MapLinkEff
<1>5. /\ mem[th[t].m].heap # "unused"
      /\ \A u \in Thread : th[u].op = "reg" => th[u].m # th[t].m
  <2>1. th[t].op # "reg" /\ th[t].m \in Mem /\ th[t].pc \notin WalkPc
    BY DEF CtxInv, Ops, OpOK, WalkPc, MapLinkEff
  <2> QED BY <2>1, UsedNotNew DEF RaceInv
<1>6. Fresh'
  <2>1. \A n \in Mem \ {th[t].m} : mem'[n] = mem[n]
    BY DEF MapLinkEff, Only
  <2>2. mem'[th[t].m].heap = mem[th[t].m].heap /\ cb' = cb
    BY DEF MapLinkEff, SameUse
  <2> QED BY <1>4, <1>5, <2>1, <2>2 DEF RaceInv, NameInv, Fresh, Blank, RegKept
<1>7. memList \subseteq Mem
  BY ListTypes
<1>8. XaOK' /\ KnownOK' /\ MapAddrs'
  BY <1>1, <1>2, <1>3, <1>4, <1>7, XaFrame, KnownFrame, AddrsFrame DEF RaceInv, NameInv
<1>9. PinsOK'
  BY <1>1, <1>2, <1>3, <1>4, <1>7, PinsFrame DEF RaceInv, NameInv
<1>10. VmasOK' /\ UnmapsOK' /\ RegsOK'
  BY <1>1, <1>2, <1>3, <1>4, <1>7, VmasFrame, UnmapsFrame, RegsFrame DEF RaceInv, NameInv
<1> QED BY <1>6, <1>8, <1>9, <1>10 DEF NameInv

LEMMA MapReturnName ==
  ASSUME Inv, CtxInv, BaseInv, Races, RaceInv, NEW t \in Thread, MapReturnEff(t)
  PROVE  NameInv'
<1>1. NamesKept
  BY DEF NamesKept, MapReturnEff
<1>2. \A n \in Mem : MemKept(n)
  BY DEF MemKept, Plain, StateKept, BlankKept, Blank, MapReturnEff
<1>3. \A u \in Thread : ThreadKept(u)
  BY DEF ThreadKept, TakenKept, PinKept, UnmapKept, RegKept, AddrKept, TakenPc, PinPc,
     RegPc, UnmapPc, MapReturnEff, Ends
<1>4. \A u \in Thread : NoNewUse(u)
  BY DEF NoNewUse, WalkPc, MapReturnEff, Ends
<1> QED BY <1>1, <1>2, <1>3, <1>4, NamesFrameAll DEF RaceInv

LEMMA MapUndoName ==
  ASSUME Inv, CtxInv, BaseInv, Races, RaceInv, NEW t \in Thread, NEW d, NEW m,
         MapUndoEff(t, d, m)
  PROVE  NameInv'
<1>1. NamesKept
  BY DEF NamesKept, MapUndoEff
<1>2. \A n \in Mem : MemKept(n)
  <2>1. /\ \A n \in Mem : n # m => mem'[n] = mem[n]
        /\ cb' = cb /\ m \in Mem
        /\ mem'[m].dmas \subseteq mem[m].dmas
        /\ mem'[m].heap = mem[m].heap /\ mem'[m].state = mem[m].state
        /\ mem'[m].vaddr = mem[m].vaddr /\ mem'[m].table = mem[m].table
        /\ mem'[m].id = mem[m].id
    BY DEF MapUndoEff, Only, SameUse, SameId
  <2>2. \A n \in Mem \ {m} : MemKept(n)
    BY <2>1 DEF MemKept, Plain, StateKept, BlankKept, Blank
  <2>3. Plain(m) /\ (Blank(m) => Blank(m)')
    BY <2>1 DEF Plain, StateKept, Blank
  <2> QED BY <2>1, <2>2, <2>3 DEF MemKept, BlankKept
<1>3. th[t].op = "map"
  BY DEF CtxInv, Ops, OpOK, MapUndoEff
<1>4. \A u \in Thread : ThreadKept(u)
  BY <1>3 DEF ThreadKept, TakenKept, PinKept, UnmapKept, RegKept, AddrKept, TakenPc, PinPc, RegPc,
     UnmapPc, MapUndoEff
<1>5. d \in mem[m].dmas
  BY ZenonT(40), MineListed DEF MapUndoEff, Pops
<1>6. \A u \in Thread : th[u].pc \in RegPc => th[u].m # m
  BY <1>5 DEF CtxInv, Ops, OpOK, RegPc, RaceInv, NameInv, Fresh, Blank, MapUndoEff
<1>7. /\ \A u \in Thread \ {t} : th'[u] = th[u]
      /\ th'[t].pc \notin RegPc /\ th'[t].m = m /\ memList' = memList
  BY DEF MapUndoEff, RegPc
<1>8. RegsOK'
  BY <1>6, <1>7 DEF RaceInv, NameInv, RegsOK
<1>9. /\ \A u \in Thread : TakenKept(u)
      /\ \A u \in Thread : PinKept(u)
      /\ \A u \in Thread : UnmapKept(u)
      /\ \A u \in Thread : RegKept(u)
      /\ \A u \in Thread : AddrKept(u)
  BY <1>4 DEF ThreadKept
<1> QED BY <1>1, <1>2, <1>8, <1>9, NamesFrame DEF RaceInv, NameInv

LEMMA CbBeginName ==
  ASSUME Inv, CtxInv, BaseInv, Races, RaceInv, NEW m \in Mem, CbBeginEff(m)
  PROVE  NameInv'
<1>1. NamesKept
  BY DEF NamesKept, CbBeginEff
<1>2. \A n \in Mem : MemKept(n)
  BY DEF MemKept, Plain, StateKept, BlankKept, Blank, CbBeginEff
<1>3. \A u \in Thread : ThreadKept(u)
  BY DEF ThreadKept, TakenKept, PinKept, UnmapKept, RegKept, AddrKept, TakenPc, PinPc,
     RegPc, UnmapPc, CbBeginEff
<1>4. \A u \in Thread : NoNewUse(u)
  BY DEF NoNewUse, WalkPc, CbBeginEff
<1> QED BY <1>1, <1>2, <1>3, <1>4, NamesFrameAll DEF RaceInv

LEMMA CbRunName ==
  ASSUME Inv, CtxInv, BaseInv, Races, RaceInv, NEW m \in Mem, CbRunEff(m)
  PROVE  NameInv'
<1>1. NamesKept
  BY DEF NamesKept, CbRunEff
<1>2. \A n \in Mem : MemKept(n)
  BY MemTypes DEF MemKept, Plain, StateKept, BlankKept, Blank, CbActs, Pinned, Unpinned,
     CbRunEff, Only, SameCounts, SameId
<1>3. \A u \in Thread : ThreadKept(u)
  BY DEF ThreadKept, TakenKept, PinKept, UnmapKept, RegKept, AddrKept, TakenPc, PinPc,
     RegPc, UnmapPc, CbRunEff
<1>4. \A u \in Thread : NoNewUse(u)
  BY DEF NoNewUse, WalkPc, CbRunEff
<1> QED BY <1>1, <1>2, <1>3, <1>4, NamesFrameAll DEF RaceInv

LEMMA GraceEndName ==
  ASSUME Inv, CtxInv, BaseInv, Races, RaceInv, NEW m \in Mem, GraceEndEff(m)
  PROVE  NameInv'
<1>1. NamesKept
  BY DEF NamesKept, GraceEndEff
<1>2. \A n \in Mem : MemKept(n)
  BY DEF MemKept, Plain, StateKept, BlankKept, Blank, GraceEndEff, HeapTo, Only,
     SameCounts, SameId
<1>3. \A u \in Thread : ThreadKept(u)
  BY DEF ThreadKept, TakenKept, PinKept, UnmapKept, RegKept, AddrKept, TakenPc, PinPc,
     RegPc, UnmapPc, GraceEndEff
<1>4. \A u \in Thread : NoNewUse(u)
  BY DEF NoNewUse, WalkPc, GraceEndEff
<1> QED BY <1>1, <1>2, <1>3, <1>4, NamesFrameAll DEF RaceInv

----------------------------------------------------------------------------
(* Steps that leave the counts of a registration alone. *)
HoldPc == {"pin_do", "pin_put", "walk_put", "map_alloc", "map_dma", "map_link", "map_put"}

SameHold(u) ==
  /\ th'[u].pc \in HoldPc <=> th[u].pc \in HoldPc
  /\ th'[u].pc \in HoldPc => th'[u].m = th[u].m

SlackKept(n) == Slack(n)' = Slack(n)

TokenPc == PinPc \cup {"unmap_put"}

TokenKept(u) == th'[u].pc \in TokenPc => th[u].pc \in TokenPc /\ th'[u].m = th[u].m

MapKept(u) == th'[u].op = "map" => th[u].op = "map"

LEMMA HoldersAre == \A n : Holders(n) = {t \in Thread : th[t].m = n /\ th[t].pc \in HoldPc}
BY DEF Holders, HoldPc

LEMMA HoldersSame ==
  ASSUME \A u \in Thread : SameHold(u)
  PROVE  \A n \in Mem : Holders(n)' = Holders(n)
<1> SUFFICES ASSUME NEW n \in Mem PROVE Holders(n)' = Holders(n)
  OBVIOUS
<1>1. \A u \in Thread : u \in Holders(n)' <=> u \in Holders(n)
  BY DEF Holders, SameHold, HoldPc
<1>2. Holders(n) \subseteq Thread /\ Holders(n)' \subseteq Thread
  BY DEF Holders
<1> QED BY <1>1, <1>2

LEMMA SlackSame ==
  ASSUME \A u \in Thread : SameHold(u), \A n \in Mem : SameCounts(n)
  PROVE  /\ \A n \in Mem : Holders(n)' = Holders(n)
         /\ \A n \in Mem : SlackKept(n)
<1>1. \A n \in Mem : Holders(n)' = Holders(n)
  BY HoldersSame
<1> QED BY <1>1 DEF SlackKept, Slack, SameCounts

(* A call takes a reference on m ... *)
LEMMA GetSlack ==
  ASSUME Inv, NEW t \in Thread, NEW m \in Mem, RefTo(m, mem[m].ref + 1),
         \A u \in Thread \ {t} : th'[u] = th[u],
         th[t].pc \notin HoldPc, th'[t].pc \in HoldPc, th'[t].m = m
  PROVE  /\ \A n \in Mem \ {m} : Holders(n)' = Holders(n)
         /\ \A n \in Mem : SlackKept(n)
<1>1. \A n \in Mem \ {m} : Holders(n)' = Holders(n)
  <2> SUFFICES ASSUME NEW n \in Mem \ {m} PROVE Holders(n)' = Holders(n)
    OBVIOUS
  <2>1. \A u \in Thread : u \in Holders(n)' <=> u \in Holders(n)
    BY DEF Holders, HoldPc
  <2>2. Holders(n) \subseteq Thread /\ Holders(n)' \subseteq Thread
    BY DEF Holders
  <2> QED BY <2>1, <2>2
<1>2. Holders(m)' = Holders(m) \cup {t} /\ t \notin Holders(m)
  <2>1. \A u \in Thread : u \in Holders(m)' <=> u \in Holders(m) \/ u = t
    BY DEF Holders, HoldPc
  <2>2. Holders(m) \subseteq Thread /\ Holders(m)' \subseteq Thread /\ t \notin Holders(m)
    BY DEF Holders, HoldPc
  <2> QED BY <2>1, <2>2
<1>3. Cardinality(Holders(m)') = Cardinality(Holders(m)) + 1
  BY <1>2, SlackTypes, FS_AddElement
<1>4. \A n \in Mem \ {m} : SlackKept(n)
  BY <1>1 DEF SlackKept, Slack, RefTo, Only
<1>5. SlackKept(m)
  BY SMTT(30), <1>3, SlackTypes DEF SlackKept, Slack, RefTo
<1> QED BY <1>1, <1>4, <1>5

(* ... and puts it. *)
LEMMA PutSlack ==
  ASSUME Inv, NEW t \in Thread, NEW m \in Mem, RefTo(m, mem[m].ref - 1), mem[m].ref > 0,
         \A u \in Thread \ {t} : th'[u] = th[u],
         th[t].pc \in HoldPc, th'[t].pc \notin HoldPc, th[t].m = m
  PROVE  /\ \A n \in Mem : Holders(n)' \subseteq Holders(n)
         /\ \A n \in Mem : SlackKept(n)
<1>1. \A n \in Mem \ {m} : Holders(n)' = Holders(n)
  <2> SUFFICES ASSUME NEW n \in Mem \ {m} PROVE Holders(n)' = Holders(n)
    OBVIOUS
  <2>1. \A u \in Thread : u \in Holders(n)' <=> u \in Holders(n)
    BY DEF Holders, HoldPc
  <2>2. Holders(n) \subseteq Thread /\ Holders(n)' \subseteq Thread
    BY DEF Holders
  <2> QED BY <2>1, <2>2
<1>2. Holders(m)' = Holders(m) \ {t} /\ t \in Holders(m)
  <2>1. \A u \in Thread : u \in Holders(m)' <=> u \in Holders(m) /\ u # t
    BY DEF Holders, HoldPc
  <2>2. Holders(m) \subseteq Thread /\ Holders(m)' \subseteq Thread /\ t \in Holders(m)
    BY DEF Holders, HoldPc
  <2> QED BY <2>1, <2>2
<1>3. Cardinality(Holders(m)') = Cardinality(Holders(m)) - 1
  <2>1. IsFiniteSet(Holders(m))
    BY SlackTypes
  <2>2. Cardinality(Holders(m) \ {t}) = Cardinality(Holders(m)) - 1
    BY <1>2, <2>1, FS_RemoveElement
  <2> QED BY <1>2, <2>2
<1>4. \A n \in Mem \ {m} : SlackKept(n)
  BY <1>1 DEF SlackKept, Slack, RefTo, Only
<1>5. SlackKept(m)
  <2>1. mem'[m].ref = mem[m].ref - 1 /\ mem'[m].dmas = mem[m].dmas
    BY DEF RefTo
  <2>2. /\ Cardinality(mem[m].dmas) \in Nat /\ Cardinality(Holders(m)) \in Nat
        /\ mem[m].ref \in Nat
    BY SlackTypes
  <2>3. PICK r \in Int, d \in Int, h \in Int :
          r = mem[m].ref /\ d = Cardinality(mem[m].dmas) /\ h = Cardinality(Holders(m))
    BY <2>2
  <2>4. Slack(m)' = (r - 1) - d - (h - 1)
    BY <1>3, <2>1, <2>3 DEF Slack
  <2>5. Slack(m) = r - d - h
    BY <2>3 DEF Slack
  <2>6. (r - 1) - d - (h - 1) = r - d - h
    OBVIOUS
  <2> QED BY <2>4, <2>5, <2>6 DEF SlackKept
<1>6. Holders(m)' \subseteq Holders(m)
  BY <1>2
<1> QED BY <1>1, <1>4, <1>5, <1>6

StaleKept(n) ==
  mem'[n].state # "STALE" /\ (mem[n].heap = "live" => mem'[n].heap = "live")

(* No token appears. *)
LEMMA TokenFrame ==
  ASSUME \A h \in known' : h \in known /\ memXa'[h - 1] \in {memXa[h - 1], NULL},
         \A a \in Addr : vma'[a].m \in {vma[a].m, NULL},
         \A u \in Thread : TokenKept(u),
         \A n \in Mem : mem[n].state = "STALE" \/ StaleKept(n)
  PROVE  \A n \in Mem : Token(n)' => Token(n)
<1> SUFFICES ASSUME NEW n \in Mem, Token(n)' PROVE Token(n)
  OBVIOUS
<1>1. IsKnown(n)' => IsKnown(n)
  BY NullOut DEF IsKnown
<1>2. \A a \in Addr : vma'[a].m = n => vma[a].m = n
  BY NullOut
<1>3. \A u \in Thread : th'[u].pc \in TokenPc /\ th'[u].m = n => th[u].pc \in TokenPc /\ th[u].m = n
  BY DEF TokenKept
<1> QED BY <1>1, <1>2, <1>3 DEF Token, TokenPc, StaleKept

LEMMA TokenFrameNames ==
  ASSUME NamesKept, Inv, \A n \in Mem : SameUse(n), \A u \in Thread : TokenKept(u)
  PROVE  \A n \in Mem : Token(n)' => Token(n)
<1>1. \A h \in known' : h \in known /\ memXa'[h - 1] \in {memXa[h - 1], NULL}
  BY DEF NamesKept
<1>2. \A a \in Addr : vma'[a].m \in {vma[a].m, NULL}
  BY DEF NamesKept
<1>3. \A n \in Mem : mem[n].state = "STALE" \/ StaleKept(n)
  BY DEF SameUse, StaleKept
<1> QED BY <1>1, <1>2, <1>3, TokenFrame

LEMMA RefsFrame ==
  ASSUME Refs, \A n \in Mem : SlackKept(n), \A n \in Mem : Token(n)' => Token(n),
         \A n \in Mem : mem'[n].heap # "unused" => mem[n].heap # "unused",
         \A n \in Mem : mem'[n].state # "DEAD" => mem[n].state # "DEAD"
  PROVE  Refs'
BY DEF Refs, SlackKept

LEMMA UseFrame ==
  ASSUME CountInv, \A n \in Mem : SameUse(n), cb' = cb, \A u \in Thread : MapKept(u)
  PROVE  Tables' /\ Callbacks' /\ CbMaps'
<1>1. Tables'
  BY DEF CountInv, Tables, SameUse
<1>2. Callbacks'
  BY DEF CountInv, Callbacks, SameUse
<1>3. CbMaps'
  BY DEF CountInv, CbMaps, SameUse, MapKept, NoCbMap
<1> QED BY <1>1, <1>2, <1>3

LEMMA UseRefs ==
  ASSUME CountInv, \A n \in Mem : SameUse(n), \A n \in Mem : SlackKept(n),
         \A n \in Mem : Token(n)' => Token(n)
  PROVE  Refs'
<1>1. /\ \A n \in Mem : mem'[n].heap # "unused" => mem[n].heap # "unused"
      /\ \A n \in Mem : mem'[n].state # "DEAD" => mem[n].state # "DEAD"
  BY DEF SameUse
<1> QED BY <1>1, RefsFrame DEF CountInv

(* What a released registration with a page table cannot be. *)
Busy(n) == mem[n].heap = "live" \/ mem[n].dmas # {} \/ Holders(n) # {}

LEMMA HeldFrame ==
  ASSUME CountInv, \A n \in Mem : SameUse(n),
         \A n \in Mem : Busy(n) \/ mem'[n].dmas \subseteq mem[n].dmas,
         \A n \in Mem : Busy(n) \/ Holders(n)' \subseteq Holders(n)
  PROVE  Held'
<1> SUFFICES ASSUME NEW n \in Mem, mem'[n].table, mem'[n].heap # "live"
             PROVE  mem'[n].dmas = {} /\ Holders(n)' = {}
  BY DEF Held
<1>1. mem[n].dmas = {} /\ Holders(n) = {} /\ mem[n].heap # "live"
  BY DEF CountInv, Held, SameUse
<1>2. mem'[n].dmas \subseteq mem[n].dmas /\ Holders(n)' \subseteq Holders(n)
  BY <1>1 DEF Busy
<1> QED BY <1>1, <1>2

LEMMA MappedFrame ==
  ASSUME CountInv, \A n \in Mem : SameUse(n),
         \A d \in Dma : dma'[d].mapped =>
           dma[d].mapped /\ dma'[d].mem = dma[d].mem /\ dma'[d].heap = dma[d].heap
  PROVE  Mapped'
BY DEF CountInv, Mapped, SameUse, NoCbMap

(* Steps that leave every count alone. *)
LEMMA QuietFrame ==
  ASSUME Inv, RaceInv, \A n \in Mem : SameUse(n), \A n \in Mem : SameCounts(n), cb' = cb,
         dma' = dma, \A u \in Thread : SameHold(u), \A u \in Thread : MapKept(u),
         \A n \in Mem : Token(n)' => Token(n)
  PROVE  CountInv'
<1> USE DEF RaceInv
<1>1. Tables' /\ Callbacks' /\ CbMaps'
  BY UseFrame
<1>2. Refs'
  BY SlackSame, UseRefs
<1>3. Held'
  <2>1. \A n \in Mem : Holders(n)' = Holders(n)
    BY HoldersSame
  <2>2. \A n \in Mem : mem'[n].dmas = mem[n].dmas
    BY DEF SameCounts
  <2> QED BY <2>1, <2>2, HeldFrame
<1>4. Mapped'
  BY MappedFrame
<1> QED BY <1>1, <1>2, <1>3, <1>4 DEF CountInv

(* Mapping objects that a call takes back were unmapped before. *)
LEMMA DropsMapped ==
  ASSUME CountInv, NEW m \in Mem, NEW S,
         \A d \in S : dma[d].mem = m, \A n \in Mem : SameUse(n),
         \A d \in Dma : dma'[d].mapped => dma[d].mapped /\ (d \in S => ~UnmapsNow(m)),
         \A d \in Dma : dma'[d].mem = dma[d].mem /\ (d \notin S => dma'[d].heap = dma[d].heap),
         \A d \in Dma : d \in S => dma'[d].heap = "freed"
  PROVE  Mapped'
<1>1. \A d \in Dma : dma'[d].mapped => dma[d].mapped /\ (d \in S => ~UnmapsNow(m))
  OBVIOUS
<1>2. \A d \in Dma : dma'[d].mem = dma[d].mem /\ (d \notin S => dma'[d].heap = dma[d].heap)
  OBVIOUS
<1>3. \A d \in Dma : d \in S => dma'[d].heap = "freed"
  OBVIOUS
<1>4. ASSUME NEW d \in Dma, d \in S, dma'[d].mapped PROVE mem[m].loc # "CPU" /\ ~NoCbMap
  <2>1. dma[d].mapped /\ dma[d].mem = m /\ mem[m].loc # "CPU" /\ mem[m].state = "DEAD_CB"
    BY <1>1, <1>4 DEF UnmapsNow
  <2> QED BY <2>1 DEF CountInv, Tables, Mapped
<1>5. \A d \in Dma : dma'[d].mapped => dma'[d].heap # "unused"
  BY <1>1, <1>2, <1>3 DEF CountInv, Mapped
<1>6. ASSUME NEW d \in Dma, NEW n \in Mem, dma'[d].mapped, dma'[d].mem = n,
             mem'[n].loc = "CPU" \/ NoCbMap
      PROVE  dma'[d].heap = "live" /\ mem'[n].heap = "live" /\ mem'[n].table
  <2>1. mem[n].loc = "CPU" \/ NoCbMap
    BY <1>6 DEF SameUse
  <2>2. d \notin S
    BY <1>2, <1>4, <1>6, <2>1
  <2>3. dma[d].heap = "live" /\ mem[n].heap = "live" /\ mem[n].table
    BY <1>1, <1>2, <1>6, <2>1 DEF CountInv, Mapped
  <2> QED BY <1>2, <2>2, <2>3 DEF SameUse
<1> QED BY <1>5, <1>6 DEF Mapped, NoCbMap

(* Steps that change what a registration is, and move nothing. *)
TableUse(n) ==
  /\ mem'[n].loc = mem[n].loc
  /\ mem'[n].heap # "unused" => mem[n].heap # "unused"
  /\ mem'[n].state # "DEAD" => mem[n].state # "DEAD"
  /\ mem'[n].table /\ mem'[n].heap # "live" => mem[n].table /\ mem[n].heap # "live"

TableStays(n) ==
  mem[n].heap = "live" /\ mem[n].table => mem'[n].heap = "live" /\ mem'[n].table

LEMMA HeldSame ==
  ASSUME CountInv, \A u \in Thread : SameHold(u), \A n \in Mem : SameCounts(n),
         \A n \in Mem : TableUse(n)
  PROVE  Held'
<1>1. \A n \in Mem : Holders(n)' = Holders(n)
  BY HoldersSame
<1> QED BY <1>1 DEF CountInv, Held, TableUse, SameCounts

LEMMA RecordFrame ==
  ASSUME Inv, CountInv, dma' = dma, \A u \in Thread : SameHold(u),
         \A n \in Mem : SameCounts(n), \A n \in Mem : Token(n)' => Token(n),
         \A n \in Mem : TableUse(n), \A n \in Mem : TableStays(n)
  PROVE  Refs' /\ Held' /\ Mapped'
<1>1. Refs'
  <2>1. /\ \A n \in Mem : mem'[n].heap # "unused" => mem[n].heap # "unused"
        /\ \A n \in Mem : mem'[n].state # "DEAD" => mem[n].state # "DEAD"
    BY DEF TableUse
  <2> QED BY <2>1, SlackSame, RefsFrame DEF CountInv
<1>2. Held'
  BY HeldSame
<1>3. Mapped'
  BY DEF CountInv, Mapped, TableUse, TableStays, NoCbMap
<1> QED BY <1>1, <1>2, <1>3

(* Moving a mapping object into a list or out of one moves the reference   *)
(* that goes with it, and the unmap drops all of them.                     *)
LEMMA MapLinkSlack ==
  ASSUME Inv, NEW t \in Thread, MapLinkEff(t), NEW m \in Mem, m = th[t].m
  PROVE  /\ \A n \in Mem \ {m} : Holders(n)' = Holders(n)
         /\ Holders(m)' = Holders(m) \ {t} /\ t \in Holders(m)
         /\ \A n \in Mem : SlackKept(n)
<1>0. PICK d \in Dma : m = th[t].m /\ d = th[t].d
  BY DEF MapLinkEff
<1>a. /\ \A n \in Mem \ {m} : mem'[n] = mem[n]
      /\ mem'[m].ref = mem[m].ref /\ mem'[m].dmas = mem[m].dmas \cup {d} /\ SameUse(m)
  BY <1>0 DEF MapLinkEff, Only
<1>b. /\ \A u \in Thread \ {t} : th'[u] = th[u]
      /\ th[t].pc = "map_link" /\ th[t].m = m /\ th'[t].pc \in {"map_copy", "map_lock"}
      /\ th'[t].op = th[t].op
  BY <1>0 DEF MapLinkEff
<1>c. /\ \A n \in Mem \ {m} : Holders(n)' = Holders(n)
      /\ Holders(m)' = Holders(m) \ {t} /\ t \in Holders(m)
  <2>1. \A n \in Mem : \A u \in Thread : u \in Holders(n)' <=> u \in Holders(n) /\ ~(n = m /\ u = t)
    BY <1>b DEF Holders
  <2>2. \A n \in Mem : Holders(n) \subseteq Thread /\ Holders(n)' \subseteq Thread
    BY DEF Holders
  <2>3. t \in Holders(m)
    BY <1>b DEF Holders
  <2> QED BY ZenonT(40), <2>1, <2>2, <2>3
<1>e. \A n \in Mem : SlackKept(n)
  <2>1. \A n \in Mem \ {m} : SlackKept(n)
    BY <1>a, <1>c DEF SlackKept, Slack
  <2>2. d \notin mem[m].dmas
    BY <1>0, <1>b DEF Inv, DmaInv, InFlight, DmaPc
  <2>3. /\ Cardinality(mem[m].dmas \cup {d}) = Cardinality(mem[m].dmas) + 1
        /\ Cardinality(Holders(m) \ {t}) = Cardinality(Holders(m)) - 1
    <3>1. IsFiniteSet(mem[m].dmas) /\ IsFiniteSet(Holders(m))
      BY SlackTypes
    <3> QED BY <1>c, <2>2, <3>1, FS_AddElement, FS_RemoveElement
  <2>4. PICK r \in Int, k \in Int, h \in Int :
          r = mem[m].ref /\ k = Cardinality(mem[m].dmas) /\ h = Cardinality(Holders(m))
    BY SlackTypes
  <2>5. Slack(m)' = r - (k + 1) - (h - 1)
    BY <1>a, <1>c, <2>3, <2>4 DEF Slack
  <2>6. Slack(m) = r - k - h
    BY <2>4 DEF Slack
  <2>7. r - (k + 1) - (h - 1) = r - k - h
    OBVIOUS
  <2>8. SlackKept(m)
    BY <2>5, <2>6, <2>7 DEF SlackKept
  <2> QED BY <2>1, <2>8
<1> QED BY <1>c, <1>e

LEMMA MapUndoSlack ==
  ASSUME Inv, BaseInv, NEW t \in Thread, NEW d, NEW m, MapUndoEff(t, d, m)
  PROVE  /\ \A n \in Mem \ {m} : Holders(n)' = Holders(n)
         /\ Holders(m)' = Holders(m) \cup {t} /\ t \notin Holders(m)
         /\ \A n \in Mem : SlackKept(n)
<1>0. m \in Mem /\ d \in Dma /\ d \in Elems(th[t].mine) /\ dma[d].heap = "live" /\ dma[d].mem = m
  BY DEF MapUndoEff, Pops
<1>a. /\ \A n \in Mem \ {m} : mem'[n] = mem[n]
      /\ mem'[m].ref = mem[m].ref /\ mem'[m].dmas = mem[m].dmas \ {d} /\ SameUse(m)
  BY DEF MapUndoEff, Only
<1>b. /\ \A u \in Thread \ {t} : th'[u] = th[u]
      /\ th[t].pc = "map_undo" /\ th'[t].m = m /\ th'[t].pc = "map_put"
      /\ th'[t].op = th[t].op
  BY DEF MapUndoEff
<1>d. d \in mem[m].dmas
  BY <1>0, MineListed
<1>c. /\ \A n \in Mem \ {m} : Holders(n)' = Holders(n)
      /\ Holders(m)' = Holders(m) \cup {t} /\ t \notin Holders(m)
  <2>1. \A n \in Mem : \A u \in Thread : u \in Holders(n)' <=> u \in Holders(n) \/ (n = m /\ u = t)
    BY <1>b DEF Holders
  <2>2. \A n \in Mem : Holders(n) \subseteq Thread /\ Holders(n)' \subseteq Thread
    BY DEF Holders
  <2>3. t \notin Holders(m)
    BY <1>b DEF Holders
  <2>4. ASSUME NEW n \in Mem \ {m} PROVE Holders(n)' = Holders(n)
    BY ZenonT(40), <2>1, <2>2
  <2>5. Holders(m)' = Holders(m) \cup {t}
    BY <1>0, <2>1, <2>2
  <2> QED BY <2>3, <2>4, <2>5
<1>e. \A n \in Mem : SlackKept(n)
  <2>1. \A n \in Mem \ {m} : SlackKept(n)
    BY <1>a, <1>c DEF SlackKept, Slack
  <2>3. /\ Cardinality(mem[m].dmas \ {d}) = Cardinality(mem[m].dmas) - 1
        /\ Cardinality(Holders(m) \cup {t}) = Cardinality(Holders(m)) + 1
    <3>1. IsFiniteSet(mem[m].dmas) /\ IsFiniteSet(Holders(m))
      BY <1>0, SlackTypes
    <3> QED BY <1>c, <1>d, <3>1, FS_AddElement, FS_RemoveElement
  <2>4. PICK r \in Int, k \in Int, h \in Int :
          r = mem[m].ref /\ k = Cardinality(mem[m].dmas) /\ h = Cardinality(Holders(m))
    BY <1>0, SlackTypes
  <2>5. Slack(m)' = r - (k - 1) - (h + 1)
    BY <1>a, <1>c, <2>3, <2>4 DEF Slack
  <2>6. Slack(m) = r - k - h
    BY <2>4 DEF Slack
  <2>7. r - (k - 1) - (h + 1) = r - k - h
    OBVIOUS
  <2>8. SlackKept(m)
    BY <2>5, <2>6, <2>7 DEF SlackKept
  <2> QED BY <2>1, <2>8
<1> QED BY <1>c, <1>e

LEMMA UnmapDoSlack ==
  ASSUME Inv, NEW t \in Thread, UnmapDoEff(t), NEW m \in Mem, m = th[t].m
  PROVE  /\ \A n \in Mem : Holders(n)' = Holders(n)
         /\ \A n \in Mem : SlackKept(n)
<1>0. m = th[t].m
  OBVIOUS
<1>a. /\ \A n \in Mem \ {m} : mem'[n] = mem[n]
      /\ mem'[m].ref = mem[m].ref - Cardinality(mem[m].dmas) /\ mem'[m].dmas = {} /\ SameUse(m)
  BY <1>0 DEF UnmapDoEff, Only
<1>c. \A n \in Mem : Holders(n)' = Holders(n)
  <2>1. \A u \in Thread : SameHold(u)
    BY DEF SameHold, HoldPc, UnmapDoEff, Moves, Keeps
  <2> QED BY <2>1, HoldersSame
<1>e. \A n \in Mem : SlackKept(n)
  <2>1. \A n \in Mem \ {m} : SlackKept(n)
    BY <1>a, <1>c DEF SlackKept, Slack
  <2>2. PICK r \in Int, k \in Int, h \in Int :
          r = mem[m].ref /\ k = Cardinality(mem[m].dmas) /\ h = Cardinality(Holders(m))
    BY SlackTypes
  <2>3. Slack(m)' = (r - k) - 0 - h
    BY <1>a, <1>c, <2>2, FS_EmptySet DEF Slack
  <2>4. Slack(m) = r - k - h
    BY <2>2 DEF Slack
  <2>5. (r - k) - 0 - h = r - k - h
    OBVIOUS
  <2>6. SlackKept(m)
    BY <2>3, <2>4, <2>5 DEF SlackKept
  <2> QED BY <2>1, <2>6
<1> QED BY <1>c, <1>e

(* A put drops a reference that the call held, or, at the end of an unmap,  *)
(* the one that belonged to the vma.                                       *)
LEMMA PutIs ==
  ASSUME Inv, NEW t \in Thread, NEW pc, NEW next, PutPc(pc, next), PutEff(t, pc, next),
         NEW m \in Mem, m = th[t].m
  PROVE  /\ \A n \in Mem : Holders(n)' \subseteq Holders(n)
         /\ \A n \in Mem \ {m} : SlackKept(n)
         /\ pc # "unmap_put" => SlackKept(m)
         /\ pc = "unmap_put" => Slack(m)' = Slack(m) - 1
<1>a. RefTo(m, mem[m].ref - 1) /\ mem[m].ref > 0
  BY DEF PutEff, Puts
<1>1. /\ \A u \in Thread \ {t} : th'[u] = th[u]
      /\ th[t].pc = pc /\ th'[t].pc \in {next, "rel_unlink"} /\ th'[t].pc \notin HoldPc
  BY DEF PutEff, Puts, Keeps, PutPc, HoldPc
<1>2. CASE pc # "unmap_put"
  <2>1. th[t].pc \in HoldPc /\ th[t].m = m
    BY <1>1, <1>2 DEF PutPc, HoldPc
  <2>2. /\ \A n \in Mem : Holders(n)' \subseteq Holders(n)
        /\ \A n \in Mem : SlackKept(n)
    BY <1>a, <1>1, <2>1, PutSlack
  <2> QED BY <1>2, <2>2
<1>3. CASE pc = "unmap_put"
  <2>1. \A u \in Thread : SameHold(u)
    BY <1>1, <1>3 DEF SameHold, HoldPc
  <2>2. \A n \in Mem : Holders(n)' = Holders(n)
    BY <2>1, HoldersSame
  <2>3. /\ \A n \in Mem \ {m} : mem'[n] = mem[n]
        /\ mem'[m].ref = mem[m].ref - 1 /\ mem'[m].dmas = mem[m].dmas
    BY <1>a DEF RefTo, Only
  <2>4. \A n \in Mem \ {m} : SlackKept(n)
    BY <2>2, <2>3 DEF SlackKept, Slack
  <2>5. PICK r \in Int, d \in Int, h \in Int :
          r = mem[m].ref /\ d = Cardinality(mem[m].dmas) /\ h = Cardinality(Holders(m))
    BY SlackTypes
  <2>6. Slack(m)' = (r - 1) - d - h
    BY <2>2, <2>3, <2>5 DEF Slack
  <2>7. Slack(m) = r - d - h
    BY <2>5 DEF Slack
  <2>8. (r - 1) - d - h = (r - d - h) - 1
    OBVIOUS
  <2> QED BY <1>3, <2>2, <2>4, <2>6, <2>7, <2>8
<1> QED BY <1>2, <1>3

----------------------------------------------------------------------------
(* Every step keeps CountInv. *)

LEMMA RegStartCount ==
  ASSUME Inv, CtxInv, BaseInv, Races, RaceInv, NEW t \in Thread, NEW f \in File, NEW l
         \in Loc, NEW m \in Mem, RegStartEff(t, f, l, m)
  PROVE  CountInv'
<1>a. /\ \A n \in Mem \ {m} : mem'[n] = mem[n]
      /\ mem[m].heap = "unused" /\ mem'[m].heap = "live" /\ mem'[m].ref = 1
      /\ mem'[m].state = "STALE" /\ ~mem'[m].table /\ mem'[m].dmas = {}
  BY DEF RegStartEff, Only
<1>b. /\ \A u \in Thread : th[u].m # m
      /\ \A d \in Dma : dma[d].mem # m
      /\ cb[m] = "idle"
  BY <1>a DEF CtxInv, Unused, Unseen, RaceInv, NameInv, Fresh, Blank
<1>2. /\ \A u \in Thread : SameHold(u)
      /\ \A u \in Thread : th'[u].pc \in HoldPc => th'[u].m # m
  BY SMTT(30), <1>b DEF SameHold, HoldPc, RegStartEff, Starts
<1>4. \A n \in Mem \ {m} : Token(n)' => Token(n)
  <2>1. known' = known /\ vma' = vma /\ memXa' = memXa
    BY DEF RegStartEff
  <2>2. \A u \in Thread : TokenKept(u)
    BY DEF TokenKept, TokenPc, PinPc, RegStartEff, Starts
  <2> QED BY <1>a, <2>1, <2>2 DEF Token, IsKnown, TokenKept, TokenPc
<1>5. cb' = cb /\ dma' = dma /\ \A u \in Thread : th'[u].op = "map" => th[u].op = "map"
  BY DEF RegStartEff, Starts
<1>6. /\ \A n \in Mem : Holders(n)' = Holders(n)
      /\ Holders(m)' = {}
  <2>1. \A n \in Mem : Holders(n)' = Holders(n)
    BY <1>2, HoldersSame
  <2>2. Holders(m) = {}
    BY <1>b DEF Holders
  <2> QED BY <2>1, <2>2
<1>7. Tables'
  BY <1>a DEF RaceInv, CountInv, Tables
<1>8. Callbacks'
  BY <1>a, <1>b, <1>5 DEF RaceInv, CountInv, Callbacks
<1>9. CbMaps'
  BY <1>a, <1>b, <1>5 DEF RaceInv, CountInv, CbMaps, NoCbMap
<1>10. Refs'
  <2>1. Slack(m)' = 1
    <3>1. Slack(m)' = 1 - 0 - 0
      BY <1>a, <1>6, FS_EmptySet DEF Slack
    <3> QED BY <3>1
  <2>2. \A n \in Mem \ {m} : Slack(n)' = Slack(n)
    BY <1>a, <1>6 DEF Slack
  <2> QED BY <1>a, <1>4, <2>1, <2>2 DEF RaceInv, CountInv, Refs
<1>11. Held'
  BY <1>a, <1>6 DEF RaceInv, CountInv, Held
<1>12. Mapped'
  BY <1>a, <1>b, <1>5 DEF RaceInv, CountInv, Mapped, NoCbMap
<1> QED BY <1>7, <1>8, <1>9, <1>10, <1>11, <1>12 DEF CountInv

LEMMA RegInsertCount ==
  ASSUME Inv, CtxInv, BaseInv, Races, RaceInv, NEW t \in Thread, RegInsertEff(t)
  PROVE  CountInv'
<1>1. /\ \A n \in Mem : SameUse(n)
      /\ \A n \in Mem : SameCounts(n)
  BY DEF SameUse, SameCounts, RegInsertEff, Only
<1>2. \A u \in Thread : SameHold(u)
  BY DEF SameHold, HoldPc, RegInsertEff, Moves, Keeps
<1>3. \A u \in Thread : MapKept(u)
  BY DEF MapKept, RegInsertEff, Moves, Keeps
<1>4. \A n \in Mem : Token(n)' => Token(n)
  <2>1. known' = known /\ vma' = vma
    BY DEF RegInsertEff
  <2>2. \A h \in known : h - 1 \in Id /\ memXa[h - 1] \in Mem
    BY KnownListed, ListTypes DEF RaceInv, NameInv
  <2>3. \A h \in known' : h \in known /\ memXa'[h - 1] \in {memXa[h - 1], NULL}
    BY <2>1, <2>2, NullOut DEF RegInsertEff
  <2>4. \A u \in Thread : TokenKept(u)
    BY DEF TokenKept, TokenPc, PinPc, RegInsertEff, Moves, Keeps
  <2>5. \A n \in Mem : mem[n].state = "STALE" \/ StaleKept(n)
    BY <1>1 DEF SameUse, StaleKept
  <2>6. \A a \in Addr : vma'[a].m \in {vma[a].m, NULL}
    BY <2>1
  <2> QED BY <2>3, <2>4, <2>5, <2>6, TokenFrame
<1>5. cb' = cb /\ dma' = dma
  BY DEF RegInsertEff
<1> QED BY <1>1, <1>2, <1>3, <1>4, <1>5, QuietFrame

LEMMA RegInsertFailsCount ==
  ASSUME Inv, CtxInv, BaseInv, Races, RaceInv, NEW t \in Thread, RegInsertFailsEff(t)
  PROVE  CountInv'
<1>0. PICK m \in Mem : m = th[t].m
  BY DEF RegInsertFailsEff
<1>a. /\ \A n \in Mem \ {m} : mem'[n] = mem[n]
      /\ mem'[m].heap = "freed" /\ mem'[m].state = mem[m].state /\ mem'[m].loc = mem[m].loc
      /\ mem'[m].table = mem[m].table
  BY <1>0 DEF RegInsertFailsEff, HeapTo, Only
<1>b. Blank(m) /\ mem[m].heap = "live"
  <2>1. th[t].op = "reg"
    BY DEF CtxInv, Ops, OpOK, RegInsertFailsEff, Ends
  <2>2. mem[m].heap = "live"
    BY <1>0 DEF CtxInv, Making, RegInsertFailsEff, Ends
  <2> QED BY <1>0, <2>1, <2>2 DEF RaceInv, NameInv, Fresh
<1>c. mem[m].state = "STALE" /\ ~mem[m].table /\ cb[m] = "idle"
  BY <1>b DEF Blank
<1>1. \A n \in Mem : SameCounts(n)
  BY DEF SameCounts, RegInsertFailsEff, HeapTo, Only
<1>2. \A u \in Thread : SameHold(u)
  BY DEF SameHold, HoldPc, RegInsertFailsEff, Ends
<1>3. /\ \A n \in Mem : TableUse(n)
      /\ \A n \in Mem : TableStays(n)
  BY <1>a, <1>b, <1>c DEF TableUse, TableStays
<1>4. \A n \in Mem : Token(n)' => Token(n)
  <2>1. known' = known /\ vma' = vma /\ memXa' = memXa
    BY DEF RegInsertFailsEff
  <2>2. \A u \in Thread : TokenKept(u)
    BY DEF TokenKept, TokenPc, PinPc, RegInsertFailsEff, Ends
  <2>3. \A n \in Mem : mem[n].state = "STALE" \/ StaleKept(n)
    BY <1>a, <1>c DEF StaleKept
  <2>4. /\ \A h \in known' : h \in known /\ memXa'[h - 1] \in {memXa[h - 1], NULL}
        /\ \A a \in Addr : vma'[a].m \in {vma[a].m, NULL}
    BY <2>1
  <2> QED BY <2>2, <2>3, <2>4, TokenFrame
<1>5. cb' = cb /\ dma' = dma /\ \A u \in Thread : th'[u].op = "map" => th[u].op = "map"
  BY DEF RegInsertFailsEff, Ends
<1>6. Refs' /\ Held' /\ Mapped'
  BY <1>1, <1>2, <1>3, <1>4, <1>5, RecordFrame DEF RaceInv
<1>7. Tables'
  BY <1>a DEF RaceInv, CountInv, Tables
<1>8. Callbacks'
  BY <1>a, <1>c, <1>5 DEF RaceInv, CountInv, Callbacks
<1>9. CbMaps'
  BY <1>a, <1>5 DEF RaceInv, CountInv, CbMaps, NoCbMap
<1> QED BY <1>6, <1>7, <1>8, <1>9 DEF CountInv

LEMMA RegCopyCount ==
  ASSUME Inv, CtxInv, BaseInv, Races, RaceInv, NEW t \in Thread, RegCopyEff(t)
  PROVE  CountInv'
<1>1. /\ \A n \in Mem : SameUse(n)
      /\ \A n \in Mem : SameCounts(n)
  BY DEF SameUse, SameCounts, RegCopyEff
<1>2. \A u \in Thread : SameHold(u)
  BY DEF SameHold, HoldPc, RegCopyEff, Ends
<1>3. \A u \in Thread : MapKept(u)
  BY DEF MapKept, RegCopyEff, Ends
<1>4. \A n \in Mem : Token(n)' => Token(n)
  <2>1. PICK m \in Mem : m = th[t].m
    BY DEF RegCopyEff
  <2>2. memXa[mem[m].id] = m /\ mem[m].id \in Id
    BY <2>1, MemTypes DEF RaceInv, NameInv, RegsOK, XaOK, RegCopyEff, Ends, RegPc
  <2>3. mem[m].state = "STALE"
    BY <2>1 DEF RaceInv, NameInv, Fresh, Blank, RegCopyEff, Ends, CtxInv, Ops, OpOK
  <2>4. known' = known \cup {mem[m].id + 1} /\ memXa' = memXa /\ mem' = mem /\ vma' = vma
    BY <2>1 DEF RegCopyEff
  <2>5. \A i \in Id : (i + 1) - 1 = i
    BY DEF Id
  <2>6. \A n \in Mem \ {m} : IsKnown(n)' => IsKnown(n)
    BY <2>2, <2>4, <2>5 DEF IsKnown
  <2>7. \A u \in Thread : TokenKept(u)
    BY DEF TokenKept, TokenPc, PinPc, RegCopyEff, Ends
  <2> QED BY <2>3, <2>4, <2>6, <2>7 DEF Token, TokenKept, TokenPc
<1>5. cb' = cb /\ dma' = dma
  BY DEF RegCopyEff
<1> QED BY <1>1, <1>2, <1>3, <1>4, <1>5, QuietFrame

LEMMA GoesOnCount ==
  ASSUME Inv, CtxInv, BaseInv, Races, RaceInv, NEW t \in Thread, NEW pc, NEW to,
         GoesOnPc(pc, to), GoesOn(t, pc, to)
  PROVE  CountInv'
<1>1. /\ \A n \in Mem : SameUse(n)
      /\ \A n \in Mem : SameCounts(n)
  BY DEF SameUse, SameCounts, GoesOn
<1>2. \A u \in Thread : SameHold(u)
  BY DEF SameHold, HoldPc, GoesOnPc, GoesOn, Moves, Keeps
<1>3. \A u \in Thread : MapKept(u)
  BY DEF MapKept, GoesOnPc, GoesOn, Moves, Keeps
<1>4. \A n \in Mem : Token(n)' => Token(n)
  <2>1. NamesKept
    BY DEF NamesKept, GoesOn
  <2>2. \A u \in Thread : TokenKept(u)
    BY DEF TokenKept, TokenPc, PinPc, GoesOnPc, GoesOn, Moves, Keeps
  <2> QED BY <1>1, <2>1, <2>2, TokenFrameNames
<1>5. cb' = cb /\ dma' = dma
  BY DEF GoesOn
<1> QED BY <1>1, <1>2, <1>3, <1>4, <1>5, QuietFrame

LEMMA RegEraseCount ==
  ASSUME Inv, CtxInv, BaseInv, Races, RaceInv, NEW t \in Thread, RegEraseEff(t)
  PROVE  CountInv'
<1>0. PICK m \in Mem : m = th[t].m
  BY DEF RegEraseEff
<1>a. /\ \A n \in Mem \ {m} : mem'[n] = mem[n]
      /\ mem'[m].heap = "freed" /\ mem'[m].state = mem[m].state /\ mem'[m].loc = mem[m].loc
      /\ mem'[m].table = mem[m].table
  BY <1>0 DEF RegEraseEff, HeapTo, Only
<1>b. Blank(m) /\ mem[m].heap = "live"
  <2>1. th[t].op = "reg"
    BY DEF CtxInv, Ops, OpOK, RegEraseEff, Ends
  <2>2. mem[m].heap = "live"
    BY <1>0 DEF CtxInv, Lists, RaceInv, NameInv, RegsOK, RegPc, RegEraseEff, Ends
  <2> QED BY <1>0, <2>1, <2>2 DEF RaceInv, NameInv, Fresh
<1>c. mem[m].state = "STALE" /\ ~mem[m].table /\ cb[m] = "idle"
  BY <1>b DEF Blank
<1>1. \A n \in Mem : SameCounts(n)
  BY DEF SameCounts, RegEraseEff, HeapTo, Only
<1>2. \A u \in Thread : SameHold(u)
  BY DEF SameHold, HoldPc, RegEraseEff, Ends
<1>3. /\ \A n \in Mem : TableUse(n)
      /\ \A n \in Mem : TableStays(n)
  BY <1>a, <1>b, <1>c DEF TableUse, TableStays
<1>4. \A n \in Mem : Token(n)' => Token(n)
  <2>1. known' = known /\ vma' = vma
    BY DEF RegEraseEff
  <2>2. \A u \in Thread : TokenKept(u)
    BY DEF TokenKept, TokenPc, PinPc, RegEraseEff, Ends
  <2>3. \A n \in Mem : mem[n].state = "STALE" \/ StaleKept(n)
    BY <1>a, <1>c DEF StaleKept
  <2>4. \A h \in known : h - 1 \in Id
    BY KnownListed DEF RaceInv, NameInv
  <2>5. /\ \A h \in known' : h \in known /\ memXa'[h - 1] \in {memXa[h - 1], NULL}
        /\ \A a \in Addr : vma'[a].m \in {vma[a].m, NULL}
    BY <2>1, <2>4 DEF RegEraseEff
  <2> QED BY <2>2, <2>3, <2>5, TokenFrame
<1>5. cb' = cb /\ dma' = dma /\ \A u \in Thread : th'[u].op = "map" => th[u].op = "map"
  BY DEF RegEraseEff, Ends
<1>6. Refs' /\ Held' /\ Mapped'
  BY <1>1, <1>2, <1>3, <1>4, <1>5, RecordFrame DEF RaceInv
<1>7. Tables'
  BY <1>a DEF RaceInv, CountInv, Tables
<1>8. Callbacks'
  BY <1>a, <1>c, <1>5 DEF RaceInv, CountInv, Callbacks
<1>9. CbMaps'
  BY <1>a, <1>5 DEF RaceInv, CountInv, CbMaps, NoCbMap
<1> QED BY <1>6, <1>7, <1>8, <1>9 DEF CountInv

LEMMA PinStartCount ==
  ASSUME Inv, CtxInv, BaseInv, Races, RaceInv, NEW t \in Thread, NEW f \in File, NEW p
         \in Handle, NEW a \in Addr, MayPin(p, a), PinStartEff(t, f, p, a)
  PROVE  CountInv'
<1>1. /\ \A n \in Mem : SameUse(n)
      /\ \A n \in Mem : SameCounts(n)
  BY DEF SameUse, SameCounts, PinStartEff
<1>2. \A u \in Thread : SameHold(u)
  BY DEF SameHold, HoldPc, PinStartEff, Starts
<1>3. \A u \in Thread : MapKept(u)
  BY DEF MapKept, PinStartEff, Starts
<1>4. \A n \in Mem : Token(n)' => Token(n)
  <2>1. p \in known /\ known' \subseteq known /\ memXa' = memXa /\ mem' = mem /\ vma' = vma
    BY DEF MayPin, Races, PinStartEff
  <2>2. \A n \in Mem : IsKnown(n)' => IsKnown(n)
    BY <2>1 DEF IsKnown
  <2>3. \A u \in Thread : th'[u].pc \in TokenPc => TokenKept(u) \/ IsKnown(th'[u].m)
    BY <2>1 DEF TokenKept, IsKnown, PinStartEff, Starts
  <2> QED BY <2>1, <2>2, <2>3 DEF Token, TokenKept, TokenPc
<1>5. cb' = cb /\ dma' = dma
  BY DEF PinStartEff
<1> QED BY <1>1, <1>2, <1>3, <1>4, <1>5, QuietFrame

LEMMA PinGetCount ==
  ASSUME Inv, CtxInv, BaseInv, Races, RaceInv, NEW t \in Thread, PinGetEff(t)
  PROVE  CountInv'
<1>0. PICK m \in Mem : m = th[t].m
  BY DEF PinGetEff
<1>1. \A n \in Mem : SameUse(n)
  BY DEF SameUse, PinGetEff, RefTo, Only
<1>2. /\ RefTo(m, mem[m].ref + 1) /\ \A u \in Thread \ {t} : th'[u] = th[u]
      /\ th[t].pc \notin HoldPc /\ th'[t].pc \in HoldPc /\ th'[t].m = m
  BY <1>0 DEF PinGetEff, Moves, Keeps, HoldPc
<1>3. \A u \in Thread : MapKept(u)
  BY DEF MapKept, PinGetEff, Moves, Keeps
<1>4. \A n \in Mem : Token(n)' => Token(n)
  <2>1. NamesKept
    BY DEF NamesKept, PinGetEff
  <2>2. \A u \in Thread : TokenKept(u)
    BY DEF TokenKept, TokenPc, PinPc, PinGetEff, Moves, Keeps
  <2> QED BY <1>1, <2>1, <2>2, TokenFrameNames
<1>5. cb' = cb /\ dma' = dma
  BY DEF PinGetEff
<1>6. /\ \A n \in Mem \ {m} : Holders(n)' = Holders(n)
      /\ \A n \in Mem : SlackKept(n)
  BY <1>2, GetSlack
<1>7. mem[m].heap = "live"
  BY <1>0 DEF RaceInv, NameInv, PinsOK, PinPc, CtxInv, Lists, PinGetEff, Moves
<1>8. Tables' /\ Callbacks' /\ CbMaps'
  BY <1>1, <1>3, <1>5, UseFrame DEF RaceInv
<1>9. Refs'
  BY <1>1, <1>4, <1>6, UseRefs DEF RaceInv
<1>10. Held'
  <2>1. \A n \in Mem : Busy(n) \/ mem'[n].dmas \subseteq mem[n].dmas
    BY <1>2 DEF RefTo, Only
  <2>2. \A n \in Mem : Busy(n) \/ Holders(n)' \subseteq Holders(n)
    BY <1>6, <1>7 DEF Busy
  <2> QED BY <1>1, <2>1, <2>2, HeldFrame DEF RaceInv
<1>11. Mapped'
  BY <1>1, <1>5, MappedFrame DEF RaceInv
<1> QED BY <1>8, <1>9, <1>10, <1>11 DEF CountInv

LEMMA PinDoCount ==
  ASSUME Inv, CtxInv, BaseInv, Races, RaceInv, NEW t \in Thread, PinDoEff(t)
  PROVE  CountInv'
<1>0. PICK m \in Mem : m = th[t].m
  BY DEF PinDoEff
<1>a. /\ m \in memList /\ mem[m].heap = "live" /\ mem[m].state \in Unpinned
      /\ ~mem[m].table
  BY <1>0 DEF RaceInv, NameInv, PinsOK, PinPc, CtxInv, Lists, PinDoEff, Moves, CountInv, Tables,
              Unpinned
<1>b. /\ \A n \in Mem \ {m} : mem'[n] = mem[n]
      /\ mem'[m].heap = "live" /\ mem'[m].loc = mem[m].loc
      /\ mem'[m].table /\ mem'[m].state = "LIVE"
  BY <1>0, <1>a DEF PinDoEff, Only
<1>1. \A n \in Mem : SameCounts(n)
  BY DEF SameCounts, PinDoEff, Only
<1>2. \A u \in Thread : SameHold(u)
  BY DEF SameHold, HoldPc, PinDoEff, Moves, Keeps
<1>3. /\ \A n \in Mem : TableUse(n)
      /\ \A n \in Mem : TableStays(n)
  BY <1>a, <1>b DEF TableUse, TableStays, Unpinned
<1>4. \A n \in Mem : Token(n)' => Token(n)
  <2>1. Token(m)
    BY <1>0 DEF Token, PinPc, PinDoEff, Moves
  <2>2. known' = known /\ memXa' = memXa /\ \A u \in Thread : TokenKept(u)
    BY DEF TokenKept, TokenPc, PinPc, PinDoEff, Moves, Keeps
  <2>3. \A a \in Addr : vma'[a].m \in {m, vma[a].m}
    BY <1>0 DEF PinDoEff
  <2> QED BY <1>b, <2>1, <2>2, <2>3 DEF Token, IsKnown, TokenKept, TokenPc
<1>5. dma' = dma /\ \A u \in Thread : th'[u].op = "map" => th[u].op = "map"
  BY DEF PinDoEff, Moves, Keeps
<1>6. Refs' /\ Held' /\ Mapped'
  BY <1>1, <1>2, <1>3, <1>4, <1>5, RecordFrame DEF RaceInv
<1>7. Tables'
  BY <1>a, <1>b DEF RaceInv, CountInv, Tables, Unpinned
<1>c. /\ \A n \in Mem \ {m} : cb'[n] = cb[n]
      /\ cb'[m] = IF mem[m].loc = "CUDA" THEN "armed" ELSE cb[m]
  BY <1>0 DEF PinDoEff
<1>8. Callbacks'
  BY <1>b, <1>c DEF RaceInv, CountInv, Callbacks
<1>9. CbMaps'
  BY <1>b, <1>c, <1>5 DEF RaceInv, CountInv, CbMaps, Callbacks, NoCbMap
<1> QED BY <1>6, <1>7, <1>8, <1>9 DEF CountInv

LEMMA PinDoFailsCount ==
  ASSUME Inv, CtxInv, BaseInv, Races, RaceInv, NEW t \in Thread, PinDoFailsEff(t)
  PROVE  CountInv'
<1>0. PICK m \in Mem : m = th[t].m
  BY DEF PinDoFailsEff
<1>a. /\ m \in memList /\ mem[m].heap = "live" /\ mem[m].state \in Unpinned
      /\ ~mem[m].table
  BY <1>0 DEF RaceInv, NameInv, PinsOK, PinPc, CtxInv, Lists, PinDoFailsEff, Moves, CountInv, Tables,
              Unpinned
<1>b. /\ \A n \in Mem \ {m} : mem'[n] = mem[n]
      /\ mem'[m].heap = "live" /\ mem'[m].loc = mem[m].loc
      /\ ~mem'[m].table /\ mem'[m].state = mem[m].state
  BY <1>0, <1>a DEF PinDoFailsEff, Only
<1>1. \A n \in Mem : SameCounts(n)
  BY DEF SameCounts, PinDoFailsEff, Only
<1>2. \A u \in Thread : SameHold(u)
  BY DEF SameHold, HoldPc, PinDoFailsEff, Moves, Keeps
<1>3. /\ \A n \in Mem : TableUse(n)
      /\ \A n \in Mem : TableStays(n)
  BY <1>a, <1>b DEF TableUse, TableStays, Unpinned
<1>4. \A n \in Mem : Token(n)' => Token(n)
  <2>1. Token(m)
    BY <1>0 DEF Token, PinPc, PinDoFailsEff, Moves
  <2>2. /\ known' = known \cup {mem[m].id + 1} /\ memXa' = memXa /\ vma' = vma
        /\ \A u \in Thread : TokenKept(u)
    BY <1>0 DEF TokenKept, TokenPc, PinPc, PinDoFailsEff, Moves, Keeps
  <2>3. memXa[mem[m].id] = m /\ mem[m].id \in Id
    BY <1>a, MemTypes DEF RaceInv, NameInv, XaOK
  <2>4. \A i \in Id : (i + 1) - 1 = i
    BY DEF Id
  <2>5. \A n \in Mem \ {m} : IsKnown(n)' => IsKnown(n)
    BY <2>2, <2>3, <2>4 DEF IsKnown
  <2> QED BY <1>b, <2>1, <2>2, <2>5 DEF Token, TokenKept, TokenPc
<1>5. dma' = dma /\ \A u \in Thread : th'[u].op = "map" => th[u].op = "map"
  BY DEF PinDoFailsEff, Moves, Keeps
<1>6. Refs' /\ Held' /\ Mapped'
  BY <1>1, <1>2, <1>3, <1>4, <1>5, RecordFrame DEF RaceInv
<1>7. Tables'
  BY <1>a, <1>b DEF RaceInv, CountInv, Tables, Unpinned
<1>c. /\ \A n \in Mem \ {m} : cb'[n] = cb[n]
      /\ cb'[m] = cb[m] \/ (cb'[m] = "spinning" /\ mem[m].loc = "CUDA")
  <2>1. CASE cb' = cb
    BY <2>1
  <2>2. CASE /\ mem[m].loc = "CUDA"
             /\ \A n \in Mem : cb'[n] = IF n = m THEN "spinning" ELSE cb[n]
    BY <2>2
  <2> QED BY <1>0, <2>1, <2>2 DEF PinDoFailsEff
<1>8. Callbacks'
  BY <1>a, <1>b, <1>c DEF RaceInv, CountInv, Callbacks, Unpinned
<1>9. CbMaps'
  BY <1>a, <1>b, <1>c, <1>5 DEF RaceInv, CountInv, CbMaps, Unpinned, NoCbMap
<1> QED BY <1>6, <1>7, <1>8, <1>9 DEF CountInv

LEMMA PutCount ==
  ASSUME Inv, CtxInv, BaseInv, Races, RaceInv, NEW t \in Thread, NEW pc, NEW next,
         PutPc(pc, next), PutEff(t, pc, next)
  PROVE  CountInv'
<1>0. PICK m \in Mem : m = th[t].m
  BY DEF PutEff, Puts
<1>a. RefTo(m, mem[m].ref - 1) /\ mem[m].ref > 0
  BY <1>0 DEF PutEff, Puts
<1>1. \A n \in Mem : SameUse(n)
  BY <1>a DEF SameUse, RefTo, Only
<1>3. \A u \in Thread : MapKept(u)
  BY DEF MapKept, PutEff, Puts, Keeps
<1>4. \A n \in Mem : Token(n)' => Token(n)
  <2>1. NamesKept
    BY DEF NamesKept, PutEff
  <2>2. \A u \in Thread : TokenKept(u)
    BY DEF TokenKept, TokenPc, PinPc, PutPc, PutEff, Puts, Keeps
  <2> QED BY <1>1, <2>1, <2>2, TokenFrameNames
<1>5. cb' = cb /\ dma' = dma
  BY DEF PutEff
<1>6. /\ \A n \in Mem : Holders(n)' \subseteq Holders(n)
      /\ \A n \in Mem \ {m} : SlackKept(n)
      /\ pc # "unmap_put" => SlackKept(m)
      /\ pc = "unmap_put" => Slack(m)' = Slack(m) - 1
  BY <1>0, PutIs
<1>7. pc = "unmap_put" => Slack(m) = 1 /\ ~Token(m)'
  <2> SUFFICES ASSUME pc = "unmap_put" PROVE Slack(m) = 1 /\ ~Token(m)'
    OBVIOUS
  <2>1. th[t].pc = "unmap_put"
    BY DEF PutEff, Puts
  <2>2. /\ m \in memList /\ mem[m].state \in Pinned
        /\ \A a \in Addr : vma[a].m # m
    BY <1>0, <2>1 DEF RaceInv, NameInv, UnmapsOK
  <2>3. mem[m].heap = "live" /\ mem[m].state \notin {"STALE", "DEAD"}
    BY <2>2 DEF CtxInv, Lists, Pinned
  <2>4. Token(m)
    BY <1>0, <2>1 DEF Token
  <2>5. Slack(m) = 1
    BY <2>3, <2>4 DEF RaceInv, CountInv, Refs
  <2>6. ~IsKnown(m)
    BY <1>0, <2>1 DEF RaceInv, NameInv, KnownOK, Waits, TakenPc
  <2>7. \A u \in Thread : th[u].pc \in TokenPc => u = t
    <3>1. mmapLock = t
      BY <2>1 DEF CtxInv, Ops, OpOK, BaseInv, Mmap
    <3> QED BY <3>1, MmapAlone DEF TokenPc
  <2>8. \A u \in Thread : th'[u].pc \notin TokenPc
    BY <2>7 DEF PutEff, Puts, Keeps, PutPc, TokenPc, PinPc
  <2>9. known' = known /\ memXa' = memXa /\ vma' = vma
    BY DEF PutEff
  <2>10. mem'[m].state = mem[m].state /\ mem'[m].heap = mem[m].heap
    BY <1>1 DEF SameUse
  <2> QED BY <2>2, <2>3, <2>5, <2>6, <2>8, <2>9, <2>10 DEF Token, IsKnown, TokenPc
<1>8. Tables' /\ Callbacks' /\ CbMaps'
  BY <1>1, <1>3, <1>5, UseFrame DEF RaceInv
<1>9. Refs'
  <2>1. CASE pc # "unmap_put"
    <3>1. \A n \in Mem : SlackKept(n)
      BY <1>6, <2>1
    <3> QED BY <1>1, <1>4, <3>1, UseRefs DEF RaceInv
  <2>2. CASE pc = "unmap_put"
    <3>1. Slack(m)' = 0 /\ ~Token(m)'
      BY <1>6, <1>7, <2>2
    <3>2. \A n \in Mem \ {m} : Slack(n)' = Slack(n)
      BY <1>6 DEF SlackKept
    <3> QED BY <1>1, <1>4, <3>1, <3>2 DEF RaceInv, CountInv, Refs, SameUse
  <2> QED BY <2>1, <2>2
<1>10. Held'
  <2>1. \A n \in Mem : Busy(n) \/ mem'[n].dmas \subseteq mem[n].dmas
    BY <1>a DEF RefTo, Only
  <2>2. \A n \in Mem : Busy(n) \/ Holders(n)' \subseteq Holders(n)
    BY <1>6
  <2> QED BY <1>1, <2>1, <2>2, HeldFrame DEF RaceInv
<1>11. Mapped'
  BY <1>1, <1>5, MappedFrame DEF RaceInv
<1> QED BY <1>8, <1>9, <1>10, <1>11 DEF CountInv

LEMMA PinReturnCount ==
  ASSUME Inv, CtxInv, BaseInv, Races, RaceInv, NEW t \in Thread, PinReturnEff(t)
  PROVE  CountInv'
<1>1. /\ \A n \in Mem : SameUse(n)
      /\ \A n \in Mem : SameCounts(n)
  BY DEF SameUse, SameCounts, PinReturnEff
<1>2. \A u \in Thread : SameHold(u)
  BY DEF SameHold, HoldPc, PinReturnEff, Ends
<1>3. \A u \in Thread : MapKept(u)
  BY DEF MapKept, PinReturnEff, Ends
<1>4. \A n \in Mem : Token(n)' => Token(n)
  <2>1. NamesKept
    BY DEF NamesKept, PinReturnEff
  <2>2. \A u \in Thread : TokenKept(u)
    BY DEF TokenKept, TokenPc, PinPc, PinReturnEff, Ends
  <2> QED BY <1>1, <2>1, <2>2, TokenFrameNames
<1>5. cb' = cb /\ dma' = dma
  BY DEF PinReturnEff
<1> QED BY <1>1, <1>2, <1>3, <1>4, <1>5, QuietFrame

LEMMA RelUnlinkCount ==
  ASSUME Inv, CtxInv, BaseInv, Races, RaceInv, NEW t \in Thread, RelUnlinkEff(t)
  PROVE  CountInv'
<1>1. /\ \A n \in Mem : SameUse(n)
      /\ \A n \in Mem : SameCounts(n)
  BY DEF SameUse, SameCounts, RelUnlinkEff
<1>2. \A u \in Thread : SameHold(u)
  BY DEF SameHold, HoldPc, RelUnlinkEff, Moves, Keeps
<1>3. \A u \in Thread : MapKept(u)
  BY DEF MapKept, RelUnlinkEff, Moves, Keeps
<1>4. \A n \in Mem : Token(n)' => Token(n)
  <2>1. known' = known /\ vma' = vma
    BY DEF RelUnlinkEff
  <2>2. \A h \in known : h - 1 \in Id
    BY KnownListed DEF RaceInv, NameInv
  <2>3. \A h \in known' : h \in known /\ memXa'[h - 1] \in {memXa[h - 1], NULL}
    BY <2>1, <2>2 DEF RelUnlinkEff
  <2>4. \A u \in Thread : TokenKept(u)
    BY DEF TokenKept, TokenPc, PinPc, RelUnlinkEff, Moves, Keeps
  <2>5. \A n \in Mem : mem[n].state = "STALE" \/ StaleKept(n)
    BY <1>1 DEF SameUse, StaleKept
  <2>6. \A a \in Addr : vma'[a].m \in {vma[a].m, NULL}
    BY <2>1
  <2> QED BY <2>3, <2>4, <2>5, <2>6, TokenFrame
<1>5. cb' = cb /\ dma' = dma
  BY DEF RelUnlinkEff
<1> QED BY <1>1, <1>2, <1>3, <1>4, <1>5, QuietFrame

LEMMA RelFreeCount ==
  ASSUME Inv, CtxInv, BaseInv, Races, RaceInv, NEW t \in Thread, RelFreeEff(t)
  PROVE  CountInv'
<1>0. PICK m \in Mem : m = th[t].m
  BY DEF RelFreeEff
<1>a. /\ \A n \in Mem \ {m} : mem'[n] = mem[n]
      /\ mem'[m].heap = "limbo" /\ mem'[m].loc = mem[m].loc
      /\ mem'[m].state = IF mem[m].state = "STALE" THEN "STALE" ELSE "DEAD"
      /\ mem'[m].table => mem[m].table
      /\ mem'[m].ref = mem[m].ref /\ mem'[m].dmas = mem[m].dmas
  BY <1>0 DEF RelFreeEff, Only, SameCounts
<1>b. mem[m].ref = 0 /\ mem[m].heap = "live" /\ mem[m].state # "DEAD"
  <2>1. mem[m].heap \notin Gone /\ th[t].pc = "rel_free"
    BY <1>0 DEF RelFreeEff, Moves
  <2>2. mem[m].heap = "live" /\ mem[m].ref = 0
    BY <1>0, <2>1, MemTypes DEF Gone, CtxInv, Unused, BaseInv, Releases, LastPc
  <2> QED BY <2>1, <2>2 DEF Inv, TableInv, TableOK
<1>c. mem[m].state # "STALE" /\ mem[m].dmas = {} /\ Holders(m) = {}
  <2>1. Slack(m) \in {0, 1} /\ (Token(m) => Slack(m) = 1)
    BY <1>b DEF RaceInv, CountInv, Refs
  <2>2. PICK k \in Nat, h \in Nat : k = Cardinality(mem[m].dmas) /\ h = Cardinality(Holders(m))
    BY SlackTypes
  <2>3. Slack(m) = 0 - k - h
    BY <1>b, <2>2 DEF Slack
  <2>4. k = 0 /\ h = 0 /\ Slack(m) # 1
    BY <2>1, <2>3
  <2>5. mem[m].dmas = {} /\ Holders(m) = {}
    BY <2>2, <2>4, SlackTypes, FS_EmptySet
  <2> QED BY <2>1, <2>4, <2>5 DEF Token
<1>d. \A n \in Mem : Holders(n)' = Holders(n)
  <2>1. \A u \in Thread : SameHold(u)
    BY DEF SameHold, HoldPc, RelFreeEff, Moves, Keeps
  <2> QED BY <2>1, HoldersSame
<1>e. /\ \A n \in Mem \ {m} : cb'[n] = cb[n]
      /\ cb'[m] = IF ReleasesTable(m) /\ cb[m] = "armed" THEN "idle" ELSE cb[m]
  BY <1>0 DEF RelFreeEff
<1>5. dma' = dma /\ \A u \in Thread : th'[u].op = "map" => th[u].op = "map"
  BY DEF RelFreeEff, Moves, Keeps
<1>7. Tables'
  BY <1>a DEF RaceInv, CountInv, Tables
<1>8. Callbacks'
  <2>1. cb[m] = "armed" => ReleasesTable(m)
    BY <1>b DEF RaceInv, CountInv, Callbacks, Tables, ReleasesTable
  <2>2. \A n \in Mem : cb'[n] # "idle" => cb[n] # "idle"
    BY <1>e
  <2>3. cb'[m] # "armed"
    BY <1>e, <2>1
  <2> QED BY <1>a, <1>b, <1>e, <2>2, <2>3 DEF RaceInv, CountInv, Callbacks
<1>9. CbMaps'
  BY <1>a, <1>e, <1>5 DEF RaceInv, CountInv, CbMaps, NoCbMap
<1>10. Refs'
  <2>1. known' = known /\ vma' = vma /\ memXa' = memXa
    BY DEF RelFreeEff
  <2>2. \A u \in Thread : TokenKept(u)
    BY DEF TokenKept, TokenPc, PinPc, RelFreeEff, Moves, Keeps
  <2>3. \A n \in Mem \ {m} : Token(n)' => Token(n)
    BY <1>a, <2>1, <2>2 DEF Token, IsKnown, TokenKept, TokenPc
  <2>4. \A n \in Mem \ {m} : Slack(n)' = Slack(n)
    BY <1>a, <1>d DEF Slack
  <2> QED BY <1>a, <1>c, <2>3, <2>4 DEF RaceInv, CountInv, Refs
<1>11. Held'
  BY <1>a, <1>c, <1>d DEF RaceInv, CountInv, Held
<1>12. Mapped'
  <2>1. ASSUME NEW d \in Dma, dma[d].mapped, dma[d].mem = m, mem[m].loc = "CPU" \/ NoCbMap
        PROVE  FALSE
    <3>1. dma[d].heap = "live"
      BY <2>1 DEF RaceInv, CountInv, Mapped
    <3>2. PICK u \in Thread : th[u].pc \in DmaPc /\ th[u].d = d
      BY <1>c, <2>1, <3>1 DEF BaseInv, DmaPlaced, Placed
    <3>3. th[u].m = m
      BY <2>1, <3>2 DEF Inv, DmaInv, InFlight
    <3> QED BY <1>c, <3>2, <3>3 DEF Holders, DmaPc
  <2> QED BY <1>a, <1>5, <2>1 DEF RaceInv, CountInv, Mapped, NoCbMap
<1> QED BY <1>7, <1>8, <1>9, <1>10, <1>11, <1>12 DEF CountInv

LEMMA RelCtxCount ==
  ASSUME Inv, CtxInv, BaseInv, Races, RaceInv, NEW t \in Thread, RelCtxEff(t)
  PROVE  CountInv'
<1>1. /\ \A n \in Mem : SameUse(n)
      /\ \A n \in Mem : SameCounts(n)
  BY DEF SameUse, SameCounts, RelCtxEff
<1>2. \A u \in Thread : SameHold(u)
  BY DEF SameHold, HoldPc, RelCtxEff, Keeps, RelRet
<1>3. \A u \in Thread : MapKept(u)
  BY DEF MapKept, RelCtxEff, Keeps, RelRet
<1>4. \A n \in Mem : Token(n)' => Token(n)
  <2>1. NamesKept
    BY DEF NamesKept, RelCtxEff
  <2>2. \A u \in Thread : TokenKept(u)
    BY DEF TokenKept, TokenPc, PinPc, RelCtxEff, Keeps, RelRet
  <2> QED BY <1>1, <2>1, <2>2, TokenFrameNames
<1>5. cb' = cb /\ dma' = dma
  BY DEF RelCtxEff
<1> QED BY <1>1, <1>2, <1>3, <1>4, <1>5, QuietFrame

LEMMA UnmapStartCount ==
  ASSUME Inv, CtxInv, BaseInv, Races, RaceInv, NEW t \in Thread, NEW a \in Addr,
         UnmapStartEff(t, a)
  PROVE  CountInv'
<1>1. /\ \A n \in Mem : SameUse(n)
      /\ \A n \in Mem : SameCounts(n)
  BY DEF SameUse, SameCounts, UnmapStartEff
<1>2. \A u \in Thread : SameHold(u)
  BY DEF SameHold, HoldPc, UnmapStartEff, Starts
<1>3. \A u \in Thread : MapKept(u)
  BY DEF MapKept, UnmapStartEff, Starts
<1>4. \A n \in Mem : Token(n)' => Token(n)
  <2>1. NamesKept
    BY DEF NamesKept, UnmapStartEff
  <2>2. \A u \in Thread : TokenKept(u)
    BY DEF TokenKept, TokenPc, PinPc, UnmapStartEff, Starts
  <2> QED BY <1>1, <2>1, <2>2, TokenFrameNames
<1>5. cb' = cb /\ dma' = dma
  BY DEF UnmapStartEff
<1> QED BY <1>1, <1>2, <1>3, <1>4, <1>5, QuietFrame

LEMMA UnmapDoCount ==
  ASSUME Inv, CtxInv, BaseInv, Races, RaceInv, NEW t \in Thread, UnmapDoEff(t)
  PROVE  CountInv'
<1>0. PICK m \in Mem : m = th[t].m
  BY DEF UnmapDoEff
<1>a. /\ \A n \in Mem \ {m} : mem'[n] = mem[n]
      /\ mem'[m].ref = mem[m].ref - Cardinality(mem[m].dmas) /\ mem'[m].dmas = {} /\ SameUse(m)
  BY <1>0 DEF UnmapDoEff, Only
<1>1. \A n \in Mem : SameUse(n)
  BY <1>a DEF SameUse
<1>3. \A u \in Thread : MapKept(u)
  BY DEF MapKept, UnmapDoEff, Moves, Keeps
<1>4. \A n \in Mem : Token(n)' => Token(n)
  <2>1. PICK a \in Addr : vma[a].m = m
    BY <1>0 DEF RaceInv, NameInv, UnmapsOK, UnmapDoEff, Moves
  <2>2. Token(m)
    BY <2>1 DEF Token
  <2>3. \A u \in Thread : th'[u].pc \in TokenPc => TokenKept(u) \/ th'[u].m = m
    BY <1>0 DEF TokenKept, UnmapDoEff, Moves, Keeps
  <2>4. known' = known /\ memXa' = memXa
    BY DEF UnmapDoEff
  <2>5. \A x \in Addr : vma'[x].m \in {vma[x].m, NULL}
    BY NoVmaFields DEF UnmapDoEff
  <2> SUFFICES ASSUME NEW n \in Mem \ {m}, Token(n)' PROVE Token(n)
    BY <2>2
  <2>6. IsKnown(n)' => IsKnown(n)
    BY <2>4 DEF IsKnown
  <2>7. \A x \in Addr : vma'[x].m = n => vma[x].m = n
    BY <2>5, NullOut
  <2>8. \A u \in Thread : th'[u].pc \in TokenPc /\ th'[u].m = n => th[u].pc \in TokenPc /\ th[u].m = n
    BY <2>3 DEF TokenKept
  <2> QED BY <1>1, <2>6, <2>7, <2>8 DEF Token, TokenPc, SameUse
<1>5. cb' = cb
  BY DEF UnmapDoEff
<1>c. /\ \A n \in Mem : Holders(n)' = Holders(n)
      /\ \A n \in Mem : SlackKept(n)
  BY <1>0, UnmapDoSlack
<1>7. Tables' /\ Callbacks' /\ CbMaps'
  BY <1>1, <1>3, <1>5, UseFrame DEF RaceInv
<1>9. Refs'
  BY <1>1, <1>4, <1>c, UseRefs DEF RaceInv
<1>10. Held'
  <2>1. \A n \in Mem : Busy(n) \/ mem'[n].dmas \subseteq mem[n].dmas
    BY <1>a
  <2>2. \A n \in Mem : Busy(n) \/ Holders(n)' \subseteq Holders(n)
    BY <1>c
  <2> QED BY <1>1, <2>1, <2>2, HeldFrame DEF RaceInv
<1>11. Mapped'
  <2>1. PICK S : S = mem[m].dmas
    OBVIOUS
  <2>2. /\ \A e \in Dma : dma'[e].mapped => dma[e].mapped /\ (e \in S => ~UnmapsNow(m))
        /\ \A e \in Dma : dma'[e].mem = dma[e].mem /\ (e \notin S => dma'[e].heap = dma[e].heap)
        /\ \A e \in Dma : e \in S => dma'[e].heap = "freed"
    BY <1>0, <2>1 DEF UnmapDoEff, Drops
  <2>3. \A e \in S : dma[e].mem = m
    BY <2>1 DEF Inv, DmaInv, DmaListsSound
  <2> QED BY <1>1, <2>2, <2>3, DropsMapped DEF RaceInv
<1> QED BY <1>7, <1>9, <1>10, <1>11 DEF CountInv

LEMMA UnmapReturnCount ==
  ASSUME Inv, CtxInv, BaseInv, Races, RaceInv, NEW t \in Thread, UnmapReturnEff(t)
  PROVE  CountInv'
<1>1. /\ \A n \in Mem : SameUse(n)
      /\ \A n \in Mem : SameCounts(n)
  BY DEF SameUse, SameCounts, UnmapReturnEff
<1>2. \A u \in Thread : SameHold(u)
  BY DEF SameHold, HoldPc, UnmapReturnEff, Ends
<1>3. \A u \in Thread : MapKept(u)
  BY DEF MapKept, UnmapReturnEff, Ends
<1>4. \A n \in Mem : Token(n)' => Token(n)
  <2>1. NamesKept
    BY DEF NamesKept, UnmapReturnEff
  <2>2. \A u \in Thread : TokenKept(u)
    BY DEF TokenKept, TokenPc, PinPc, UnmapReturnEff, Ends
  <2> QED BY <1>1, <2>1, <2>2, TokenFrameNames
<1>5. cb' = cb /\ dma' = dma
  BY DEF UnmapReturnEff
<1> QED BY <1>1, <1>2, <1>3, <1>4, <1>5, QuietFrame

LEMMA SplitVmaCount ==
  ASSUME Inv, CtxInv, BaseInv, Races, RaceInv, NEW a \in Addr, NEW b \in Addr,
         SplitVmaEff(a, b)
  PROVE  CountInv'
<1> QED BY DEF Races, SplitVmaEff

LEMMA CloseStartCount ==
  ASSUME Inv, CtxInv, BaseInv, Races, RaceInv, NEW t \in Thread, NEW f \in File,
         CloseStartEff(t, f)
  PROVE  CountInv'
<1>1. /\ \A n \in Mem : SameUse(n)
      /\ \A n \in Mem : SameCounts(n)
  BY DEF SameUse, SameCounts, CloseStartEff
<1>2. \A u \in Thread : SameHold(u)
  BY DEF SameHold, HoldPc, CloseStartEff, Starts
<1>3. \A u \in Thread : MapKept(u)
  BY DEF MapKept, CloseStartEff, Starts
<1>4. \A n \in Mem : Token(n)' => Token(n)
  <2>1. NamesKept
    BY DEF NamesKept, CloseStartEff
  <2>2. \A u \in Thread : TokenKept(u)
    BY DEF TokenKept, TokenPc, PinPc, CloseStartEff, Starts
  <2> QED BY <1>1, <2>1, <2>2, TokenFrameNames
<1>5. cb' = cb /\ dma' = dma
  BY DEF CloseStartEff
<1> QED BY <1>1, <1>2, <1>3, <1>4, <1>5, QuietFrame

LEMMA CloseDoCount ==
  ASSUME Inv, CtxInv, BaseInv, Races, RaceInv, NEW t \in Thread, CloseDoEff(t)
  PROVE  CountInv'
<1>a. \A n \in Mem : /\ mem'[n].heap = IF n \in Stale THEN "limbo" ELSE mem[n].heap
                     /\ mem'[n].state = mem[n].state /\ mem'[n].loc = mem[n].loc
                     /\ mem'[n].table = mem[n].table
  BY DEF CloseDoEff
<1>b. \A n \in Stale : mem[n].state = "STALE" /\ mem[n].heap = "live" /\ ~mem[n].table
  BY ListTypes DEF Stale, CtxInv, Lists, RaceInv, CountInv, Tables
<1>1. \A n \in Mem : SameCounts(n)
  BY DEF CloseDoEff
<1>2. \A u \in Thread : SameHold(u)
  BY DEF SameHold, HoldPc, CloseDoEff, Moves, Keeps
<1>3. /\ \A n \in Mem : TableUse(n)
      /\ \A n \in Mem : TableStays(n)
  BY <1>a, <1>b DEF TableUse, TableStays
<1>4. \A n \in Mem : Token(n)' => Token(n)
  <2>1. known' = {} /\ vma' = vma
    BY DEF CloseDoEff
  <2>2. \A u \in Thread : TokenKept(u)
    BY DEF TokenKept, TokenPc, PinPc, CloseDoEff, Moves, Keeps
  <2>3. \A n \in Mem : mem[n].state = "STALE" \/ StaleKept(n)
    BY <1>a, <1>b DEF StaleKept
  <2>4. /\ \A h \in known' : h \in known /\ memXa'[h - 1] \in {memXa[h - 1], NULL}
        /\ \A a \in Addr : vma'[a].m \in {vma[a].m, NULL}
    BY <2>1
  <2> QED BY <2>2, <2>3, <2>4, TokenFrame
<1>5. cb' = cb /\ dma' = dma /\ \A u \in Thread : th'[u].op = "map" => th[u].op = "map"
  BY DEF CloseDoEff, Moves, Keeps
<1>6. Refs' /\ Held' /\ Mapped'
  BY <1>1, <1>2, <1>3, <1>4, <1>5, RecordFrame DEF RaceInv
<1>7. Tables'
  BY <1>a DEF RaceInv, CountInv, Tables
<1>8. Callbacks'
  BY <1>a, <1>b, <1>5 DEF RaceInv, CountInv, Callbacks
<1>9. CbMaps'
  BY <1>a, <1>5 DEF RaceInv, CountInv, CbMaps, NoCbMap
<1> QED BY <1>6, <1>7, <1>8, <1>9 DEF CountInv

LEMMA CloseReturnCount ==
  ASSUME Inv, CtxInv, BaseInv, Races, RaceInv, NEW t \in Thread, CloseReturnEff(t)
  PROVE  CountInv'
<1>1. /\ \A n \in Mem : SameUse(n)
      /\ \A n \in Mem : SameCounts(n)
  BY DEF SameUse, SameCounts, CloseReturnEff
<1>2. \A u \in Thread : SameHold(u)
  BY DEF SameHold, HoldPc, CloseReturnEff, Ends
<1>3. \A u \in Thread : MapKept(u)
  BY DEF MapKept, CloseReturnEff, Ends
<1>4. \A n \in Mem : Token(n)' => Token(n)
  <2>1. NamesKept
    BY DEF NamesKept, CloseReturnEff
  <2>2. \A u \in Thread : TokenKept(u)
    BY DEF TokenKept, TokenPc, PinPc, CloseReturnEff, Ends
  <2> QED BY <1>1, <2>1, <2>2, TokenFrameNames
<1>5. cb' = cb /\ dma' = dma
  BY DEF CloseReturnEff
<1> QED BY <1>1, <1>2, <1>3, <1>4, <1>5, QuietFrame

LEMMA MapStartCount ==
  ASSUME Inv, CtxInv, BaseInv, Races, RaceInv, NEW t \in Thread, NEW f \in File, NEW a,
         MayMap(a), MapStartEff(t, f, a)
  PROVE  CountInv'
<1>1. /\ \A n \in Mem : SameUse(n)
      /\ \A n \in Mem : SameCounts(n)
  BY DEF SameUse, SameCounts, MapStartEff
<1>2. \A u \in Thread : SameHold(u)
  BY DEF SameHold, HoldPc, MapStartEff, Starts
<1>4. \A n \in Mem : Token(n)' => Token(n)
  <2>1. NamesKept
    BY DEF NamesKept, MapStartEff
  <2>2. \A u \in Thread : TokenKept(u)
    BY DEF TokenKept, TokenPc, PinPc, MapStartEff, Starts
  <2> QED BY <1>1, <2>1, <2>2, TokenFrameNames
<1>5. cb' = cb /\ dma' = dma
  BY DEF MapStartEff
<1>6. \A u \in Thread : \/ th'[u].op = "map" => th[u].op = "map"
                        \/ \A n \in Mem : ~(NoCbMap /\ cb[n] = "spinning")
  <2>1. {"map", "cb"} = {"cb", "map"}
    OBVIOUS
  <2> QED BY <2>1 DEF NoCbMap, MapStartEff, Starts
<1>7. Tables' /\ Callbacks'
  BY <1>1, <1>5 DEF RaceInv, CountInv, Tables, Callbacks, SameUse
<1>8. CbMaps'
  BY <1>1, <1>5, <1>6 DEF RaceInv, CountInv, CbMaps, SameUse, NoCbMap
<1>9. Refs'
  BY <1>1, <1>2, <1>4, SlackSame, UseRefs DEF RaceInv
<1>10. Held'
  <2>1. \A n \in Mem : Holders(n)' = Holders(n)
    BY <1>2, HoldersSame
  <2>2. \A n \in Mem : mem'[n].dmas = mem[n].dmas
    BY <1>1 DEF SameCounts
  <2> QED BY <1>1, <2>1, <2>2, HeldFrame DEF RaceInv
<1>11. Mapped'
  BY <1>1, <1>5, MappedFrame DEF RaceInv
<1> QED BY <1>7, <1>8, <1>9, <1>10, <1>11 DEF CountInv

LEMMA MapLockCount ==
  ASSUME Inv, CtxInv, BaseInv, Races, RaceInv, NEW t \in Thread, MapLockEff(t)
  PROVE  CountInv'
<1>1. /\ \A n \in Mem : SameUse(n)
      /\ \A n \in Mem : SameCounts(n)
  BY DEF SameUse, SameCounts, MapLockEff
<1>2. \A u \in Thread : SameHold(u)
  BY DEF SameHold, HoldPc, MapLockEff, Looks
<1>3. \A u \in Thread : MapKept(u)
  BY DEF MapKept, MapLockEff, Looks
<1>4. \A n \in Mem : Token(n)' => Token(n)
  <2>1. NamesKept
    BY DEF NamesKept, MapLockEff
  <2>2. \A u \in Thread : TokenKept(u)
    BY DEF TokenKept, TokenPc, PinPc, MapLockEff, Looks
  <2> QED BY <1>1, <2>1, <2>2, TokenFrameNames
<1>5. cb' = cb /\ dma' = dma
  BY DEF MapLockEff
<1> QED BY <1>1, <1>2, <1>3, <1>4, <1>5, QuietFrame

LEMMA WalkMatchCount ==
  ASSUME Inv, CtxInv, BaseInv, Races, RaceInv, NEW t \in Thread, WalkMatchEff(t)
  PROVE  CountInv'
<1>0. PICK m \in Mem : m = th[t].m
  BY DEF WalkMatchEff
<1>1. \A n \in Mem : SameUse(n)
  BY DEF SameUse, WalkMatchEff, RefTo, Only
<1>2. /\ RefTo(m, mem[m].ref + 1) /\ \A u \in Thread \ {t} : th'[u] = th[u]
      /\ th[t].pc \notin HoldPc /\ th'[t].pc \in HoldPc /\ th'[t].m = m
  BY <1>0 DEF WalkMatchEff, HoldPc
<1>3. \A u \in Thread : MapKept(u)
  BY DEF MapKept, WalkMatchEff
<1>4. \A n \in Mem : Token(n)' => Token(n)
  <2>1. NamesKept
    BY DEF NamesKept, WalkMatchEff
  <2>2. \A u \in Thread : TokenKept(u)
    BY DEF TokenKept, TokenPc, PinPc, WalkMatchEff
  <2> QED BY <1>1, <2>1, <2>2, TokenFrameNames
<1>5. cb' = cb /\ dma' = dma
  BY DEF WalkMatchEff
<1>6. /\ \A n \in Mem \ {m} : Holders(n)' = Holders(n)
      /\ \A n \in Mem : SlackKept(n)
  BY <1>2, GetSlack
<1>7. mem[m].heap = "live"
  BY <1>0, NullOut DEF CtxInv, Walks, Lists, WalkMatchEff
<1>8. Tables' /\ Callbacks' /\ CbMaps'
  BY <1>1, <1>3, <1>5, UseFrame DEF RaceInv
<1>9. Refs'
  BY <1>1, <1>4, <1>6, UseRefs DEF RaceInv
<1>10. Held'
  <2>1. \A n \in Mem : Busy(n) \/ mem'[n].dmas \subseteq mem[n].dmas
    BY <1>2 DEF RefTo, Only
  <2>2. \A n \in Mem : Busy(n) \/ Holders(n)' \subseteq Holders(n)
    BY <1>6, <1>7 DEF Busy
  <2> QED BY <1>1, <2>1, <2>2, HeldFrame DEF RaceInv
<1>11. Mapped'
  BY <1>1, <1>5, MappedFrame DEF RaceInv
<1> QED BY <1>8, <1>9, <1>10, <1>11 DEF CountInv

LEMMA WalkSkipCount ==
  ASSUME Inv, CtxInv, BaseInv, Races, RaceInv, NEW t \in Thread, WalkSkipEff(t)
  PROVE  CountInv'
<1>0. PICK m \in Mem : m = th[t].m
  BY DEF WalkSkipEff
<1>1. \A n \in Mem : SameUse(n)
  BY DEF SameUse, WalkSkipEff, RefTo, Only
<1>2. /\ RefTo(m, mem[m].ref + 1) /\ \A u \in Thread \ {t} : th'[u] = th[u]
      /\ th[t].pc \notin HoldPc /\ th'[t].pc \in HoldPc /\ th'[t].m = m
  BY <1>0 DEF WalkSkipEff, Moves, Keeps, HoldPc
<1>3. \A u \in Thread : MapKept(u)
  BY DEF MapKept, WalkSkipEff, Moves, Keeps
<1>4. \A n \in Mem : Token(n)' => Token(n)
  <2>1. NamesKept
    BY DEF NamesKept, WalkSkipEff
  <2>2. \A u \in Thread : TokenKept(u)
    BY DEF TokenKept, TokenPc, PinPc, WalkSkipEff, Moves, Keeps
  <2> QED BY <1>1, <2>1, <2>2, TokenFrameNames
<1>5. cb' = cb /\ dma' = dma
  BY DEF WalkSkipEff
<1>6. /\ \A n \in Mem \ {m} : Holders(n)' = Holders(n)
      /\ \A n \in Mem : SlackKept(n)
  BY <1>2, GetSlack
<1>7. mem[m].heap = "live"
  BY <1>0, NullOut DEF CtxInv, Walks, Lists, WalkSkipEff, Moves
<1>8. Tables' /\ Callbacks' /\ CbMaps'
  BY <1>1, <1>3, <1>5, UseFrame DEF RaceInv
<1>9. Refs'
  BY <1>1, <1>4, <1>6, UseRefs DEF RaceInv
<1>10. Held'
  <2>1. \A n \in Mem : Busy(n) \/ mem'[n].dmas \subseteq mem[n].dmas
    BY <1>2 DEF RefTo, Only
  <2>2. \A n \in Mem : Busy(n) \/ Holders(n)' \subseteq Holders(n)
    BY <1>6, <1>7 DEF Busy
  <2> QED BY <1>1, <2>1, <2>2, HeldFrame DEF RaceInv
<1>11. Mapped'
  BY <1>1, <1>5, MappedFrame DEF RaceInv
<1> QED BY <1>8, <1>9, <1>10, <1>11 DEF CountInv

LEMMA WalkPutCount ==
  ASSUME Inv, CtxInv, BaseInv, Races, RaceInv, NEW t \in Thread, WalkPutEff(t)
  PROVE  CountInv'
<1>0. PICK m \in Mem : m = th[t].m
  BY DEF WalkPutEff
<1>1. \A n \in Mem : SameUse(n)
  BY DEF SameUse, WalkPutEff, RefTo, Only
<1>2. /\ RefTo(m, mem[m].ref - 1) /\ mem[m].ref > 0 /\ \A u \in Thread \ {t} : th'[u] = th[u]
      /\ th[t].pc \in HoldPc /\ th'[t].pc \notin HoldPc /\ th[t].m = m
  <2>1. mem[m].ref > 1 /\ mem[m].ref \in Nat
    BY <1>0, MemTypes DEF WalkPutEff
  <2> QED BY <1>0, <2>1 DEF WalkPutEff, Looks, HoldPc
<1>3. \A u \in Thread : MapKept(u)
  BY DEF MapKept, WalkPutEff, Looks
<1>4. \A n \in Mem : Token(n)' => Token(n)
  <2>1. NamesKept
    BY DEF NamesKept, WalkPutEff
  <2>2. \A u \in Thread : TokenKept(u)
    BY DEF TokenKept, TokenPc, PinPc, WalkPutEff, Looks
  <2> QED BY <1>1, <2>1, <2>2, TokenFrameNames
<1>5. cb' = cb /\ dma' = dma
  BY DEF WalkPutEff
<1>6. /\ \A n \in Mem : Holders(n)' \subseteq Holders(n)
      /\ \A n \in Mem : SlackKept(n)
  BY <1>2, PutSlack
<1>8. Tables' /\ Callbacks' /\ CbMaps'
  BY <1>1, <1>3, <1>5, UseFrame DEF RaceInv
<1>9. Refs'
  BY <1>1, <1>4, <1>6, UseRefs DEF RaceInv
<1>10. Held'
  <2>1. \A n \in Mem : Busy(n) \/ mem'[n].dmas \subseteq mem[n].dmas
    BY <1>2 DEF RefTo, Only
  <2>2. \A n \in Mem : Busy(n) \/ Holders(n)' \subseteq Holders(n)
    BY <1>6
  <2> QED BY <1>1, <2>1, <2>2, HeldFrame DEF RaceInv
<1>11. Mapped'
  BY <1>1, <1>5, MappedFrame DEF RaceInv
<1> QED BY <1>8, <1>9, <1>10, <1>11 DEF CountInv

LEMMA WalkEndCount ==
  ASSUME Inv, CtxInv, BaseInv, Races, RaceInv, NEW t \in Thread, WalkEndEff(t)
  PROVE  CountInv'
<1>1. /\ \A n \in Mem : SameUse(n)
      /\ \A n \in Mem : SameCounts(n)
  BY DEF SameUse, SameCounts, WalkEndEff
<1>2. \A u \in Thread : SameHold(u)
  BY DEF SameHold, HoldPc, WalkEndEff, Moves, Keeps
<1>3. \A u \in Thread : MapKept(u)
  BY DEF MapKept, WalkEndEff, Moves, Keeps
<1>4. \A n \in Mem : Token(n)' => Token(n)
  <2>1. NamesKept
    BY DEF NamesKept, WalkEndEff
  <2>2. \A u \in Thread : TokenKept(u)
    BY DEF TokenKept, TokenPc, PinPc, WalkEndEff, Moves, Keeps
  <2> QED BY <1>1, <2>1, <2>2, TokenFrameNames
<1>5. cb' = cb /\ dma' = dma
  BY DEF WalkEndEff
<1> QED BY <1>1, <1>2, <1>3, <1>4, <1>5, QuietFrame

LEMMA MapAllocCount ==
  ASSUME Inv, CtxInv, BaseInv, Races, RaceInv, NEW t \in Thread, NEW d \in Dma,
         MapAllocEff(t, d)
  PROVE  CountInv'
<1>1. /\ \A n \in Mem : SameUse(n)
      /\ \A n \in Mem : SameCounts(n)
  BY DEF SameUse, SameCounts, MapAllocEff
<1>2. \A u \in Thread : SameHold(u)
  BY DEF SameHold, HoldPc, MapAllocEff
<1>3. \A u \in Thread : MapKept(u)
  BY DEF MapKept, MapAllocEff
<1>4. \A n \in Mem : Token(n)' => Token(n)
  <2>1. NamesKept
    BY DEF NamesKept, MapAllocEff
  <2>2. \A u \in Thread : TokenKept(u)
    BY DEF TokenKept, TokenPc, PinPc, MapAllocEff
  <2> QED BY <1>1, <2>1, <2>2, TokenFrameNames
<1>5. cb' = cb
  BY DEF MapAllocEff
<1>7. Tables' /\ Callbacks' /\ CbMaps'
  BY <1>1, <1>3, <1>5, UseFrame DEF RaceInv
<1>9. Refs'
  BY <1>1, <1>2, <1>4, SlackSame, UseRefs DEF RaceInv
<1>10. Held'
  <2>1. \A n \in Mem : Holders(n)' = Holders(n)
    BY <1>2, HoldersSame
  <2>2. \A n \in Mem : mem'[n].dmas = mem[n].dmas
    BY <1>1 DEF SameCounts
  <2> QED BY <1>1, <2>1, <2>2, HeldFrame DEF RaceInv
<1>11. Mapped'
  <2>1. \A e \in Dma : dma'[e].mapped => e # d /\ dma'[e] = dma[e]
    BY DEF MapAllocEff
  <2> QED BY <1>1, <2>1, MappedFrame DEF RaceInv
<1> QED BY <1>7, <1>9, <1>10, <1>11 DEF CountInv

LEMMA MapDmaCount ==
  ASSUME Inv, CtxInv, BaseInv, Races, RaceInv, NEW t \in Thread, MapDmaEff(t)
  PROVE  CountInv'
<1>1. /\ \A n \in Mem : SameUse(n)
      /\ \A n \in Mem : SameCounts(n)
  BY DEF SameUse, SameCounts, MapDmaEff
<1>2. \A u \in Thread : SameHold(u)
  BY DEF SameHold, HoldPc, MapDmaEff, Moves, Keeps
<1>3. \A u \in Thread : MapKept(u)
  BY DEF MapKept, MapDmaEff, Moves, Keeps
<1>4. \A n \in Mem : Token(n)' => Token(n)
  <2>1. NamesKept
    BY DEF NamesKept, MapDmaEff
  <2>2. \A u \in Thread : TokenKept(u)
    BY DEF TokenKept, TokenPc, PinPc, MapDmaEff, Moves, Keeps
  <2> QED BY <1>1, <2>1, <2>2, TokenFrameNames
<1>5. cb' = cb
  BY DEF MapDmaEff
<1>7. Tables' /\ Callbacks' /\ CbMaps'
  BY <1>1, <1>3, <1>5, UseFrame DEF RaceInv
<1>9. Refs'
  BY <1>1, <1>2, <1>4, SlackSame, UseRefs DEF RaceInv
<1>10. Held'
  <2>1. \A n \in Mem : Holders(n)' = Holders(n)
    BY <1>2, HoldersSame
  <2>2. \A n \in Mem : mem'[n].dmas = mem[n].dmas
    BY <1>1 DEF SameCounts
  <2> QED BY <1>1, <2>1, <2>2, HeldFrame DEF RaceInv
<1>11. Mapped'
  <2>0. PICK m \in Mem, d \in Dma : m = th[t].m /\ d = th[t].d
    BY DEF MapDmaEff
  <2>1. /\ \A e \in Dma \ {d} : dma'[e] = dma[e]
        /\ dma'[d].heap = "live" /\ dma'[d].mem = m
        /\ dma'[d].mapped => mem[m].table
    BY <2>0 DEF MapDmaEff, Moves, Inv, DmaInv, InFlight, DmaPc
  <2>2. mem[m].table => mem[m].heap = "live"
    <3>1. t \in Holders(m)
      BY <2>0 DEF Holders, MapDmaEff, Moves
    <3> QED BY <3>1 DEF RaceInv, CountInv, Held
  <2>3. mem' = mem
    BY DEF MapDmaEff
  <2>4. \A e \in Dma : dma'[e].mapped => dma'[e].heap # "unused"
    BY <2>1 DEF RaceInv, CountInv, Mapped
  <2>5. ASSUME NEW e \in Dma, NEW n \in Mem, dma'[e].mapped, dma'[e].mem = n,
               mem[n].loc = "CPU" \/ NoCbMap
        PROVE  dma'[e].heap = "live" /\ mem[n].heap = "live" /\ mem[n].table
    <3>1. CASE e = d
      BY <2>1, <2>2, <2>5, <3>1
    <3>2. CASE e # d
      BY <2>1, <2>5, <3>2 DEF RaceInv, CountInv, Mapped
    <3> QED BY <3>1, <3>2
  <2> QED BY <2>3, <2>4, <2>5 DEF Mapped, NoCbMap
<1> QED BY <1>7, <1>9, <1>10, <1>11 DEF CountInv

LEMMA MapFailsCount ==
  ASSUME Inv, CtxInv, BaseInv, Races, RaceInv, NEW t \in Thread, MapFailsEff(t)
  PROVE  CountInv'
<1>1. /\ \A n \in Mem : SameUse(n)
      /\ \A n \in Mem : SameCounts(n)
  BY DEF SameUse, SameCounts, MapFailsEff
<1>2. \A u \in Thread : SameHold(u)
  BY DEF SameHold, HoldPc, MapFailsEff, Moves, Keeps, DmaPc
<1>3. \A u \in Thread : MapKept(u)
  BY DEF MapKept, MapFailsEff, Moves, Keeps, DmaPc
<1>4. \A n \in Mem : Token(n)' => Token(n)
  <2>1. NamesKept
    BY DEF NamesKept, MapFailsEff
  <2>2. \A u \in Thread : TokenKept(u)
    BY DEF TokenKept, TokenPc, PinPc, MapFailsEff, Moves, Keeps, DmaPc
  <2> QED BY <1>1, <2>1, <2>2, TokenFrameNames
<1>5. cb' = cb
  BY DEF MapFailsEff
<1>7. Tables' /\ Callbacks' /\ CbMaps'
  BY <1>1, <1>3, <1>5, UseFrame DEF RaceInv
<1>9. Refs'
  BY <1>1, <1>2, <1>4, SlackSame, UseRefs DEF RaceInv
<1>10. Held'
  <2>1. \A n \in Mem : Holders(n)' = Holders(n)
    BY <1>2, HoldersSame
  <2>2. \A n \in Mem : mem'[n].dmas = mem[n].dmas
    BY <1>1 DEF SameCounts
  <2> QED BY <1>1, <2>1, <2>2, HeldFrame DEF RaceInv
<1>11. Mapped'
  <2>0. PICK m \in Mem, d \in Dma : m = th[t].m /\ d = th[t].d
    BY DEF MapFailsEff
  <2>1. /\ \A e \in Dma \ {d} : dma'[e] = dma[e]
        /\ dma'[d].heap = "freed" /\ dma'[d].mem = dma[d].mem
        /\ dma'[d].mapped => dma[d].mapped /\ mem[m].loc # "CPU" /\ ~mem[m].table
    BY <2>0 DEF MapFailsEff
  <2>2. dma[d].mem = m
    BY <2>0 DEF MapFailsEff, Inv, DmaInv, InFlight
  <2>3. mem' = mem
    BY DEF MapFailsEff
  <2>4. dma'[d].mapped => mem[m].loc # "CPU" /\ ~NoCbMap
    BY <2>1, <2>2 DEF RaceInv, CountInv, Mapped
  <2>5. \A e \in Dma : dma'[e].mapped => dma'[e].heap # "unused"
    BY <2>1 DEF RaceInv, CountInv, Mapped
  <2>6. ASSUME NEW e \in Dma, NEW n \in Mem, dma'[e].mapped, dma'[e].mem = n,
               mem[n].loc = "CPU" \/ NoCbMap
        PROVE  dma'[e].heap = "live" /\ mem[n].heap = "live" /\ mem[n].table
    <3>1. e # d
      BY <2>1, <2>2, <2>4, <2>6
    <3> QED BY <2>1, <2>6, <3>1 DEF RaceInv, CountInv, Mapped
  <2> QED BY <2>3, <2>5, <2>6 DEF Mapped, NoCbMap
<1> QED BY <1>7, <1>9, <1>10, <1>11 DEF CountInv

LEMMA MapLinkCount ==
  ASSUME Inv, CtxInv, BaseInv, Races, RaceInv, NEW t \in Thread, MapLinkEff(t)
  PROVE  CountInv'
<1>0. PICK m \in Mem, d \in Dma : m = th[t].m /\ d = th[t].d
  BY DEF MapLinkEff
<1>a. /\ \A n \in Mem \ {m} : mem'[n] = mem[n]
      /\ mem'[m].ref = mem[m].ref /\ mem'[m].dmas = mem[m].dmas \cup {d} /\ SameUse(m)
  BY <1>0 DEF MapLinkEff, Only
<1>b. /\ \A u \in Thread \ {t} : th'[u] = th[u]
      /\ th[t].pc = "map_link" /\ th[t].m = m /\ th'[t].pc \in {"map_copy", "map_lock"}
      /\ th'[t].op = th[t].op
  BY <1>0 DEF MapLinkEff
<1>1. \A n \in Mem : SameUse(n)
  BY <1>a DEF SameUse
<1>3. \A u \in Thread : MapKept(u)
  BY <1>b DEF MapKept
<1>4. \A n \in Mem : Token(n)' => Token(n)
  <2>1. NamesKept
    BY DEF NamesKept, MapLinkEff
  <2>2. \A u \in Thread : TokenKept(u)
    BY DEF TokenKept, TokenPc, PinPc, MapLinkEff
  <2> QED BY <1>1, <2>1, <2>2, TokenFrameNames
<1>5. cb' = cb /\ dma' = dma
  BY DEF MapLinkEff
<1>c. /\ \A n \in Mem \ {m} : Holders(n)' = Holders(n)
      /\ Holders(m)' = Holders(m) \ {t} /\ t \in Holders(m)
      /\ \A n \in Mem : SlackKept(n)
  BY <1>0, MapLinkSlack
<1>7. Tables' /\ Callbacks' /\ CbMaps'
  BY <1>1, <1>3, <1>5, UseFrame DEF RaceInv
<1>9. Refs'
  BY <1>1, <1>4, <1>c, UseRefs DEF RaceInv
<1>10. Held'
  <2>1. \A n \in Mem : Busy(n) \/ mem'[n].dmas \subseteq mem[n].dmas
    BY <1>a, <1>c DEF Busy
  <2>2. \A n \in Mem : Busy(n) \/ Holders(n)' \subseteq Holders(n)
    BY <1>c DEF Busy
  <2> QED BY <1>1, <2>1, <2>2, HeldFrame DEF RaceInv
<1>11. Mapped'
  BY <1>1, <1>5, MappedFrame DEF RaceInv
<1> QED BY <1>7, <1>9, <1>10, <1>11 DEF CountInv

LEMMA MapReturnCount ==
  ASSUME Inv, CtxInv, BaseInv, Races, RaceInv, NEW t \in Thread, MapReturnEff(t)
  PROVE  CountInv'
<1>1. /\ \A n \in Mem : SameUse(n)
      /\ \A n \in Mem : SameCounts(n)
  BY DEF SameUse, SameCounts, MapReturnEff
<1>2. \A u \in Thread : SameHold(u)
  BY DEF SameHold, HoldPc, MapReturnEff, Ends
<1>3. \A u \in Thread : MapKept(u)
  BY DEF MapKept, MapReturnEff, Ends
<1>4. \A n \in Mem : Token(n)' => Token(n)
  <2>1. NamesKept
    BY DEF NamesKept, MapReturnEff
  <2>2. \A u \in Thread : TokenKept(u)
    BY DEF TokenKept, TokenPc, PinPc, MapReturnEff, Ends
  <2> QED BY <1>1, <2>1, <2>2, TokenFrameNames
<1>5. cb' = cb /\ dma' = dma
  BY DEF MapReturnEff
<1> QED BY <1>1, <1>2, <1>3, <1>4, <1>5, QuietFrame

LEMMA MapUndoCount ==
  ASSUME Inv, CtxInv, BaseInv, Races, RaceInv, NEW t \in Thread, NEW d, NEW m,
         MapUndoEff(t, d, m)
  PROVE  CountInv'
<1>0. m \in Mem /\ d \in Dma /\ d \in Elems(th[t].mine) /\ dma[d].heap = "live" /\ dma[d].mem = m
  BY DEF MapUndoEff, Pops
<1>a. /\ \A n \in Mem \ {m} : mem'[n] = mem[n]
      /\ mem'[m].ref = mem[m].ref /\ mem'[m].dmas = mem[m].dmas \ {d} /\ SameUse(m)
  BY DEF MapUndoEff, Only
<1>b. /\ \A u \in Thread \ {t} : th'[u] = th[u]
      /\ th[t].pc = "map_undo" /\ th'[t].m = m /\ th'[t].pc = "map_put"
      /\ th'[t].op = th[t].op
  BY DEF MapUndoEff
<1>d. d \in mem[m].dmas
  BY <1>0, MineListed
<1>1. \A n \in Mem : SameUse(n)
  BY <1>a DEF SameUse
<1>3. \A u \in Thread : MapKept(u)
  BY <1>b DEF MapKept
<1>4. \A n \in Mem : Token(n)' => Token(n)
  <2>1. NamesKept
    BY DEF NamesKept, MapUndoEff
  <2>2. \A u \in Thread : TokenKept(u)
    BY DEF TokenKept, TokenPc, PinPc, MapUndoEff
  <2> QED BY <1>1, <2>1, <2>2, TokenFrameNames
<1>5. cb' = cb
  BY DEF MapUndoEff
<1>c. /\ \A n \in Mem \ {m} : Holders(n)' = Holders(n)
      /\ Holders(m)' = Holders(m) \cup {t} /\ t \notin Holders(m)
      /\ \A n \in Mem : SlackKept(n)
  BY MapUndoSlack
<1>7. Tables' /\ Callbacks' /\ CbMaps'
  BY <1>1, <1>3, <1>5, UseFrame DEF RaceInv
<1>9. Refs'
  BY <1>1, <1>4, <1>c, UseRefs DEF RaceInv
<1>10. Held'
  <2>1. \A n \in Mem : Busy(n) \/ mem'[n].dmas \subseteq mem[n].dmas
    BY <1>a, <1>d DEF Busy
  <2>2. \A n \in Mem : Busy(n) \/ Holders(n)' \subseteq Holders(n)
    BY <1>c, <1>d DEF Busy
  <2> QED BY <1>1, <2>1, <2>2, HeldFrame DEF RaceInv
<1>11. Mapped'
  <2>1. PICK S : S = {d}
    OBVIOUS
  <2>2. /\ \A e \in Dma : dma'[e].mapped => dma[e].mapped /\ (e \in S => ~UnmapsNow(m))
        /\ \A e \in Dma : dma'[e].mem = dma[e].mem /\ (e \notin S => dma'[e].heap = dma[e].heap)
        /\ \A e \in Dma : e \in S => dma'[e].heap = "freed"
    BY <2>1 DEF MapUndoEff, Drops
  <2>3. \A e \in S : dma[e].mem = m
    BY <1>0, <2>1
  <2> QED BY <1>0, <1>1, <2>2, <2>3, DropsMapped DEF RaceInv
<1> QED BY <1>7, <1>9, <1>10, <1>11 DEF CountInv

LEMMA CbBeginCount ==
  ASSUME Inv, CtxInv, BaseInv, Races, RaceInv, NEW m \in Mem, CbBeginEff(m)
  PROVE  CountInv'
<1>1. /\ \A n \in Mem : SameUse(n)
      /\ \A n \in Mem : SameCounts(n)
  BY DEF SameUse, SameCounts, CbBeginEff
<1>2. th' = th /\ dma' = dma
  BY DEF CbBeginEff
<1>3. /\ \A n \in Mem : TableUse(n)
      /\ \A n \in Mem : TableStays(n)
  BY <1>1 DEF TableUse, TableStays, SameUse
<1>4. \A n \in Mem : Token(n)' => Token(n)
  <2>1. NamesKept
    BY DEF NamesKept, CbBeginEff
  <2>2. \A u \in Thread : TokenKept(u)
    BY <1>2 DEF TokenKept
  <2> QED BY <1>1, <2>1, <2>2, TokenFrameNames
<1>5. \A u \in Thread : SameHold(u)
  BY <1>2 DEF SameHold
<1>6. Refs' /\ Held' /\ Mapped'
  BY <1>1, <1>2, <1>3, <1>4, <1>5, RecordFrame DEF RaceInv
<1>7. Tables'
  BY <1>1 DEF RaceInv, CountInv, Tables, SameUse
<1>8. Callbacks'
  BY <1>1 DEF RaceInv, CountInv, Callbacks, SameUse, CbBeginEff
<1>9. CbMaps'
  <2>1. \A u \in Thread : th[u].op = "map" => ~NoCbMap
    BY DEF CbBeginEff, NoCbMap
  <2> QED BY <1>2, <2>1 DEF CbMaps, NoCbMap
<1> QED BY <1>6, <1>7, <1>8, <1>9 DEF CountInv

LEMMA CbRunCount ==
  ASSUME Inv, CtxInv, BaseInv, Races, RaceInv, NEW m \in Mem, CbRunEff(m)
  PROVE  CountInv'
<1>a. /\ \A n \in Mem \ {m} : mem'[n] = mem[n]
      /\ mem'[m].heap = mem[m].heap /\ mem'[m].loc = mem[m].loc
      /\ mem'[m].state = IF mem[m].state # "DEAD" THEN "DEAD_CB" ELSE mem[m].state
      /\ mem'[m].table <=> mem[m].table /\ mem[m].state = "DEAD"
      /\ cb[m] = "spinning"
  BY DEF CbRunEff, Only, CbActs
<1>b. /\ \A n \in Mem : cb'[n] = IF n = m THEN "idle" ELSE cb[n]
      /\ th' = th
  BY DEF CbRunEff
<1>c. mem[m].loc = "CUDA" /\ mem[m].heap \in {"live", "limbo"}
  BY <1>a DEF RaceInv, CountInv, Callbacks
<1>1. \A n \in Mem : SameCounts(n)
  BY DEF SameCounts, CbRunEff, Only
<1>2. \A u \in Thread : SameHold(u)
  BY <1>b DEF SameHold
<1>3. \A n \in Mem : TableUse(n)
  BY <1>a DEF TableUse
<1>4. \A n \in Mem : Token(n)' => Token(n)
  <2>1. known' = known /\ vma' = vma /\ memXa' = memXa
    BY DEF CbRunEff
  <2> QED BY <1>a, <1>b, <2>1 DEF Token, IsKnown
<1>7. Tables'
  BY <1>a DEF RaceInv, CountInv, Tables
<1>8. Callbacks'
  BY <1>a, <1>b DEF RaceInv, CountInv, Callbacks
<1>9. CbMaps'
  BY <1>a, <1>b DEF RaceInv, CountInv, CbMaps, NoCbMap
<1>10. Refs'
  <2>1. /\ \A n \in Mem : mem'[n].heap # "unused" => mem[n].heap # "unused"
        /\ \A n \in Mem : mem'[n].state # "DEAD" => mem[n].state # "DEAD"
    BY <1>3 DEF TableUse
  <2>2. \A n \in Mem : SlackKept(n)
    BY <1>1, <1>2, SlackSame
  <2> QED BY <1>4, <2>1, <2>2, RefsFrame DEF RaceInv, CountInv
<1>11. Held'
  BY <1>1, <1>2, <1>3, HeldSame DEF RaceInv
<1>12. Mapped'
  <2>1. \A d \in Dma : /\ dma'[d].heap = dma[d].heap /\ dma'[d].mem = dma[d].mem
                       /\ dma'[d].mapped => dma[d].mapped
                       /\ dma'[d].mapped /\ mem[m].state # "DEAD" => d \notin mem[m].dmas
    BY DEF CbRunEff, CbActs
  <2>2. ASSUME NEW d \in Dma, dma'[d].mapped, dma[d].mem = m, NoCbMap PROVE FALSE
    <3>1. dma[d].heap = "live" /\ mem[m].heap = "live" /\ mem[m].table
      BY <2>1, <2>2 DEF RaceInv, CountInv, Mapped
    <3>2. mem[m].state = "LIVE"
      BY <3>1 DEF RaceInv, CountInv, Tables
    <3>3. PICK u \in Thread : th[u].pc \in DmaPc /\ th[u].d = d
      BY <2>1, <2>2, <3>1, <3>2 DEF BaseInv, DmaPlaced, Placed
    <3>4. th[u].op = "map"
      BY <3>3 DEF DmaPc, CtxInv, Ops, OpOK
    <3> QED BY <1>a, <2>2, <3>1, <3>2, <3>4 DEF RaceInv, CountInv, CbMaps
  <2>3. \A d \in Dma : dma'[d].mapped => dma'[d].heap # "unused"
    BY <2>1 DEF RaceInv, CountInv, Mapped
  <2>4. ASSUME NEW d \in Dma, NEW n \in Mem, dma'[d].mapped, dma'[d].mem = n,
               mem'[n].loc = "CPU" \/ NoCbMap
        PROVE  dma'[d].heap = "live" /\ mem'[n].heap = "live" /\ mem'[n].table
    <3>1. n # m
      BY <1>a, <1>c, <2>1, <2>2, <2>4
    <3> QED BY <1>a, <2>1, <2>4, <3>1 DEF RaceInv, CountInv, Mapped
  <2> QED BY <2>3, <2>4 DEF Mapped, NoCbMap
<1> QED BY <1>7, <1>8, <1>9, <1>10, <1>11, <1>12 DEF CountInv

LEMMA GraceEndCount ==
  ASSUME Inv, CtxInv, BaseInv, Races, RaceInv, NEW m \in Mem, GraceEndEff(m)
  PROVE  CountInv'
<1>a. /\ \A n \in Mem \ {m} : mem'[n] = mem[n]
      /\ mem[m].heap = "limbo" /\ mem'[m].heap = "freed" /\ mem'[m].state = mem[m].state
      /\ mem'[m].loc = mem[m].loc /\ mem'[m].table = mem[m].table /\ cb[m] # "spinning"
  BY DEF GraceEndEff, HeapTo, Only
<1>1. \A n \in Mem : SameCounts(n)
  BY DEF SameCounts, GraceEndEff, HeapTo, Only
<1>2. th' = th /\ dma' = dma /\ cb' = cb /\ known' = known /\ memXa' = memXa /\ vma' = vma
  BY DEF GraceEndEff
<1>3. /\ \A n \in Mem : TableUse(n)
      /\ \A n \in Mem : TableStays(n)
  BY <1>a DEF TableUse, TableStays
<1>4. \A n \in Mem : Token(n)' => Token(n)
  BY <1>a, <1>2 DEF Token, IsKnown
<1>5. \A u \in Thread : SameHold(u)
  BY <1>2 DEF SameHold
<1>6. Refs' /\ Held' /\ Mapped'
  BY <1>1, <1>2, <1>3, <1>4, <1>5, RecordFrame DEF RaceInv
<1>7. Tables'
  BY <1>a DEF RaceInv, CountInv, Tables
<1>8. Callbacks'
  BY <1>a, <1>2 DEF RaceInv, CountInv, Callbacks
<1>9. CbMaps'
  BY <1>a, <1>2 DEF RaceInv, CountInv, CbMaps, NoCbMap
<1> QED BY <1>6, <1>7, <1>8, <1>9 DEF CountInv

----------------------------------------------------------------------------
(* The theorems that rest on it. *)

(* The invariant holds when the files have just been opened. *)
LEMMA RaceInit == Init => RaceInv
<1> SUFFICES ASSUME Init PROVE RaceInv
  OBVIOUS
<1> USE DEF Init
<1>1. XaOK /\ Fresh
  BY DEF XaOK, Fresh, Blank, UnusedMem
<1>2. KnownOK /\ PinsOK /\ VmasOK
  BY NoVmaFields DEF KnownOK, IsKnown, PinsOK, PinPc, VmasOK, Idle
<1>3. UnmapsOK /\ RegsOK /\ MapAddrs
  BY DEF UnmapsOK, RegsOK, RegPc, MapAddrs, Idle
<1>4. Tables /\ Callbacks /\ Refs
  BY DEF Tables, Callbacks, Refs, UnusedMem
<1>5. Held /\ Mapped /\ CbMaps
  BY DEF Held, Mapped, CbMaps, UnusedMem, UnusedDma
<1> QED BY <1>1, <1>2, <1>3, <1>4, <1>5 DEF RaceInv, NameInv, CountInv

LEMMA NameNext ==
  ASSUME Inv, CtxInv, BaseInv, Races, RaceInv, [Next]_vars
  PROVE  NameInv'
<1>1. StepEff
  BY NextDoes
<1>2. ASSUME NEW t \in Thread, CallEff(t) PROVE NameInv'
  BY <1>2, RegStartName, PinStartName, UnmapStartName, CloseStartName, MapStartName DEF
     CallEff
<1>3. ASSUME NEW t \in Thread, LockEff(t) PROVE NameInv'
  BY <1>3, RegInsertName, RegInsertFailsName, RegCopyName, RegEraseName, GoesOnName,
     PinGetName, PinDoName, PinDoFailsName, PinReturnName, PutName, RelUnlinkName,
     RelFreeName, RelCtxName, UnmapDoName, UnmapReturnName, CloseDoName, CloseReturnName
     DEF LockEff
<1>4. ASSUME NEW t \in Thread, MapEff(t) PROVE NameInv'
  BY <1>4, MapLockName, WalkMatchName, WalkSkipName, WalkPutName, WalkEndName,
     MapAllocName, MapDmaName, MapFailsName, MapLinkName, MapReturnName, MapUndoName DEF
     MapEff
<1>5. ASSUME NEW m \in Mem, CbBeginEff(m) \/ CbRunEff(m) \/ GraceEndEff(m) PROVE NameInv'
  BY <1>5, CbBeginName, CbRunName, GraceEndName
<1>6. CASE Frozen
  <2>1. /\ NamesKept /\ mem' = mem /\ cb' = cb /\ th' = th
    BY <1>6 DEF Frozen, NamesKept
  <2>2. \A n \in Mem : MemKept(n)
    BY <2>1 DEF MemKept, Plain, StateKept, BlankKept, Blank
  <2>3. /\ \A u \in Thread : ThreadKept(u)
        /\ \A u \in Thread : NoNewUse(u)
    BY <2>1 DEF ThreadKept, TakenKept, PinKept, UnmapKept, RegKept, AddrKept, NoNewUse, TakenPc,
                PinPc, RegPc, UnmapPc
  <2> QED BY <2>1, <2>2, <2>3, NamesFrameAll DEF RaceInv
<1> QED BY <1>1, <1>2, <1>3, <1>4, <1>5, <1>6, SplitVmaName DEF StepEff

LEMMA CountNext ==
  ASSUME Inv, CtxInv, BaseInv, Races, RaceInv, [Next]_vars
  PROVE  CountInv'
<1>1. StepEff
  BY NextDoes
<1>2. ASSUME NEW t \in Thread, CallEff(t) PROVE CountInv'
  BY <1>2, RegStartCount, PinStartCount, UnmapStartCount, CloseStartCount, MapStartCount
     DEF CallEff
<1>3. ASSUME NEW t \in Thread, LockEff(t) PROVE CountInv'
  BY <1>3, RegInsertCount, RegInsertFailsCount, RegCopyCount, RegEraseCount,
     GoesOnCount, PinGetCount, PinDoCount, PinDoFailsCount, PinReturnCount, PutCount,
     RelUnlinkCount, RelFreeCount, RelCtxCount, UnmapDoCount, UnmapReturnCount,
     CloseDoCount, CloseReturnCount DEF LockEff
<1>4. ASSUME NEW t \in Thread, MapEff(t) PROVE CountInv'
  BY <1>4, MapLockCount, WalkMatchCount, WalkSkipCount, WalkPutCount, WalkEndCount,
     MapAllocCount, MapDmaCount, MapFailsCount, MapLinkCount, MapReturnCount,
     MapUndoCount DEF MapEff
<1>5. ASSUME NEW m \in Mem, CbBeginEff(m) \/ CbRunEff(m) \/ GraceEndEff(m) PROVE CountInv'
  BY <1>5, CbBeginCount, CbRunCount, GraceEndCount
<1>6. CASE Frozen
  <2>1. NamesKept /\ mem' = mem /\ cb' = cb /\ th' = th /\ dma' = dma
    BY <1>6 DEF Frozen, NamesKept
  <2>2. /\ \A n \in Mem : SameUse(n)
        /\ \A n \in Mem : SameCounts(n)
        /\ \A u \in Thread : SameHold(u)
        /\ \A u \in Thread : MapKept(u)
        /\ \A u \in Thread : TokenKept(u)
    BY <2>1 DEF SameUse, SameCounts, SameHold, MapKept, TokenKept
  <2>3. \A n \in Mem : Token(n)' => Token(n)
    BY <2>1, <2>2, TokenFrameNames
  <2> QED BY <2>1, <2>2, <2>3, QuietFrame
<1> QED BY <1>1, <1>2, <1>3, <1>4, <1>5, <1>6, SplitVmaCount DEF StepEff

(* Every state that a process of Races reaches satisfies it. *)
LEMMA RaceAlways == ASSUME Races PROVE Spec => []RaceInv
<1>1. Inv /\ CtxInv /\ BaseInv /\ RaceInv /\ [Next]_vars => RaceInv'
  BY NameNext, CountNext DEF RaceInv
<1> QED BY <1>1, RaceInit, InvAlways, CtxAlways, BaseAlways, PTL DEF Spec

LEMMA MappedPinned ==
  ASSUME Inv, RaceInv, NEW d \in Dma, dma[d].mapped, mem[dma[d].mem].loc = "CPU" \/ NoCbMap
  PROVE  pages[dma[d].mem] > 0
<1>1. dma[d].mem \in Mem
  BY DEF RaceInv, CountInv, Mapped, Inv, DmaInv, DmaMade
<1>2. mem[dma[d].mem].heap = "live" /\ mem[dma[d].mem].table
  BY <1>1 DEF RaceInv, CountInv, Mapped
<1> QED BY <1>1, <1>2 DEF Inv, TableInv, TableOK, Gone

(* A handle that REG_MEM returned goes on to name the registration it was  *)
(* returned for, in bafs_mem_xa and in mem_list, until the process pins it *)
(* or closes a file, provided that it lets neither a REG_MEM nor an mmap   *)
(* overlap the last close of a file: the sweep of bafs_core_release takes  *)
(* any registration that was never pinned.                                 *)
THEOREM HandlesAlwaysValid == ASSUME Races PROVE Spec => []HandlesValid
<1>1. Inv /\ CtxInv /\ RaceInv => HandlesValid
  <2> SUFFICES ASSUME Inv, CtxInv, RaceInv, NEW h \in known
               PROVE  \E m \in memList : memXa[h - 1] = m /\ mem[m].id = h - 1 /\ mem[m].heap = "live"
    BY DEF HandlesValid
  <2>1. memXa[h - 1] \in memList /\ mem[memXa[h - 1]].id = h - 1
    BY KnownListed DEF RaceInv, NameInv
  <2> QED BY <2>1 DEF CtxInv, Lists
<1> QED BY <1>1, InvAlways, CtxAlways, RaceAlways, PTL

(* release_bafs_cuda_mem, when it runs, finds its registration: the        *)
(* release withdraws a callback that has not begun, and kfree_rcu waits    *)
(* for one that spins on mem->lock.  The process keeps to Races.           *)
THEOREM CallbackAlwaysSafe == ASSUME Races PROVE Spec => []CallbackSafe
<1>1. RaceInv => CallbackSafe
  BY DEF RaceInv, CountInv, Callbacks, CallbackSafe
<1> QED BY <1>1, RaceAlways, PTL

(* Host pages that a controller reaches by DMA are still pinned: the last  *)
(* put of a registration does not come before its mappings are gone.  The  *)
(* process keeps to Races.                                                 *)
THEOREM CpuPagesAlwaysPinned == ASSUME Races PROVE Spec => []CpuDmaPagesPinned
<1>1. Inv /\ RaceInv => CpuDmaPagesPinned
  <2> SUFFICES ASSUME Inv, RaceInv, NEW d \in Dma, dma[d].mapped,
                      mem[dma[d].mem].loc = "CPU"
               PROVE  pages[dma[d].mem] > 0
    BY DEF CpuDmaPagesPinned
  <2> QED BY MappedPinned
<1> QED BY <1>1, InvAlways, RaceAlways, PTL

(* Pages of the GPU are, too, when the GPU driver's callback never runs    *)
(* while a DMA_MAP_MEM is in flight.                                       *)
THEOREM PagesAlwaysPinned ==
  ASSUME Races, {"cb", "map"} \notin Overlap
  PROVE  Spec => []DmaPagesPinned
<1>1. Inv /\ RaceInv => DmaPagesPinned
  <2> SUFFICES ASSUME Inv, RaceInv, NEW d \in Dma, dma[d].mapped PROVE pages[dma[d].mem] > 0
    BY DEF DmaPagesPinned
  <2> QED BY MappedPinned DEF NoCbMap
<1> QED BY <1>1, InvAlways, RaceAlways, PTL

----------------------------------------------------------------------------
(* The reference of kref_init, exactly.  Without an mmap that the GPU      *)
(* driver's callback overlaps, a registration is STALE until its pin       *)
(* succeeds, and that reference is gone when its owner is.                 *)
NoCbPin == {"cb", "pin"} \notin Overlap

Owns == \A m \in Mem : mem[m].heap = "live" /\ Slack(m) = 1 => Owned(m)

CbStates == \A m \in Mem : cb[m] = "spinning" => mem[m].state \in {"LIVE", "DEAD"}

StalePins ==
  /\ \A t \in Thread : th[t].pc \in PinPc => mem[th[t].m].state = "STALE"
  /\ \A h \in known : mem[memXa[h - 1]].state = "STALE"

OwnInv == Owns /\ CbStates /\ StalePins

(* Steps that take no owner away. *)
StateStays(n) ==
  /\ mem'[n].heap = "live" => mem[n].heap = "live"
  /\ mem[n].state = "STALE" => mem'[n].state = "STALE"
  /\ cb'[n] = "spinning" => cb[n] = "spinning"
  /\ cb'[n] = "spinning" /\ mem[n].state \in {"LIVE", "DEAD"} => mem'[n].state \in {"LIVE", "DEAD"}

OwnKept(u) ==
  /\ th'[u].pc \in PinPc => th[u].pc \in PinPc /\ th'[u].m = th[u].m
  /\ th[u].pc = "unmap_put" => th'[u].pc = "unmap_put" /\ th'[u].m = th[u].m

LEMMA OwnsFrame ==
  ASSUME Owns, \A n \in Mem : SlackKept(n), \A n \in Mem : StateStays(n),
         \A a \in Addr : vma[a].m # NULL => vma'[a].m = vma[a].m,
         \A u \in Thread : OwnKept(u)
  PROVE  Owns'
<1> SUFFICES ASSUME NEW n \in Mem, mem'[n].heap = "live", Slack(n)' = 1 PROVE Owned(n)'
  BY DEF Owns
<1>1. Owned(n)
  BY DEF Owns, SlackKept, StateStays
<1>2. n # NULL
  BY NullOut
<1>3. mem[n].state = "STALE" => mem'[n].state = "STALE"
  BY DEF StateStays
<1>4. \A a \in Addr : vma[a].m = n => vma'[a].m = n
  BY <1>2
<1>5. \A u \in Thread : th[u].m = n /\ th[u].pc = "unmap_put" => th'[u].m = n /\ th'[u].pc = "unmap_put"
  BY DEF OwnKept
<1> QED BY <1>1, <1>3, <1>4, <1>5 DEF Owned, At

LEMMA StalesFrame ==
  ASSUME Inv, RaceInv, StalePins, HandlesKept(known'),
         \A n \in Mem : mem[n].state = "STALE" => mem'[n].state = "STALE",
         \A u \in Thread : th'[u].pc \in PinPc => th[u].pc \in PinPc /\ th'[u].m = th[u].m
  PROVE  StalePins'
<1>1. /\ \A u \in Thread : th[u].pc \in PinPc => th[u].m \in Mem
      /\ \A h \in known : memXa[h - 1] \in Mem
  BY ThreadTypes DEF PinPc, NeedsMem, RaceInv, NameInv, KnownOK
<1> QED BY <1>1 DEF StalePins, HandlesKept

LEMMA OwnQuiet ==
  ASSUME Inv, RaceInv, OwnInv, \A n \in Mem : SlackKept(n), \A n \in Mem : StateStays(n),
         HandlesKept(known'), \A a \in Addr : vma[a].m # NULL => vma'[a].m = vma[a].m,
         \A u \in Thread : OwnKept(u)
  PROVE  OwnInv'
<1>1. Owns'
  BY OwnsFrame DEF OwnInv
<1>2. CbStates'
  BY DEF OwnInv, CbStates, StateStays
<1>3. StalePins'
  <2>1. \A n \in Mem : mem[n].state = "STALE" => mem'[n].state = "STALE"
    BY DEF StateStays
  <2>2. \A u \in Thread : th'[u].pc \in PinPc => th[u].pc \in PinPc /\ th'[u].m = th[u].m
    BY DEF OwnKept
  <2> QED BY <2>1, <2>2, StalesFrame DEF OwnInv
<1> QED BY <1>1, <1>2, <1>3 DEF OwnInv

(* The last step of an unmap puts the reference of the vma. *)
LEMMA UnmapPutLast ==
  ASSUME Inv, CtxInv, RaceInv, NEW t \in Thread, th[t].pc = "unmap_put", NEW m \in Mem,
         m = th[t].m
  PROVE  m \in memList /\ mem[m].heap = "live" /\ mem[m].state \in Pinned /\ Slack(m) = 1
<1>1. m \in memList /\ mem[m].state \in Pinned
  BY DEF RaceInv, NameInv, UnmapsOK
<1>2. mem[m].heap = "live" /\ mem[m].state # "DEAD"
  BY <1>1 DEF CtxInv, Lists, Pinned
<1>3. Token(m)
  BY DEF Token
<1> QED BY <1>1, <1>2, <1>3 DEF RaceInv, CountInv, Refs

----------------------------------------------------------------------------
(* Every step keeps OwnInv. *)

LEMMA RegStartOwn ==
  ASSUME Inv, CtxInv, BaseInv, Races, RaceInv, NoCbPin, OwnInv, NEW t \in Thread, NEW f
         \in File, NEW l \in Loc, NEW m \in Mem, RegStartEff(t, f, l, m)
  PROVE  OwnInv'
<1>1. /\ \A n \in Mem \ {m} : mem'[n] = mem[n]
      /\ mem[m].heap = "unused" /\ mem'[m].state = "STALE"
      /\ cb' = cb /\ vma' = vma /\ known' = known /\ memXa' = memXa
  BY DEF RegStartEff, Only
<1>2. /\ \A u \in Thread : SameHold(u)
      /\ \A u \in Thread : OwnKept(u)
  BY DEF SameHold, HoldPc, OwnKept, PinPc, RegStartEff, Starts
<1>3. cb[m] = "idle"
  BY <1>1 DEF RaceInv, NameInv, Fresh, Blank
<1>4. Owns'
  <2>1. Owned(m)'
    BY <1>1 DEF Owned
  <2>2. ASSUME NEW n \in Mem \ {m}, mem'[n].heap = "live", Slack(n)' = 1 PROVE Owned(n)'
    <3>1. Holders(n)' = Holders(n)
      BY <1>2, HoldersSame
    <3>2. Slack(n)' = Slack(n)
      BY <1>1, <3>1 DEF Slack
    <3>3. Owned(n)
      BY <1>1, <2>2, <3>2 DEF OwnInv, Owns
    <3> QED BY <1>1, <1>2, <3>3 DEF Owned, At, OwnKept
  <2> QED BY <2>1, <2>2 DEF Owns
<1>5. CbStates'
  BY <1>1, <1>3 DEF OwnInv, CbStates
<1>6. StalePins'
  <2>1. HandlesKept(known')
    BY <1>1 DEF HandlesKept
  <2>2. \A n \in Mem : mem[n].state = "STALE" => mem'[n].state = "STALE"
    BY <1>1
  <2>3. \A u \in Thread : th'[u].pc \in PinPc => th[u].pc \in PinPc /\ th'[u].m = th[u].m
    BY <1>2 DEF OwnKept
  <2> QED BY <2>1, <2>2, <2>3, StalesFrame DEF OwnInv
<1> QED BY <1>4, <1>5, <1>6 DEF OwnInv

LEMMA RegInsertOwn ==
  ASSUME Inv, CtxInv, BaseInv, Races, RaceInv, NoCbPin, OwnInv, NEW t \in Thread,
         RegInsertEff(t)
  PROVE  OwnInv'
<1>1. \A n \in Mem : SlackKept(n)
  <2>1. /\ \A u \in Thread : SameHold(u)
        /\ \A n \in Mem : SameCounts(n)
    BY DEF SameHold, HoldPc, SameCounts, RegInsertEff, Moves, Keeps, Only, SameUse
  <2> QED BY <2>1, SlackSame
<1>2. \A n \in Mem : StateStays(n)
  BY DEF StateStays, RegInsertEff, Moves, Keeps, Only, SameUse, SameCounts
<1>3. HandlesKept(known') /\ vma' = vma
  <2>1. NameInv'
    BY RegInsertName
  <2>2. /\ known' = known /\ vma' = vma
        /\ \A i \in Id : memXa'[i] \in {memXa[i], IF memXa[i] = NULL THEN memXa'[i] ELSE NULL}
    BY DEF RegInsertEff
  <2>3. \A h \in known : h - 1 \in Id /\ memXa[h - 1] # NULL
    BY KnownListed, ListTypes, NullOut DEF RaceInv, NameInv
  <2>4. \A h \in known' : memXa'[h - 1] # NULL
    BY <2>1, NullOut DEF NameInv, KnownOK
  <2> QED BY <2>2, <2>3, <2>4 DEF HandlesKept
<1>4. \A u \in Thread : OwnKept(u)
  BY DEF OwnKept, PinPc, RegInsertEff, Moves, Keeps
<1> QED BY <1>1, <1>2, <1>3, <1>4, OwnQuiet

LEMMA RegInsertFailsOwn ==
  ASSUME Inv, CtxInv, BaseInv, Races, RaceInv, NoCbPin, OwnInv, NEW t \in Thread,
         RegInsertFailsEff(t)
  PROVE  OwnInv'
<1>1. \A n \in Mem : SlackKept(n)
  <2>1. /\ \A u \in Thread : SameHold(u)
        /\ \A n \in Mem : SameCounts(n)
    BY DEF SameHold, HoldPc, SameCounts, RegInsertFailsEff, Ends, HeapTo, Only, SameId
  <2> QED BY <2>1, SlackSame
<1>2. \A n \in Mem : StateStays(n)
  BY DEF StateStays, RegInsertFailsEff, Ends, HeapTo, Only, SameCounts, SameId
<1>3. HandlesKept(known') /\ vma' = vma
  BY DEF HandlesKept, RegInsertFailsEff, Ends, HeapTo, SameCounts, SameId
<1>4. \A u \in Thread : OwnKept(u)
  BY DEF OwnKept, PinPc, RegInsertFailsEff, Ends
<1> QED BY <1>1, <1>2, <1>3, <1>4, OwnQuiet

LEMMA RegCopyOwn ==
  ASSUME Inv, CtxInv, BaseInv, Races, RaceInv, NoCbPin, OwnInv, NEW t \in Thread,
         RegCopyEff(t)
  PROVE  OwnInv'
<1>0. PICK m \in Mem : m = th[t].m
  BY DEF RegCopyEff
<1>1. m \in memList /\ mem[m].state = "STALE"
  <2>1. th[t].pc = "reg_copy" /\ th[t].op = "reg"
    BY DEF RegCopyEff, Ends, CtxInv, Ops, OpOK
  <2> QED BY <1>0, <2>1 DEF RaceInv, NameInv, RegsOK, RegPc, Fresh, Blank
<1>2. mem[m].id \in Int /\ memXa[mem[m].id] = m
  BY <1>1, MemTypes DEF Id, ConstantsAssumption, RaceInv, NameInv, XaOK
<1>3. \A n \in Mem : SlackKept(n)
  <2>1. /\ \A u \in Thread : SameHold(u)
        /\ \A n \in Mem : SameCounts(n)
    BY DEF SameHold, HoldPc, SameCounts, RegCopyEff, Ends
  <2> QED BY <2>1, SlackSame
<1>4. \A n \in Mem : StateStays(n)
  BY DEF StateStays, RegCopyEff, Ends, Only
<1>5. \A u \in Thread : OwnKept(u)
  BY DEF OwnKept, PinPc, RegCopyEff, Ends
<1>6. Owns'
  <2>1. vma' = vma
    BY DEF RegCopyEff
  <2> QED BY <1>3, <1>4, <1>5, <2>1, OwnsFrame DEF OwnInv
<1>7. CbStates'
  BY <1>4 DEF OwnInv, CbStates, StateStays
<1>8. StalePins'
  <2>1. known' = known \cup {mem[m].id + 1} /\ memXa' = memXa
    BY <1>0 DEF RegCopyEff
  <2>2. ASSUME NEW h \in known' PROVE mem'[memXa'[h - 1]].state = "STALE"
    <3>1. CASE h = mem[m].id + 1
      <4>1. h - 1 = mem[m].id
        BY <1>2, <3>1
      <4> QED BY <1>1, <1>2, <1>4, <2>1, <4>1 DEF StateStays
    <3>2. CASE h \in known
      BY <1>4, <2>1, <3>2 DEF OwnInv, StalePins, StateStays, RaceInv, NameInv, KnownOK
    <3> QED BY <2>1, <3>1, <3>2
  <2>3. ASSUME NEW u \in Thread, th'[u].pc \in PinPc PROVE mem'[th'[u].m].state = "STALE"
    <3>1. th[u].pc \in PinPc /\ th'[u].m = th[u].m
      BY <1>5, <2>3 DEF OwnKept
    <3>2. th[u].m \in Mem
      BY <3>1, ThreadTypes DEF PinPc, NeedsMem
    <3> QED BY <1>4, <3>1, <3>2 DEF OwnInv, StalePins, StateStays
  <2> QED BY <2>2, <2>3 DEF StalePins
<1> QED BY <1>6, <1>7, <1>8 DEF OwnInv

LEMMA GoesOnOwn ==
  ASSUME Inv, CtxInv, BaseInv, Races, RaceInv, NoCbPin, OwnInv, NEW t \in Thread, NEW
         pc, NEW to, GoesOnPc(pc, to), GoesOn(t, pc, to)
  PROVE  OwnInv'
<1>1. \A n \in Mem : SlackKept(n)
  <2>1. /\ \A u \in Thread : SameHold(u)
        /\ \A n \in Mem : SameCounts(n)
    BY DEF SameHold, HoldPc, SameCounts, GoesOnPc, GoesOn, Moves, Keeps
  <2> QED BY <2>1, SlackSame
<1>2. \A n \in Mem : StateStays(n)
  BY DEF StateStays, GoesOnPc, GoesOn, Moves, Keeps
<1>3. HandlesKept(known') /\ vma' = vma
  BY DEF HandlesKept, GoesOnPc, GoesOn, Moves, Keeps
<1>4. \A u \in Thread : OwnKept(u)
  BY DEF OwnKept, PinPc, GoesOnPc, GoesOn, Moves, Keeps
<1> QED BY <1>1, <1>2, <1>3, <1>4, OwnQuiet

LEMMA RegEraseOwn ==
  ASSUME Inv, CtxInv, BaseInv, Races, RaceInv, NoCbPin, OwnInv, NEW t \in Thread,
         RegEraseEff(t)
  PROVE  OwnInv'
<1>1. \A n \in Mem : SlackKept(n)
  <2>1. /\ \A u \in Thread : SameHold(u)
        /\ \A n \in Mem : SameCounts(n)
    BY DEF SameHold, HoldPc, SameCounts, RegEraseEff, Ends, HeapTo, Only, SameId
  <2> QED BY <2>1, SlackSame
<1>2. \A n \in Mem : StateStays(n)
  BY DEF StateStays, RegEraseEff, Ends, HeapTo, Only, SameCounts, SameId
<1>3. HandlesKept(known') /\ vma' = vma
  <2>1. NameInv'
    BY RegEraseName
  <2>2. /\ known' = known /\ vma' = vma
        /\ \A i \in Id : memXa'[i] \in {memXa[i], NULL}
    BY DEF RegEraseEff
  <2>3. \A h \in known : h - 1 \in Id /\ memXa[h - 1] # NULL
    BY KnownListed, ListTypes, NullOut DEF RaceInv, NameInv
  <2>4. \A h \in known' : memXa'[h - 1] # NULL
    BY <2>1, NullOut DEF NameInv, KnownOK
  <2> QED BY <2>2, <2>3, <2>4 DEF HandlesKept
<1>4. \A u \in Thread : OwnKept(u)
  BY DEF OwnKept, PinPc, RegEraseEff, Ends
<1> QED BY <1>1, <1>2, <1>3, <1>4, OwnQuiet

LEMMA PinStartOwn ==
  ASSUME Inv, CtxInv, BaseInv, Races, RaceInv, NoCbPin, OwnInv, NEW t \in Thread, NEW f
         \in File, NEW p \in Handle, NEW a \in Addr, MayPin(p, a), PinStartEff(t, f, p,
         a)
  PROVE  OwnInv'
<1>0. PICK m \in Mem : m = memXa[p - 1]
  BY DEF PinStartEff
<1>1. mem[m].state = "STALE"
  BY <1>0 DEF OwnInv, StalePins, Races, MayPin
<1>2. \A n \in Mem : SlackKept(n)
  <2>1. /\ \A u \in Thread : SameHold(u)
        /\ \A n \in Mem : SameCounts(n)
    BY DEF SameHold, HoldPc, SameCounts, PinStartEff, Starts
  <2> QED BY <2>1, SlackSame
<1>3. mem' = mem /\ memXa' = memXa /\ vma' = vma /\ cb' = cb /\ known' \subseteq known
  BY DEF PinStartEff
<1>4. Owns'
  <2>1. \A n \in Mem : Owned(n) => Owned(n)'
    BY <1>3 DEF Owned, At, PinStartEff, Starts
  <2> QED BY <1>2, <1>3, <2>1 DEF OwnInv, Owns, SlackKept
<1>5. CbStates'
  BY <1>3 DEF OwnInv, CbStates
<1>6. StalePins'
  BY <1>0, <1>1, <1>3 DEF OwnInv, StalePins, PinStartEff, Starts
<1> QED BY <1>4, <1>5, <1>6 DEF OwnInv

LEMMA PinGetOwn ==
  ASSUME Inv, CtxInv, BaseInv, Races, RaceInv, NoCbPin, OwnInv, NEW t \in Thread,
         PinGetEff(t)
  PROVE  OwnInv'
<1>1. \A n \in Mem : SlackKept(n)
  <2>0. PICK m \in Mem : m = th[t].m
    BY DEF PinGetEff
  <2>1. /\ RefTo(m, mem[m].ref + 1) /\ \A u \in Thread \ {t} : th'[u] = th[u]
        /\ th[t].pc \notin HoldPc /\ th'[t].pc \in HoldPc /\ th'[t].m = m
    BY <2>0 DEF PinGetEff, HoldPc, Moves, Keeps
  <2> QED BY <2>1, GetSlack
<1>2. \A n \in Mem : StateStays(n)
  BY DEF StateStays, PinGetEff, Moves, Keeps, RefTo, Only, SameUse, SameId
<1>3. HandlesKept(known') /\ vma' = vma
  BY DEF HandlesKept, PinGetEff, Moves, Keeps, RefTo, SameUse, SameId
<1>4. \A u \in Thread : OwnKept(u)
  BY DEF OwnKept, PinPc, PinGetEff, Moves, Keeps
<1> QED BY <1>1, <1>2, <1>3, <1>4, OwnQuiet

LEMMA PinDoOwn ==
  ASSUME Inv, CtxInv, BaseInv, Races, RaceInv, NoCbPin, OwnInv, NEW t \in Thread,
         PinDoEff(t)
  PROVE  OwnInv'
<1>0. PICK m \in Mem : m = th[t].m
  BY DEF PinDoEff
<1>1. /\ \A n \in Mem \ {m} : mem'[n] = mem[n]
      /\ mem'[m].heap = mem[m].heap /\ mem'[m].state = "LIVE"
      /\ known' = known /\ memXa' = memXa
      /\ \A n \in Mem : cb'[n] = "spinning" => cb[n] = "spinning"
  BY <1>0 DEF PinDoEff, Only
<1>2. th[t].pc = "pin_do" /\ th[t].a \in Addr /\ vma[th[t].a].m = NULL
  BY NoVmaFields DEF RaceInv, NameInv, PinsOK, PinPc, PinDoEff, Moves
<1>3. \A n \in Mem : SlackKept(n)
  <2>1. /\ \A u \in Thread : SameHold(u)
        /\ \A n \in Mem : SameCounts(n)
    BY DEF SameHold, HoldPc, SameCounts, Only, PinDoEff, Moves, Keeps
  <2> QED BY <2>1, SlackSame
<1>4. Owns'
  <2>1. Owned(m)'
    BY <1>0, <1>2 DEF Owned, PinDoEff
  <2>2. ASSUME NEW n \in Mem \ {m}, Owned(n) PROVE Owned(n)'
    <3>1. \A a \in Addr : vma[a].m = n => vma'[a].m = n
      BY <1>2, NullOut DEF PinDoEff
    <3>2. \A u \in Thread : th[u].pc = "unmap_put" => th'[u] = th[u]
      BY <1>2 DEF PinDoEff, Moves, Keeps
    <3> QED BY <1>1, <2>2, <3>1, <3>2 DEF Owned, At
  <2> QED BY <1>1, <1>3, <2>1, <2>2 DEF OwnInv, Owns, SlackKept
<1>5. CbStates'
  BY <1>1 DEF OwnInv, CbStates
<1>6. StalePins'
  <2>1. \A u \in Thread \ {t} : th[u].pc \notin PinPc
    <3>1. mmapLock = t
      BY <1>2 DEF CtxInv, Ops, OpOK, BaseInv, Mmap
    <3> QED BY <3>1, MmapAlone
  <2>2. \A u \in Thread : th'[u].pc \notin PinPc
    BY <2>1 DEF PinPc, PinDoEff, Moves, Keeps
  <2>3. \A h \in known : memXa[h - 1] # m
    BY <1>0, <1>2 DEF RaceInv, NameInv, KnownOK, IsKnown, Waits, TakenPc, PinPc
  <2>4. \A h \in known : memXa[h - 1] \in Mem
    BY DEF RaceInv, NameInv, KnownOK
  <2> QED BY <1>1, <2>2, <2>3, <2>4 DEF OwnInv, StalePins
<1> QED BY <1>4, <1>5, <1>6 DEF OwnInv

LEMMA PinDoFailsOwn ==
  ASSUME Inv, CtxInv, BaseInv, Races, RaceInv, NoCbPin, OwnInv, NEW t \in Thread,
         PinDoFailsEff(t)
  PROVE  OwnInv'
<1>0. PICK m \in Mem : m = th[t].m
  BY DEF PinDoFailsEff
<1>1. m \in memList /\ mem[m].state = "STALE"
  BY <1>0 DEF RaceInv, NameInv, PinsOK, PinPc, OwnInv, StalePins, PinDoFailsEff, Moves
<1>2. mem[m].id \in Int /\ memXa[mem[m].id] = m
  BY <1>1, MemTypes DEF Id, ConstantsAssumption, RaceInv, NameInv, XaOK
<1>3. \A n \in Mem : SlackKept(n)
  <2>1. /\ \A u \in Thread : SameHold(u)
        /\ \A n \in Mem : SameCounts(n)
    BY DEF SameHold, HoldPc, SameCounts, Only, PinDoFailsEff, Moves, Keeps
  <2> QED BY <2>1, SlackSame
<1>4. \A n \in Mem : StateStays(n)
  BY DEF NoCbPin, StateStays, PinDoFailsEff, Moves, Keeps, Only
<1>5. \A u \in Thread : OwnKept(u)
  BY DEF OwnKept, PinPc, PinDoFailsEff, Moves, Keeps
<1>6. Owns'
  <2>1. vma' = vma
    BY DEF PinDoFailsEff
  <2> QED BY <1>3, <1>4, <1>5, <2>1, OwnsFrame DEF OwnInv
<1>7. CbStates'
  BY <1>4 DEF OwnInv, CbStates, StateStays
<1>8. StalePins'
  <2>1. known' = known \cup {mem[m].id + 1} /\ memXa' = memXa
    BY <1>0 DEF PinDoFailsEff
  <2>2. ASSUME NEW h \in known' PROVE mem'[memXa'[h - 1]].state = "STALE"
    <3>1. CASE h = mem[m].id + 1
      <4>1. h - 1 = mem[m].id
        BY <1>2, <3>1
      <4> QED BY <1>1, <1>2, <1>4, <2>1, <4>1 DEF StateStays
    <3>2. CASE h \in known
      BY <1>4, <2>1, <3>2 DEF OwnInv, StalePins, StateStays, RaceInv, NameInv, KnownOK
    <3> QED BY <2>1, <3>1, <3>2
  <2>3. ASSUME NEW u \in Thread, th'[u].pc \in PinPc PROVE mem'[th'[u].m].state = "STALE"
    <3>1. th[u].pc \in PinPc /\ th'[u].m = th[u].m
      BY <1>5, <2>3 DEF OwnKept
    <3>2. th[u].m \in Mem
      BY <3>1, ThreadTypes DEF PinPc, NeedsMem
    <3> QED BY <1>4, <3>1, <3>2 DEF OwnInv, StalePins, StateStays
  <2> QED BY <2>2, <2>3 DEF StalePins
<1> QED BY <1>6, <1>7, <1>8 DEF OwnInv

LEMMA PutOwn ==
  ASSUME Inv, CtxInv, BaseInv, Races, RaceInv, NoCbPin, OwnInv, NEW t \in Thread, NEW
         pc, NEW next, PutPc(pc, next), PutEff(t, pc, next)
  PROVE  OwnInv'
<1>0. PICK m \in Mem : m = th[t].m
  BY DEF PutEff, Puts
<1>1. /\ \A n \in Mem \ {m} : SlackKept(n)
      /\ pc # "unmap_put" => SlackKept(m)
      /\ pc = "unmap_put" => Slack(m)' = Slack(m) - 1
  BY <1>0, PutIs
<1>2. \A n \in Mem : StateStays(n)
  BY DEF StateStays, PutEff, Puts, RefTo, Only, SameUse
<1>3. HandlesKept(known') /\ vma' = vma
  BY DEF HandlesKept, PutEff
<1>4. th[t].pc = pc /\ \A u \in Thread \ {t} : th'[u] = th[u]
  BY DEF PutEff, Puts, Keeps
<1>5. CASE pc # "unmap_put"
  <2>1. \A u \in Thread : OwnKept(u)
    BY <1>5 DEF OwnKept, PinPc, PutPc, PutEff, Puts, Keeps
  <2> QED BY <1>1, <1>2, <1>3, <1>5, <2>1, OwnQuiet
<1>6. CASE pc = "unmap_put"
  <2>1. Slack(m) = 1
    BY <1>0, <1>4, <1>6, UnmapPutLast
  <2>2. Slack(m)' # 1
    BY <1>1, <1>6, <2>1
  <2>3. Owns'
    <3> SUFFICES ASSUME NEW n \in Mem \ {m}, mem'[n].heap = "live", Slack(n)' = 1 PROVE Owned(n)'
      BY <2>2 DEF Owns
    <3>1. Owned(n)
      BY <1>1, <1>2 DEF OwnInv, Owns, SlackKept, StateStays
    <3>2. \A u \in Thread : th[u].m = n => th'[u] = th[u]
      BY <1>0, <1>4
    <3> QED BY <1>2, <1>3, <3>1, <3>2 DEF Owned, At, StateStays
  <2>4. CbStates'
    BY <1>2 DEF OwnInv, CbStates, StateStays
  <2>5. StalePins'
    <3>1. \A u \in Thread : th'[u].pc \in PinPc => th[u].pc \in PinPc /\ th'[u].m = th[u].m
      BY DEF PinPc, PutPc, PutEff, Puts, Keeps
    <3>2. \A n \in Mem : mem[n].state = "STALE" => mem'[n].state = "STALE"
      BY <1>2 DEF StateStays
    <3> QED BY <1>3, <3>1, <3>2, StalesFrame DEF OwnInv
  <2> QED BY <2>3, <2>4, <2>5 DEF OwnInv
<1> QED BY <1>5, <1>6

LEMMA PinReturnOwn ==
  ASSUME Inv, CtxInv, BaseInv, Races, RaceInv, NoCbPin, OwnInv, NEW t \in Thread,
         PinReturnEff(t)
  PROVE  OwnInv'
<1>1. \A n \in Mem : SlackKept(n)
  <2>1. /\ \A u \in Thread : SameHold(u)
        /\ \A n \in Mem : SameCounts(n)
    BY DEF SameHold, HoldPc, SameCounts, PinReturnEff, Ends
  <2> QED BY <2>1, SlackSame
<1>2. \A n \in Mem : StateStays(n)
  BY DEF StateStays, PinReturnEff, Ends
<1>3. HandlesKept(known') /\ vma' = vma
  BY DEF HandlesKept, PinReturnEff, Ends
<1>4. \A u \in Thread : OwnKept(u)
  BY DEF OwnKept, PinPc, PinReturnEff, Ends
<1> QED BY <1>1, <1>2, <1>3, <1>4, OwnQuiet

LEMMA RelUnlinkOwn ==
  ASSUME Inv, CtxInv, BaseInv, Races, RaceInv, NoCbPin, OwnInv, NEW t \in Thread,
         RelUnlinkEff(t)
  PROVE  OwnInv'
<1>1. \A n \in Mem : SlackKept(n)
  <2>1. /\ \A u \in Thread : SameHold(u)
        /\ \A n \in Mem : SameCounts(n)
    BY DEF SameHold, HoldPc, SameCounts, RelUnlinkEff, Moves, Keeps
  <2> QED BY <2>1, SlackSame
<1>2. \A n \in Mem : StateStays(n)
  BY DEF StateStays, RelUnlinkEff, Moves, Keeps
<1>3. HandlesKept(known') /\ vma' = vma
  <2>1. NameInv'
    BY RelUnlinkName
  <2>2. /\ known' = known /\ vma' = vma
        /\ \A i \in Id : memXa'[i] \in {memXa[i], NULL}
    BY DEF RelUnlinkEff
  <2>3. \A h \in known : h - 1 \in Id /\ memXa[h - 1] # NULL
    BY KnownListed, ListTypes, NullOut DEF RaceInv, NameInv
  <2>4. \A h \in known' : memXa'[h - 1] # NULL
    BY <2>1, NullOut DEF NameInv, KnownOK
  <2> QED BY <2>2, <2>3, <2>4 DEF HandlesKept
<1>4. \A u \in Thread : OwnKept(u)
  BY DEF OwnKept, PinPc, RelUnlinkEff, Moves, Keeps
<1> QED BY <1>1, <1>2, <1>3, <1>4, OwnQuiet

LEMMA RelFreeOwn ==
  ASSUME Inv, CtxInv, BaseInv, Races, RaceInv, NoCbPin, OwnInv, NEW t \in Thread,
         RelFreeEff(t)
  PROVE  OwnInv'
<1>1. \A n \in Mem : SlackKept(n)
  <2>1. /\ \A u \in Thread : SameHold(u)
        /\ \A n \in Mem : SameCounts(n)
    BY DEF SameHold, HoldPc, SameCounts, RelFreeEff, Moves, Keeps, Only, SameId
  <2> QED BY <2>1, SlackSame
<1>2. \A n \in Mem : StateStays(n)
  BY DEF StateStays, RelFreeEff, Moves, Keeps, Only, SameCounts, SameId
<1>3. HandlesKept(known') /\ vma' = vma
  BY DEF HandlesKept, RelFreeEff, Moves, Keeps, SameCounts, SameId
<1>4. \A u \in Thread : OwnKept(u)
  BY DEF OwnKept, PinPc, RelFreeEff, Moves, Keeps
<1> QED BY <1>1, <1>2, <1>3, <1>4, OwnQuiet

LEMMA RelCtxOwn ==
  ASSUME Inv, CtxInv, BaseInv, Races, RaceInv, NoCbPin, OwnInv, NEW t \in Thread,
         RelCtxEff(t)
  PROVE  OwnInv'
<1>1. \A n \in Mem : SlackKept(n)
  <2>1. /\ \A u \in Thread : SameHold(u)
        /\ \A n \in Mem : SameCounts(n)
    BY DEF SameHold, HoldPc, SameCounts, RelCtxEff, Keeps, RelRet
  <2> QED BY <2>1, SlackSame
<1>2. \A n \in Mem : StateStays(n)
  BY DEF StateStays, RelCtxEff, Keeps, RelRet
<1>3. HandlesKept(known') /\ vma' = vma
  BY DEF HandlesKept, RelCtxEff, Keeps, RelRet
<1>4. \A u \in Thread : OwnKept(u)
  BY DEF OwnKept, PinPc, RelCtxEff, Keeps, RelRet
<1> QED BY <1>1, <1>2, <1>3, <1>4, OwnQuiet

LEMMA UnmapStartOwn ==
  ASSUME Inv, CtxInv, BaseInv, Races, RaceInv, NoCbPin, OwnInv, NEW t \in Thread, NEW a
         \in Addr, UnmapStartEff(t, a)
  PROVE  OwnInv'
<1>1. \A n \in Mem : SlackKept(n)
  <2>1. /\ \A u \in Thread : SameHold(u)
        /\ \A n \in Mem : SameCounts(n)
    BY DEF SameHold, HoldPc, SameCounts, UnmapStartEff, Starts
  <2> QED BY <2>1, SlackSame
<1>2. \A n \in Mem : StateStays(n)
  BY DEF StateStays, UnmapStartEff, Starts
<1>3. HandlesKept(known') /\ vma' = vma
  BY DEF HandlesKept, UnmapStartEff, Starts
<1>4. \A u \in Thread : OwnKept(u)
  BY DEF OwnKept, PinPc, UnmapStartEff, Starts
<1> QED BY <1>1, <1>2, <1>3, <1>4, OwnQuiet

LEMMA UnmapDoOwn ==
  ASSUME Inv, CtxInv, BaseInv, Races, RaceInv, NoCbPin, OwnInv, NEW t \in Thread,
         UnmapDoEff(t)
  PROVE  OwnInv'
<1>0. PICK m \in Mem : m = th[t].m
  BY DEF UnmapDoEff
<1>1. \A n \in Mem : SlackKept(n)
  BY <1>0, UnmapDoSlack
<1>2. \A n \in Mem : StateStays(n)
  BY DEF StateStays, UnmapDoEff, Only, SameUse
<1>3. HandlesKept(known')
  BY DEF HandlesKept, UnmapDoEff
<1>4. Owns'
  <2>1. Owned(m)'
    BY <1>0 DEF Owned, At, UnmapDoEff, Moves, Keeps
  <2>2. vma[th[t].a].m = m
    BY <1>0 DEF RaceInv, NameInv, UnmapsOK, UnmapDoEff, Moves
  <2>3. ASSUME NEW n \in Mem \ {m}, Owned(n) PROVE Owned(n)'
    <3>1. \A a \in Addr : vma[a].m = n => vma'[a].m = n
      BY <2>2 DEF UnmapDoEff
    <3>2. \A u \in Thread : th[u].pc = "unmap_put" => th'[u] = th[u]
      BY DEF UnmapDoEff, Moves, Keeps
    <3> QED BY <1>2, <2>3, <3>1, <3>2 DEF Owned, At, StateStays
  <2> QED BY <1>1, <1>2, <2>1, <2>3 DEF OwnInv, Owns, SlackKept, StateStays
<1>5. CbStates'
  BY <1>2 DEF OwnInv, CbStates, StateStays
<1>6. StalePins'
  <2>1. \A u \in Thread : th'[u].pc \in PinPc => th[u].pc \in PinPc /\ th'[u].m = th[u].m
    BY DEF PinPc, UnmapDoEff, Moves, Keeps
  <2>2. \A n \in Mem : mem[n].state = "STALE" => mem'[n].state = "STALE"
    BY <1>2 DEF StateStays
  <2> QED BY <1>3, <2>1, <2>2, StalesFrame DEF OwnInv
<1> QED BY <1>4, <1>5, <1>6 DEF OwnInv

LEMMA UnmapReturnOwn ==
  ASSUME Inv, CtxInv, BaseInv, Races, RaceInv, NoCbPin, OwnInv, NEW t \in Thread,
         UnmapReturnEff(t)
  PROVE  OwnInv'
<1>1. \A n \in Mem : SlackKept(n)
  <2>1. /\ \A u \in Thread : SameHold(u)
        /\ \A n \in Mem : SameCounts(n)
    BY DEF SameHold, HoldPc, SameCounts, UnmapReturnEff, Ends
  <2> QED BY <2>1, SlackSame
<1>2. \A n \in Mem : StateStays(n)
  BY DEF StateStays, UnmapReturnEff, Ends
<1>3. HandlesKept(known') /\ vma' = vma
  BY DEF HandlesKept, UnmapReturnEff, Ends
<1>4. \A u \in Thread : OwnKept(u)
  BY DEF OwnKept, PinPc, UnmapReturnEff, Ends
<1> QED BY <1>1, <1>2, <1>3, <1>4, OwnQuiet

LEMMA SplitVmaOwn ==
  ASSUME Inv, CtxInv, BaseInv, Races, RaceInv, NoCbPin, OwnInv, NEW a \in Addr, NEW b
         \in Addr, SplitVmaEff(a, b)
  PROVE  OwnInv'
<1> QED BY DEF Races, SplitVmaEff

LEMMA CloseStartOwn ==
  ASSUME Inv, CtxInv, BaseInv, Races, RaceInv, NoCbPin, OwnInv, NEW t \in Thread, NEW f
         \in File, CloseStartEff(t, f)
  PROVE  OwnInv'
<1>1. \A n \in Mem : SlackKept(n)
  <2>1. /\ \A u \in Thread : SameHold(u)
        /\ \A n \in Mem : SameCounts(n)
    BY DEF SameHold, HoldPc, SameCounts, CloseStartEff, Starts
  <2> QED BY <2>1, SlackSame
<1>2. \A n \in Mem : StateStays(n)
  BY DEF StateStays, CloseStartEff, Starts
<1>3. HandlesKept(known') /\ vma' = vma
  BY DEF HandlesKept, CloseStartEff, Starts
<1>4. \A u \in Thread : OwnKept(u)
  BY DEF OwnKept, PinPc, CloseStartEff, Starts
<1> QED BY <1>1, <1>2, <1>3, <1>4, OwnQuiet

LEMMA CloseDoOwn ==
  ASSUME Inv, CtxInv, BaseInv, Races, RaceInv, NoCbPin, OwnInv, NEW t \in Thread,
         CloseDoEff(t)
  PROVE  OwnInv'
<1>1. \A n \in Mem : SlackKept(n)
  <2>1. /\ \A u \in Thread : SameHold(u)
        /\ \A n \in Mem : SameCounts(n)
    BY DEF SameHold, HoldPc, SameCounts, CloseDoEff, Moves, Keeps, SameId
  <2> QED BY <2>1, SlackSame
<1>2. \A n \in Mem : StateStays(n)
  BY DEF StateStays, CloseDoEff, Moves, Keeps, SameCounts, SameId
<1>3. HandlesKept(known') /\ vma' = vma
  BY DEF HandlesKept, CloseDoEff, Moves, Keeps, SameCounts, SameId
<1>4. \A u \in Thread : OwnKept(u)
  BY DEF OwnKept, PinPc, CloseDoEff, Moves, Keeps
<1> QED BY <1>1, <1>2, <1>3, <1>4, OwnQuiet

LEMMA CloseReturnOwn ==
  ASSUME Inv, CtxInv, BaseInv, Races, RaceInv, NoCbPin, OwnInv, NEW t \in Thread,
         CloseReturnEff(t)
  PROVE  OwnInv'
<1>1. \A n \in Mem : SlackKept(n)
  <2>1. /\ \A u \in Thread : SameHold(u)
        /\ \A n \in Mem : SameCounts(n)
    BY DEF SameHold, HoldPc, SameCounts, CloseReturnEff, Ends
  <2> QED BY <2>1, SlackSame
<1>2. \A n \in Mem : StateStays(n)
  BY DEF StateStays, CloseReturnEff, Ends
<1>3. HandlesKept(known') /\ vma' = vma
  BY DEF HandlesKept, CloseReturnEff, Ends
<1>4. \A u \in Thread : OwnKept(u)
  BY DEF OwnKept, PinPc, CloseReturnEff, Ends
<1> QED BY <1>1, <1>2, <1>3, <1>4, OwnQuiet

LEMMA MapStartOwn ==
  ASSUME Inv, CtxInv, BaseInv, Races, RaceInv, NoCbPin, OwnInv, NEW t \in Thread, NEW f
         \in File, NEW a, MayMap(a), MapStartEff(t, f, a)
  PROVE  OwnInv'
<1>1. \A n \in Mem : SlackKept(n)
  <2>1. /\ \A u \in Thread : SameHold(u)
        /\ \A n \in Mem : SameCounts(n)
    BY DEF SameHold, HoldPc, SameCounts, MapStartEff, Starts
  <2> QED BY <2>1, SlackSame
<1>2. \A n \in Mem : StateStays(n)
  BY DEF StateStays, MapStartEff, Starts
<1>3. HandlesKept(known') /\ vma' = vma
  BY DEF HandlesKept, MapStartEff, Starts
<1>4. \A u \in Thread : OwnKept(u)
  BY DEF OwnKept, PinPc, MapStartEff, Starts
<1> QED BY <1>1, <1>2, <1>3, <1>4, OwnQuiet

LEMMA MapLockOwn ==
  ASSUME Inv, CtxInv, BaseInv, Races, RaceInv, NoCbPin, OwnInv, NEW t \in Thread,
         MapLockEff(t)
  PROVE  OwnInv'
<1>1. \A n \in Mem : SlackKept(n)
  <2>1. /\ \A u \in Thread : SameHold(u)
        /\ \A n \in Mem : SameCounts(n)
    BY DEF SameHold, HoldPc, SameCounts, MapLockEff, Looks
  <2> QED BY <2>1, SlackSame
<1>2. \A n \in Mem : StateStays(n)
  BY DEF StateStays, MapLockEff, Looks
<1>3. HandlesKept(known') /\ vma' = vma
  BY DEF HandlesKept, MapLockEff, Looks
<1>4. \A u \in Thread : OwnKept(u)
  BY DEF OwnKept, PinPc, MapLockEff, Looks
<1> QED BY <1>1, <1>2, <1>3, <1>4, OwnQuiet

LEMMA WalkMatchOwn ==
  ASSUME Inv, CtxInv, BaseInv, Races, RaceInv, NoCbPin, OwnInv, NEW t \in Thread,
         WalkMatchEff(t)
  PROVE  OwnInv'
<1>1. \A n \in Mem : SlackKept(n)
  <2>0. PICK m \in Mem : m = th[t].m
    BY DEF WalkMatchEff
  <2>1. /\ RefTo(m, mem[m].ref + 1) /\ \A u \in Thread \ {t} : th'[u] = th[u]
        /\ th[t].pc \notin HoldPc /\ th'[t].pc \in HoldPc /\ th'[t].m = m
    BY <2>0 DEF WalkMatchEff, HoldPc
  <2> QED BY <2>1, GetSlack
<1>2. \A n \in Mem : StateStays(n)
  BY DEF StateStays, WalkMatchEff, RefTo, Only, SameUse, SameId
<1>3. HandlesKept(known') /\ vma' = vma
  BY DEF HandlesKept, WalkMatchEff, RefTo, SameUse, SameId
<1>4. \A u \in Thread : OwnKept(u)
  BY DEF OwnKept, PinPc, WalkMatchEff
<1> QED BY <1>1, <1>2, <1>3, <1>4, OwnQuiet

LEMMA WalkSkipOwn ==
  ASSUME Inv, CtxInv, BaseInv, Races, RaceInv, NoCbPin, OwnInv, NEW t \in Thread,
         WalkSkipEff(t)
  PROVE  OwnInv'
<1>1. \A n \in Mem : SlackKept(n)
  <2>0. PICK m \in Mem : m = th[t].m
    BY DEF WalkSkipEff
  <2>1. /\ RefTo(m, mem[m].ref + 1) /\ \A u \in Thread \ {t} : th'[u] = th[u]
        /\ th[t].pc \notin HoldPc /\ th'[t].pc \in HoldPc /\ th'[t].m = m
    BY <2>0 DEF WalkSkipEff, HoldPc, Moves, Keeps
  <2> QED BY <2>1, GetSlack
<1>2. \A n \in Mem : StateStays(n)
  BY DEF StateStays, WalkSkipEff, Moves, Keeps, RefTo, Only, SameUse, SameId
<1>3. HandlesKept(known') /\ vma' = vma
  BY DEF HandlesKept, WalkSkipEff, Moves, Keeps, RefTo, SameUse, SameId
<1>4. \A u \in Thread : OwnKept(u)
  BY DEF OwnKept, PinPc, WalkSkipEff, Moves, Keeps
<1> QED BY <1>1, <1>2, <1>3, <1>4, OwnQuiet

LEMMA WalkPutOwn ==
  ASSUME Inv, CtxInv, BaseInv, Races, RaceInv, NoCbPin, OwnInv, NEW t \in Thread,
         WalkPutEff(t)
  PROVE  OwnInv'
<1>1. \A n \in Mem : SlackKept(n)
  <2>0. PICK m \in Mem : m = th[t].m
    BY DEF WalkPutEff
  <2>1. mem[m].ref > 1 /\ mem[m].ref \in Nat
    BY <2>0, MemTypes DEF WalkPutEff
  <2>2. /\ RefTo(m, mem[m].ref - 1) /\ mem[m].ref > 0
        /\ \A u \in Thread \ {t} : th'[u] = th[u]
        /\ th[t].pc \in HoldPc /\ th'[t].pc \notin HoldPc /\ th[t].m = m
    BY <2>0, <2>1 DEF WalkPutEff, Looks, HoldPc
  <2> QED BY <2>2, PutSlack
<1>2. \A n \in Mem : StateStays(n)
  BY DEF StateStays, WalkPutEff, Looks, RefTo, Only, SameUse, SameId
<1>3. HandlesKept(known') /\ vma' = vma
  BY DEF HandlesKept, WalkPutEff, Looks, RefTo, SameUse, SameId
<1>4. \A u \in Thread : OwnKept(u)
  BY DEF OwnKept, PinPc, WalkPutEff, Looks
<1> QED BY <1>1, <1>2, <1>3, <1>4, OwnQuiet

LEMMA WalkEndOwn ==
  ASSUME Inv, CtxInv, BaseInv, Races, RaceInv, NoCbPin, OwnInv, NEW t \in Thread,
         WalkEndEff(t)
  PROVE  OwnInv'
<1>1. \A n \in Mem : SlackKept(n)
  <2>1. /\ \A u \in Thread : SameHold(u)
        /\ \A n \in Mem : SameCounts(n)
    BY DEF SameHold, HoldPc, SameCounts, WalkEndEff, Moves, Keeps
  <2> QED BY <2>1, SlackSame
<1>2. \A n \in Mem : StateStays(n)
  BY DEF StateStays, WalkEndEff, Moves, Keeps
<1>3. HandlesKept(known') /\ vma' = vma
  BY DEF HandlesKept, WalkEndEff, Moves, Keeps
<1>4. \A u \in Thread : OwnKept(u)
  BY DEF OwnKept, PinPc, WalkEndEff, Moves, Keeps
<1> QED BY <1>1, <1>2, <1>3, <1>4, OwnQuiet

LEMMA MapAllocOwn ==
  ASSUME Inv, CtxInv, BaseInv, Races, RaceInv, NoCbPin, OwnInv, NEW t \in Thread, NEW d
         \in Dma, MapAllocEff(t, d)
  PROVE  OwnInv'
<1>1. \A n \in Mem : SlackKept(n)
  <2>1. /\ \A u \in Thread : SameHold(u)
        /\ \A n \in Mem : SameCounts(n)
    BY DEF SameHold, HoldPc, SameCounts, MapAllocEff
  <2> QED BY <2>1, SlackSame
<1>2. \A n \in Mem : StateStays(n)
  BY DEF StateStays, MapAllocEff
<1>3. HandlesKept(known') /\ vma' = vma
  BY DEF HandlesKept, MapAllocEff
<1>4. \A u \in Thread : OwnKept(u)
  BY DEF OwnKept, PinPc, MapAllocEff
<1> QED BY <1>1, <1>2, <1>3, <1>4, OwnQuiet

LEMMA MapDmaOwn ==
  ASSUME Inv, CtxInv, BaseInv, Races, RaceInv, NoCbPin, OwnInv, NEW t \in Thread,
         MapDmaEff(t)
  PROVE  OwnInv'
<1>1. \A n \in Mem : SlackKept(n)
  <2>1. /\ \A u \in Thread : SameHold(u)
        /\ \A n \in Mem : SameCounts(n)
    BY DEF SameHold, HoldPc, SameCounts, MapDmaEff, Moves, Keeps
  <2> QED BY <2>1, SlackSame
<1>2. \A n \in Mem : StateStays(n)
  BY DEF StateStays, MapDmaEff, Moves, Keeps
<1>3. HandlesKept(known') /\ vma' = vma
  BY DEF HandlesKept, MapDmaEff, Moves, Keeps
<1>4. \A u \in Thread : OwnKept(u)
  BY DEF OwnKept, PinPc, MapDmaEff, Moves, Keeps
<1> QED BY <1>1, <1>2, <1>3, <1>4, OwnQuiet

LEMMA MapFailsOwn ==
  ASSUME Inv, CtxInv, BaseInv, Races, RaceInv, NoCbPin, OwnInv, NEW t \in Thread,
         MapFailsEff(t)
  PROVE  OwnInv'
<1>1. \A n \in Mem : SlackKept(n)
  <2>1. /\ \A u \in Thread : SameHold(u)
        /\ \A n \in Mem : SameCounts(n)
    BY DEF SameHold, HoldPc, SameCounts, MapFailsEff, Moves, Keeps, DmaPc
  <2> QED BY <2>1, SlackSame
<1>2. \A n \in Mem : StateStays(n)
  BY DEF StateStays, MapFailsEff, Moves, Keeps, DmaPc
<1>3. HandlesKept(known') /\ vma' = vma
  BY DEF HandlesKept, MapFailsEff, Moves, Keeps, DmaPc
<1>4. \A u \in Thread : OwnKept(u)
  BY DEF OwnKept, PinPc, MapFailsEff, Moves, Keeps, DmaPc
<1> QED BY <1>1, <1>2, <1>3, <1>4, OwnQuiet

LEMMA MapLinkOwn ==
  ASSUME Inv, CtxInv, BaseInv, Races, RaceInv, NoCbPin, OwnInv, NEW t \in Thread,
         MapLinkEff(t)
  PROVE  OwnInv'
<1>1. \A n \in Mem : SlackKept(n)
  <2>0. PICK m \in Mem : m = th[t].m
    BY DEF MapLinkEff
  <2> QED BY <2>0, MapLinkSlack
<1>2. \A n \in Mem : StateStays(n)
  BY DEF StateStays, MapLinkEff, Only, SameUse, SameId
<1>3. HandlesKept(known') /\ vma' = vma
  BY DEF HandlesKept, MapLinkEff, SameUse, SameId
<1>4. \A u \in Thread : OwnKept(u)
  BY DEF OwnKept, PinPc, MapLinkEff
<1> QED BY <1>1, <1>2, <1>3, <1>4, OwnQuiet

LEMMA MapReturnOwn ==
  ASSUME Inv, CtxInv, BaseInv, Races, RaceInv, NoCbPin, OwnInv, NEW t \in Thread,
         MapReturnEff(t)
  PROVE  OwnInv'
<1>1. \A n \in Mem : SlackKept(n)
  <2>1. /\ \A u \in Thread : SameHold(u)
        /\ \A n \in Mem : SameCounts(n)
    BY DEF SameHold, HoldPc, SameCounts, MapReturnEff, Ends
  <2> QED BY <2>1, SlackSame
<1>2. \A n \in Mem : StateStays(n)
  BY DEF StateStays, MapReturnEff, Ends
<1>3. HandlesKept(known') /\ vma' = vma
  BY DEF HandlesKept, MapReturnEff, Ends
<1>4. \A u \in Thread : OwnKept(u)
  BY DEF OwnKept, PinPc, MapReturnEff, Ends
<1> QED BY <1>1, <1>2, <1>3, <1>4, OwnQuiet

LEMMA MapUndoOwn ==
  ASSUME Inv, CtxInv, BaseInv, Races, RaceInv, NoCbPin, OwnInv, NEW t \in Thread, NEW d,
         NEW m, MapUndoEff(t, d, m)
  PROVE  OwnInv'
<1>1. \A n \in Mem : SlackKept(n)
  BY MapUndoSlack
<1>2. \A n \in Mem : StateStays(n)
  BY DEF StateStays, MapUndoEff, Only, SameUse, SameId
<1>3. HandlesKept(known') /\ vma' = vma
  BY DEF HandlesKept, MapUndoEff, SameUse, SameId
<1>4. \A u \in Thread : OwnKept(u)
  BY DEF OwnKept, PinPc, MapUndoEff
<1> QED BY <1>1, <1>2, <1>3, <1>4, OwnQuiet

LEMMA CbBeginOwn ==
  ASSUME Inv, CtxInv, BaseInv, Races, RaceInv, NoCbPin, OwnInv, NEW m \in Mem,
         CbBeginEff(m)
  PROVE  OwnInv'
<1>1. mem' = mem /\ memXa' = memXa /\ vma' = vma /\ known' = known /\ th' = th
  BY DEF CbBeginEff
<1>2. Owns'
  BY <1>1 DEF OwnInv, Owns, Owned, At, Slack, Holders
<1>3. CbStates'
  BY <1>1 DEF OwnInv, CbStates, RaceInv, CountInv, Callbacks, CbBeginEff
<1>4. StalePins'
  BY <1>1 DEF OwnInv, StalePins
<1> QED BY <1>2, <1>3, <1>4 DEF OwnInv

LEMMA CbRunOwn ==
  ASSUME Inv, CtxInv, BaseInv, Races, RaceInv, NoCbPin, OwnInv, NEW m \in Mem,
         CbRunEff(m)
  PROVE  OwnInv'
<1>1. \A n \in Mem : SlackKept(n)
  <2>1. /\ \A u \in Thread : SameHold(u)
        /\ \A n \in Mem : SameCounts(n)
    BY DEF SameHold, SameCounts, CbRunEff, Only
  <2> QED BY <2>1, SlackSame
<1>2. mem[m].state \in {"LIVE", "DEAD"}
  BY DEF OwnInv, CbStates, CbRunEff
<1>3. \A n \in Mem : StateStays(n)
  BY <1>2 DEF StateStays, CbRunEff, Only
<1>4. HandlesKept(known') /\ vma' = vma
  BY DEF HandlesKept, CbRunEff
<1>5. \A u \in Thread : OwnKept(u)
  BY DEF OwnKept, CbRunEff
<1> QED BY <1>1, <1>3, <1>4, <1>5, OwnQuiet

LEMMA GraceEndOwn ==
  ASSUME Inv, CtxInv, BaseInv, Races, RaceInv, NoCbPin, OwnInv, NEW m \in Mem,
         GraceEndEff(m)
  PROVE  OwnInv'
<1>1. \A n \in Mem : SlackKept(n)
  <2>1. /\ \A u \in Thread : SameHold(u)
        /\ \A n \in Mem : SameCounts(n)
    BY DEF SameHold, HoldPc, SameCounts, GraceEndEff, HeapTo, Only, SameId
  <2> QED BY <2>1, SlackSame
<1>2. \A n \in Mem : StateStays(n)
  BY DEF StateStays, GraceEndEff, HeapTo, Only, SameCounts, SameId
<1>3. HandlesKept(known') /\ vma' = vma
  BY DEF HandlesKept, GraceEndEff, HeapTo, SameCounts, SameId
<1>4. \A u \in Thread : OwnKept(u)
  BY DEF OwnKept, PinPc, GraceEndEff
<1> QED BY <1>1, <1>2, <1>3, <1>4, OwnQuiet

----------------------------------------------------------------------------
(* The count of a registration. *)

(* The invariant holds when the files have just been opened. *)
LEMMA OwnInit == Init => OwnInv
<1> SUFFICES ASSUME Init PROVE OwnInv
  OBVIOUS
<1>1. Owns
  BY DEF Init, Owns, UnusedMem
<1>2. CbStates /\ StalePins
  BY DEF Init, CbStates, StalePins, PinPc, Idle
<1> QED BY <1>1, <1>2 DEF OwnInv

LEMMA OwnNext ==
  ASSUME Inv, CtxInv, BaseInv, Races, RaceInv, NoCbPin, OwnInv, [Next]_vars
  PROVE  OwnInv'
<1>1. StepEff
  BY NextDoes
<1>2. ASSUME NEW t \in Thread, CallEff(t) PROVE OwnInv'
  BY <1>2, RegStartOwn, PinStartOwn, UnmapStartOwn, CloseStartOwn, MapStartOwn DEF
     CallEff
<1>3. ASSUME NEW t \in Thread, LockEff(t) PROVE OwnInv'
  BY <1>3, RegInsertOwn, RegInsertFailsOwn, RegCopyOwn, RegEraseOwn, GoesOnOwn,
     PinGetOwn, PinDoOwn, PinDoFailsOwn, PinReturnOwn, PutOwn, RelUnlinkOwn, RelFreeOwn,
     RelCtxOwn, UnmapDoOwn, UnmapReturnOwn, CloseDoOwn, CloseReturnOwn DEF LockEff
<1>4. ASSUME NEW t \in Thread, MapEff(t) PROVE OwnInv'
  BY <1>4, MapLockOwn, WalkMatchOwn, WalkSkipOwn, WalkPutOwn, WalkEndOwn, MapAllocOwn,
     MapDmaOwn, MapFailsOwn, MapLinkOwn, MapReturnOwn, MapUndoOwn DEF MapEff
<1>5. ASSUME NEW m \in Mem, CbBeginEff(m) \/ CbRunEff(m) \/ GraceEndEff(m) PROVE OwnInv'
  BY <1>5, CbBeginOwn, CbRunOwn, GraceEndOwn
<1>6. CASE Frozen
  BY <1>6 DEF Frozen, OwnInv, Owns, Owned, At, Slack, Holders, CbStates, StalePins
<1> QED BY <1>1, <1>2, <1>3, <1>4, <1>5, <1>6, SplitVmaOwn DEF StepEff

LEMMA OwnAlways == ASSUME Races, NoCbPin PROVE Spec => []OwnInv
<1>1. Inv /\ CtxInv /\ BaseInv /\ RaceInv /\ OwnInv /\ [Next]_vars => OwnInv'
  BY OwnNext
<1> QED BY <1>1, OwnInit, InvAlways, CtxAlways, BaseAlways, RaceAlways, PTL DEF Spec

(* The count of a registration is the number of its holders: the           *)
(* registration itself or its vma, the mappings on dma_list and the calls  *)
(* between kref_get and kref_put.  The GPU driver's callback must not      *)
(* overlap an mmap: one that begins before a failing pin is undone turns a *)
(* registration that was never mapped into DEAD_CB.                        *)
THEOREM MemCountExact ==
  ASSUME Races, {"cb", "pin"} \notin Overlap
  PROVE  Spec => []MemRefExact
<1>1. Inv /\ RaceInv /\ OwnInv => MemRefExact
  <2> SUFFICES ASSUME Inv, RaceInv, OwnInv, NEW m \in Mem, mem[m].heap = "live"
               PROVE  mem[m].ref = (IF Owned(m) THEN 1 ELSE 0)
                                   + Cardinality(mem[m].dmas) + Cardinality(Holders(m))
    BY DEF MemRefExact
  <2>1. mem[m].state # "DEAD"
    BY DEF Inv, TableInv, TableOK, Gone
  <2>2. Slack(m) \in {0, 1} /\ (Token(m) => Slack(m) = 1)
    BY <2>1 DEF RaceInv, CountInv, Refs
  <2>3. Owned(m) => Token(m)
    BY DEF Owned, Token, At
  <2>4. Slack(m) = IF Owned(m) THEN 1 ELSE 0
    BY <2>2, <2>3 DEF OwnInv, Owns
  <2>5. PICK r \in Int, k \in Int, h \in Int :
          r = mem[m].ref /\ k = Cardinality(mem[m].dmas) /\ h = Cardinality(Holders(m))
    BY SlackTypes
  <2>6. r - k - h = IF Owned(m) THEN 1 ELSE 0
    BY <2>4, <2>5 DEF Slack
  <2>7. CASE Owned(m)
    <3>1. r = 1 + k + h
      BY <2>6, <2>7
    <3> QED BY <2>5, <2>7, <3>1
  <2>8. CASE ~Owned(m)
    <3>1. r = 0 + k + h
      BY <2>6, <2>8
    <3> QED BY <2>5, <2>8, <3>1
  <2> QED BY <2>7, <2>8
<1>2. ASSUME Races, NoCbPin PROVE Spec => []MemRefExact
  BY <1>1, <1>2, InvAlways, RaceAlways, OwnAlways, PTL
<1> QED BY <1>2 DEF NoCbPin

----------------------------------------------------------------------------
(* Lookups, and the life of a registration that a DMA_MAP_MEM uses.        *)
(* Without an munmap beside a DMA_MAP_MEM the vma stays while the lookup   *)
(* and the mapping are made, and the last put is the one of the munmap.    *)
NoMapUnmap == {"map", "unmap"} \notin Overlap

MapHoldPc == {"map_alloc", "map_dma", "map_link", "map_put"}

(* A map works on the registration that the process has mapped at its      *)
(* address, and what it has mapped so far is in the list of that one.      *)
MapsOK ==
  \A t \in Thread : th[t].op = "map" =>
    /\ vma[th[t].a].m # NULL
    /\ th[t].pc \in MapHoldPc => th[t].m = vma[th[t].a].m
    /\ Elems(th[t].mine) \subseteq mem[vma[th[t].a].m].dmas

(* No mapping object is in two places of these lists. *)
MinesApart ==
  \A t, u \in Thread : \A i \in 1 .. Len(th[t].mine), j \in 1 .. Len(th[u].mine) :
    th[t].mine[i] = th[u].mine[j] => t = u /\ i = j

(* An address that a failed pin left behind is mapped by nobody else, and  *)
(* the address of a pinned registration is its own until it is unmapped.   *)
StaleAddr ==
  \A n \in memList : \A a \in Addr :
    mem[n].state = "STALE" /\ mem[n].vaddr = a => vma[a].m = NULL

LiveAddr ==
  \A n \in memList : mem[n].state = "LIVE" =>
    /\ mem[n].vaddr \in Addr
    /\ \/ vma[mem[n].vaddr].m = n
       \/ \E t \in Thread : th[t].pc \in {"unmap_put", "rel_unlink"} /\ th[t].m = n

FullRefs ==
  \A m \in Mem : mem[m].heap = "live" =>
    Slack(m) = 1 \/ \E t \in Thread : th[t].pc \in LastPc /\ th[t].m = m

(* Only an munmap releases. *)
RelsOK ==
  /\ \A t \in Thread : th[t].pc \in LastPc => mem[th[t].m].heap = "live"
  /\ \A t \in Thread : th[t].pc \in RelPc => th[t].op = "unmap"
  /\ \A t \in Thread : th[t].pc = "unmap_put" => mem[th[t].m].dmas = {}

CbCuda == \A m \in Mem : mem[m].heap = "live" /\ mem[m].state = "DEAD_CB" => mem[m].loc = "CUDA"

MapInv == MapsOK /\ MinesApart /\ StaleAddr /\ LiveAddr /\ FullRefs /\ RelsOK /\ CbCuda

(* Steps that leave what a conjunct speaks of alone. *)
MapStays(u) ==
  th'[u].op = "map" =>
    /\ th[u].op = "map" /\ th'[u].a = th[u].a
    /\ th'[u].pc \in MapHoldPc => th[u].pc \in MapHoldPc /\ th'[u].m = th[u].m

MineStays(u) == th'[u].mine = th[u].mine \/ th'[u].mine = <<>>

GonePc == LastPc \cup {"unmap_put"}

RelStays(u) ==
  /\ th'[u].pc \in GonePc \/ th[u].pc \in GonePc =>
       th'[u].pc = th[u].pc /\ th'[u].m = th[u].m /\ th'[u].op = th[u].op
  /\ th'[u].pc = "rel_ctx" => th[u].pc \in RelPc /\ th'[u].op = th[u].op

AddrStays(n) ==
  mem'[n].state \in {"STALE", "LIVE"} =>
    mem'[n].state = mem[n].state /\ mem'[n].vaddr = mem[n].vaddr

CudaStays(n) ==
  mem'[n].heap = "live" /\ mem'[n].state = "DEAD_CB" =>
    \/ mem'[n].loc = "CUDA"
    \/ mem[n].heap = "live" /\ mem[n].state = "DEAD_CB" /\ mem'[n].loc = mem[n].loc

Released(n) == \E u \in Thread : th[u].pc \in LastPc /\ th[u].m = n

LifeStays(n) == mem[n].heap = "live" => mem'[n].heap = "live" \/ ~Released(n)

LEMMA MapsFrame ==
  ASSUME Inv, RaceInv, MapsOK, \A a \in Addr : vma[a].m # NULL => vma'[a].m = vma[a].m,
         \A n \in Mem : mem[n].dmas \subseteq mem'[n].dmas, \A u \in Thread : MapStays(u),
         \A u \in Thread : MineStays(u)
  PROVE  MapsOK'
<1> SUFFICES ASSUME NEW t \in Thread, th'[t].op = "map"
             PROVE  /\ vma'[th'[t].a].m # NULL
                    /\ th'[t].pc \in MapHoldPc => th'[t].m = vma'[th'[t].a].m
                    /\ Elems(th'[t].mine) \subseteq mem'[vma'[th'[t].a].m].dmas
  BY DEF MapsOK
<1>1. /\ th[t].op = "map" /\ th'[t].a = th[t].a
      /\ th'[t].pc \in MapHoldPc => th[t].pc \in MapHoldPc /\ th'[t].m = th[t].m
  BY DEF MapStays
<1>2. PICK a \in Addr : a = th[t].a
  BY <1>1 DEF RaceInv, NameInv, MapAddrs
<1>3. PICK m \in Mem : m = vma[a].m
  BY <1>1, <1>2, VmaTypes, NoVmaFields DEF MapsOK
<1>4. /\ th[t].pc \in MapHoldPc => th[t].m = m
      /\ Elems(th[t].mine) \subseteq mem[m].dmas
  BY <1>1, <1>2, <1>3 DEF MapsOK
<1>5. vma'[a].m = m
  BY <1>3, NullOut
<1>6. Elems(th'[t].mine) \subseteq Elems(th[t].mine)
  BY DEF MineStays, Elems
<1> QED BY <1>1, <1>2, <1>3, <1>4, <1>5, <1>6, NullOut

LEMMA MinesFrame ==
  ASSUME MinesApart, \A u \in Thread : MineStays(u)
  PROVE  MinesApart'
<1> SUFFICES ASSUME NEW t \in Thread, NEW u \in Thread, NEW i \in 1 .. Len(th'[t].mine),
                    NEW j \in 1 .. Len(th'[u].mine), th'[t].mine[i] = th'[u].mine[j]
             PROVE  t = u /\ i = j
  BY DEF MinesApart
<1>1. th'[t].mine # <<>> /\ th'[u].mine # <<>>
  OBVIOUS
<1>2. th'[t].mine = th[t].mine /\ th'[u].mine = th[u].mine
  BY <1>1 DEF MineStays
<1> QED BY <1>2 DEF MinesApart

LEMMA AddrFrame ==
  ASSUME Inv, StaleAddr, LiveAddr, memList' \subseteq memList, vma' = vma,
         \A n \in Mem : AddrStays(n), \A u \in Thread : RelStays(u)
  PROVE  StaleAddr' /\ LiveAddr'
<1>1. \A n \in memList' : n \in memList /\ AddrStays(n)
  BY ListTypes
<1>2. \A u \in Thread : th[u].pc \in {"unmap_put", "rel_unlink"} =>
        th'[u].pc = th[u].pc /\ th'[u].m = th[u].m
  BY DEF RelStays, GonePc, LastPc
<1>3. StaleAddr'
  BY <1>1 DEF StaleAddr, AddrStays
<1>4. LiveAddr'
  <2> SUFFICES ASSUME NEW n \in memList', mem'[n].state = "LIVE"
               PROVE  /\ mem'[n].vaddr \in Addr
                      /\ \/ vma[mem'[n].vaddr].m = n
                         \/ \E t \in Thread : /\ th'[t].pc \in {"unmap_put", "rel_unlink"}
                                              /\ th'[t].m = n
    BY DEF LiveAddr
  <2>1. n \in memList /\ mem[n].state = "LIVE" /\ mem'[n].vaddr = mem[n].vaddr
    BY <1>1 DEF AddrStays
  <2> QED BY <1>2, <2>1 DEF LiveAddr
<1> QED BY <1>3, <1>4

LEMMA FullFrame ==
  ASSUME FullRefs, \A n \in Mem : SlackKept(n),
         \A n \in Mem : mem'[n].heap = "live" => mem[n].heap = "live",
         \A u \in Thread : RelStays(u)
  PROVE  FullRefs'
<1>1. \A u \in Thread : th[u].pc \in LastPc => th'[u].pc \in LastPc /\ th'[u].m = th[u].m
  BY DEF RelStays, GonePc
<1> QED BY <1>1 DEF FullRefs, SlackKept

LEMMA RelsFrame ==
  ASSUME Inv, RelsOK, \A u \in Thread : RelStays(u),
         \A n \in Mem : mem'[n].dmas \subseteq mem[n].dmas, \A n \in Mem : LifeStays(n)
  PROVE  RelsOK'
<1>1. \A u \in Thread : th'[u].pc \in LastPc => th[u].pc \in LastPc /\ th'[u].m = th[u].m
  BY DEF RelStays, GonePc
<1>2. \A u \in Thread : th'[u].pc \in RelPc => th[u].pc \in RelPc /\ th'[u].op = th[u].op
  BY DEF RelStays, GonePc, LastPc, RelPc
<1>3. \A u \in Thread : th'[u].pc = "unmap_put" => th[u].pc = "unmap_put" /\ th'[u].m = th[u].m
  BY DEF RelStays, GonePc
<1>4. \A u \in Thread : th[u].pc \in GonePc => th[u].m \in Mem
  BY ThreadTypes DEF GonePc, LastPc, NeedsMem
<1>5. \A u \in Thread : th'[u].pc \in LastPc => mem'[th'[u].m].heap = "live"
  BY <1>1, <1>4 DEF RelsOK, LifeStays, Released, GonePc
<1>6. \A u \in Thread : th'[u].pc = "unmap_put" => mem'[th'[u].m].dmas = {}
  BY <1>3, <1>4 DEF RelsOK, GonePc
<1> QED BY <1>2, <1>5, <1>6 DEF RelsOK

LEMMA CudaFrame ==
  ASSUME CbCuda, \A n \in Mem : CudaStays(n)
  PROVE  CbCuda'
BY DEF CbCuda, CudaStays

RecStays(n) ==
  /\ AddrStays(n) /\ CudaStays(n) /\ LifeStays(n)
  /\ mem'[n].dmas = mem[n].dmas /\ (mem'[n].heap = "live" => mem[n].heap = "live")

FlowStays(u) == MapStays(u) /\ MineStays(u) /\ RelStays(u)

LEMMA StaysParts ==
  ASSUME \A n \in Mem : RecStays(n), \A u \in Thread : FlowStays(u)
  PROVE  /\ \A n \in Mem : AddrStays(n)
         /\ \A n \in Mem : CudaStays(n)
         /\ \A n \in Mem : LifeStays(n)
         /\ \A n \in Mem : mem'[n].dmas = mem[n].dmas
         /\ \A n \in Mem : mem'[n].heap = "live" => mem[n].heap = "live"
         /\ \A u \in Thread : MapStays(u)
         /\ \A u \in Thread : MineStays(u)
         /\ \A u \in Thread : RelStays(u)
BY DEF RecStays, FlowStays

LEMMA MapQuiet ==
  ASSUME Inv, RaceInv, MapInv, memList' \subseteq memList, vma' = vma,
         \A n \in Mem : SlackKept(n), \A n \in Mem : RecStays(n), \A u \in Thread : FlowStays(u)
  PROVE  MapInv'
<1>1. /\ \A n \in Mem : AddrStays(n)
      /\ \A n \in Mem : CudaStays(n)
      /\ \A n \in Mem : LifeStays(n)
      /\ \A n \in Mem : mem'[n].dmas = mem[n].dmas
      /\ \A n \in Mem : mem'[n].heap = "live" => mem[n].heap = "live"
      /\ \A u \in Thread : MapStays(u)
      /\ \A u \in Thread : MineStays(u)
      /\ \A u \in Thread : RelStays(u)
  BY StaysParts
<1>2. MapsOK'
  BY <1>1, MapsFrame DEF MapInv
<1>3. MinesApart'
  BY <1>1, MinesFrame DEF MapInv
<1>4. StaleAddr' /\ LiveAddr'
  BY <1>1, AddrFrame DEF MapInv
<1>5. FullRefs'
  BY <1>1, FullFrame DEF MapInv
<1>6. RelsOK'
  BY <1>1, RelsFrame DEF MapInv
<1>7. CbCuda'
  BY <1>1, CudaFrame DEF MapInv
<1> QED BY <1>2, <1>3, <1>4, <1>5, <1>6, <1>7 DEF MapInv

(* While a map is in flight no unmap is. *)
LEMMA MapApart ==
  ASSUME BaseInv, NoMapUnmap, NEW t \in Thread, th[t].op = "map"
  PROVE  \A u \in Thread : th[u].op # "unmap"
<1> SUFFICES ASSUME NEW u \in Thread, th[u].op = "unmap" PROVE FALSE
  OBVIOUS
<1>1. {"map", "unmap"} \in Overlap
  BY DEF BaseInv, Overlaps
<1> QED BY <1>1 DEF NoMapUnmap

(* The registration a map works on is pinned, and nobody releases it. *)
LEMMA MapMem ==
  ASSUME Inv, CtxInv, BaseInv, RaceInv, NoMapUnmap, MapInv, NEW t \in Thread,
         th[t].op = "map", NEW m, m = vma[th[t].a].m
  PROVE  /\ m \in memList /\ m \in Mem /\ mem[m].heap = "live" /\ mem[m].state \in Pinned
         /\ mem[m].vaddr = th[t].a /\ th[t].a \in Addr /\ Slack(m) = 1
<1>1. th[t].a \in Addr /\ m # NULL
  BY DEF RaceInv, NameInv, MapAddrs, MapInv, MapsOK
<1>2. m \in memList /\ mem[m].state \in Pinned /\ mem[m].vaddr = th[t].a
  BY <1>1 DEF RaceInv, NameInv, VmasOK
<1>3. m \in Mem /\ mem[m].heap = "live"
  BY <1>2, ListTypes DEF CtxInv, Lists
<1>4. Token(m)
  BY <1>1 DEF Token
<1>5. Slack(m) = 1
  BY <1>2, <1>3, <1>4 DEF Pinned, RaceInv, CountInv, Refs
<1> QED BY <1>1, <1>2, <1>3, <1>5

(* Nor does anybody release one that a pin or a map uses. *)
LEMMA NoRelease ==
  ASSUME CtxInv, BaseInv, NoMapUnmap, MapInv, NEW t \in Thread, th[t].op \in {"pin", "map"}
  PROVE  \A u \in Thread : th[u].pc \notin RelPc
<1> SUFFICES ASSUME NEW u \in Thread, th[u].pc \in RelPc PROVE FALSE
  OBVIOUS
<1>1. th[u].op = "unmap"
  BY DEF MapInv, RelsOK
<1>2. CASE th[t].op = "map"
  BY <1>1, <1>2, MapApart
<1>3. CASE th[t].op = "pin"
  <2>1. mmapLock = t /\ mmapLock = u
    BY <1>1, <1>3 DEF BaseInv, Mmap
  <2> QED BY <1>1, <1>3, <2>1
<1> QED BY <1>2, <1>3

(* The count of a live registration that a call holds exceeds one. *)
LEMMA HeldTwice ==
  ASSUME Inv, NEW m \in Mem, NEW t \in Holders(m), Slack(m) = 1
  PROVE  mem[m].ref > 1
<1>1. PICK r \in Int, k \in Nat, h \in Nat :
        r = mem[m].ref /\ k = Cardinality(mem[m].dmas) /\ h = Cardinality(Holders(m))
  BY SlackTypes
<1>2. h # 0
  BY <1>1, SlackTypes, FS_EmptySet
<1>3. r - k - h = 1
  BY <1>1 DEF Slack
<1>4. r > 1
  BY <1>2, <1>3
<1> QED BY <1>1, <1>4

(* Sequences of mapping objects. *)
LEMMA ConsIndex ==
  ASSUME NEW d \in Dma, NEW s \in Seq(Dma)
  PROVE  \A i \in 1 .. Len(<<d>> \o s) :
           \/ i = 1 /\ (<<d>> \o s)[i] = d
           \/ i # 1 /\ i - 1 \in 1 .. Len(s) /\ (<<d>> \o s)[i] = s[i - 1]
OBVIOUS

LEMMA TailIndex ==
  ASSUME NEW s \in Seq(Dma), s # <<>>
  PROVE  /\ 1 \in 1 .. Len(s) /\ Head(s) = s[1]
         /\ \A i \in 1 .. Len(Tail(s)) :
              i + 1 \in 1 .. Len(s) /\ Tail(s)[i] = s[i + 1] /\ i + 1 # 1
OBVIOUS

LEMMA MineTypes == ASSUME Inv PROVE \A t \in Thread : th[t].mine \in Seq(Dma)
<1>1. \A t \in Thread : th[t] \in ThreadRec
  BY DEF Inv, TypeOK
<1> QED BY <1>1 DEF ThreadRec

----------------------------------------------------------------------------
(* Every step keeps MapInv. *)

LEMMA RegStartMap ==
  ASSUME Inv, CtxInv, BaseInv, Races, RaceInv, NoMapUnmap, MapInv, NEW t \in Thread, NEW
         f \in File, NEW l \in Loc, NEW m \in Mem, RegStartEff(t, f, l, m)
  PROVE  MapInv'
<1>1. /\ \A n \in Mem \ {m} : mem'[n] = mem[n]
      /\ mem[m].heap = "unused" /\ mem'[m].heap = "live" /\ mem'[m].state = "STALE"
      /\ mem'[m].dmas = {} /\ mem'[m].vaddr = NULL
      /\ memList' = memList /\ vma' = vma
  BY DEF RegStartEff, Only
<1>2. /\ \A u \in Thread : MapStays(u)
      /\ \A u \in Thread : MineStays(u)
      /\ \A u \in Thread : RelStays(u)
  BY ZenonT(40) DEF MapStays, MapHoldPc, MineStays, RelStays, GonePc, LastPc, RelPc, RegStartEff, Starts
<1>3. mem[m].dmas = {} /\ mem[m].state = "STALE" /\ mem[m].vaddr = NULL
  BY <1>1 DEF RaceInv, NameInv, Fresh, Blank
<1>4. /\ \A n \in Mem : mem'[n].dmas = mem[n].dmas
      /\ \A n \in Mem : AddrStays(n)
      /\ \A n \in Mem : CudaStays(n)
      /\ \A n \in Mem : LifeStays(n)
  BY <1>1, <1>3 DEF AddrStays, CudaStays, LifeStays
<1>10. MapsOK'
  BY <1>1, <1>2, <1>4, MapsFrame DEF MapInv
<1>11. MinesApart'
  BY <1>2, MinesFrame DEF MapInv
<1>12. StaleAddr' /\ LiveAddr'
  BY <1>1, <1>2, <1>4, AddrFrame DEF MapInv
<1>13. FullRefs'
  <2>1. Slack(m)' = 1
    <3>1. CountInv'
      BY RegStartCount
    <3>2. Token(m)' /\ mem'[m].heap # "unused" /\ mem'[m].state # "DEAD"
      BY <1>1 DEF Token
    <3> QED BY <3>1, <3>2 DEF CountInv, Refs
  <2>2. \A n \in Mem \ {m} : Slack(n)' = Slack(n)
    <3>1. \A u \in Thread : SameHold(u)
      BY DEF SameHold, HoldPc, RegStartEff, Starts
    <3>2. \A n \in Mem : Holders(n)' = Holders(n)
      BY <3>1, HoldersSame
    <3> QED BY <1>1, <3>2 DEF Slack
  <2>3. \A u \in Thread : th[u].pc \in LastPc => th'[u].pc \in LastPc /\ th'[u].m = th[u].m
    BY <1>2 DEF RelStays, GonePc
  <2> QED BY <1>1, <2>1, <2>2, <2>3 DEF MapInv, FullRefs
<1>14. RelsOK'
  BY <1>2, <1>4, RelsFrame DEF MapInv
<1>15. CbCuda'
  BY <1>4, CudaFrame DEF MapInv
<1> QED BY <1>10, <1>11, <1>12, <1>13, <1>14, <1>15 DEF MapInv

LEMMA RegInsertMap ==
  ASSUME Inv, CtxInv, BaseInv, Races, RaceInv, NoMapUnmap, MapInv, NEW t \in Thread,
         RegInsertEff(t)
  PROVE  MapInv'
<1>1. \A n \in Mem : SlackKept(n)
  <2>1. /\ \A u \in Thread : SameHold(u)
        /\ \A n \in Mem : SameCounts(n)
    BY DEF SameHold, HoldPc, SameCounts, RegInsertEff, Moves, Keeps, Only, SameUse
  <2> QED BY <2>1, SlackSame
<1>0. PICK m \in Mem : m = th[t].m
  BY DEF RegInsertEff
<1>2. \A n \in Mem : RecStays(n)
  BY DEF RecStays, AddrStays, CudaStays, LifeStays, RegInsertEff, Only, SameUse, SameCounts
<1>3. \A u \in Thread : FlowStays(u)
  BY DEF FlowStays, MapStays, MapHoldPc, MineStays, RelStays, GonePc, LastPc, RelPc, RegInsertEff,
         Moves, Keeps
<1>4. memList' = memList \cup {m} /\ vma' = vma
  BY <1>0 DEF RegInsertEff
<1>5. /\ \A n \in Mem : AddrStays(n)
      /\ \A n \in Mem : CudaStays(n)
      /\ \A n \in Mem : LifeStays(n)
      /\ \A n \in Mem : mem'[n].dmas = mem[n].dmas
      /\ \A n \in Mem : mem'[n].heap = "live" => mem[n].heap = "live"
      /\ \A u \in Thread : MapStays(u)
      /\ \A u \in Thread : MineStays(u)
      /\ \A u \in Thread : RelStays(u)
  BY <1>2, <1>3, StaysParts
<1>10. MapsOK'
  BY <1>4, <1>5, MapsFrame DEF MapInv
<1>11. MinesApart'
  BY <1>5, MinesFrame DEF MapInv
<1>12. StaleAddr' /\ LiveAddr'
  <2>1. th[t].op = "reg"
    BY DEF CtxInv, Ops, OpOK, RegInsertEff, Moves
  <2>2. mem[m].state = "STALE" /\ mem[m].vaddr = NULL
    BY <1>0, <2>1 DEF RaceInv, NameInv, Fresh, Blank
  <2>3. mem'[m].state = "STALE" /\ mem'[m].vaddr \notin Addr
    BY <1>0, <2>2, NullOut DEF RegInsertEff, SameUse
  <2>4. \A n \in memList' : n = m \/ (n \in memList /\ AddrStays(n))
    BY <1>4, <1>5, ListTypes
  <2>5. StaleAddr'
    BY <1>4, <2>3, <2>4 DEF MapInv, StaleAddr, AddrStays
  <2>6. LiveAddr'
    <3> SUFFICES ASSUME NEW n \in memList', mem'[n].state = "LIVE"
                 PROVE  /\ mem'[n].vaddr \in Addr
                        /\ \/ vma[mem'[n].vaddr].m = n
                           \/ \E u \in Thread : /\ th'[u].pc \in {"unmap_put", "rel_unlink"}
                                                /\ th'[u].m = n
      BY <1>4 DEF LiveAddr
    <3>1. n \in memList /\ mem[n].state = "LIVE" /\ mem'[n].vaddr = mem[n].vaddr
      BY <2>3, <2>4 DEF AddrStays
    <3>2. \A u \in Thread : th[u].pc \in {"unmap_put", "rel_unlink"} =>
            th'[u].pc = th[u].pc /\ th'[u].m = th[u].m
      BY <1>5 DEF RelStays, GonePc, LastPc
    <3> QED BY <3>1, <3>2 DEF MapInv, LiveAddr
  <2> QED BY <2>5, <2>6
<1>13. FullRefs'
  BY <1>1, <1>5, FullFrame DEF MapInv
<1>14. RelsOK'
  BY <1>5, RelsFrame DEF MapInv
<1>15. CbCuda'
  BY <1>5, CudaFrame DEF MapInv
<1> QED BY <1>10, <1>11, <1>12, <1>13, <1>14, <1>15 DEF MapInv

LEMMA RegInsertFailsMap ==
  ASSUME Inv, CtxInv, BaseInv, Races, RaceInv, NoMapUnmap, MapInv, NEW t \in Thread,
         RegInsertFailsEff(t)
  PROVE  MapInv'
<1>1. \A n \in Mem : SlackKept(n)
  <2>1. /\ \A u \in Thread : SameHold(u)
        /\ \A n \in Mem : SameCounts(n)
    BY DEF SameHold, HoldPc, SameCounts, RegInsertFailsEff, Ends, HeapTo, Only, SameId
  <2> QED BY <2>1, SlackSame
<1>2. \A n \in Mem : RecStays(n)
  <2>1. \A u \in Thread : th[u].m = th[t].m => u = t
    BY DEF CtxInv, Making, RegInsertFailsEff, Ends
  <2>2. ~Released(th[t].m)
    BY <2>1 DEF Released, LastPc, RegInsertFailsEff, Ends
  <2> QED BY <2>2 DEF RecStays, AddrStays, CudaStays, LifeStays, RegInsertFailsEff, HeapTo, Only, SameCounts
<1>3. \A u \in Thread : FlowStays(u)
  BY DEF FlowStays, MapStays, MapHoldPc, MineStays, RelStays, GonePc, LastPc, RelPc,
     RegInsertFailsEff, Ends
<1>4. memList' \subseteq memList /\ vma' = vma
  BY DEF RegInsertFailsEff
<1> QED BY <1>1, <1>2, <1>3, <1>4, MapQuiet

LEMMA RegCopyMap ==
  ASSUME Inv, CtxInv, BaseInv, Races, RaceInv, NoMapUnmap, MapInv, NEW t \in Thread,
         RegCopyEff(t)
  PROVE  MapInv'
<1>1. \A n \in Mem : SlackKept(n)
  <2>1. /\ \A u \in Thread : SameHold(u)
        /\ \A n \in Mem : SameCounts(n)
    BY DEF SameHold, HoldPc, SameCounts, RegCopyEff, Ends
  <2> QED BY <2>1, SlackSame
<1>2. \A n \in Mem : RecStays(n)
  BY DEF RecStays, AddrStays, CudaStays, LifeStays, RegCopyEff, Ends
<1>3. \A u \in Thread : FlowStays(u)
  BY DEF FlowStays, MapStays, MapHoldPc, MineStays, RelStays, GonePc, LastPc, RelPc,
     RegCopyEff, Ends
<1>4. memList' \subseteq memList /\ vma' = vma
  BY DEF RegCopyEff
<1> QED BY <1>1, <1>2, <1>3, <1>4, MapQuiet

LEMMA GoesOnMap ==
  ASSUME Inv, CtxInv, BaseInv, Races, RaceInv, NoMapUnmap, MapInv, NEW t \in Thread, NEW
         pc, NEW to, GoesOnPc(pc, to), GoesOn(t, pc, to)
  PROVE  MapInv'
<1>1. \A n \in Mem : SlackKept(n)
  <2>1. /\ \A u \in Thread : SameHold(u)
        /\ \A n \in Mem : SameCounts(n)
    BY DEF SameHold, HoldPc, SameCounts, GoesOnPc, GoesOn, Moves, Keeps
  <2> QED BY <2>1, SlackSame
<1>2. \A n \in Mem : RecStays(n)
  BY DEF RecStays, AddrStays, CudaStays, LifeStays, GoesOnPc, GoesOn, Moves, Keeps
<1>3. \A u \in Thread : FlowStays(u)
  BY DEF FlowStays, MapStays, MapHoldPc, MineStays, RelStays, GonePc, LastPc, RelPc,
     GoesOnPc, GoesOn, Moves, Keeps
<1>4. memList' \subseteq memList /\ vma' = vma
  BY DEF GoesOn
<1> QED BY <1>1, <1>2, <1>3, <1>4, MapQuiet

LEMMA RegEraseMap ==
  ASSUME Inv, CtxInv, BaseInv, Races, RaceInv, NoMapUnmap, MapInv, NEW t \in Thread,
         RegEraseEff(t)
  PROVE  MapInv'
<1>1. \A n \in Mem : SlackKept(n)
  <2>1. /\ \A u \in Thread : SameHold(u)
        /\ \A n \in Mem : SameCounts(n)
    BY DEF SameHold, HoldPc, SameCounts, RegEraseEff, Ends, HeapTo, Only, SameId
  <2> QED BY <2>1, SlackSame
<1>2. \A n \in Mem : RecStays(n)
  <2>1. \A u \in Thread : th[u].m = th[t].m => u = t \/ th[u].pc \in WalkPc
    BY DEF RaceInv, NameInv, RegsOK, RegPc, RegEraseEff, Ends
  <2>2. ~Released(th[t].m)
    BY <2>1 DEF Released, LastPc, WalkPc, RegEraseEff, Ends
  <2> QED BY <2>2 DEF RecStays, AddrStays, CudaStays, LifeStays, RegEraseEff, HeapTo, Only, SameCounts
<1>3. \A u \in Thread : FlowStays(u)
  BY DEF FlowStays, MapStays, MapHoldPc, MineStays, RelStays, GonePc, LastPc, RelPc,
     RegEraseEff, Ends
<1>4. memList' \subseteq memList /\ vma' = vma
  BY DEF RegEraseEff
<1> QED BY <1>1, <1>2, <1>3, <1>4, MapQuiet

LEMMA PinStartMap ==
  ASSUME Inv, CtxInv, BaseInv, Races, RaceInv, NoMapUnmap, MapInv, NEW t \in Thread, NEW
         f \in File, NEW p \in Handle, NEW a \in Addr, MayPin(p, a), PinStartEff(t, f,
         p, a)
  PROVE  MapInv'
<1>1. \A n \in Mem : SlackKept(n)
  <2>1. /\ \A u \in Thread : SameHold(u)
        /\ \A n \in Mem : SameCounts(n)
    BY DEF SameHold, HoldPc, SameCounts, PinStartEff, Starts
  <2> QED BY <2>1, SlackSame
<1>2. \A n \in Mem : RecStays(n)
  BY DEF RecStays, AddrStays, CudaStays, LifeStays, PinStartEff, Starts
<1>3. \A u \in Thread : FlowStays(u)
  BY DEF FlowStays, MapStays, MapHoldPc, MineStays, RelStays, GonePc, LastPc, RelPc,
     PinStartEff, Starts
<1>4. memList' \subseteq memList /\ vma' = vma
  BY DEF PinStartEff
<1> QED BY <1>1, <1>2, <1>3, <1>4, MapQuiet

LEMMA PinGetMap ==
  ASSUME Inv, CtxInv, BaseInv, Races, RaceInv, NoMapUnmap, MapInv, NEW t \in Thread,
         PinGetEff(t)
  PROVE  MapInv'
<1>1. \A n \in Mem : SlackKept(n)
  <2>0. PICK m \in Mem : m = th[t].m
    BY DEF PinGetEff
  <2>1. /\ RefTo(m, mem[m].ref + 1) /\ \A u \in Thread \ {t} : th'[u] = th[u]
        /\ th[t].pc \notin HoldPc /\ th'[t].pc \in HoldPc /\ th'[t].m = m
    BY <2>0 DEF PinGetEff, HoldPc, Moves, Keeps
  <2> QED BY <2>1, GetSlack
<1>2. \A n \in Mem : RecStays(n)
  BY DEF RecStays, AddrStays, CudaStays, LifeStays, PinGetEff, Moves, Keeps, RefTo,
     Only, SameUse, SameId
<1>3. \A u \in Thread : FlowStays(u)
  BY DEF FlowStays, MapStays, MapHoldPc, MineStays, RelStays, GonePc, LastPc, RelPc,
     PinGetEff, Moves, Keeps
<1>4. memList' \subseteq memList /\ vma' = vma
  BY DEF PinGetEff
<1> QED BY <1>1, <1>2, <1>3, <1>4, MapQuiet

LEMMA PinDoMap ==
  ASSUME Inv, CtxInv, BaseInv, Races, RaceInv, NoMapUnmap, MapInv, NEW t \in Thread,
         PinDoEff(t)
  PROVE  MapInv'
<1>1. \A n \in Mem : SlackKept(n)
  <2>1. /\ \A u \in Thread : SameHold(u)
        /\ \A n \in Mem : SameCounts(n)
    BY DEF SameHold, HoldPc, SameCounts, PinDoEff, Moves, Keeps, Only, SameId
  <2> QED BY <2>1, SlackSame
<1>0. PICK m \in Mem : m = th[t].m
  BY DEF PinDoEff
<1>2. /\ \A u \in Thread : MapStays(u)
      /\ \A u \in Thread : MineStays(u)
      /\ \A u \in Thread : RelStays(u)
  <2>1. \A u \in Thread : MapStays(u)
    BY DEF MapStays, MapHoldPc, PinDoEff, Moves, Keeps
  <2>2. \A u \in Thread : MineStays(u)
    BY DEF MineStays, PinDoEff, Moves, Keeps
  <2>3. \A u \in Thread : RelStays(u)
    BY DEF RelStays, GonePc, LastPc, RelPc, PinDoEff, Moves, Keeps
  <2> QED BY <2>1, <2>2, <2>3
<1>3. /\ \A n \in Mem : mem'[n].dmas = mem[n].dmas
      /\ \A n \in Mem : mem'[n].heap = mem[n].heap
      /\ \A n \in Mem : CudaStays(n)
      /\ \A n \in Mem : LifeStays(n)
  BY DEF CudaStays, LifeStays, PinDoEff, Only, SameCounts
<1>4. PICK x \in Addr : x = th[t].a /\ vma[x].m = NULL
  BY NoVmaFields DEF RaceInv, NameInv, PinsOK, PinPc, PinDoEff, Moves
<1>5. /\ \A a \in Addr \ {x} : vma'[a] = vma[a]
      /\ vma'[x].m = m
      /\ \A n \in Mem \ {m} : mem'[n] = mem[n]
      /\ mem'[m].state = "LIVE" /\ mem'[m].vaddr = x
      /\ memList' = memList
  BY <1>0, <1>4 DEF PinDoEff, Only
<1>6. \A n \in memList : n \in Mem /\ (mem[n].state = "STALE" /\ n # m => mem[n].vaddr # x)
  BY <1>0, <1>4, ListTypes DEF RaceInv, NameInv, PinsOK, PinPc, PinDoEff, Moves
<1>10. MapsOK'
  BY <1>2, <1>3, <1>4, <1>5, MapsFrame DEF MapInv
<1>11. MinesApart'
  BY <1>2, MinesFrame DEF MapInv
<1>12. StaleAddr' /\ LiveAddr'
  <2>1. StaleAddr'
    BY <1>5, <1>6 DEF MapInv, StaleAddr
  <2>2. LiveAddr'
    <3> SUFFICES ASSUME NEW n \in memList, n # m, mem[n].state = "LIVE"
                 PROVE  /\ mem[n].vaddr \in Addr
                        /\ \/ vma'[mem[n].vaddr].m = n
                           \/ \E u \in Thread : /\ th'[u].pc \in {"unmap_put", "rel_unlink"}
                                                /\ th'[u].m = n
      BY <1>5, <1>6 DEF LiveAddr
    <3>1. \A u \in Thread : th[u].pc \in {"unmap_put", "rel_unlink"} =>
            th'[u].pc = th[u].pc /\ th'[u].m = th[u].m
      BY <1>2 DEF RelStays, GonePc, LastPc
    <3>2. n # NULL
      BY <1>6, NullOut
    <3> QED BY <1>4, <1>5, <3>1, <3>2 DEF MapInv, LiveAddr
  <2> QED BY <2>1, <2>2
<1>13. FullRefs'
  BY <1>1, <1>2, <1>3, FullFrame DEF MapInv
<1>14. RelsOK'
  BY <1>2, <1>3, RelsFrame DEF MapInv
<1>15. CbCuda'
  BY <1>3, CudaFrame DEF MapInv
<1> QED BY <1>10, <1>11, <1>12, <1>13, <1>14, <1>15 DEF MapInv

LEMMA PinDoFailsMap ==
  ASSUME Inv, CtxInv, BaseInv, Races, RaceInv, NoMapUnmap, MapInv, NEW t \in Thread,
         PinDoFailsEff(t)
  PROVE  MapInv'
<1>1. \A n \in Mem : SlackKept(n)
  <2>1. /\ \A u \in Thread : SameHold(u)
        /\ \A n \in Mem : SameCounts(n)
    BY DEF SameHold, HoldPc, SameCounts, PinDoFailsEff, Moves, Keeps, Only, SameId
  <2> QED BY <2>1, SlackSame
<1>0. PICK m \in Mem : m = th[t].m
  BY DEF PinDoFailsEff
<1>2. /\ \A u \in Thread : MapStays(u)
      /\ \A u \in Thread : MineStays(u)
      /\ \A u \in Thread : RelStays(u)
  BY DEF MapStays, MapHoldPc, MineStays, RelStays, GonePc, LastPc, RelPc, PinDoFailsEff, Moves,
         Keeps
<1>3. /\ \A n \in Mem : mem'[n].dmas = mem[n].dmas
      /\ \A n \in Mem : mem'[n].heap = mem[n].heap
      /\ \A n \in Mem : CudaStays(n)
      /\ \A n \in Mem : LifeStays(n)
  BY DEF CudaStays, LifeStays, PinDoFailsEff, Only, SameCounts
<1>4. PICK x \in Addr : x = th[t].a /\ vma[x].m = NULL
  BY NoVmaFields DEF RaceInv, NameInv, PinsOK, PinPc, PinDoFailsEff, Moves
<1>5. /\ \A n \in Mem \ {m} : mem'[n] = mem[n]
      /\ mem'[m].state = mem[m].state /\ mem'[m].state \in Unpinned /\ mem'[m].vaddr = x
      /\ memList' = memList /\ vma' = vma
  BY <1>0, <1>4 DEF PinDoFailsEff, Only, RaceInv, NameInv, PinsOK, PinPc, Moves
<1>10. MapsOK'
  BY <1>2, <1>3, <1>5, MapsFrame DEF MapInv
<1>11. MinesApart'
  BY <1>2, MinesFrame DEF MapInv
<1>12. StaleAddr' /\ LiveAddr'
  <2>0. \A n \in memList : n \in Mem
    BY ListTypes
  <2>1. StaleAddr'
    BY <1>4, <1>5, <2>0 DEF MapInv, StaleAddr
  <2>2. LiveAddr'
    <3> SUFFICES ASSUME NEW n \in memList, n # m, mem[n].state = "LIVE"
                 PROVE  /\ mem[n].vaddr \in Addr
                        /\ \/ vma[mem[n].vaddr].m = n
                           \/ \E u \in Thread : /\ th'[u].pc \in {"unmap_put", "rel_unlink"}
                                                /\ th'[u].m = n
      BY <1>5, <2>0 DEF LiveAddr, Unpinned
    <3>1. \A u \in Thread : th[u].pc \in {"unmap_put", "rel_unlink"} =>
            th'[u].pc = th[u].pc /\ th'[u].m = th[u].m
      BY <1>2 DEF RelStays, GonePc, LastPc
    <3> QED BY <3>1 DEF MapInv, LiveAddr
  <2> QED BY <2>1, <2>2
<1>13. FullRefs'
  BY <1>1, <1>2, <1>3, FullFrame DEF MapInv
<1>14. RelsOK'
  BY <1>2, <1>3, RelsFrame DEF MapInv
<1>15. CbCuda'
  BY <1>3, CudaFrame DEF MapInv
<1> QED BY <1>10, <1>11, <1>12, <1>13, <1>14, <1>15 DEF MapInv

LEMMA PutMap ==
  ASSUME Inv, CtxInv, BaseInv, Races, RaceInv, NoMapUnmap, MapInv, NEW t \in Thread, NEW
         pc, NEW next, PutPc(pc, next), PutEff(t, pc, next)
  PROVE  MapInv'
<1>0. PICK m \in Mem : m = th[t].m
  BY DEF PutEff, Puts
<1>1. /\ \A n \in Mem \ {m} : SlackKept(n)
      /\ pc # "unmap_put" => SlackKept(m)
  BY <1>0, PutIs
<1>2. \A n \in Mem : RecStays(n)
  BY DEF RecStays, AddrStays, CudaStays, LifeStays, PutEff, Puts, RefTo, Only, SameUse
<1>3. memList' = memList /\ vma' = vma
  BY DEF PutEff
<1>4. /\ th[t].pc = pc /\ \A u \in Thread \ {t} : th'[u] = th[u]
      /\ th'[t].op = th[t].op /\ th'[t].m = m /\ th'[t].a = th[t].a /\ th'[t].mine = th[t].mine
      /\ mem[m].ref > 1 => th'[t].pc = next
      /\ mem[m].ref = 1 => th'[t].pc = "rel_unlink"
  BY <1>0 DEF PutEff, Puts, Keeps
<1>5. CASE pc # "unmap_put"
  <2>1. th[t].op \in {"pin", "map"} /\ t \in Holders(m)
    BY <1>0, <1>4, <1>5 DEF PutPc, CtxInv, Ops, OpOK, Holders
  <2>2. Slack(m) = 1
    <3>1. CASE pc = "pin_put"
      <4>1. mem[m].heap = "live"
        BY <1>0, <1>4, <3>1 DEF RaceInv, NameInv, PinsOK, CtxInv, Lists
      <4>2. \A u \in Thread : th[u].pc \notin LastPc
        BY <2>1, NoRelease DEF LastPc, RelPc
      <4> QED BY <4>1, <4>2 DEF MapInv, FullRefs
    <3>2. CASE pc = "map_put"
      <4>1. th[t].op = "map"
        BY <1>4, <3>2 DEF CtxInv, Ops, OpOK
      <4>2. m = vma[th[t].a].m
        BY <1>0, <1>4, <3>2, <4>1 DEF MapInv, MapsOK, MapHoldPc
      <4> QED BY <4>1, <4>2, MapMem
    <3> QED BY <1>5, <3>1, <3>2 DEF PutPc
  <2>3. th'[t].pc = next
    BY <1>4, <2>1, <2>2, HeldTwice
  <2>4. \A u \in Thread : FlowStays(u)
    BY <1>4, <1>5, <2>3 DEF FlowStays, MapStays, MapHoldPc, MineStays, RelStays, GonePc, LastPc,
                           RelPc, PutPc
  <2> QED BY <1>1, <1>2, <1>3, <1>5, <2>4, MapQuiet
<1>6. CASE pc = "unmap_put"
  <2>1. m \in memList /\ mem[m].heap = "live" /\ Slack(m) = 1 /\ mem[m].dmas = {}
    BY <1>0, <1>4, <1>6, UnmapPutLast DEF MapInv, RelsOK
  <2>2. th[t].op = "unmap" /\ mmapLock = t
    BY <1>4, <1>6 DEF CtxInv, Ops, OpOK, BaseInv, Mmap
  <2>3. \A u \in Thread : th[u].op # "map" /\ th[u].op # "pin"
    BY <2>2, MapApart DEF BaseInv, Mmap
  <2>4. Holders(m) = {}
    BY <2>3 DEF Holders, CtxInv, Ops, OpOK
  <2>5. mem[m].ref = 1
    <3>1. mem[m].ref - 0 - 0 = 1 /\ mem[m].ref \in Int
      BY <2>1, <2>4, SlackTypes, FS_EmptySet DEF Slack
    <3> QED BY <3>1
  <2>6. th'[t].pc = "rel_unlink"
    BY <1>4, <2>5
  <2>7. /\ \A n \in Mem : AddrStays(n)
        /\ \A n \in Mem : CudaStays(n)
        /\ \A n \in Mem : mem'[n].dmas = mem[n].dmas
        /\ \A n \in Mem : mem'[n].heap = mem[n].heap
    BY <1>2 DEF RecStays, PutEff, Puts, RefTo, Only, SameUse
  <2>8. /\ \A u \in Thread : MapStays(u)
        /\ \A u \in Thread : MineStays(u)
    BY <1>4, <2>6 DEF MapStays, MapHoldPc, MineStays
  <2>9. MapsOK' /\ MinesApart' /\ CbCuda'
    BY <1>3, <2>7, <2>8, MapsFrame, MinesFrame, CudaFrame DEF MapInv
  <2>10. StaleAddr'
    BY <1>3, <2>7, ListTypes DEF MapInv, StaleAddr, AddrStays
  <2>11. LiveAddr'
    <3> SUFFICES ASSUME NEW n \in memList, mem'[n].state = "LIVE"
                 PROVE  /\ mem'[n].vaddr \in Addr
                        /\ \/ vma[mem'[n].vaddr].m = n
                           \/ \E u \in Thread : /\ th'[u].pc \in {"unmap_put", "rel_unlink"}
                                                /\ th'[u].m = n
      BY <1>3 DEF LiveAddr
    <3>1. mem[n].state = "LIVE" /\ mem'[n].vaddr = mem[n].vaddr
      BY <2>7, ListTypes DEF AddrStays
    <3>2. \A u \in Thread : th[u].pc \in {"unmap_put", "rel_unlink"} =>
            th'[u].pc \in {"unmap_put", "rel_unlink"} /\ th'[u].m = th[u].m
      BY <1>0, <1>4, <2>6
    <3> QED BY <3>1, <3>2 DEF MapInv, LiveAddr
  <2>12. FullRefs'
    <3>1. \A u \in Thread : th[u].pc \in LastPc => th'[u].pc \in LastPc /\ th'[u].m = th[u].m
      BY <1>4, <1>6 DEF LastPc
    <3>2. th'[t].pc \in LastPc /\ th'[t].m = m
      BY <1>4, <2>6 DEF LastPc
    <3> QED BY <1>1, <2>7, <3>1, <3>2 DEF MapInv, FullRefs, SlackKept
  <2>13. RelsOK'
    <3>1. \A u \in Thread \ {t} : th'[u].pc \in LastPc =>
            th[u].pc \in LastPc /\ th'[u].m = th[u].m /\ th[u].m \in Mem
      BY <1>4, ThreadTypes DEF LastPc, NeedsMem
    <3>2. \A u \in Thread : th'[u].pc \in LastPc => mem'[th'[u].m].heap = "live"
      BY <1>0, <1>4, <2>1, <2>7, <3>1 DEF MapInv, RelsOK
    <3>3. \A u \in Thread : th'[u].pc \in RelPc => th'[u].op = "unmap"
      BY <1>4, <2>2 DEF MapInv, RelsOK
    <3>4. \A u \in Thread : th'[u].pc = "unmap_put" => u # t /\ th'[u] = th[u] /\ th[u].m \in Mem
      BY <1>4, <2>6, ThreadTypes DEF NeedsMem
    <3>5. \A u \in Thread : th'[u].pc = "unmap_put" => mem'[th'[u].m].dmas = {}
      <4> SUFFICES ASSUME NEW u \in Thread, th'[u].pc = "unmap_put" PROVE mem'[th'[u].m].dmas = {}
        OBVIOUS
      <4>1. th'[u] = th[u] /\ th[u].m \in Mem
        BY <3>4
      <4>2. mem[th[u].m].dmas = {}
        BY <4>1 DEF MapInv, RelsOK
      <4> QED BY <2>7, <4>1, <4>2
    <3> QED BY <3>2, <3>3, <3>5 DEF RelsOK
  <2> QED BY <2>9, <2>10, <2>11, <2>12, <2>13 DEF MapInv
<1> QED BY <1>5, <1>6

LEMMA PinReturnMap ==
  ASSUME Inv, CtxInv, BaseInv, Races, RaceInv, NoMapUnmap, MapInv, NEW t \in Thread,
         PinReturnEff(t)
  PROVE  MapInv'
<1>1. \A n \in Mem : SlackKept(n)
  <2>1. /\ \A u \in Thread : SameHold(u)
        /\ \A n \in Mem : SameCounts(n)
    BY DEF SameHold, HoldPc, SameCounts, PinReturnEff, Ends
  <2> QED BY <2>1, SlackSame
<1>2. \A n \in Mem : RecStays(n)
  BY DEF RecStays, AddrStays, CudaStays, LifeStays, PinReturnEff, Ends
<1>3. \A u \in Thread : FlowStays(u)
  BY DEF FlowStays, MapStays, MapHoldPc, MineStays, RelStays, GonePc, LastPc, RelPc,
     PinReturnEff, Ends
<1>4. memList' \subseteq memList /\ vma' = vma
  BY DEF PinReturnEff
<1> QED BY <1>1, <1>2, <1>3, <1>4, MapQuiet

LEMMA RelUnlinkMap ==
  ASSUME Inv, CtxInv, BaseInv, Races, RaceInv, NoMapUnmap, MapInv, NEW t \in Thread,
         RelUnlinkEff(t)
  PROVE  MapInv'
<1>1. \A n \in Mem : SlackKept(n)
  <2>1. /\ \A u \in Thread : SameHold(u)
        /\ \A n \in Mem : SameCounts(n)
    BY DEF SameHold, HoldPc, SameCounts, RelUnlinkEff, Moves, Keeps
  <2> QED BY <2>1, SlackSame
<1>0. PICK m \in Mem : m = th[t].m
  BY DEF RelUnlinkEff
<1>2. /\ mem' = mem /\ vma' = vma /\ memList' = memList \ {m}
      /\ \A u \in Thread \ {t} : th'[u] = th[u]
      /\ th[t].pc = "rel_unlink" /\ th'[t].pc = "rel_free" /\ th'[t].m = m /\ th'[t].op = th[t].op
  BY <1>0 DEF RelUnlinkEff, Moves, Keeps
<1>3. /\ \A u \in Thread : MapStays(u)
      /\ \A u \in Thread : MineStays(u)
  BY DEF MapStays, MapHoldPc, MineStays, RelUnlinkEff, Moves, Keeps
<1>10. MapsOK'
  BY <1>2, <1>3, MapsFrame DEF MapInv
<1>11. MinesApart'
  BY <1>3, MinesFrame DEF MapInv
<1>12. StaleAddr' /\ LiveAddr'
  BY <1>0, <1>2 DEF MapInv, StaleAddr, LiveAddr
<1>13. FullRefs'
  BY <1>0, <1>1, <1>2 DEF MapInv, FullRefs, SlackKept, LastPc
<1>14. RelsOK'
  <2>1. \A u \in Thread : th'[u].pc \in LastPc => th[u].pc \in LastPc /\ th'[u].m = th[u].m
    BY <1>0, <1>2 DEF LastPc
  <2>2. \A u \in Thread : th'[u].pc \in RelPc => th[u].pc \in RelPc /\ th'[u].op = th[u].op
    BY <1>2 DEF RelPc
  <2>3. \A u \in Thread : th'[u].pc = "unmap_put" => th'[u] = th[u]
    BY <1>2
  <2>4. \A u \in Thread : th'[u].pc \in LastPc => mem'[th'[u].m].heap = "live"
    BY <1>2, <2>1 DEF MapInv, RelsOK
  <2>5. \A u \in Thread : th'[u].pc = "unmap_put" => mem'[th'[u].m].dmas = {}
    BY <1>2, <2>3 DEF MapInv, RelsOK
  <2> QED BY <2>2, <2>4, <2>5 DEF MapInv, RelsOK
<1>15. CbCuda'
  BY <1>2 DEF MapInv, CbCuda
<1> QED BY <1>10, <1>11, <1>12, <1>13, <1>14, <1>15 DEF MapInv

LEMMA RelFreeMap ==
  ASSUME Inv, CtxInv, BaseInv, Races, RaceInv, NoMapUnmap, MapInv, NEW t \in Thread,
         RelFreeEff(t)
  PROVE  MapInv'
<1>1. \A n \in Mem : SlackKept(n)
  <2>1. /\ \A u \in Thread : SameHold(u)
        /\ \A n \in Mem : SameCounts(n)
    BY DEF SameHold, HoldPc, SameCounts, RelFreeEff, Moves, Keeps, Only, SameId
  <2> QED BY <2>1, SlackSame
<1>0. PICK m \in Mem : m = th[t].m
  BY DEF RelFreeEff
<1>2. /\ \A n \in Mem \ {m} : mem'[n] = mem[n]
      /\ mem'[m].heap = "limbo" /\ mem'[m].dmas = mem[m].dmas
      /\ vma' = vma /\ memList' = memList
      /\ \A u \in Thread \ {t} : th'[u] = th[u]
      /\ th[t].pc = "rel_free" /\ th'[t].pc = "rel_ctx" /\ th'[t].m = m /\ th'[t].op = th[t].op
  BY <1>0 DEF RelFreeEff, Moves, Keeps, Only, SameCounts
<1>3. /\ \A u \in Thread : MapStays(u)
      /\ \A u \in Thread : MineStays(u)
  BY DEF MapStays, MapHoldPc, MineStays, RelFreeEff, Moves, Keeps
<1>4. /\ m \notin memList
      /\ \A n \in memList : n \in Mem
  BY <1>0, <1>2, ListTypes DEF CtxInv, Lists
<1>5. \A u \in Thread : th[u].pc \in LastPc /\ th[u].m = m => u = t
  BY <1>0, <1>2 DEF BaseInv, Releases, LastPc
<1>10. MapsOK'
  <2>1. \A n \in Mem : mem[n].dmas \subseteq mem'[n].dmas
    BY <1>2
  <2> QED BY <1>2, <1>3, <2>1, MapsFrame DEF MapInv
<1>11. MinesApart'
  BY <1>3, MinesFrame DEF MapInv
<1>12. StaleAddr' /\ LiveAddr'
  BY <1>0, <1>2, <1>4 DEF MapInv, StaleAddr, LiveAddr
<1>13. FullRefs'
  BY <1>0, <1>1, <1>2 DEF MapInv, FullRefs, SlackKept
<1>14. RelsOK'
  <2>1. \A u \in Thread : th'[u].pc \in LastPc => th'[u].m \in Mem \ {m} /\ th'[u] = th[u]
    BY <1>2, <1>5, ThreadTypes DEF LastPc, NeedsMem
  <2>2. \A u \in Thread : th'[u].pc = "unmap_put" => th'[u].m \in Mem /\ th'[u] = th[u]
    BY <1>2, ThreadTypes DEF NeedsMem
  <2>3. \A u \in Thread : th'[u].pc \in RelPc => th[u].pc \in RelPc /\ th'[u].op = th[u].op
    BY <1>2 DEF RelPc
  <2>4. \A u \in Thread : th'[u].pc \in LastPc => mem'[th'[u].m].heap = "live"
    BY <1>2, <2>1 DEF MapInv, RelsOK
  <2>5. \A n \in Mem : mem'[n].dmas = mem[n].dmas
    BY <1>2
  <2>6. \A u \in Thread : th'[u].pc = "unmap_put" => mem'[th'[u].m].dmas = {}
    BY <2>2, <2>5 DEF MapInv, RelsOK
  <2> QED BY <2>3, <2>4, <2>6 DEF MapInv, RelsOK
<1>15. CbCuda'
  BY <1>2 DEF MapInv, CbCuda
<1> QED BY <1>10, <1>11, <1>12, <1>13, <1>14, <1>15 DEF MapInv

LEMMA RelCtxMap ==
  ASSUME Inv, CtxInv, BaseInv, Races, RaceInv, NoMapUnmap, MapInv, NEW t \in Thread,
         RelCtxEff(t)
  PROVE  MapInv'
<1>1. \A n \in Mem : SlackKept(n)
  <2>1. /\ \A u \in Thread : SameHold(u)
        /\ \A n \in Mem : SameCounts(n)
    BY DEF SameHold, HoldPc, SameCounts, RelCtxEff, Keeps, RelRet
  <2> QED BY <2>1, SlackSame
<1>2. \A n \in Mem : RecStays(n)
  BY DEF RecStays, AddrStays, CudaStays, LifeStays, RelCtxEff, Keeps, RelRet
<1>3. \A u \in Thread : FlowStays(u)
  BY DEF FlowStays, MapStays, MapHoldPc, MineStays, RelStays, GonePc, LastPc, RelPc, RelCtxEff,
         Keeps, RelRet
<1>4. memList' \subseteq memList /\ vma' = vma
  BY DEF RelCtxEff
<1> QED BY <1>1, <1>2, <1>3, <1>4, MapQuiet

LEMMA UnmapStartMap ==
  ASSUME Inv, CtxInv, BaseInv, Races, RaceInv, NoMapUnmap, MapInv, NEW t \in Thread, NEW
         a \in Addr, UnmapStartEff(t, a)
  PROVE  MapInv'
<1>1. \A n \in Mem : SlackKept(n)
  <2>1. /\ \A u \in Thread : SameHold(u)
        /\ \A n \in Mem : SameCounts(n)
    BY DEF SameHold, HoldPc, SameCounts, UnmapStartEff, Starts
  <2> QED BY <2>1, SlackSame
<1>2. \A n \in Mem : RecStays(n)
  BY DEF RecStays, AddrStays, CudaStays, LifeStays, UnmapStartEff, Starts
<1>3. \A u \in Thread : FlowStays(u)
  BY DEF FlowStays, MapStays, MapHoldPc, MineStays, RelStays, GonePc, LastPc, RelPc,
     UnmapStartEff, Starts
<1>4. memList' \subseteq memList /\ vma' = vma
  BY DEF UnmapStartEff
<1> QED BY <1>1, <1>2, <1>3, <1>4, MapQuiet

LEMMA UnmapDoMap ==
  ASSUME Inv, CtxInv, BaseInv, Races, RaceInv, NoMapUnmap, MapInv, NEW t \in Thread,
         UnmapDoEff(t)
  PROVE  MapInv'
<1>1. \A n \in Mem : SlackKept(n)
  <2>0. PICK m \in Mem : m = th[t].m
    BY DEF UnmapDoEff
  <2> QED BY <2>0, UnmapDoSlack
<1>0. PICK m \in Mem : m = th[t].m
  BY DEF UnmapDoEff
<1>2. /\ \A n \in Mem \ {m} : mem'[n] = mem[n]
      /\ mem'[m].dmas = {} /\ SameUse(m) /\ memList' = memList
      /\ \A u \in Thread \ {t} : th'[u] = th[u]
      /\ th[t].pc = "unmap_do" /\ th'[t].pc = "unmap_put" /\ th'[t].m = m
      /\ th'[t].op = th[t].op /\ th'[t].mine = th[t].mine
  BY <1>0 DEF UnmapDoEff, Moves, Keeps, Only
<1>3. th[t].op = "unmap"
  BY <1>2 DEF CtxInv, Ops, OpOK
<1>4. \A u \in Thread : th'[u].op # "map"
  BY <1>2, <1>3, MapApart
<1>5. PICK x \in Addr : x = th[t].a /\ vma[x].m = m
  BY <1>0, <1>2 DEF RaceInv, NameInv, UnmapsOK
<1>6. /\ \A a \in Addr \ {x} : vma'[a] = vma[a]
      /\ vma'[x].m = NULL
  BY <1>5, NoVmaFields DEF UnmapDoEff
<1>7. \A n \in Mem : SameUse(n)
  BY <1>2 DEF SameUse
<1>8. /\ \A u \in Thread : th[u].pc \in GonePc => th'[u] = th[u]
      /\ \A u \in Thread : th'[u].pc \in GonePc => u = t \/ (th'[u] = th[u] /\ th[u].m \in Mem)
  BY <1>2, ThreadTypes DEF GonePc, LastPc, NeedsMem
<1>10. MapsOK'
  BY <1>4 DEF MapsOK
<1>11. MinesApart'
  <2>1. \A u \in Thread : MineStays(u)
    BY <1>2 DEF MineStays
  <2> QED BY <2>1, MinesFrame DEF MapInv
<1>12. StaleAddr' /\ LiveAddr'
  <2>1. StaleAddr'
    BY <1>2, <1>6, <1>7, ListTypes DEF MapInv, StaleAddr, SameUse
  <2>2. LiveAddr'
    <3> SUFFICES ASSUME NEW n \in memList, mem[n].state = "LIVE"
                 PROVE  /\ mem[n].vaddr \in Addr
                        /\ \/ vma'[mem[n].vaddr].m = n
                           \/ \E u \in Thread : /\ th'[u].pc \in {"unmap_put", "rel_unlink"}
                                                /\ th'[u].m = n
      BY <1>2, <1>7, ListTypes DEF LiveAddr, SameUse
    <3>1. \A u \in Thread : th[u].pc \in {"unmap_put", "rel_unlink"} => th'[u] = th[u]
      BY <1>8 DEF GonePc, LastPc
    <3>2. CASE mem[n].vaddr = x /\ vma[x].m = n
      BY <1>2, <1>5, <3>2
    <3>3. /\ mem[n].vaddr \in Addr
          /\ \/ vma[mem[n].vaddr].m = n
             \/ \E u \in Thread : th[u].pc \in {"unmap_put", "rel_unlink"} /\ th[u].m = n
      BY DEF MapInv, LiveAddr
    <3>4. CASE \E u \in Thread : th[u].pc \in {"unmap_put", "rel_unlink"} /\ th[u].m = n
      BY <3>1, <3>3, <3>4
    <3>5. CASE vma[mem[n].vaddr].m = n /\ mem[n].vaddr # x
      BY <1>6, <3>3, <3>5
    <3> QED BY <3>2, <3>3, <3>4, <3>5
  <2> QED BY <2>1, <2>2
<1>13. FullRefs'
  BY <1>1, <1>7, <1>8 DEF MapInv, FullRefs, SlackKept, SameUse, GonePc
<1>14. RelsOK'
  <2>1. \A u \in Thread : th'[u].pc \in LastPc => th'[u] = th[u] /\ th[u].m \in Mem
    BY <1>2, <1>8 DEF GonePc, LastPc
  <2>2. \A u \in Thread : th'[u].pc = "unmap_put" => mem'[th'[u].m].dmas = {}
    <3> SUFFICES ASSUME NEW u \in Thread, th'[u].pc = "unmap_put" PROVE mem'[th'[u].m].dmas = {}
      OBVIOUS
    <3>1. CASE u = t
      BY <1>2, <3>1
    <3>2. CASE u # t
      <4>1. th'[u] = th[u] /\ th[u].m \in Mem
        BY <1>8, <3>2 DEF GonePc
      <4>2. mem[th[u].m].dmas = {}
        BY <4>1 DEF MapInv, RelsOK
      <4> QED BY <1>2, <4>1, <4>2
    <3> QED BY <3>1, <3>2
  <2>3. \A u \in Thread : th'[u].pc \in RelPc => th'[u] = th[u]
    BY <1>2 DEF RelPc
  <2>4. \A u \in Thread : th'[u].pc \in LastPc => mem'[th'[u].m].heap = "live"
    <3>1. \A n \in Mem : mem'[n].heap = mem[n].heap
      BY <1>7 DEF SameUse
    <3> QED BY <2>1, <3>1 DEF MapInv, RelsOK
  <2>5. \A u \in Thread : th'[u].pc \in RelPc => th'[u].op = "unmap"
    BY <2>3 DEF MapInv, RelsOK
  <2> QED BY <2>2, <2>4, <2>5 DEF RelsOK
<1>15. CbCuda'
  BY <1>7 DEF MapInv, CbCuda, SameUse
<1> QED BY <1>10, <1>11, <1>12, <1>13, <1>14, <1>15 DEF MapInv

LEMMA UnmapReturnMap ==
  ASSUME Inv, CtxInv, BaseInv, Races, RaceInv, NoMapUnmap, MapInv, NEW t \in Thread,
         UnmapReturnEff(t)
  PROVE  MapInv'
<1>1. \A n \in Mem : SlackKept(n)
  <2>1. /\ \A u \in Thread : SameHold(u)
        /\ \A n \in Mem : SameCounts(n)
    BY DEF SameHold, HoldPc, SameCounts, UnmapReturnEff, Ends
  <2> QED BY <2>1, SlackSame
<1>2. \A n \in Mem : RecStays(n)
  BY DEF RecStays, AddrStays, CudaStays, LifeStays, UnmapReturnEff, Ends
<1>3. \A u \in Thread : FlowStays(u)
  BY DEF FlowStays, MapStays, MapHoldPc, MineStays, RelStays, GonePc, LastPc, RelPc,
     UnmapReturnEff, Ends
<1>4. memList' \subseteq memList /\ vma' = vma
  BY DEF UnmapReturnEff
<1> QED BY <1>1, <1>2, <1>3, <1>4, MapQuiet

LEMMA SplitVmaMap ==
  ASSUME Inv, CtxInv, BaseInv, Races, RaceInv, NoMapUnmap, MapInv, NEW a \in Addr, NEW b
         \in Addr, SplitVmaEff(a, b)
  PROVE  MapInv'
<1> QED BY DEF Races, SplitVmaEff

LEMMA CloseStartMap ==
  ASSUME Inv, CtxInv, BaseInv, Races, RaceInv, NoMapUnmap, MapInv, NEW t \in Thread, NEW
         f \in File, CloseStartEff(t, f)
  PROVE  MapInv'
<1>1. \A n \in Mem : SlackKept(n)
  <2>1. /\ \A u \in Thread : SameHold(u)
        /\ \A n \in Mem : SameCounts(n)
    BY DEF SameHold, HoldPc, SameCounts, CloseStartEff, Starts
  <2> QED BY <2>1, SlackSame
<1>2. \A n \in Mem : RecStays(n)
  BY DEF RecStays, AddrStays, CudaStays, LifeStays, CloseStartEff, Starts
<1>3. \A u \in Thread : FlowStays(u)
  BY DEF FlowStays, MapStays, MapHoldPc, MineStays, RelStays, GonePc, LastPc, RelPc,
     CloseStartEff, Starts
<1>4. memList' \subseteq memList /\ vma' = vma
  BY DEF CloseStartEff
<1> QED BY <1>1, <1>2, <1>3, <1>4, MapQuiet

LEMMA CloseDoMap ==
  ASSUME Inv, CtxInv, BaseInv, Races, RaceInv, NoMapUnmap, MapInv, NEW t \in Thread,
         CloseDoEff(t)
  PROVE  MapInv'
<1>1. \A n \in Mem : SlackKept(n)
  <2>1. /\ \A u \in Thread : SameHold(u)
        /\ \A n \in Mem : SameCounts(n)
    BY DEF SameHold, HoldPc, SameCounts, CloseDoEff, Moves, Keeps, SameId
  <2> QED BY <2>1, SlackSame
<1>2. \A n \in Mem : RecStays(n)
  <2>1. \A u \in Thread : th[u].pc \in LastPc => th[u].m \notin Stale
    <3>1. \A u \in Thread : th[u].pc = "rel_unlink" => th[u].m \notin Stale
      BY ReleasedUnused DEF Token, Stale
    <3>2. \A u \in Thread : th[u].pc = "rel_free" => th[u].m \notin Stale
      BY DEF CtxInv, Lists, Stale
    <3> QED BY <3>1, <3>2 DEF LastPc
  <2>2. \A n \in Stale : ~Released(n)
    BY <2>1 DEF Released
  <2> QED BY <2>2 DEF RecStays, AddrStays, CudaStays, LifeStays, CloseDoEff, SameCounts
<1>3. \A u \in Thread : FlowStays(u)
  BY DEF FlowStays, MapStays, MapHoldPc, MineStays, RelStays, GonePc, LastPc, RelPc,
     CloseDoEff, Moves, Keeps
<1>4. memList' \subseteq memList /\ vma' = vma
  BY DEF CloseDoEff
<1> QED BY <1>1, <1>2, <1>3, <1>4, MapQuiet

LEMMA CloseReturnMap ==
  ASSUME Inv, CtxInv, BaseInv, Races, RaceInv, NoMapUnmap, MapInv, NEW t \in Thread,
         CloseReturnEff(t)
  PROVE  MapInv'
<1>1. \A n \in Mem : SlackKept(n)
  <2>1. /\ \A u \in Thread : SameHold(u)
        /\ \A n \in Mem : SameCounts(n)
    BY DEF SameHold, HoldPc, SameCounts, CloseReturnEff, Ends
  <2> QED BY <2>1, SlackSame
<1>2. \A n \in Mem : RecStays(n)
  BY DEF RecStays, AddrStays, CudaStays, LifeStays, CloseReturnEff, Ends
<1>3. \A u \in Thread : FlowStays(u)
  BY DEF FlowStays, MapStays, MapHoldPc, MineStays, RelStays, GonePc, LastPc, RelPc,
     CloseReturnEff, Ends
<1>4. memList' \subseteq memList /\ vma' = vma
  BY DEF CloseReturnEff
<1> QED BY <1>1, <1>2, <1>3, <1>4, MapQuiet

LEMMA MapStartMap ==
  ASSUME Inv, CtxInv, BaseInv, Races, RaceInv, NoMapUnmap, MapInv, NEW t \in Thread, NEW
         f \in File, NEW a, MayMap(a), MapStartEff(t, f, a)
  PROVE  MapInv'
<1>1. \A n \in Mem : SlackKept(n)
  <2>1. /\ \A u \in Thread : SameHold(u)
        /\ \A n \in Mem : SameCounts(n)
    BY DEF SameHold, HoldPc, SameCounts, MapStartEff, Starts
  <2> QED BY <2>1, SlackSame
<1>2. mem' = mem /\ vma' = vma /\ memList' = memList
  BY DEF MapStartEff
<1>3. /\ \A u \in Thread : MineStays(u)
      /\ \A u \in Thread : RelStays(u)
  BY DEF MineStays, RelStays, GonePc, LastPc, RelPc, MapStartEff, Starts
<1>4. /\ \A n \in Mem : AddrStays(n)
      /\ \A n \in Mem : LifeStays(n)
      /\ \A n \in Mem : mem'[n].dmas = mem[n].dmas
      /\ \A n \in Mem : mem'[n].heap = mem[n].heap
  BY <1>2 DEF AddrStays, LifeStays
<1>5. vma[a].m # NULL
  BY VmaTypes, NullOut DEF MayMap, Races
<1>10. MapsOK'
  <2>1. \A u \in Thread \ {t} : th'[u] = th[u]
    BY DEF MapStartEff, Starts
  <2>2. th'[t].a = a /\ th'[t].pc \notin MapHoldPc /\ Elems(th'[t].mine) = {}
    BY DEF MapStartEff, Starts, MapHoldPc, Elems
  <2> QED BY <1>2, <1>5, <2>1, <2>2 DEF MapInv, MapsOK
<1>11. MinesApart'
  BY <1>3, MinesFrame DEF MapInv
<1>12. StaleAddr' /\ LiveAddr'
  BY <1>2, <1>3, <1>4, AddrFrame DEF MapInv
<1>13. FullRefs'
  BY <1>1, <1>3, <1>4, FullFrame DEF MapInv
<1>14. RelsOK'
  BY <1>3, <1>4, RelsFrame DEF MapInv
<1>15. CbCuda'
  BY <1>2 DEF MapInv, CbCuda
<1> QED BY <1>10, <1>11, <1>12, <1>13, <1>14, <1>15 DEF MapInv

LEMMA MapLockMap ==
  ASSUME Inv, CtxInv, BaseInv, Races, RaceInv, NoMapUnmap, MapInv, NEW t \in Thread,
         MapLockEff(t)
  PROVE  MapInv'
<1>1. \A n \in Mem : SlackKept(n)
  <2>1. /\ \A u \in Thread : SameHold(u)
        /\ \A n \in Mem : SameCounts(n)
    BY DEF SameHold, HoldPc, SameCounts, MapLockEff, Looks
  <2> QED BY <2>1, SlackSame
<1>2. \A n \in Mem : RecStays(n)
  BY DEF RecStays, AddrStays, CudaStays, LifeStays, MapLockEff, Looks
<1>3. \A u \in Thread : FlowStays(u)
  BY DEF FlowStays, MapStays, MapHoldPc, MineStays, RelStays, GonePc, LastPc, RelPc,
     MapLockEff, Looks
<1>4. memList' \subseteq memList /\ vma' = vma
  BY DEF MapLockEff
<1> QED BY <1>1, <1>2, <1>3, <1>4, MapQuiet

LEMMA WalkMatchMap ==
  ASSUME Inv, CtxInv, BaseInv, Races, RaceInv, NoMapUnmap, MapInv, NEW t \in Thread,
         WalkMatchEff(t)
  PROVE  MapInv'
<1>1. \A n \in Mem : SlackKept(n)
  <2>0. PICK m \in Mem : m = th[t].m
    BY DEF WalkMatchEff
  <2>1. /\ RefTo(m, mem[m].ref + 1) /\ \A u \in Thread \ {t} : th'[u] = th[u]
        /\ th[t].pc \notin HoldPc /\ th'[t].pc \in HoldPc /\ th'[t].m = m
    BY <2>0 DEF WalkMatchEff, HoldPc
  <2> QED BY <2>1, GetSlack
<1>0. PICK m \in Mem : m = th[t].m
  BY DEF WalkMatchEff
<1>2. /\ \A n \in Mem : AddrStays(n)
      /\ \A n \in Mem : CudaStays(n)
      /\ \A n \in Mem : LifeStays(n)
      /\ \A n \in Mem : mem'[n].dmas = mem[n].dmas
      /\ \A n \in Mem : mem'[n].heap = mem[n].heap
  <2>1. \A n \in Mem : AddrStays(n)
    BY DEF AddrStays, WalkMatchEff, RefTo, Only, SameUse
  <2>2. \A n \in Mem : CudaStays(n)
    BY DEF CudaStays, WalkMatchEff, RefTo, Only, SameUse
  <2>3. \A n \in Mem : LifeStays(n)
    BY DEF LifeStays, WalkMatchEff, RefTo, Only, SameUse
  <2>4. \A n \in Mem : mem'[n].dmas = mem[n].dmas
    BY DEF WalkMatchEff, RefTo, Only, SameUse
  <2>5. \A n \in Mem : mem'[n].heap = mem[n].heap
    BY DEF WalkMatchEff, RefTo, Only, SameUse
  <2> QED BY <2>1, <2>2, <2>3, <2>4, <2>5
<1>3. /\ \A u \in Thread : MineStays(u)
      /\ \A u \in Thread : RelStays(u)
  BY DEF MineStays, RelStays, GonePc, LastPc, RelPc, WalkMatchEff
<1>4. memList' = memList /\ vma' = vma
  BY DEF WalkMatchEff
<1>5. th[t].op = "map"
  BY DEF CtxInv, Ops, OpOK, WalkMatchEff
<1>6. m = vma[th[t].a].m
  <2>1. m \in memList
    BY <1>0, NullOut DEF CtxInv, Walks, WalkMatchEff
  <2>2. mem[m].vaddr = th[t].a /\ mem[m].state \in {"STALE", "LIVE"}
    BY <1>0, MemTypes DEF WalkMatchEff, Matches
  <2>3. th[t].a \in Addr /\ vma[th[t].a].m # NULL
    BY <1>5 DEF RaceInv, NameInv, MapAddrs, MapInv, MapsOK
  <2>4. mem[m].state = "LIVE"
    BY <2>1, <2>2, <2>3 DEF MapInv, StaleAddr
  <2>5. \A u \in Thread : th[u].pc \notin {"unmap_put", "rel_unlink"}
    <3>1. \A u \in Thread : th[u].pc # "unmap_put"
      BY <1>5, MapApart DEF CtxInv, Ops, OpOK
    <3> QED BY <1>5, <3>1, NoRelease DEF RelPc
  <2> QED BY <2>1, <2>2, <2>4, <2>5 DEF MapInv, LiveAddr
<1>10. MapsOK'
  <2> SUFFICES ASSUME NEW u \in Thread, th'[u].op = "map"
               PROVE  /\ vma[th'[u].a].m # NULL
                      /\ th'[u].pc \in MapHoldPc => th'[u].m = vma[th'[u].a].m
                      /\ Elems(th'[u].mine) \subseteq mem'[vma[th'[u].a].m].dmas
    BY <1>4 DEF MapsOK
  <2>1. th[u].op = "map" /\ th'[u].a = th[u].a /\ th'[u].mine = th[u].mine
    BY DEF WalkMatchEff
  <2>2. PICK n \in Mem : n = vma[th[u].a].m
    BY <2>1, MapMem
  <2>3. vma[th[u].a].m # NULL /\ Elems(th[u].mine) \subseteq mem'[n].dmas
    BY <1>2, <2>1, <2>2 DEF MapInv, MapsOK
  <2>4. th'[u].pc \in MapHoldPc => th'[u].m = vma[th'[u].a].m
    <3>1. CASE u = t
      BY <1>0, <1>6, <2>1, <3>1 DEF WalkMatchEff
    <3>2. CASE u # t
      BY <2>1, <3>2 DEF MapInv, MapsOK, WalkMatchEff
    <3> QED BY <3>1, <3>2
  <2> QED BY <2>1, <2>2, <2>3, <2>4
<1>11. MinesApart'
  BY <1>3, MinesFrame DEF MapInv
<1>12. StaleAddr' /\ LiveAddr'
  BY <1>2, <1>3, <1>4, AddrFrame DEF MapInv
<1>13. FullRefs'
  BY <1>1, <1>2, <1>3, FullFrame DEF MapInv
<1>14. RelsOK'
  BY <1>2, <1>3, RelsFrame DEF MapInv
<1>15. CbCuda'
  BY <1>2, CudaFrame DEF MapInv
<1> QED BY <1>10, <1>11, <1>12, <1>13, <1>14, <1>15 DEF MapInv

LEMMA WalkSkipMap ==
  ASSUME Inv, CtxInv, BaseInv, Races, RaceInv, NoMapUnmap, MapInv, NEW t \in Thread,
         WalkSkipEff(t)
  PROVE  MapInv'
<1>1. \A n \in Mem : SlackKept(n)
  <2>0. PICK m \in Mem : m = th[t].m
    BY DEF WalkSkipEff
  <2>1. /\ RefTo(m, mem[m].ref + 1) /\ \A u \in Thread \ {t} : th'[u] = th[u]
        /\ th[t].pc \notin HoldPc /\ th'[t].pc \in HoldPc /\ th'[t].m = m
    BY <2>0 DEF WalkSkipEff, HoldPc, Moves, Keeps
  <2> QED BY <2>1, GetSlack
<1>2. \A n \in Mem : RecStays(n)
  BY DEF RecStays, AddrStays, CudaStays, LifeStays, WalkSkipEff, Moves, Keeps, RefTo,
     Only, SameUse, SameId
<1>3. \A u \in Thread : FlowStays(u)
  BY DEF FlowStays, MapStays, MapHoldPc, MineStays, RelStays, GonePc, LastPc, RelPc,
     WalkSkipEff, Moves, Keeps
<1>4. memList' \subseteq memList /\ vma' = vma
  BY DEF WalkSkipEff
<1> QED BY <1>1, <1>2, <1>3, <1>4, MapQuiet

LEMMA WalkPutMap ==
  ASSUME Inv, CtxInv, BaseInv, Races, RaceInv, NoMapUnmap, MapInv, NEW t \in Thread,
         WalkPutEff(t)
  PROVE  MapInv'
<1>1. \A n \in Mem : SlackKept(n)
  <2>0. PICK m \in Mem : m = th[t].m
    BY DEF WalkPutEff
  <2>1. mem[m].ref > 1 /\ mem[m].ref \in Nat
    BY <2>0, MemTypes DEF WalkPutEff
  <2>2. /\ RefTo(m, mem[m].ref - 1) /\ mem[m].ref > 0
        /\ \A u \in Thread \ {t} : th'[u] = th[u]
        /\ th[t].pc \in HoldPc /\ th'[t].pc \notin HoldPc /\ th[t].m = m
    BY <2>0, <2>1 DEF WalkPutEff, Looks, HoldPc
  <2> QED BY <2>2, PutSlack
<1>2. \A n \in Mem : RecStays(n)
  BY DEF RecStays, AddrStays, CudaStays, LifeStays, WalkPutEff, Looks, RefTo, Only,
     SameUse, SameId
<1>3. \A u \in Thread : FlowStays(u)
  BY DEF FlowStays, MapStays, MapHoldPc, MineStays, RelStays, GonePc, LastPc, RelPc,
     WalkPutEff, Looks
<1>4. memList' \subseteq memList /\ vma' = vma
  BY DEF WalkPutEff
<1> QED BY <1>1, <1>2, <1>3, <1>4, MapQuiet

LEMMA WalkEndMap ==
  ASSUME Inv, CtxInv, BaseInv, Races, RaceInv, NoMapUnmap, MapInv, NEW t \in Thread,
         WalkEndEff(t)
  PROVE  MapInv'
<1>1. \A n \in Mem : SlackKept(n)
  <2>1. /\ \A u \in Thread : SameHold(u)
        /\ \A n \in Mem : SameCounts(n)
    BY DEF SameHold, HoldPc, SameCounts, WalkEndEff, Moves, Keeps
  <2> QED BY <2>1, SlackSame
<1>2. \A n \in Mem : RecStays(n)
  BY DEF RecStays, AddrStays, CudaStays, LifeStays, WalkEndEff, Moves, Keeps
<1>3. \A u \in Thread : FlowStays(u)
  BY DEF FlowStays, MapStays, MapHoldPc, MineStays, RelStays, GonePc, LastPc, RelPc,
     WalkEndEff, Moves, Keeps
<1>4. memList' \subseteq memList /\ vma' = vma
  BY DEF WalkEndEff
<1> QED BY <1>1, <1>2, <1>3, <1>4, MapQuiet

LEMMA MapAllocMap ==
  ASSUME Inv, CtxInv, BaseInv, Races, RaceInv, NoMapUnmap, MapInv, NEW t \in Thread, NEW
         d \in Dma, MapAllocEff(t, d)
  PROVE  MapInv'
<1>1. \A n \in Mem : SlackKept(n)
  <2>1. /\ \A u \in Thread : SameHold(u)
        /\ \A n \in Mem : SameCounts(n)
    BY DEF SameHold, HoldPc, SameCounts, MapAllocEff
  <2> QED BY <2>1, SlackSame
<1>2. \A n \in Mem : RecStays(n)
  BY DEF RecStays, AddrStays, CudaStays, LifeStays, MapAllocEff
<1>3. \A u \in Thread : FlowStays(u)
  BY DEF FlowStays, MapStays, MapHoldPc, MineStays, RelStays, GonePc, LastPc, RelPc,
     MapAllocEff
<1>4. memList' \subseteq memList /\ vma' = vma
  BY DEF MapAllocEff
<1> QED BY <1>1, <1>2, <1>3, <1>4, MapQuiet

LEMMA MapDmaMap ==
  ASSUME Inv, CtxInv, BaseInv, Races, RaceInv, NoMapUnmap, MapInv, NEW t \in Thread,
         MapDmaEff(t)
  PROVE  MapInv'
<1>1. \A n \in Mem : SlackKept(n)
  <2>1. /\ \A u \in Thread : SameHold(u)
        /\ \A n \in Mem : SameCounts(n)
    BY DEF SameHold, HoldPc, SameCounts, MapDmaEff, Moves, Keeps
  <2> QED BY <2>1, SlackSame
<1>2. \A n \in Mem : RecStays(n)
  BY DEF RecStays, AddrStays, CudaStays, LifeStays, MapDmaEff, Moves, Keeps
<1>3. \A u \in Thread : FlowStays(u)
  BY DEF FlowStays, MapStays, MapHoldPc, MineStays, RelStays, GonePc, LastPc, RelPc,
     MapDmaEff, Moves, Keeps
<1>4. memList' \subseteq memList /\ vma' = vma
  BY DEF MapDmaEff
<1> QED BY <1>1, <1>2, <1>3, <1>4, MapQuiet

LEMMA MapFailsMap ==
  ASSUME Inv, CtxInv, BaseInv, Races, RaceInv, NoMapUnmap, MapInv, NEW t \in Thread,
         MapFailsEff(t)
  PROVE  MapInv'
<1>1. \A n \in Mem : SlackKept(n)
  <2>1. /\ \A u \in Thread : SameHold(u)
        /\ \A n \in Mem : SameCounts(n)
    BY DEF SameHold, HoldPc, SameCounts, MapFailsEff, Moves, Keeps, DmaPc
  <2> QED BY <2>1, SlackSame
<1>2. \A n \in Mem : RecStays(n)
  BY DEF RecStays, AddrStays, CudaStays, LifeStays, MapFailsEff, Moves, Keeps, DmaPc
<1>3. \A u \in Thread : FlowStays(u)
  BY DEF FlowStays, MapStays, MapHoldPc, MineStays, RelStays, GonePc, LastPc, RelPc,
     MapFailsEff, Moves, Keeps, DmaPc
<1>4. memList' \subseteq memList /\ vma' = vma
  BY DEF MapFailsEff
<1> QED BY <1>1, <1>2, <1>3, <1>4, MapQuiet

LEMMA MapLinkMap ==
  ASSUME Inv, CtxInv, BaseInv, Races, RaceInv, NoMapUnmap, MapInv, NEW t \in Thread,
         MapLinkEff(t)
  PROVE  MapInv'
<1>1. \A n \in Mem : SlackKept(n)
  <2>0. PICK m \in Mem : m = th[t].m
    BY DEF MapLinkEff
  <2> QED BY <2>0, MapLinkSlack
<1>0. PICK m \in Mem, d \in Dma : m = th[t].m /\ d = th[t].d
  BY DEF MapLinkEff
<1>2. /\ \A n \in Mem \ {m} : mem'[n] = mem[n]
      /\ mem'[m].dmas = mem[m].dmas \cup {d} /\ SameUse(m)
      /\ memList' = memList /\ vma' = vma
      /\ \A u \in Thread \ {t} : th'[u] = th[u]
      /\ th'[t].op = th[t].op /\ th'[t].a = th[t].a
      /\ th[t].pc = "map_link" /\ th'[t].pc \notin MapHoldPc
  BY <1>0 DEF MapLinkEff, Only, Pushes, MapHoldPc
<1>3. th[t].op = "map"
  BY <1>2 DEF CtxInv, Ops, OpOK
<1>9. th'[t].mine = <<d>> \o th[t].mine /\ th[t].mine \in Seq(Dma)
  BY <1>0, MineTypes DEF MapLinkEff, Pushes
<1>4. m = vma[th[t].a].m
  BY <1>0, <1>2, <1>3 DEF MapInv, MapsOK, MapHoldPc
<1>5. \A u \in Thread : RelStays(u)
  BY DEF RelStays, GonePc, LastPc, RelPc, MapLinkEff
<1>6. \A n \in Mem : SameUse(n)
  BY <1>2 DEF SameUse
<1>7. /\ \A n \in Mem : AddrStays(n)
      /\ \A n \in Mem : CudaStays(n)
      /\ \A n \in Mem : mem'[n].heap = mem[n].heap
  BY <1>6 DEF SameUse, AddrStays, CudaStays
<1>10. MapsOK'
  <2> SUFFICES ASSUME NEW u \in Thread, th'[u].op = "map"
               PROVE  /\ vma[th'[u].a].m # NULL
                      /\ th'[u].pc \in MapHoldPc => th'[u].m = vma[th'[u].a].m
                      /\ Elems(th'[u].mine) \subseteq mem'[vma[th'[u].a].m].dmas
    BY <1>2 DEF MapsOK
  <2>1. th[u].op = "map" /\ th'[u].a = th[u].a
    BY <1>2
  <2>2. PICK n \in Mem : n = vma[th[u].a].m
    BY <2>1, MapMem
  <2>3. n # NULL /\ Elems(th[u].mine) \subseteq mem[n].dmas
    BY <2>1, <2>2 DEF MapInv, MapsOK
  <2>4. th'[u].pc \in MapHoldPc => th'[u].m = n
    BY <1>2, <2>1, <2>2 DEF MapInv, MapsOK
  <2>5. Elems(th'[u].mine) \subseteq mem'[n].dmas
    <3>1. CASE u = t
      <4>1. Elems(th'[t].mine) \subseteq {d} \cup Elems(th[t].mine)
        BY <1>9, ElemsCons
      <4> QED BY <1>2, <1>4, <2>2, <2>3, <3>1, <4>1
    <3>2. CASE u # t
      BY <1>2, <2>3, <3>2
    <3> QED BY <3>1, <3>2
  <2> QED BY <2>1, <2>2, <2>3, <2>4, <2>5
<1>11. MinesApart'
  <2>1. \A u \in Thread : d \notin Elems(th[u].mine)
    BY <1>0, <1>2 DEF Inv, DmaInv, InFlight, DmaPc
  <2>2. \A i \in 1 .. Len(th'[t].mine) :
          \/ i = 1 /\ th'[t].mine[i] = d
          \/ i # 1 /\ i - 1 \in 1 .. Len(th[t].mine) /\ th'[t].mine[i] = th[t].mine[i - 1]
    BY <1>9, ConsIndex
  <2>3. \A u \in Thread : \A i \in 1 .. Len(th[u].mine) : th[u].mine[i] # d
    BY <2>1 DEF Elems
  <2> SUFFICES ASSUME NEW u \in Thread, NEW v \in Thread, NEW i \in 1 .. Len(th'[u].mine),
                      NEW j \in 1 .. Len(th'[v].mine), th'[u].mine[i] = th'[v].mine[j]
               PROVE  u = v /\ i = j
    BY DEF MinesApart
  <2>4. CASE u = t /\ v = t
    <3>0. \A k \in 1 .. Len(th'[t].mine) : th'[t].mine[k] = d <=> k = 1
      <4> SUFFICES ASSUME NEW k \in 1 .. Len(th'[t].mine)
                   PROVE  th'[t].mine[k] = d <=> k = 1
        OBVIOUS
      <4>1. CASE k = 1
        <5>1. th'[t].mine[k] = d
          BY <2>2, <4>1
        <5> QED BY <4>1, <5>1
      <4>2. CASE k # 1
        <5>1. k - 1 \in 1 .. Len(th[t].mine) /\ th'[t].mine[k] = th[t].mine[k - 1]
          BY <2>2, <4>2
        <5>2. th[t].mine[k - 1] # d
          BY <2>3, <5>1
        <5> QED BY <4>2, <5>1, <5>2
      <4> QED BY <4>1, <4>2
    <3>1. CASE i = 1
      BY <2>4, <3>0, <3>1
    <3>2. CASE j = 1
      BY <2>4, <3>0, <3>2
    <3>3. CASE i # 1 /\ j # 1
      <4>1. /\ i - 1 \in 1 .. Len(th[t].mine) /\ j - 1 \in 1 .. Len(th[t].mine)
            /\ th[t].mine[i - 1] = th[t].mine[j - 1]
        BY <2>2, <2>4, <3>3
      <4>2. i - 1 = j - 1
        BY SMTT(30), <4>1 DEF MapInv, MinesApart
      <4> QED BY <2>4, <4>2
    <3> QED BY <3>1, <3>2, <3>3
  <2>5. CASE u = t /\ v # t
    <3>0. th'[v].mine = th[v].mine
      BY <1>2, <2>5
    <3>1. CASE i = 1
      BY <2>2, <2>3, <2>5, <3>0, <3>1
    <3>2. CASE i # 1
      <4>1. i - 1 \in 1 .. Len(th[t].mine) /\ th[t].mine[i - 1] = th[v].mine[j]
        BY <2>2, <2>5, <3>0, <3>2
      <4> QED BY <2>5, <3>0, <4>1 DEF MapInv, MinesApart
    <3> QED BY <3>1, <3>2
  <2>6. CASE u # t /\ v = t
    <3>0. th'[u].mine = th[u].mine
      BY <1>2, <2>6
    <3>1. CASE j = 1
      BY <2>2, <2>3, <2>6, <3>0, <3>1
    <3>2. CASE j # 1
      <4>1. j - 1 \in 1 .. Len(th[t].mine) /\ th[u].mine[i] = th[t].mine[j - 1]
        BY <2>2, <2>6, <3>0, <3>2
      <4> QED BY <2>6, <3>0, <4>1 DEF MapInv, MinesApart
    <3> QED BY <3>1, <3>2
  <2>7. CASE u # t /\ v # t
    <3>1. th'[u].mine = th[u].mine /\ th'[v].mine = th[v].mine
      BY <1>2, <2>7
    <3> QED BY <3>1 DEF MapInv, MinesApart
  <2> QED BY <2>4, <2>5, <2>6, <2>7
<1>12. StaleAddr' /\ LiveAddr'
  BY <1>2, <1>5, <1>7, AddrFrame DEF MapInv
<1>13. FullRefs'
  BY <1>1, <1>5, <1>7, FullFrame DEF MapInv
<1>14. RelsOK'
  <2>1. \A u \in Thread : th[u].pc \notin RelPc /\ th[u].pc # "unmap_put"
    BY <1>3, NoRelease, MapApart DEF CtxInv, Ops, OpOK
  <2>2. \A u \in Thread : th'[u].pc \notin RelPc /\ th'[u].pc # "unmap_put"
    BY <1>5, <2>1 DEF RelStays, GonePc, LastPc, RelPc
  <2> QED BY <2>2 DEF RelsOK, RelPc, LastPc
<1>15. CbCuda'
  BY <1>7, CudaFrame DEF MapInv
<1> QED BY <1>10, <1>11, <1>12, <1>13, <1>14, <1>15 DEF MapInv

LEMMA MapReturnMap ==
  ASSUME Inv, CtxInv, BaseInv, Races, RaceInv, NoMapUnmap, MapInv, NEW t \in Thread,
         MapReturnEff(t)
  PROVE  MapInv'
<1>1. \A n \in Mem : SlackKept(n)
  <2>1. /\ \A u \in Thread : SameHold(u)
        /\ \A n \in Mem : SameCounts(n)
    BY DEF SameHold, HoldPc, SameCounts, MapReturnEff, Ends
  <2> QED BY <2>1, SlackSame
<1>2. \A n \in Mem : RecStays(n)
  BY DEF RecStays, AddrStays, CudaStays, LifeStays, MapReturnEff, Ends
<1>3. \A u \in Thread : FlowStays(u)
  BY DEF FlowStays, MapStays, MapHoldPc, MineStays, RelStays, GonePc, LastPc, RelPc,
     MapReturnEff, Ends
<1>4. memList' \subseteq memList /\ vma' = vma
  BY DEF MapReturnEff
<1> QED BY <1>1, <1>2, <1>3, <1>4, MapQuiet

LEMMA MapUndoMap ==
  ASSUME Inv, CtxInv, BaseInv, Races, RaceInv, NoMapUnmap, MapInv, NEW t \in Thread, NEW
         d, NEW m, MapUndoEff(t, d, m)
  PROVE  MapInv'
<1>1. \A n \in Mem : SlackKept(n)
  BY MapUndoSlack
<1>2. /\ m \in Mem /\ d \in Dma
      /\ \A n \in Mem \ {m} : mem'[n] = mem[n]
      /\ mem'[m].dmas = mem[m].dmas \ {d} /\ SameUse(m)
      /\ memList' = memList /\ vma' = vma
      /\ \A u \in Thread \ {t} : th'[u] = th[u]
      /\ th'[t].op = th[t].op /\ th'[t].a = th[t].a /\ th'[t].m = m
      /\ th[t].pc = "map_undo" /\ th'[t].pc = "map_put"
      /\ d \in Elems(th[t].mine) /\ m = dma[d].mem
  BY DEF MapUndoEff, Only, Pops
<1>0. /\ th[t].mine \in Seq(Dma) /\ th[t].mine # <<>> /\ th'[t].mine = Tail(th[t].mine)
      /\ d = Head(th[t].mine)
  BY MineTypes DEF MapUndoEff, Pops
<1>3. th[t].op = "map"
  BY <1>2 DEF CtxInv, Ops, OpOK
<1>4. m = vma[th[t].a].m
  <2>1. PICK n \in Mem : n = vma[th[t].a].m
    BY <1>3, MapMem
  <2>2. d \in mem[n].dmas
    BY <1>2, <1>3, <2>1 DEF MapInv, MapsOK
  <2> QED BY <1>2, <2>1, <2>2 DEF Inv, DmaInv, DmaListsSound
<1>5. \A u \in Thread : RelStays(u)
  BY DEF RelStays, GonePc, LastPc, RelPc, MapUndoEff
<1>6. \A n \in Mem : SameUse(n)
  BY <1>2 DEF SameUse
<1>7. /\ \A n \in Mem : AddrStays(n)
      /\ \A n \in Mem : CudaStays(n)
      /\ \A n \in Mem : mem'[n].heap = mem[n].heap
  BY <1>6 DEF SameUse, AddrStays, CudaStays
<1>8. /\ 1 \in 1 .. Len(th[t].mine) /\ d = th[t].mine[1]
      /\ \A i \in 1 .. Len(th'[t].mine) : /\ i + 1 \in 1 .. Len(th[t].mine) /\ i + 1 # 1
                                          /\ th'[t].mine[i] = th[t].mine[i + 1]
  <2>1. 1 \in 1 .. Len(th[t].mine) /\ d = th[t].mine[1]
    BY <1>0, TailIndex
  <2>2. \A i \in 1 .. Len(th'[t].mine) : /\ i + 1 \in 1 .. Len(th[t].mine) /\ i + 1 # 1
                                         /\ th'[t].mine[i] = th[t].mine[i + 1]
    BY <1>0, TailIndex
  <2> QED BY <2>1, <2>2
<1>9. /\ \A u \in Thread \ {t} : \A i \in 1 .. Len(th[u].mine) : th[u].mine[i] # d
      /\ \A i \in 1 .. Len(th'[t].mine) : th'[t].mine[i] # d
  BY <1>8 DEF MapInv, MinesApart
<1>10. MapsOK'
  <2> SUFFICES ASSUME NEW u \in Thread, th'[u].op = "map"
               PROVE  /\ vma[th'[u].a].m # NULL
                      /\ th'[u].pc \in MapHoldPc => th'[u].m = vma[th'[u].a].m
                      /\ Elems(th'[u].mine) \subseteq mem'[vma[th'[u].a].m].dmas
    BY <1>2 DEF MapsOK
  <2>1. th[u].op = "map" /\ th'[u].a = th[u].a
    BY <1>2
  <2>2. PICK n \in Mem : n = vma[th[u].a].m
    BY <2>1, MapMem
  <2>3. n # NULL /\ Elems(th[u].mine) \subseteq mem[n].dmas
    BY <2>1, <2>2 DEF MapInv, MapsOK
  <2>4. th'[u].pc \in MapHoldPc => th'[u].m = n
    BY <1>2, <1>4, <2>1, <2>2 DEF MapInv, MapsOK
  <2>5. Elems(th'[u].mine) \subseteq Elems(th[u].mine) /\ d \notin Elems(th'[u].mine)
    <3>1. CASE u = t
      BY <1>8, <1>9, <3>1 DEF Elems
    <3>2. CASE u # t
      BY <1>2, <1>9, <3>2 DEF Elems
    <3> QED BY <3>1, <3>2
  <2>6. Elems(th'[u].mine) \subseteq mem'[n].dmas
    BY <1>2, <2>3, <2>5
  <2> QED BY <2>1, <2>2, <2>3, <2>4, <2>6
<1>11. MinesApart'
  <2> SUFFICES ASSUME NEW u \in Thread, NEW v \in Thread, NEW i \in 1 .. Len(th'[u].mine),
                      NEW j \in 1 .. Len(th'[v].mine), th'[u].mine[i] = th'[v].mine[j]
               PROVE  u = v /\ i = j
    BY DEF MinesApart
  <2>4. CASE u = t /\ v = t
    <3>1. i + 1 = j + 1
      BY <1>8, <2>4 DEF MapInv, MinesApart
    <3> QED BY <1>8, <2>4, <3>1
  <2>5. CASE u = t /\ v # t
    <3>1. th'[v].mine = th[v].mine
      BY <1>2, <2>5
    <3>2. i + 1 \in 1 .. Len(th[t].mine) /\ th[t].mine[i + 1] = th[v].mine[j]
      BY <1>8, <2>5, <3>1
    <3> QED BY <2>5, <3>1, <3>2 DEF MapInv, MinesApart
  <2>6. CASE u # t /\ v = t
    <3>1. th'[u].mine = th[u].mine
      BY <1>2, <2>6
    <3>2. j + 1 \in 1 .. Len(th[t].mine) /\ th[u].mine[i] = th[t].mine[j + 1]
      BY <1>8, <2>6, <3>1
    <3> QED BY <2>6, <3>1, <3>2 DEF MapInv, MinesApart
  <2>7. CASE u # t /\ v # t
    <3>1. th'[u].mine = th[u].mine /\ th'[v].mine = th[v].mine
      BY <1>2, <2>7
    <3> QED BY <3>1 DEF MapInv, MinesApart
  <2> QED BY <2>4, <2>5, <2>6, <2>7
<1>12. StaleAddr' /\ LiveAddr'
  BY <1>2, <1>5, <1>7, AddrFrame DEF MapInv
<1>13. FullRefs'
  BY <1>1, <1>5, <1>7, FullFrame DEF MapInv
<1>14. RelsOK'
  <2>1. \A u \in Thread : th[u].pc \notin RelPc /\ th[u].pc # "unmap_put"
    BY <1>3, NoRelease, MapApart DEF CtxInv, Ops, OpOK
  <2>2. \A u \in Thread : th'[u].pc \notin RelPc /\ th'[u].pc # "unmap_put"
    BY <1>5, <2>1 DEF RelStays, GonePc, LastPc, RelPc
  <2> QED BY <2>2 DEF RelsOK, RelPc, LastPc
<1>15. CbCuda'
  BY <1>7, CudaFrame DEF MapInv
<1> QED BY <1>10, <1>11, <1>12, <1>13, <1>14, <1>15 DEF MapInv

LEMMA CbBeginMap ==
  ASSUME Inv, CtxInv, BaseInv, Races, RaceInv, NoMapUnmap, MapInv, NEW m \in Mem,
         CbBeginEff(m)
  PROVE  MapInv'
<1>1. \A n \in Mem : SlackKept(n)
  <2>1. /\ \A u \in Thread : SameHold(u)
        /\ \A n \in Mem : SameCounts(n)
    BY DEF SameHold, HoldPc, SameCounts, CbBeginEff
  <2> QED BY <2>1, SlackSame
<1>2. \A n \in Mem : RecStays(n)
  BY DEF RecStays, AddrStays, CudaStays, LifeStays, CbBeginEff
<1>3. \A u \in Thread : FlowStays(u)
  BY DEF FlowStays, MapStays, MapHoldPc, MineStays, RelStays, GonePc, LastPc, RelPc,
     CbBeginEff
<1>4. memList' \subseteq memList /\ vma' = vma
  BY DEF CbBeginEff
<1> QED BY <1>1, <1>2, <1>3, <1>4, MapQuiet

LEMMA CbRunMap ==
  ASSUME Inv, CtxInv, BaseInv, Races, RaceInv, NoMapUnmap, MapInv, NEW m \in Mem,
         CbRunEff(m)
  PROVE  MapInv'
<1>1. \A n \in Mem : SlackKept(n)
  <2>1. /\ \A u \in Thread : SameHold(u)
        /\ \A n \in Mem : SameCounts(n)
    BY DEF SameHold, HoldPc, SameCounts, CbRunEff, Only, SameId
  <2> QED BY <2>1, SlackSame
<1>2. \A n \in Mem : RecStays(n)
  <2>1. mem[m].loc = "CUDA"
    BY DEF RaceInv, CountInv, Callbacks, CbRunEff
  <2> QED BY <2>1 DEF RecStays, AddrStays, CudaStays, LifeStays, CbRunEff, Only, SameCounts
<1>3. \A u \in Thread : FlowStays(u)
  BY DEF FlowStays, MapStays, MapHoldPc, MineStays, RelStays, GonePc, LastPc, RelPc,
     CbRunEff
<1>4. memList' \subseteq memList /\ vma' = vma
  BY DEF CbRunEff
<1> QED BY <1>1, <1>2, <1>3, <1>4, MapQuiet

LEMMA GraceEndMap ==
  ASSUME Inv, CtxInv, BaseInv, Races, RaceInv, NoMapUnmap, MapInv, NEW m \in Mem,
         GraceEndEff(m)
  PROVE  MapInv'
<1>1. \A n \in Mem : SlackKept(n)
  <2>1. /\ \A u \in Thread : SameHold(u)
        /\ \A n \in Mem : SameCounts(n)
    BY DEF SameHold, HoldPc, SameCounts, GraceEndEff, HeapTo, Only, SameId
  <2> QED BY <2>1, SlackSame
<1>2. \A n \in Mem : RecStays(n)
  BY DEF RecStays, AddrStays, CudaStays, LifeStays, GraceEndEff, HeapTo, Only,
     SameCounts, SameId
<1>3. \A u \in Thread : FlowStays(u)
  BY DEF FlowStays, MapStays, MapHoldPc, MineStays, RelStays, GonePc, LastPc, RelPc,
     GraceEndEff
<1>4. memList' \subseteq memList /\ vma' = vma
  BY DEF GraceEndEff
<1> QED BY <1>1, <1>2, <1>3, <1>4, MapQuiet

----------------------------------------------------------------------------
(* Lookups. *)

(* The invariant holds when the files have just been opened. *)
LEMMA MapInit == Init => MapInv
<1> SUFFICES ASSUME Init PROVE MapInv
  OBVIOUS
<1>1. /\ \A t \in Thread : th[t].op = "none" /\ th[t].pc = "idle" /\ th[t].mine = <<>>
      /\ \A m \in Mem : mem[m].heap = "unused"
      /\ memList = {}
  BY DEF Init, Idle, UnusedMem
<1>2. MinesApart
  <2>1. \A t \in Thread : Len(th[t].mine) = 0
    BY <1>1
  <2> QED BY <2>1 DEF MinesApart
<1>3. MapsOK /\ StaleAddr /\ LiveAddr /\ CbCuda
  BY <1>1 DEF MapsOK, StaleAddr, LiveAddr, CbCuda
<1>4. FullRefs /\ RelsOK
  BY <1>1 DEF FullRefs, RelsOK, LastPc, RelPc
<1> QED BY <1>2, <1>3, <1>4 DEF MapInv

LEMMA MapNext ==
  ASSUME Inv, CtxInv, BaseInv, Races, RaceInv, NoMapUnmap, MapInv, [Next]_vars
  PROVE  MapInv'
<1>1. StepEff
  BY NextDoes
<1>2. ASSUME NEW t \in Thread, CallEff(t) PROVE MapInv'
  BY <1>2, RegStartMap, PinStartMap, UnmapStartMap, CloseStartMap, MapStartMap DEF
     CallEff
<1>3. ASSUME NEW t \in Thread, LockEff(t) PROVE MapInv'
  BY <1>3, RegInsertMap, RegInsertFailsMap, RegCopyMap, RegEraseMap, GoesOnMap,
     PinGetMap, PinDoMap, PinDoFailsMap, PinReturnMap, PutMap, RelUnlinkMap, RelFreeMap,
     RelCtxMap, UnmapDoMap, UnmapReturnMap, CloseDoMap, CloseReturnMap DEF LockEff
<1>4. ASSUME NEW t \in Thread, MapEff(t) PROVE MapInv'
  BY <1>4, MapLockMap, WalkMatchMap, WalkSkipMap, WalkPutMap, WalkEndMap, MapAllocMap,
     MapDmaMap, MapFailsMap, MapLinkMap, MapReturnMap, MapUndoMap DEF MapEff
<1>5. ASSUME NEW m \in Mem, CbBeginEff(m) \/ CbRunEff(m) \/ GraceEndEff(m) PROVE MapInv'
  BY <1>5, CbBeginMap, CbRunMap, GraceEndMap
<1>6. CASE Frozen
  <2>1. /\ th' = th /\ mem' = mem /\ vma' = vma /\ memList' = memList
    BY <1>6 DEF Frozen
  <2>2. \A m \in Mem : Slack(m)' = Slack(m)
    BY <2>1 DEF Slack, Holders
  <2>3. FullRefs'
    BY <2>1, <2>2 DEF MapInv, FullRefs
  <2>4. MapsOK'
    BY <2>1 DEF MapInv, MapsOK
  <2>5. MinesApart'
    BY <2>1 DEF MapInv, MinesApart
  <2>6. StaleAddr'
    BY <2>1 DEF MapInv, StaleAddr
  <2>7. LiveAddr'
    BY <2>1 DEF MapInv, LiveAddr
  <2>8. RelsOK'
    BY <2>1 DEF MapInv, RelsOK
  <2>9. CbCuda'
    BY <2>1 DEF MapInv, CbCuda
  <2> QED BY <2>3, <2>4, <2>5, <2>6, <2>7, <2>8, <2>9 DEF MapInv
<1> QED BY <1>1, <1>2, <1>3, <1>4, <1>5, <1>6, SplitVmaMap DEF StepEff

LEMMA MapAlways == ASSUME Races, NoMapUnmap PROVE Spec => []MapInv
<1>1. Inv /\ CtxInv /\ BaseInv /\ RaceInv /\ MapInv /\ [Next]_vars => MapInv'
  BY MapNext
<1> QED BY <1>1, MapInit, InvAlways, CtxAlways, BaseAlways, RaceAlways, PTL DEF Spec

(* Without an munmap beside it, a DMA_MAP_MEM finds the registration that  *)
(* the process has mapped at the address it gives.                         *)
THEOREM LookupAlwaysRight ==
  ASSUME Races, {"map", "unmap"} \notin Overlap
  PROVE  Spec => []LookupFindsMapped
<1>1. CtxInv /\ MapInv => LookupFindsMapped
  <2> SUFFICES ASSUME CtxInv, MapInv, NEW t \in Thread,
                      th[t].pc \in {"map_alloc", "map_dma", "map_link"}
               PROVE  vma[th[t].a].m = th[t].m
    BY DEF LookupFindsMapped
  <2>1. th[t].op = "map" /\ th[t].pc \in MapHoldPc
    BY DEF CtxInv, Ops, OpOK, MapHoldPc
  <2> QED BY <2>1 DEF MapInv, MapsOK
<1>2. ASSUME Races, NoMapUnmap PROVE Spec => []LookupFindsMapped
  BY <1>1, <1>2, CtxAlways, MapAlways, PTL
<1> QED BY <1>2 DEF NoMapUnmap

----------------------------------------------------------------------------
(* Memory errors.  Under the invariants no step of a call or of the        *)
(* callback is one.                                                        *)

(* What a step dereferences has not been given back. *)
LEMMA HeldLive ==
  ASSUME Inv, CtxInv, BaseInv, RaceInv, NoMapUnmap, MapInv, NEW t \in Thread,
         th[t].pc \in DerefsMem, th[t].m # NULL
  PROVE  th[t].m \in Mem /\ mem[th[t].m].heap = "live"
<1>1. \A m \in memList : m \in Mem /\ mem[m].heap = "live"
  BY ListTypes DEF CtxInv, Lists
<1>2. CASE th[t].pc = "reg_erase"
  BY <1>1, <1>2 DEF RaceInv, NameInv, RegsOK, RegPc
<1>3. CASE th[t].pc \in {"pin_get", "pin_do", "pin_put"}
  BY <1>1, <1>3 DEF RaceInv, NameInv, PinsOK, PinPc
<1>4. CASE th[t].pc \in LastPc
  BY <1>4, ThreadTypes DEF MapInv, RelsOK, LastPc, NeedsMem
<1>5. CASE th[t].pc = "unmap_do"
  <2>1. th[t].a \in Addr /\ vma[th[t].a].m = th[t].m
    BY <1>5 DEF RaceInv, NameInv, UnmapsOK
  <2> QED BY <1>1, <2>1 DEF RaceInv, NameInv, VmasOK
<1>6. CASE th[t].pc = "unmap_put"
  BY <1>1, <1>6 DEF RaceInv, NameInv, UnmapsOK
<1>7. CASE th[t].pc \in WalkPc
  BY <1>1, <1>7 DEF CtxInv, Walks, WalkPc
<1>8. CASE th[t].pc \in {"map_dma", "map_link", "map_put"}
  <2>1. th[t].op = "map"
    BY <1>8 DEF CtxInv, Ops, OpOK
  <2>2. th[t].m = vma[th[t].a].m
    BY <1>8, <2>1 DEF MapInv, MapsOK, MapHoldPc
  <2> QED BY <2>1, <2>2, MapMem
<1> QED BY <1>2, <1>3, <1>4, <1>5, <1>6, <1>7, <1>8 DEF DerefsMem, LastPc, WalkPc

(* While a pin or a map is in flight every live registration has the       *)
(* reference of kref_init.                                                 *)
LEMMA LiveSlack ==
  ASSUME CtxInv, BaseInv, NoMapUnmap, MapInv, NEW t \in Thread,
         th[t].op \in {"pin", "map"}, NEW m \in Mem, mem[m].heap = "live"
  PROVE  Slack(m) = 1
<1>1. \A u \in Thread : th[u].pc \notin LastPc
  BY NoRelease DEF LastPc, RelPc
<1> QED BY <1>1 DEF MapInv, FullRefs

LEMMA RefsCover ==
  ASSUME Inv, NEW m \in Mem, Slack(m) = 1
  PROVE  mem[m].ref > 0 /\ mem[m].ref > Cardinality(mem[m].dmas)
<1>1. PICK r \in Int, k \in Nat, h \in Nat :
        r = mem[m].ref /\ k = Cardinality(mem[m].dmas) /\ h = Cardinality(Holders(m))
  BY SlackTypes
<1>2. r - k - h = 1
  BY <1>1 DEF Slack
<1>3. r > 0 /\ r > k
  BY <1>2
<1> QED BY <1>1, <1>3

(* A call holds the context through its file. *)
LEMMA CallCtx ==
  ASSUME Inv, CtxInv, NEW t \in Thread, th[t].pc \in DerefsCtx
  PROVE  ctxRef > Cardinality(LiveMems) /\ ctxRef # 0
<1>1. th[t].op \in {"reg", "pin", "map", "unmap", "close"}
  <2>1. CASE th[t].pc \in RelPc
    <3>1. th[t].ret \in RelRet
      BY <2>1 DEF Inv, Locals, LocalsOK
    <3> QED BY <2>1, <3>1 DEF CtxInv, Ops, OpOK, RelRet
  <2>2. CASE th[t].pc \notin RelPc
    BY <2>2 DEF CtxInv, Ops, OpOK, DerefsCtx, RelPc
  <2> QED BY <2>1, <2>2
<1>2. th[t].f \in File
  BY ThreadTypes DEF DerefsCtx
<1>3. th[t].f \in OpenFiles
  BY <1>1, <1>2 DEF CtxInv, FilesOK, OpenFiles
<1>4. PICK o \in Nat, l \in Nat, c \in Nat, u \in Nat :
        /\ o = Cardinality(OpenFiles) /\ l = Cardinality(LiveMems)
        /\ c = Cardinality(CtxThreads) /\ u = Cardinality(UnmapThreads)
  BY CtxCount
<1>5. ctxRef = o + l + c + u
  BY <1>4, CtxCount DEF CtxInv
<1>6. o # 0
  <2>1. IsFiniteSet(OpenFiles)
    BY FS_Subset DEF OpenFiles, ConstantsAssumption
  <2> QED BY <1>3, <1>4, <2>1, FS_EmptySet
<1>7. o + l + c + u > l /\ o + l + c + u # 0
  BY <1>6
<1> QED BY <1>4, <1>5, <1>7

LEMMA NoUseAfterFree ==
  ASSUME Inv, CtxInv, BaseInv, RaceInv, NoMapUnmap, MapInv, NEW t \in Thread
  PROVE  ~UseAfterFree(t)
<1>1. ~(th[t].pc \in DerefsMem /\ th[t].m # NULL /\ mem[th[t].m].heap = "freed")
  BY HeldLive
<1>2. ~(th[t].pc \in DerefsCtx /\ ctxRef = 0)
  BY CallCtx
<1>3. ~(th[t].pc = "close_do" /\ ctxRef <= Cardinality(Stale))
  <2> SUFFICES ASSUME th[t].pc = "close_do" PROVE ~(ctxRef <= Cardinality(Stale))
    OBVIOUS
  <2>1. Stale \subseteq LiveMems
    BY ListTypes DEF Stale, LiveMems, CtxInv, Lists
  <2>2. IsFiniteSet(LiveMems)
    BY FS_Subset DEF LiveMems, ConstantsAssumption
  <2>3. Cardinality(Stale) <= Cardinality(LiveMems) /\ IsFiniteSet(Stale)
    BY <2>1, <2>2, FS_Subset
  <2>4. ctxRef > Cardinality(LiveMems)
    BY CallCtx DEF DerefsCtx
  <2>5. PICK r \in Int, l \in Int, s \in Int :
          r = ctxRef /\ l = Cardinality(LiveMems) /\ s = Cardinality(Stale)
    BY <2>2, <2>3, FS_CardinalityType DEF Inv, TypeOK
  <2> QED BY <2>3, <2>4, <2>5
<1>4. ~(th[t].pc = "map_undo" /\ th[t].mine # <<>> /\
          (dma[Head(th[t].mine)].heap = "freed" \/ mem[dma[Head(th[t].mine)].mem].heap = "freed"))
  <2> SUFFICES ASSUME th[t].pc = "map_undo", th[t].mine # <<>>
               PROVE  /\ dma[Head(th[t].mine)].heap # "freed"
                      /\ mem[dma[Head(th[t].mine)].mem].heap # "freed"
    OBVIOUS
  <2>1. th[t].op = "map"
    BY DEF CtxInv, Ops, OpOK
  <2>2. PICK m \in Mem : m = vma[th[t].a].m /\ mem[m].heap = "live"
    BY <2>1, MapMem
  <2>3. Head(th[t].mine) \in Elems(th[t].mine)
    <3>1. 1 \in 1 .. Len(th[t].mine) /\ Head(th[t].mine) = th[t].mine[1]
      BY MineTypes, TailIndex
    <3> QED BY <3>1 DEF Elems
  <2>4. PICK d : d = Head(th[t].mine)
    OBVIOUS
  <2>5. d \in mem[m].dmas
    BY <2>1, <2>2, <2>3, <2>4 DEF MapInv, MapsOK
  <2>6. dma[d].heap = "live" /\ dma[d].mem = m
    BY <2>5 DEF Inv, DmaInv, DmaListsSound
  <2> QED BY <2>2, <2>4, <2>6
<1> QED BY <1>1, <1>2, <1>3, <1>4 DEF UseAfterFree

(* No DMA_MAP_MEM is at the page table when a callback frees it.           *)
LEMMA NoTableFreed ==
  ASSUME Inv, CtxInv, BaseInv, RaceInv, NoMapUnmap, MapInv, NoCbMap, NEW t \in Thread
  PROVE  ~TableFreed(t)
<1> SUFFICES ASSUME th[t].pc \in {"map_dma", "map_link"}, cb[th[t].m] = "spinning"
             PROVE  ~mem[th[t].m].table
  BY DEF TableFreed
<1>1. PICK m \in Mem : m = th[t].m
  BY ThreadTypes DEF NeedsMem
<1>2. mem[m].heap = "live"
  BY <1>1, NullOut, HeldLive DEF DerefsMem
<1>3. th[t].op = "map"
  BY DEF CtxInv, Ops, OpOK
<1>4. mem[m].state # "LIVE"
  BY <1>1, <1>2, <1>3 DEF RaceInv, CountInv, CbMaps
<1> QED BY <1>1, <1>2, <1>4 DEF RaceInv, CountInv, Tables

LEMMA NoDoubleFree ==
  ASSUME Inv, CtxInv, BaseInv, RaceInv, NoMapUnmap, MapInv, NEW t \in Thread
  PROVE  ~DoubleFree(t)
<1> SUFFICES ASSUME th[t].pc \in {"reg_erase", "rel_free"} PROVE mem[th[t].m].heap # "limbo"
  BY DEF DoubleFree
<1>1. th[t].m # NULL
  BY ThreadTypes, NullOut DEF NeedsMem
<1> QED BY <1>1, HeldLive DEF DerefsMem

LEMMA NoDeadRef ==
  ASSUME Inv, CtxInv, BaseInv, RaceInv, NoMapUnmap, MapInv, NEW t \in Thread
  PROVE  ~DeadRef(t)
<1> SUFFICES ASSUME th[t].pc \in {"pin_get", "walk", "pin_put", "unmap_put", "map_put"},
                    th[t].m # NULL
             PROVE  mem[th[t].m].ref # 0
  BY DEF DeadRef
<1>1. PICK m \in Mem : m = th[t].m /\ mem[m].heap = "live"
  BY HeldLive DEF DerefsMem
<1>2. CASE th[t].pc = "unmap_put"
  BY <1>1, <1>2, UnmapPutLast, RefsCover
<1>3. CASE th[t].pc # "unmap_put"
  <2>1. th[t].op \in {"pin", "map"}
    BY <1>3 DEF CtxInv, Ops, OpOK
  <2> QED BY <1>1, <2>1, LiveSlack, RefsCover
<1> QED BY <1>2, <1>3

LEMMA NoSelfDeadlock ==
  ASSUME Inv, CtxInv, BaseInv, RaceInv, NoMapUnmap, MapInv, NEW t \in Thread
  PROVE  ~SelfDeadlock(t)
<1>1. ASSUME th[t].pc = "walk_put" PROVE ~(mem[th[t].m].ref <= 1)
  <2>1. PICK m \in Mem : m = th[t].m
    BY <1>1, ThreadTypes DEF NeedsMem
  <2>2. mem[m].heap = "live"
    BY <1>1, <2>1, NullOut, HeldLive DEF DerefsMem
  <2>3. th[t].op = "map" /\ t \in Holders(m)
    BY <1>1, <2>1 DEF CtxInv, Ops, OpOK, Holders
  <2>4. mem[m].ref > 1 /\ mem[m].ref \in Nat
    BY <2>2, <2>3, LiveSlack, HeldTwice, MemTypes
  <2> QED BY <2>1, <2>4
<1>2. ASSUME th[t].pc = "unmap_do" PROVE ~(mem[th[t].m].ref <= Cardinality(mem[th[t].m].dmas))
  <2>1. PICK m \in Mem : m = th[t].m
    BY <1>2, ThreadTypes DEF NeedsMem
  <2>2. mem[m].heap = "live"
    BY <1>2, <2>1, NullOut, HeldLive DEF DerefsMem
  <2>3. Token(m) /\ mem[m].state # "DEAD"
    <3>1. th[t].a \in Addr /\ vma[th[t].a].m = m
      BY <1>2, <2>1 DEF RaceInv, NameInv, UnmapsOK
    <3>2. mem[m].state \in Pinned
      BY <2>1, <3>1, NullOut DEF RaceInv, NameInv, VmasOK
    <3> QED BY <3>1, <3>2 DEF Token, Pinned
  <2>4. Slack(m) = 1
    BY <2>2, <2>3 DEF RaceInv, CountInv, Refs
  <2>5. mem[m].ref > Cardinality(mem[m].dmas) /\ mem[m].ref \in Nat
        /\ Cardinality(mem[m].dmas) \in Nat
    BY <2>4, RefsCover, SlackTypes
  <2> QED BY <2>1, <2>5
<1> QED BY <1>1, <1>2 DEF SelfDeadlock, At

LEMMA NoNullTable ==
  ASSUME Inv, CtxInv, BaseInv, RaceInv, NoMapUnmap, MapInv, NEW t \in Thread
  PROVE  ~NullTable(t)
<1> SUFFICES ASSUME th[t].pc = "map_dma", mem[th[t].m].loc = "CPU" PROVE mem[th[t].m].table
  BY DEF NullTable, At
<1>1. th[t].op = "map"
  BY DEF CtxInv, Ops, OpOK
<1>2. PICK m : m = vma[th[t].a].m
  OBVIOUS
<1>3. m = th[t].m
  BY <1>1, <1>2 DEF MapInv, MapsOK, MapHoldPc
<1>4. m \in Mem /\ mem[m].heap = "live" /\ mem[m].state \in Pinned
  BY <1>1, <1>2, MapMem
<1>5. mem[m].state # "DEAD_CB"
  BY <1>3, <1>4 DEF MapInv, CbCuda
<1> QED BY <1>3, <1>4, <1>5 DEF Pinned, RaceInv, CountInv, Tables

(* Only a memory error changes fault. *)
LEMMA FaultSteps ==
  ASSUME [Next]_vars
  PROVE  fault' = fault \/ (\E t \in Thread : Oops(t)) \/ \E m \in Mem : CbOops(m)
<1>1. ASSUME NEW t \in Thread, Client(t) PROVE fault' = fault
  BY <1>1 DEF Client, RegStart, PinStart, MapStart, UnmapStart, CloseStart
<1>2. ASSUME NEW t \in Thread, Step(t) PROVE fault' = fault
  BY <1>2 DEF Step, RegInsert, RegInsertFails, RegCopy, RegCopyFails, RegErase, PinGet, PinDo,
     PinDoFails, PinPut, PinReturn, RelUnlink, RelFree, RelCtx, UnmapDo, UnmapPut, UnmapReturn,
     CloseDo, CloseReturn, MapLock, WalkMatch, WalkSkip, WalkPut, WalkEnd, MapAlloc,
     MapAllocFails, MapDma, MapDmaFails, MapAddrsFail, MapLink, MapPut, MapReturn,
     MapCopyFails, MapUndo
<1>3. ASSUME NEW m \in Mem, CbBegin(m) \/ CbRun(m) \/ GraceEnd(m) PROVE fault' = fault
  BY <1>3 DEF CbBegin, CbRun, GraceEnd
<1>4. ASSUME NEW a \in Addr, NEW b \in Addr, SplitVma(a, b) PROVE fault' = fault
  BY <1>4 DEF SplitVma
<1>5. ASSUME Halted \/ UNCHANGED vars PROVE fault' = fault
  BY <1>5 DEF Halted, vars
<1> QED BY <1>1, <1>2, <1>3, <1>4, <1>5 DEF Next

(* No memory error happens, with any number of threads, files, controllers *)
(* and registrations, to a process that follows the protocol, does not     *)
(* close a file beside a REG_MEM or an mmap and neither unmaps beside a    *)
(* DMA_MAP_MEM nor has the GPU driver call back beside one: nothing is     *)
(* used after it is freed or freed twice, no reference is taken from or    *)
(* dropped on a dead count, no thread takes a lock it holds, and no        *)
(* mapping follows a missing page table.                                   *)
THEOREM NeverFaults ==
  ASSUME Races, {"map", "unmap"} \notin Overlap, {"cb", "map"} \notin Overlap
  PROVE  Spec => []NoFault
<1>1. ASSUME NoMapUnmap, NoCbMap, Inv, CtxInv, BaseInv, RaceInv, MapInv, NoFault, [Next]_vars
      PROVE  NoFault'
  <2>1. \A t \in Thread : ~Oops(t)
    BY <1>1, NoUseAfterFree, NoDoubleFree, NoDeadRef, NoSelfDeadlock, NoTableFreed,
       NoNullTable DEF Oops
  <2>2. \A m \in Mem : ~CbOops(m)
    BY <1>1 DEF CbOops, RaceInv, CountInv, Callbacks
  <2> QED BY <1>1, <2>1, <2>2, FaultSteps DEF NoFault
<1>2. Init => NoFault
  BY DEF Init, NoFault
<1>3. ASSUME Races, NoMapUnmap, NoCbMap PROVE Spec => []NoFault
  <2>1. Inv /\ CtxInv /\ BaseInv /\ RaceInv /\ MapInv /\ NoFault /\ [Next]_vars => NoFault'
    BY <1>1, <1>3
  <2> QED BY <1>2, <1>3, <2>1, InvAlways, CtxAlways, BaseAlways, RaceAlways, MapAlways, PTL
          DEF Spec
<1> QED BY <1>3 DEF NoMapUnmap, NoCbMap

----------------------------------------------------------------------------
(* What a process leaves behind.                                           *)

(* While a registration that was never pinned is left, so is a file whose  *)
(* close sweeps it.                                                        *)
StalesHeld ==
  \/ \E f \in File : file[f] = "open"
  \/ \E t \in Thread : th[t].pc = "close_do"
  \/ \A m \in Mem : mem[m].heap = "live" => mem[m].state # "STALE"

(* Nothing is mapped of a registration that is gone or was never pinned. *)
NoDmas == \A m \in Mem : mem[m].heap # "live" \/ mem[m].state = "STALE" => mem[m].dmas = {}

(* A pinned registration has one page table, and no other has one. *)
PagesOf == \A m \in Mem : pages[m] = IF mem[m].state = "LIVE" THEN 1 ELSE 0

LiveOnes ==
  \A m \in Mem : mem[m].state = "LIVE" => mem[m].heap = "live" /\ mem[m].loc \in {"CPU", "CUDA"}

EndInv == StalesHeld /\ NoDmas /\ PagesOf /\ LiveOnes

(* Steps that leave what it speaks of alone. *)
EndStays(n) ==
  /\ mem'[n].heap = "live" <=> mem[n].heap = "live"
  /\ mem'[n].state = mem[n].state /\ mem'[n].loc = mem[n].loc
  /\ mem'[n].dmas \subseteq mem[n].dmas
  /\ pages'[n] = pages[n]

CloseStays(u) == th[u].pc = "close_do" => th'[u].pc = "close_do"

LEMMA EndQuiet ==
  ASSUME EndInv, \A n \in Mem : EndStays(n), \A u \in Thread : CloseStays(u), file' = file
  PROVE  EndInv'
<1>1. StalesHeld'
  BY DEF EndInv, StalesHeld, EndStays, CloseStays
<1>2. NoDmas'
  BY DEF EndInv, NoDmas, EndStays
<1>3. PagesOf' /\ LiveOnes'
  BY DEF EndInv, PagesOf, LiveOnes, EndStays
<1> QED BY <1>1, <1>2, <1>3 DEF EndInv

(* A call that is not a close holds its file open. *)
LEMMA OpenStays ==
  ASSUME Inv, CtxInv, NEW t \in Thread, th[t].op \in {"reg", "pin", "map", "unmap"}, file' = file
  PROVE  StalesHeld'
<1>1. th[t].f \in File /\ file[th[t].f] = "open"
  BY OpFile DEF CtxInv, FilesOK
<1> QED BY <1>1 DEF StalesHeld

----------------------------------------------------------------------------
(* Every step keeps EndInv. *)

LEMMA RegStartEnd ==
  ASSUME Inv, CtxInv, BaseInv, Races, RaceInv, OwnInv, NoMapUnmap, MapInv, EndInv, NEW t
         \in Thread, NEW f \in File, NEW l \in Loc, NEW m \in Mem, RegStartEff(t, f, l,
         m)
  PROVE  EndInv'
<1>1. /\ \A n \in Mem \ {m} : mem'[n] = mem[n]
      /\ mem[m].state = "STALE" /\ mem'[m].state = "STALE" /\ mem'[m].dmas = {}
      /\ pages' = pages /\ file' = file /\ file[f] = "open"
  BY DEF RegStartEff, Only, RaceInv, NameInv, Fresh, Blank
<1>10. StalesHeld'
  BY <1>1 DEF StalesHeld
<1>11. NoDmas'
  BY <1>1 DEF EndInv, NoDmas
<1>12. PagesOf'
  BY <1>1 DEF EndInv, PagesOf
<1>13. LiveOnes'
  BY <1>1 DEF EndInv, LiveOnes
<1> QED BY <1>10, <1>11, <1>12, <1>13 DEF EndInv

LEMMA RegInsertEnd ==
  ASSUME Inv, CtxInv, BaseInv, Races, RaceInv, OwnInv, NoMapUnmap, MapInv, EndInv, NEW t
         \in Thread, RegInsertEff(t)
  PROVE  EndInv'
<1>1. \A n \in Mem : EndStays(n)
  BY DEF EndStays, RegInsertEff, Moves, Keeps, Only, SameUse, SameCounts
<1>2. \A u \in Thread : CloseStays(u)
  BY DEF CloseStays, RegInsertEff, Moves, Keeps
<1>3. file' = file
  BY DEF RegInsertEff
<1> QED BY <1>1, <1>2, <1>3, EndQuiet

LEMMA RegInsertFailsEnd ==
  ASSUME Inv, CtxInv, BaseInv, Races, RaceInv, OwnInv, NoMapUnmap, MapInv, EndInv, NEW t
         \in Thread, RegInsertFailsEff(t)
  PROVE  EndInv'
<1>1. th[t].op = "reg"
  BY DEF CtxInv, Ops, OpOK, RegInsertFailsEff, Ends
<1>2. PICK m \in Mem : m = th[t].m
  BY DEF RegInsertFailsEff
<1>3. mem[m].state = "STALE" /\ mem[m].dmas = {}
  BY <1>1, <1>2 DEF RaceInv, NameInv, Fresh, Blank
<1>4. /\ \A n \in Mem \ {m} : mem'[n] = mem[n]
      /\ mem'[m].state = "STALE" /\ mem'[m].dmas = {}
      /\ pages' = pages /\ file' = file
  BY <1>2, <1>3 DEF RegInsertFailsEff, HeapTo, Only, SameCounts
<1>10. StalesHeld'
  BY <1>1, <1>4, OpenStays
<1>11. NoDmas'
  BY <1>4 DEF EndInv, NoDmas
<1>12. PagesOf'
  BY <1>3, <1>4 DEF EndInv, PagesOf
<1>13. LiveOnes'
  BY <1>4 DEF EndInv, LiveOnes
<1> QED BY <1>10, <1>11, <1>12, <1>13 DEF EndInv

LEMMA RegCopyEnd ==
  ASSUME Inv, CtxInv, BaseInv, Races, RaceInv, OwnInv, NoMapUnmap, MapInv, EndInv, NEW t
         \in Thread, RegCopyEff(t)
  PROVE  EndInv'
<1>1. \A n \in Mem : EndStays(n)
  BY DEF EndStays, RegCopyEff, Ends
<1>2. \A u \in Thread : CloseStays(u)
  BY DEF CloseStays, RegCopyEff, Ends
<1>3. file' = file
  BY DEF RegCopyEff
<1> QED BY <1>1, <1>2, <1>3, EndQuiet

LEMMA GoesOnEnd ==
  ASSUME Inv, CtxInv, BaseInv, Races, RaceInv, OwnInv, NoMapUnmap, MapInv, EndInv, NEW t
         \in Thread, NEW pc, NEW to, GoesOnPc(pc, to), GoesOn(t, pc, to)
  PROVE  EndInv'
<1>1. \A n \in Mem : EndStays(n)
  BY DEF EndStays, GoesOnPc, GoesOn, Moves, Keeps
<1>2. \A u \in Thread : CloseStays(u)
  BY DEF CloseStays, GoesOnPc, GoesOn, Moves, Keeps
<1>3. file' = file
  BY DEF GoesOn
<1> QED BY <1>1, <1>2, <1>3, EndQuiet

LEMMA RegEraseEnd ==
  ASSUME Inv, CtxInv, BaseInv, Races, RaceInv, OwnInv, NoMapUnmap, MapInv, EndInv, NEW t
         \in Thread, RegEraseEff(t)
  PROVE  EndInv'
<1>1. th[t].op = "reg"
  BY DEF CtxInv, Ops, OpOK, RegEraseEff, Ends
<1>2. PICK m \in Mem : m = th[t].m
  BY DEF RegEraseEff
<1>3. mem[m].state = "STALE" /\ mem[m].dmas = {}
  BY <1>1, <1>2 DEF RaceInv, NameInv, Fresh, Blank
<1>4. /\ \A n \in Mem \ {m} : mem'[n] = mem[n]
      /\ mem'[m].state = "STALE" /\ mem'[m].dmas = {}
      /\ pages' = pages /\ file' = file
  BY <1>2, <1>3 DEF RegEraseEff, HeapTo, Only, SameCounts
<1>10. StalesHeld'
  BY <1>1, <1>4, OpenStays
<1>11. NoDmas'
  BY <1>4 DEF EndInv, NoDmas
<1>12. PagesOf'
  BY <1>3, <1>4 DEF EndInv, PagesOf
<1>13. LiveOnes'
  BY <1>4 DEF EndInv, LiveOnes
<1> QED BY <1>10, <1>11, <1>12, <1>13 DEF EndInv

LEMMA PinStartEnd ==
  ASSUME Inv, CtxInv, BaseInv, Races, RaceInv, OwnInv, NoMapUnmap, MapInv, EndInv, NEW t
         \in Thread, NEW f \in File, NEW p \in Handle, NEW a \in Addr, MayPin(p, a),
         PinStartEff(t, f, p, a)
  PROVE  EndInv'
<1>1. \A n \in Mem : EndStays(n)
  BY DEF EndStays, PinStartEff, Starts
<1>2. \A u \in Thread : CloseStays(u)
  BY DEF CloseStays, PinStartEff, Starts
<1>3. file' = file
  BY DEF PinStartEff
<1> QED BY <1>1, <1>2, <1>3, EndQuiet

LEMMA PinGetEnd ==
  ASSUME Inv, CtxInv, BaseInv, Races, RaceInv, OwnInv, NoMapUnmap, MapInv, EndInv, NEW t
         \in Thread, PinGetEff(t)
  PROVE  EndInv'
<1>1. \A n \in Mem : EndStays(n)
  BY DEF EndStays, PinGetEff, Moves, Keeps, RefTo, Only, SameUse, SameId
<1>2. \A u \in Thread : CloseStays(u)
  BY DEF CloseStays, PinGetEff, Moves, Keeps
<1>3. file' = file
  BY DEF PinGetEff
<1> QED BY <1>1, <1>2, <1>3, EndQuiet

LEMMA PinDoEnd ==
  ASSUME Inv, CtxInv, BaseInv, Races, RaceInv, OwnInv, NoMapUnmap, MapInv, EndInv, NEW t
         \in Thread, PinDoEff(t)
  PROVE  EndInv'
<1>1. th[t].op = "pin" /\ th[t].pc \in PinPc
  BY DEF CtxInv, Ops, OpOK, PinDoEff, Moves, PinPc
<1>2. PICK m \in Mem : m = th[t].m
  BY DEF PinDoEff
<1>3. mem[m].heap = "live" /\ mem[m].state = "STALE" /\ pages[m] = 0
  BY <1>1, <1>2 DEF RaceInv, NameInv, PinsOK, CtxInv, Lists, OwnInv, StalePins, EndInv, PagesOf
<1>4. /\ \A n \in Mem \ {m} : mem'[n] = mem[n] /\ pages'[n] = pages[n]
      /\ mem'[m].heap = "live" /\ mem'[m].state = "LIVE" /\ mem'[m].loc \in {"CPU", "CUDA"}
      /\ pages'[m] = 0 + 1 /\ file' = file
  BY <1>2, <1>3 DEF PinDoEff, Only
<1>10. StalesHeld'
  BY <1>1, <1>4, OpenStays
<1>11. NoDmas'
  BY <1>4 DEF EndInv, NoDmas
<1>12. PagesOf'
  BY <1>4 DEF EndInv, PagesOf
<1>13. LiveOnes'
  BY <1>4 DEF EndInv, LiveOnes
<1> QED BY <1>10, <1>11, <1>12, <1>13 DEF EndInv

LEMMA PinDoFailsEnd ==
  ASSUME Inv, CtxInv, BaseInv, Races, RaceInv, OwnInv, NoMapUnmap, MapInv, EndInv, NEW t
         \in Thread, PinDoFailsEff(t)
  PROVE  EndInv'
<1>1. \A n \in Mem : EndStays(n)
  BY DEF EndStays, PinDoFailsEff, Moves, Keeps, Only, SameCounts, SameId
<1>2. \A u \in Thread : CloseStays(u)
  BY DEF CloseStays, PinDoFailsEff, Moves, Keeps
<1>3. file' = file
  BY DEF PinDoFailsEff
<1> QED BY <1>1, <1>2, <1>3, EndQuiet

LEMMA PutEnd ==
  ASSUME Inv, CtxInv, BaseInv, Races, RaceInv, OwnInv, NoMapUnmap, MapInv, EndInv, NEW t
         \in Thread, NEW pc, NEW next, PutPc(pc, next), PutEff(t, pc, next)
  PROVE  EndInv'
<1>1. \A n \in Mem : EndStays(n)
  BY DEF EndStays, PutPc, PutEff, Puts, Keeps, RefTo, Only, SameUse, SameId
<1>2. \A u \in Thread : CloseStays(u)
  BY DEF CloseStays, PutPc, PutEff, Puts, Keeps
<1>3. file' = file
  BY DEF PutEff
<1> QED BY <1>1, <1>2, <1>3, EndQuiet

LEMMA PinReturnEnd ==
  ASSUME Inv, CtxInv, BaseInv, Races, RaceInv, OwnInv, NoMapUnmap, MapInv, EndInv, NEW t
         \in Thread, PinReturnEff(t)
  PROVE  EndInv'
<1>1. \A n \in Mem : EndStays(n)
  BY DEF EndStays, PinReturnEff, Ends
<1>2. \A u \in Thread : CloseStays(u)
  BY DEF CloseStays, PinReturnEff, Ends
<1>3. file' = file
  BY DEF PinReturnEff
<1> QED BY <1>1, <1>2, <1>3, EndQuiet

LEMMA RelUnlinkEnd ==
  ASSUME Inv, CtxInv, BaseInv, Races, RaceInv, OwnInv, NoMapUnmap, MapInv, EndInv, NEW t
         \in Thread, RelUnlinkEff(t)
  PROVE  EndInv'
<1>1. \A n \in Mem : EndStays(n)
  BY DEF EndStays, RelUnlinkEff, Moves, Keeps
<1>2. \A u \in Thread : CloseStays(u)
  BY DEF CloseStays, RelUnlinkEff, Moves, Keeps
<1>3. file' = file
  BY DEF RelUnlinkEff
<1> QED BY <1>1, <1>2, <1>3, EndQuiet

LEMMA RelFreeEnd ==
  ASSUME Inv, CtxInv, BaseInv, Races, RaceInv, OwnInv, NoMapUnmap, MapInv, EndInv, NEW t
         \in Thread, RelFreeEff(t)
  PROVE  EndInv'
<1>1. PICK m \in Mem : m = th[t].m
  BY DEF RelFreeEff
<1>2. th[t].op = "unmap" /\ mem[m].heap = "live" /\ mem[m].ref = 0
  BY <1>1 DEF MapInv, RelsOK, RelPc, LastPc, BaseInv, Releases, RelFreeEff, Moves
<1>3. mem[m].dmas = {}
  <2>1. Slack(m) \in {0, 1}
    BY <1>2 DEF Inv, TableInv, TableOK, Gone, RaceInv, CountInv, Refs
  <2>2. PICK k \in Nat, h \in Nat : k = Cardinality(mem[m].dmas) /\ h = Cardinality(Holders(m))
    BY SlackTypes
  <2>3. 0 - k - h \in {0, 1}
    BY <1>2, <2>1, <2>2 DEF Slack
  <2>4. k = 0
    BY <2>3
  <2> QED BY <2>2, <2>4, SlackTypes, FS_EmptySet
<1>4. /\ \A n \in Mem \ {m} : mem'[n] = mem[n] /\ pages'[n] = pages[n]
      /\ mem'[m].state # "LIVE" /\ mem'[m].dmas = {}
      /\ pages'[m] = (IF ReleasesTable(m) THEN pages[m] - 1 ELSE pages[m])
      /\ file' = file
  BY <1>1, <1>3 DEF RelFreeEff, Only, SameCounts
<1>5. pages'[m] = 0
  <2>1. CASE mem[m].state = "LIVE"
    <3>1. ReleasesTable(m)
      BY <1>2, <2>1 DEF ReleasesTable, RaceInv, CountInv, Tables, EndInv, LiveOnes
    <3>2. pages[m] = 1
      BY <2>1 DEF EndInv, PagesOf
    <3> QED BY <1>4, <3>1, <3>2
  <2>2. CASE mem[m].state # "LIVE"
    <3>1. ~ReleasesTable(m)
      BY <1>2, <2>2 DEF ReleasesTable, RaceInv, CountInv, Tables
    <3>2. pages[m] = 0
      BY <2>2 DEF EndInv, PagesOf
    <3> QED BY <1>4, <3>1, <3>2
  <2> QED BY <2>1, <2>2
<1>10. StalesHeld'
  BY <1>2, <1>4, OpenStays
<1>11. NoDmas'
  BY <1>4 DEF EndInv, NoDmas
<1>12. PagesOf'
  BY <1>4, <1>5 DEF EndInv, PagesOf
<1>13. LiveOnes'
  BY <1>4 DEF EndInv, LiveOnes
<1> QED BY <1>10, <1>11, <1>12, <1>13 DEF EndInv

LEMMA RelCtxEnd ==
  ASSUME Inv, CtxInv, BaseInv, Races, RaceInv, OwnInv, NoMapUnmap, MapInv, EndInv, NEW t
         \in Thread, RelCtxEff(t)
  PROVE  EndInv'
<1>1. \A n \in Mem : EndStays(n)
  BY DEF EndStays, RelCtxEff, Keeps, RelRet
<1>2. \A u \in Thread : CloseStays(u)
  BY DEF CloseStays, RelCtxEff, Keeps, RelRet
<1>3. file' = file
  BY DEF RelCtxEff
<1> QED BY <1>1, <1>2, <1>3, EndQuiet

LEMMA UnmapStartEnd ==
  ASSUME Inv, CtxInv, BaseInv, Races, RaceInv, OwnInv, NoMapUnmap, MapInv, EndInv, NEW t
         \in Thread, NEW a \in Addr, UnmapStartEff(t, a)
  PROVE  EndInv'
<1>1. \A n \in Mem : EndStays(n)
  BY DEF EndStays, UnmapStartEff, Starts
<1>2. \A u \in Thread : CloseStays(u)
  BY DEF CloseStays, UnmapStartEff, Starts
<1>3. file' = file
  BY DEF UnmapStartEff
<1> QED BY <1>1, <1>2, <1>3, EndQuiet

LEMMA UnmapDoEnd ==
  ASSUME Inv, CtxInv, BaseInv, Races, RaceInv, OwnInv, NoMapUnmap, MapInv, EndInv, NEW t
         \in Thread, UnmapDoEff(t)
  PROVE  EndInv'
<1>1. \A n \in Mem : EndStays(n)
  BY DEF EndStays, UnmapDoEff, Moves, Keeps, Only, SameUse, SameId
<1>2. \A u \in Thread : CloseStays(u)
  BY DEF CloseStays, UnmapDoEff, Moves, Keeps
<1>3. file' = file
  BY DEF UnmapDoEff
<1> QED BY <1>1, <1>2, <1>3, EndQuiet

LEMMA UnmapReturnEnd ==
  ASSUME Inv, CtxInv, BaseInv, Races, RaceInv, OwnInv, NoMapUnmap, MapInv, EndInv, NEW t
         \in Thread, UnmapReturnEff(t)
  PROVE  EndInv'
<1>1. \A n \in Mem : EndStays(n)
  BY DEF EndStays, UnmapReturnEff, Ends
<1>2. \A u \in Thread : CloseStays(u)
  BY DEF CloseStays, UnmapReturnEff, Ends
<1>3. file' = file
  BY DEF UnmapReturnEff
<1> QED BY <1>1, <1>2, <1>3, EndQuiet

LEMMA SplitVmaEnd ==
  ASSUME Inv, CtxInv, BaseInv, Races, RaceInv, OwnInv, NoMapUnmap, MapInv, EndInv, NEW a
         \in Addr, NEW b \in Addr, SplitVmaEff(a, b)
  PROVE  EndInv'
<1> QED BY DEF Races, SplitVmaEff

LEMMA CloseStartEnd ==
  ASSUME Inv, CtxInv, BaseInv, Races, RaceInv, OwnInv, NoMapUnmap, MapInv, EndInv, NEW t
         \in Thread, NEW f \in File, CloseStartEff(t, f)
  PROVE  EndInv'
<1>1. \A n \in Mem : EndStays(n)
  BY DEF EndStays, CloseStartEff
<1>2. th'[t].pc = "close_do"
  BY DEF CloseStartEff, Starts
<1>10. StalesHeld'
  BY <1>2 DEF StalesHeld
<1>11. NoDmas'
  BY <1>1 DEF EndInv, NoDmas, EndStays
<1>12. PagesOf'
  BY <1>1 DEF EndInv, PagesOf, EndStays
<1>13. LiveOnes'
  BY <1>1 DEF EndInv, LiveOnes, EndStays
<1> QED BY <1>10, <1>11, <1>12, <1>13 DEF EndInv

LEMMA CloseDoEnd ==
  ASSUME Inv, CtxInv, BaseInv, Races, RaceInv, OwnInv, NoMapUnmap, MapInv, EndInv, NEW t
         \in Thread, CloseDoEff(t)
  PROVE  EndInv'
<1>1. \A n \in Mem : /\ mem'[n].heap = IF n \in Stale THEN "limbo" ELSE mem[n].heap
                     /\ mem'[n].state = mem[n].state /\ mem'[n].loc = mem[n].loc
                     /\ mem'[n].dmas = mem[n].dmas /\ pages'[n] = pages[n]
  BY DEF CloseDoEff, SameCounts
<1>2. \A n \in Stale : mem[n].state = "STALE"
  BY DEF Stale
<1>3. \A n \in Mem : mem'[n].heap = "live" => mem'[n].state # "STALE"
  <2> SUFFICES ASSUME NEW n \in Mem, mem[n].heap = "live", mem[n].state = "STALE", n \notin Stale
               PROVE  FALSE
    BY <1>1
  <2>1. PICK u \in Thread : th[u].pc \in {"reg_insert", "rel_free"} /\ th[u].m = n
    BY DEF Stale, BaseInv, Listed
  <2>2. CASE th[u].pc = "reg_insert"
    <3>1. th[u].op = "reg" /\ th[t].op = "close"
      BY <2>2 DEF CtxInv, Ops, OpOK, CloseDoEff, Moves
    <3>2. {"reg", "close"} \in Overlap
      BY <3>1 DEF BaseInv, Overlaps
    <3> QED BY <3>2 DEF Races
  <2>3. CASE th[u].pc = "rel_free"
    <3>1. mem[n].ref = 0
      BY <2>1, <2>3 DEF BaseInv, Releases, LastPc
    <3>2. Slack(n) = 1
      BY DEF RaceInv, CountInv, Refs, Token
    <3> QED BY <3>1, <3>2, RefsCover
  <2> QED BY <2>1, <2>2, <2>3
<1>10. StalesHeld'
  BY <1>3 DEF StalesHeld
<1>11. NoDmas'
  BY <1>1, <1>2 DEF EndInv, NoDmas
<1>12. PagesOf'
  BY <1>1 DEF EndInv, PagesOf
<1>13. LiveOnes'
  BY <1>1, <1>2 DEF EndInv, LiveOnes
<1> QED BY <1>10, <1>11, <1>12, <1>13 DEF EndInv

LEMMA CloseReturnEnd ==
  ASSUME Inv, CtxInv, BaseInv, Races, RaceInv, OwnInv, NoMapUnmap, MapInv, EndInv, NEW t
         \in Thread, CloseReturnEff(t)
  PROVE  EndInv'
<1>1. \A n \in Mem : EndStays(n)
  BY DEF EndStays, CloseReturnEff
<1>2. \A u \in Thread : CloseStays(u)
  BY DEF CloseStays, CloseReturnEff, Ends
<1>3. \A g \in File : file[g] = "open" => file'[g] = "open"
  <2>1. th[t].op = "close"
    BY DEF CtxInv, Ops, OpOK, CloseReturnEff, Ends
  <2>2. file[th[t].f] = "closing"
    BY <2>1 DEF CtxInv, FilesOK
  <2> QED BY <2>2 DEF CloseReturnEff
<1>10. StalesHeld'
  BY <1>1, <1>2, <1>3 DEF EndInv, StalesHeld, EndStays, CloseStays
<1>11. NoDmas'
  BY <1>1 DEF EndInv, NoDmas, EndStays
<1>12. PagesOf'
  BY <1>1 DEF EndInv, PagesOf, EndStays
<1>13. LiveOnes'
  BY <1>1 DEF EndInv, LiveOnes, EndStays
<1> QED BY <1>10, <1>11, <1>12, <1>13 DEF EndInv

LEMMA MapStartEnd ==
  ASSUME Inv, CtxInv, BaseInv, Races, RaceInv, OwnInv, NoMapUnmap, MapInv, EndInv, NEW t
         \in Thread, NEW f \in File, NEW a, MayMap(a), MapStartEff(t, f, a)
  PROVE  EndInv'
<1>1. \A n \in Mem : EndStays(n)
  BY DEF EndStays, MapStartEff, Starts
<1>2. \A u \in Thread : CloseStays(u)
  BY DEF CloseStays, MapStartEff, Starts
<1>3. file' = file
  BY DEF MapStartEff
<1> QED BY <1>1, <1>2, <1>3, EndQuiet

LEMMA MapLockEnd ==
  ASSUME Inv, CtxInv, BaseInv, Races, RaceInv, OwnInv, NoMapUnmap, MapInv, EndInv, NEW t
         \in Thread, MapLockEff(t)
  PROVE  EndInv'
<1>1. \A n \in Mem : EndStays(n)
  BY DEF EndStays, MapLockEff, Looks
<1>2. \A u \in Thread : CloseStays(u)
  BY DEF CloseStays, MapLockEff, Looks
<1>3. file' = file
  BY DEF MapLockEff
<1> QED BY <1>1, <1>2, <1>3, EndQuiet

LEMMA WalkMatchEnd ==
  ASSUME Inv, CtxInv, BaseInv, Races, RaceInv, OwnInv, NoMapUnmap, MapInv, EndInv, NEW t
         \in Thread, WalkMatchEff(t)
  PROVE  EndInv'
<1>1. \A n \in Mem : EndStays(n)
  BY DEF EndStays, WalkMatchEff, RefTo, Only, SameUse, SameId
<1>2. \A u \in Thread : CloseStays(u)
  BY DEF CloseStays, WalkMatchEff
<1>3. file' = file
  BY DEF WalkMatchEff
<1> QED BY <1>1, <1>2, <1>3, EndQuiet

LEMMA WalkSkipEnd ==
  ASSUME Inv, CtxInv, BaseInv, Races, RaceInv, OwnInv, NoMapUnmap, MapInv, EndInv, NEW t
         \in Thread, WalkSkipEff(t)
  PROVE  EndInv'
<1>1. \A n \in Mem : EndStays(n)
  BY DEF EndStays, WalkSkipEff, Moves, Keeps, RefTo, Only, SameUse, SameId
<1>2. \A u \in Thread : CloseStays(u)
  BY DEF CloseStays, WalkSkipEff, Moves, Keeps
<1>3. file' = file
  BY DEF WalkSkipEff
<1> QED BY <1>1, <1>2, <1>3, EndQuiet

LEMMA WalkPutEnd ==
  ASSUME Inv, CtxInv, BaseInv, Races, RaceInv, OwnInv, NoMapUnmap, MapInv, EndInv, NEW t
         \in Thread, WalkPutEff(t)
  PROVE  EndInv'
<1>1. \A n \in Mem : EndStays(n)
  BY DEF EndStays, WalkPutEff, Looks, RefTo, Only, SameUse, SameId
<1>2. \A u \in Thread : CloseStays(u)
  BY DEF CloseStays, WalkPutEff, Looks
<1>3. file' = file
  BY DEF WalkPutEff
<1> QED BY <1>1, <1>2, <1>3, EndQuiet

LEMMA WalkEndEnd ==
  ASSUME Inv, CtxInv, BaseInv, Races, RaceInv, OwnInv, NoMapUnmap, MapInv, EndInv, NEW t
         \in Thread, WalkEndEff(t)
  PROVE  EndInv'
<1>1. \A n \in Mem : EndStays(n)
  BY DEF EndStays, WalkEndEff, Moves, Keeps
<1>2. \A u \in Thread : CloseStays(u)
  BY DEF CloseStays, WalkEndEff, Moves, Keeps
<1>3. file' = file
  BY DEF WalkEndEff
<1> QED BY <1>1, <1>2, <1>3, EndQuiet

LEMMA MapAllocEnd ==
  ASSUME Inv, CtxInv, BaseInv, Races, RaceInv, OwnInv, NoMapUnmap, MapInv, EndInv, NEW t
         \in Thread, NEW d \in Dma, MapAllocEff(t, d)
  PROVE  EndInv'
<1>1. \A n \in Mem : EndStays(n)
  BY DEF EndStays, MapAllocEff
<1>2. \A u \in Thread : CloseStays(u)
  BY DEF CloseStays, MapAllocEff
<1>3. file' = file
  BY DEF MapAllocEff
<1> QED BY <1>1, <1>2, <1>3, EndQuiet

LEMMA MapDmaEnd ==
  ASSUME Inv, CtxInv, BaseInv, Races, RaceInv, OwnInv, NoMapUnmap, MapInv, EndInv, NEW t
         \in Thread, MapDmaEff(t)
  PROVE  EndInv'
<1>1. \A n \in Mem : EndStays(n)
  BY DEF EndStays, MapDmaEff, Moves, Keeps
<1>2. \A u \in Thread : CloseStays(u)
  BY DEF CloseStays, MapDmaEff, Moves, Keeps
<1>3. file' = file
  BY DEF MapDmaEff
<1> QED BY <1>1, <1>2, <1>3, EndQuiet

LEMMA MapFailsEnd ==
  ASSUME Inv, CtxInv, BaseInv, Races, RaceInv, OwnInv, NoMapUnmap, MapInv, EndInv, NEW t
         \in Thread, MapFailsEff(t)
  PROVE  EndInv'
<1>1. \A n \in Mem : EndStays(n)
  BY DEF EndStays, MapFailsEff, Moves, Keeps, DmaPc
<1>2. \A u \in Thread : CloseStays(u)
  BY DEF CloseStays, MapFailsEff, Moves, Keeps, DmaPc
<1>3. file' = file
  BY DEF MapFailsEff
<1> QED BY <1>1, <1>2, <1>3, EndQuiet

LEMMA MapLinkEnd ==
  ASSUME Inv, CtxInv, BaseInv, Races, RaceInv, OwnInv, NoMapUnmap, MapInv, EndInv, NEW t
         \in Thread, MapLinkEff(t)
  PROVE  EndInv'
<1>1. PICK m \in Mem : m = th[t].m
  BY DEF MapLinkEff
<1>2. th[t].op = "map"
  BY DEF CtxInv, Ops, OpOK, MapLinkEff
<1>3. m = vma[th[t].a].m
  BY <1>1, <1>2 DEF MapInv, MapsOK, MapHoldPc, MapLinkEff
<1>4. mem[m].heap = "live" /\ mem[m].state # "STALE"
  BY <1>2, <1>3, MapMem DEF Pinned
<1>5. /\ \A n \in Mem \ {m} : mem'[n] = mem[n]
      /\ SameUse(m) /\ pages' = pages /\ file' = file
  BY <1>1 DEF MapLinkEff, Only
<1>10. StalesHeld'
  BY <1>2, <1>5, OpenStays
<1>11. NoDmas'
  BY <1>4, <1>5 DEF EndInv, NoDmas, SameUse
<1>12. PagesOf'
  BY <1>5 DEF EndInv, PagesOf, SameUse
<1>13. LiveOnes'
  BY <1>5 DEF EndInv, LiveOnes, SameUse
<1> QED BY <1>10, <1>11, <1>12, <1>13 DEF EndInv

LEMMA MapReturnEnd ==
  ASSUME Inv, CtxInv, BaseInv, Races, RaceInv, OwnInv, NoMapUnmap, MapInv, EndInv, NEW t
         \in Thread, MapReturnEff(t)
  PROVE  EndInv'
<1>1. \A n \in Mem : EndStays(n)
  BY DEF EndStays, MapReturnEff, Ends
<1>2. \A u \in Thread : CloseStays(u)
  BY DEF CloseStays, MapReturnEff, Ends
<1>3. file' = file
  BY DEF MapReturnEff
<1> QED BY <1>1, <1>2, <1>3, EndQuiet

LEMMA MapUndoEnd ==
  ASSUME Inv, CtxInv, BaseInv, Races, RaceInv, OwnInv, NoMapUnmap, MapInv, EndInv, NEW t
         \in Thread, NEW d, NEW m, MapUndoEff(t, d, m)
  PROVE  EndInv'
<1>1. \A n \in Mem : EndStays(n)
  BY DEF EndStays, MapUndoEff, Only, SameUse, SameId
<1>2. \A u \in Thread : CloseStays(u)
  BY DEF CloseStays, MapUndoEff
<1>3. file' = file
  BY DEF MapUndoEff
<1> QED BY <1>1, <1>2, <1>3, EndQuiet

LEMMA CbBeginEnd ==
  ASSUME Inv, CtxInv, BaseInv, Races, RaceInv, OwnInv, NoMapUnmap, MapInv, EndInv, NEW m
         \in Mem, CbBeginEff(m)
  PROVE  EndInv'
<1>1. \A n \in Mem : EndStays(n)
  BY DEF EndStays, CbBeginEff
<1>2. \A u \in Thread : CloseStays(u)
  BY DEF CloseStays, CbBeginEff
<1>3. file' = file
  BY DEF CbBeginEff
<1> QED BY <1>1, <1>2, <1>3, EndQuiet

LEMMA CbRunEnd ==
  ASSUME Inv, CtxInv, BaseInv, Races, RaceInv, OwnInv, NoMapUnmap, MapInv, EndInv, NEW m
         \in Mem, CbRunEff(m)
  PROVE  EndInv'
<1>1. mem[m].state \in {"LIVE", "DEAD"}
  BY DEF OwnInv, CbStates, CbRunEff
<1>2. CASE mem[m].state = "LIVE"
  <2>1. mem[m].heap = "live" /\ mem[m].table /\ pages[m] = 1 /\ CbActs(m)
    BY <1>2 DEF EndInv, LiveOnes, PagesOf, RaceInv, CountInv, Tables, CbActs
  <2>2. /\ \A n \in Mem \ {m} : mem'[n] = mem[n] /\ pages'[n] = pages[n]
        /\ mem'[m].heap = "live" /\ mem'[m].state = "DEAD_CB"
        /\ pages'[m] = 1 - 1 /\ file' = file /\ th' = th
    BY <2>1 DEF CbRunEff, Only
  <2>3. StalesHeld'
    BY <2>2 DEF EndInv, StalesHeld
  <2>4. NoDmas'
    BY <2>2 DEF EndInv, NoDmas
  <2>5. PagesOf' /\ LiveOnes'
    BY <2>2 DEF EndInv, PagesOf, LiveOnes
  <2> QED BY <2>3, <2>4, <2>5 DEF EndInv
<1>3. CASE mem[m].state = "DEAD"
  <2>1. ~CbActs(m)
    BY <1>3 DEF CbActs
  <2>2. \A n \in Mem : EndStays(n)
    BY <2>1 DEF EndStays, CbRunEff, Only, SameCounts
  <2>3. file' = file /\ \A u \in Thread : CloseStays(u)
    BY DEF CbRunEff, CloseStays
  <2> QED BY <2>2, <2>3, EndQuiet
<1> QED BY <1>1, <1>2, <1>3

LEMMA GraceEndEnd ==
  ASSUME Inv, CtxInv, BaseInv, Races, RaceInv, OwnInv, NoMapUnmap, MapInv, EndInv, NEW m
         \in Mem, GraceEndEff(m)
  PROVE  EndInv'
<1>1. \A n \in Mem : EndStays(n)
  BY DEF EndStays, GraceEndEff, HeapTo, Only, SameCounts, SameId
<1>2. \A u \in Thread : CloseStays(u)
  BY DEF CloseStays, GraceEndEff
<1>3. file' = file
  BY DEF GraceEndEff
<1> QED BY <1>1, <1>2, <1>3, EndQuiet

----------------------------------------------------------------------------
(* The end of a process. *)

(* The invariant holds when the files have just been opened. *)
LEMMA EndInit == Init => EndInv
<1> SUFFICES ASSUME Init PROVE EndInv
  OBVIOUS
<1>1. \A m \in Mem : /\ mem[m].heap = "unused" /\ mem[m].state = "STALE" /\ mem[m].dmas = {}
                     /\ pages[m] = 0
  BY DEF Init, UnusedMem
<1> QED BY <1>1 DEF EndInv, StalesHeld, NoDmas, PagesOf, LiveOnes

LEMMA EndNext ==
  ASSUME Inv, CtxInv, BaseInv, Races, RaceInv, OwnInv, NoMapUnmap, MapInv, EndInv, [Next]_vars
  PROVE  EndInv'
<1>1. StepEff
  BY NextDoes
<1>2. ASSUME NEW t \in Thread, CallEff(t) PROVE EndInv'
  BY <1>2, RegStartEnd, PinStartEnd, UnmapStartEnd, CloseStartEnd, MapStartEnd DEF
     CallEff
<1>3. ASSUME NEW t \in Thread, LockEff(t) PROVE EndInv'
  BY <1>3, RegInsertEnd, RegInsertFailsEnd, RegCopyEnd, RegEraseEnd, GoesOnEnd,
     PinGetEnd, PinDoEnd, PinDoFailsEnd, PinReturnEnd, PutEnd, RelUnlinkEnd, RelFreeEnd,
     RelCtxEnd, UnmapDoEnd, UnmapReturnEnd, CloseDoEnd, CloseReturnEnd DEF LockEff
<1>4. ASSUME NEW t \in Thread, MapEff(t) PROVE EndInv'
  BY <1>4, MapLockEnd, WalkMatchEnd, WalkSkipEnd, WalkPutEnd, WalkEndEnd, MapAllocEnd,
     MapDmaEnd, MapFailsEnd, MapLinkEnd, MapReturnEnd, MapUndoEnd DEF MapEff
<1>5. ASSUME NEW m \in Mem, CbBeginEff(m) \/ CbRunEff(m) \/ GraceEndEff(m) PROVE EndInv'
  BY <1>5, CbBeginEnd, CbRunEnd, GraceEndEnd
<1>6. CASE Frozen
  <2>1. /\ \A m \in Mem : EndStays(m)
        /\ \A u \in Thread : CloseStays(u)
        /\ file' = file
    BY <1>6 DEF Frozen, EndStays, CloseStays
  <2> QED BY <2>1, EndQuiet
<1> QED BY <1>1, <1>2, <1>3, <1>4, <1>5, <1>6, SplitVmaEnd DEF StepEff

LEMMA EndAlways ==
  ASSUME Races, NoCbPin, NoMapUnmap
  PROVE  Spec => []EndInv
<1>1. Inv /\ CtxInv /\ BaseInv /\ RaceInv /\ OwnInv /\ MapInv /\ EndInv /\ [Next]_vars => EndInv'
  BY EndNext
<1> QED BY <1>1, EndInit, InvAlways, CtxAlways, BaseAlways, RaceAlways, OwnAlways, MapAlways,
           PTL DEF Spec

(* When the process is gone, so is everything it made. *)
LEMMA GoneIsClean ==
  ASSUME Inv, CtxInv, BaseInv, RaceInv, NoCbMap, OwnInv, MapInv, EndInv, ProcessGone
  PROVE  Reclaimed
<1>1. \A t \in Thread : th[t].pc = "idle" /\ th[t].op = "none"
  BY DEF ProcessGone, Idle
<1>2. \A a \in Addr : vma[a].m = NULL
  <2> SUFFICES ASSUME NEW a \in Addr, vma[a] # NoVma PROVE FALSE
    BY NoVmaFields
  <2>1. vma[a].f \in File /\ file[vma[a].f] = "open"
    BY VmaTypes DEF CtxInv, FilesOK
  <2> QED BY <2>1 DEF ProcessGone
<1>3. \A m \in Mem : mem[m].heap # "live"
  <2> SUFFICES ASSUME NEW m \in Mem, mem[m].heap = "live" PROVE FALSE
    OBVIOUS
  <2>1. mem[m].state # "STALE"
    BY <1>1 DEF EndInv, StalesHeld, ProcessGone
  <2>2. Slack(m) = 1
    BY <1>1 DEF MapInv, FullRefs, LastPc
  <2>3. Owned(m)
    BY <2>2 DEF OwnInv, Owns
  <2> QED BY <1>1, <1>2, <2>1, <2>3, NullOut DEF Owned, At
<1>4. memList = {}
  BY <1>3, ListTypes DEF CtxInv, Lists
<1>5. ctxRef = 0
  <2>1. OpenFiles = {} /\ LiveMems = {}
    BY <1>3 DEF OpenFiles, LiveMems, ProcessGone
  <2>2. CtxThreads = {} /\ UnmapThreads = {}
    BY <1>1 DEF CtxThreads, UnmapThreads
  <2>3. ctxRef = Cardinality(OpenFiles) + Cardinality(LiveMems)
                 + Cardinality(CtxThreads) + Cardinality(UnmapThreads)
    BY CtxCount DEF CtxInv
  <2> QED BY <2>1, <2>2, <2>3, FS_EmptySet
<1>6. \A m \in Mem : pages[m] = 0
  BY <1>3 DEF EndInv, PagesOf, LiveOnes
<1>7. \A d \in Dma : dma[d].heap # "live"
  <2> SUFFICES ASSUME NEW d \in Dma, dma[d].heap = "live" PROVE FALSE
    OBVIOUS
  <2>1. dma[d].mem \in Mem /\ Placed(d)
    BY DEF BaseInv, DmaPlaced
  <2>2. d \in mem[dma[d].mem].dmas
    BY <1>1, <2>1 DEF Placed, DmaPc
  <2> QED BY <1>3, <2>1, <2>2 DEF EndInv, NoDmas
<1>8. \A d \in Dma : ~dma[d].mapped
  <2> SUFFICES ASSUME NEW d \in Dma, dma[d].mapped PROVE FALSE
    OBVIOUS
  <2>1. dma[d].heap # "unused"
    BY DEF RaceInv, CountInv, Mapped
  <2>2. dma[d].mem \in Mem
    BY <2>1 DEF Inv, DmaInv, DmaMade
  <2>3. mem[dma[d].mem].heap = "live"
    BY <2>2 DEF RaceInv, CountInv, Mapped
  <2> QED BY <1>3, <2>2, <2>3
<1>9. \A c \in Ctrl : ctrlRef[c] = 0
  <2> SUFFICES ASSUME NEW c \in Ctrl PROVE ctrlRef[c] = 0
    OBVIOUS
  <2>1. {d \in Dma : dma[d].heap = "live" /\ dma[d].ctrl = c} = {}
    BY <1>7
  <2>2. ctrlRef[c] = Cardinality({d \in Dma : dma[d].heap = "live" /\ dma[d].ctrl = c})
    BY DEF Inv, DmaInv, CtrlRefExact
  <2> QED BY <2>1, <2>2, FS_EmptySet
<1> QED BY <1>3, <1>4, <1>5, <1>6, <1>7, <1>8, <1>9 DEF Reclaimed

(* A process that keeps the whole usage protocol leaves nothing in the     *)
(* kernel once its files are closed and its calls have returned.           *)
THEOREM NothingIsLeft ==
  ASSUME Races, {"map", "unmap"} \notin Overlap, {"cb", "map"} \notin Overlap,
         {"cb", "pin"} \notin Overlap
  PROVE  Spec => []NothingLeft
<1>1. ASSUME NoCbMap PROVE Inv /\ CtxInv /\ BaseInv /\ RaceInv /\ OwnInv /\ MapInv /\ EndInv => NothingLeft
  BY <1>1, GoneIsClean DEF NothingLeft
<1>2. ASSUME Races, NoMapUnmap, NoCbMap, NoCbPin PROVE Spec => []NothingLeft
  <2>1. Inv /\ CtxInv /\ BaseInv /\ RaceInv /\ OwnInv /\ MapInv /\ EndInv => NothingLeft
    BY <1>1, <1>2
  <2> QED BY <1>2, <2>1, InvAlways, CtxAlways, BaseAlways, RaceAlways, OwnAlways, MapAlways,
             EndAlways, PTL
<1> QED BY <1>2 DEF NoMapUnmap, NoCbMap, NoCbPin

----------------------------------------------------------------------------
(* BafsMem implements BafsMemAbs for a process that keeps to the contract. *)

InVma(m) == \E a \in Addr : vma[a].m = m

SameLife(m) ==
  /\ mem'[m].heap = mem[m].heap /\ mem'[m].state = mem[m].state
  /\ InVma(m)' <=> InVma(m)

Touches(d, m) == dma[d].mapped /\ dma[d].mem = m

SameReach(m) == \A d \in Dma : Touches(d, m)' <=> Touches(d, m)

(* The phases, one by one. *)
LEMMA PhaseIs ==
  ASSUME NEW m \in Mem
  PROVE  /\ mem[m].heap = "unused" => Phase[m] = "new"
         /\ mem[m].heap \in Gone => Phase[m] = "gone"
         /\ mem[m].heap = "live" /\ mem[m].state = "STALE" => Phase[m] = "registered"
         /\ mem[m].heap = "live" /\ mem[m].state = "LIVE" /\ InVma(m) => Phase[m] = "pinned"
         /\ mem[m].heap = "live" /\ mem[m].state = "LIVE" /\ ~InVma(m) => Phase[m] = "unmapped"
         /\ mem[m].heap = "live" /\ mem[m].state = "DEAD_CB" => Phase[m] = "revoked"
<1>1. Phase[m] = PhaseOf(mem[m], InVma(m))
  BY DEF Phase, InVma
<1> QED BY <1>1 DEF PhaseOf, Gone

LEMMA PhaseIsNext ==
  ASSUME NEW m \in Mem
  PROVE  /\ mem'[m].heap = "unused" => Phase'[m] = "new"
         /\ mem'[m].heap \in Gone => Phase'[m] = "gone"
         /\ mem'[m].heap = "live" /\ mem'[m].state = "STALE" => Phase'[m] = "registered"
         /\ mem'[m].heap = "live" /\ mem'[m].state = "LIVE" /\ InVma(m)' => Phase'[m] = "pinned"
         /\ mem'[m].heap = "live" /\ mem'[m].state = "LIVE" /\ ~InVma(m)' => Phase'[m] = "unmapped"
         /\ mem'[m].heap = "live" /\ mem'[m].state = "DEAD_CB" => Phase'[m] = "revoked"
<1>1. Phase'[m] = PhaseOf(mem'[m], InVma(m)')
  BY DEF Phase, InVma, PhaseOf
<1> QED BY <1>1 DEF PhaseOf, Gone

LEMMA PhaseStays == ASSUME NEW m \in Mem, SameLife(m) PROVE Phase'[m] = Phase[m]
<1>1. Phase[m] = PhaseOf(mem[m], InVma(m))
  BY DEF Phase, InVma
<1>2. Phase'[m] = PhaseOf(mem'[m], InVma(m)')
  BY DEF Phase, InVma, PhaseOf
<1> QED BY <1>1, <1>2 DEF PhaseOf, SameLife

LEMMA PhaseSet ==
  ASSUME NEW m \in Mem, \A n \in Mem \ {m} : SameLife(n)
  PROVE  Phase' = [Phase EXCEPT ![m] = Phase'[m]]
<1>1. \A n \in Mem \ {m} : Phase'[n] = Phase[n]
  BY PhaseStays
<1>2. DOMAIN Phase = Mem /\ DOMAIN Phase' = Mem
  BY DEF Phase
<1>3. Phase = [n \in Mem |-> Phase[n]] /\ Phase' = [n \in Mem |-> Phase'[n]]
  BY DEF Phase
<1> QED BY <1>1, <1>2, <1>3

LEMMA PhasesStay == ASSUME \A n \in Mem : SameLife(n) PROVE Phase' = Phase
<1>1. \A n \in Mem : Phase'[n] = Phase[n]
  BY PhaseStays
<1>2. Phase = [n \in Mem |-> Phase[n]] /\ Phase' = [n \in Mem |-> Phase'[n]]
  BY DEF Phase
<1> QED BY <1>1, <1>2

(* The mappings that reach a registration. *)
LEMMA ReachIs ==
  /\ \A m \in Mem : Reached[m] = {d \in Dma : Touches(d, m)}
  /\ \A m \in Mem : Reached'[m] = {d \in Dma : Touches(d, m)'}
  /\ Reached = [m \in Mem |-> Reached[m]] /\ Reached' = [m \in Mem |-> Reached'[m]]
BY DEF Reached, Touches

LEMMA ReachStays == ASSUME NEW m \in Mem, SameReach(m) PROVE Reached'[m] = Reached[m]
BY ReachIs DEF SameReach

LEMMA ReachesStay == ASSUME \A n \in Mem : SameReach(n) PROVE Reached' = Reached
<1>1. \A n \in Mem : Reached'[n] = Reached[n]
  BY ReachStays
<1> QED BY <1>1, ReachIs

LEMMA ReachSet ==
  ASSUME NEW m \in Mem, \A n \in Mem \ {m} : SameReach(n)
  PROVE  Reached' = [Reached EXCEPT ![m] = Reached'[m]]
<1>1. \A n \in Mem \ {m} : Reached'[n] = Reached[n]
  BY ReachStays
<1> QED BY <1>1, ReachIs

(* Only pages that are pinned are reached. *)
LEMMA ReachesLive ==
  ASSUME Inv, RaceInv, NoCbMap, NEW d \in Dma, NEW m \in Mem, Touches(d, m)
  PROVE  dma[d].heap = "live" /\ mem[m].heap = "live" /\ mem[m].table /\ mem[m].state = "LIVE"
BY DEF Touches, RaceInv, CountInv, Mapped, Tables

LEMMA ReachesLiveNext ==
  ASSUME RaceInv', NoCbMap, NEW d \in Dma, NEW m \in Mem, Touches(d, m)'
  PROVE  mem'[m].heap = "live" /\ mem'[m].state = "LIVE"
BY DEF Touches, RaceInv, CountInv, Mapped, Tables, NoCbMap

LEMMA Unreached ==
  ASSUME NEW m \in Mem, \A d \in Dma : ~Touches(d, m) PROVE Reached[m] = {}
BY ReachIs

LEMMA UnreachedNext ==
  ASSUME NEW m \in Mem, \A d \in Dma : ~Touches(d, m)' PROVE Reached'[m] = {}
BY ReachIs

(* Steps that a user of the memory does not see. *)
LEMMA Unseeing ==
  ASSUME vma' = vma, dma' = dma,
         \A n \in Mem : mem'[n].heap = mem[n].heap /\ mem'[n].state = mem[n].state
  PROVE  UNCHANGED Buf!vars
<1>1. \A n \in Mem : SameLife(n) /\ SameReach(n)
  BY DEF SameLife, InVma, SameReach, Touches
<1> QED BY <1>1, PhasesStay, ReachesStay DEF Buf!vars

(* Steps that change the life of one registration, or none. *)
LEMMA LifeFrame ==
  ASSUME NEW m \in Mem, Only(m), vma' = vma
  PROVE  \A n \in Mem \ {m} : SameLife(n)
BY DEF Only, SameLife, InVma

LEMMA ReachFrame ==
  ASSUME dma' = dma
  PROVE  /\ \A n \in Mem : SameReach(n)
         /\ Reached' = Reached
<1>1. \A n \in Mem : SameReach(n)
  BY DEF SameReach, Touches
<1> QED BY <1>1, ReachesStay

(* One registration ends. *)
LEMMA EndsAlone ==
  ASSUME NEW m \in Mem, Only(m), vma' = vma, dma' = dma, mem'[m].heap \in Gone,
         Phase[m] \in {"registered", "unmapped", "revoked"}, Reached[m] = {}
  PROVE  Buf!Next
<1>1. Phase'[m] = "gone"
  BY PhaseIsNext
<1>2. \A n \in Mem \ {m} : Phase'[n] = Phase[n]
  BY LifeFrame, PhaseStays
<1>3. Phase' = [n \in Mem |-> Phase'[n]]
  BY DEF Phase
<1>4. Phase' = [n \in Mem |-> IF n \in {m} THEN "gone" ELSE Phase[n]]
  BY <1>1, <1>2, <1>3
<1>5. Buf!End({m})
  BY <1>4, ReachFrame DEF Buf!End
<1>6. {m} \in SUBSET Mem
  OBVIOUS
<1> QED BY <1>5, <1>6 DEF Buf!Next

(* A mapping that reached m does not any more. *)
LEMMA Retracts ==
  ASSUME NEW m \in Mem, NEW d \in Dma, vma' = vma,
         \A n \in Mem : mem'[n].heap = mem[n].heap /\ mem'[n].state = mem[n].state,
         \A e \in Dma \ {d} : (dma'[e].mapped <=> dma[e].mapped) /\ dma'[e].mem = dma[e].mem,
         ~dma'[d].mapped, dma[d].mem = m
  PROVE  Buf!Next
<1>1. Phase' = Phase
  <2>1. \A n \in Mem : SameLife(n)
    BY DEF SameLife, InVma
  <2> QED BY <2>1, PhasesStay
<1>2. \A n \in Mem \ {m} : SameReach(n)
  BY DEF SameReach, Touches
<1>3. Reached'[m] = Reached[m] \ {d}
  <2>1. \A e \in Dma : Touches(e, m)' <=> Touches(e, m) /\ e # d
    BY DEF Touches
  <2> QED BY <2>1, ReachIs
<1>4. Reached' = [Reached EXCEPT ![m] = Reached[m] \ {d}]
  BY <1>2, <1>3, ReachSet
<1> QED BY <1>1, <1>4 DEF Buf!Next, Buf!Retract

----------------------------------------------------------------------------
(* Each step of BafsMem is a step of BafsMemAbs or is not seen. *)

(* The whole contract, and all that has been proved of its states. *)
Contract == Races /\ NoMapUnmap /\ NoCbMap /\ NoCbPin

AllInv == Inv /\ CtxInv /\ BaseInv /\ RaceInv /\ OwnInv /\ MapInv /\ EndInv

LEMMA ListedLive ==
  ASSUME Inv, CtxInv, NEW m \in memList PROVE m \in Mem /\ mem[m].heap = "live"
BY ListTypes DEF CtxInv, Lists

(* Nothing reaches a registration that is not pinned. *)
LEMMA OthersUnreached ==
  ASSUME Inv, RaceInv, NoCbMap, NEW m \in Mem, mem[m].state # "LIVE"
  PROVE  (\A d \in Dma : ~Touches(d, m)) /\ Reached[m] = {}
<1>1. \A d \in Dma : ~Touches(d, m)
  BY ReachesLive
<1> QED BY <1>1, Unreached

LEMMA OthersUnreachedNext ==
  ASSUME RaceInv', NoCbMap, NEW m \in Mem, mem'[m].heap # "live" \/ mem'[m].state # "LIVE"
  PROVE  (\A d \in Dma : ~Touches(d, m)') /\ Reached'[m] = {}
<1>1. \A d \in Dma : ~Touches(d, m)'
  BY ReachesLiveNext
<1> QED BY <1>1, UnreachedNext

LEMMA RegStartRef ==
  ASSUME AllInv, Contract, NEW t \in Thread, NEW f, NEW l, NEW m \in Mem,
         RegStartEff(t, f, l, m)
  PROVE  Buf!Next
<1>1. /\ Only(m) /\ vma' = vma /\ dma' = dma
      /\ mem[m].heap = "unused" /\ mem'[m].heap = "live" /\ mem'[m].state = "STALE"
  BY DEF RegStartEff
<1>2. Phase[m] = "new" /\ Phase'[m] = "registered"
  BY <1>1, PhaseIs, PhaseIsNext
<1>3. Phase' = [Phase EXCEPT ![m] = "registered"]
  BY <1>1, <1>2, LifeFrame, PhaseSet
<1>4. Reached' = Reached
  BY <1>1, ReachFrame
<1> QED BY <1>2, <1>3, <1>4 DEF Buf!Next, Buf!Register, Buf!Turn

LEMMA RegInsertFailsRef ==
  ASSUME AllInv, Contract, NEW t \in Thread, RegInsertFailsEff(t) PROVE Buf!Next
<1>1. PICK m \in Mem : m = th[t].m
  BY DEF RegInsertFailsEff
<1>2. th[t].pc = "reg_insert" /\ th[t].op = "reg"
  BY DEF RegInsertFailsEff, Ends, AllInv, CtxInv, Ops, OpOK
<1>3. mem[m].heap = "live" /\ mem[m].state = "STALE"
  BY <1>1, <1>2 DEF AllInv, CtxInv, Making, RaceInv, NameInv, Fresh, Blank
<1>4. Only(m) /\ vma' = vma /\ dma' = dma /\ mem'[m].heap \in Gone
  BY <1>1 DEF RegInsertFailsEff, HeapTo, Gone
<1>5. Reached[m] = {}
  BY <1>3, OthersUnreached DEF AllInv, Contract
<1> QED BY <1>3, <1>4, <1>5, PhaseIs, EndsAlone

LEMMA RegEraseRef ==
  ASSUME AllInv, Contract, NEW t \in Thread, RegEraseEff(t) PROVE Buf!Next
<1>1. PICK m \in Mem : m = th[t].m
  BY DEF RegEraseEff
<1>2. th[t].pc = "reg_erase" /\ th[t].op = "reg"
  BY DEF RegEraseEff, Ends, AllInv, CtxInv, Ops, OpOK
<1>3. mem[m].heap = "live" /\ mem[m].state = "STALE"
  <2>1. m \in memList
    BY <1>1, <1>2 DEF AllInv, RaceInv, NameInv, RegsOK, RegPc
  <2>2. mem[m].state = "STALE"
    BY <1>1, <1>2 DEF AllInv, RaceInv, NameInv, Fresh, Blank
  <2> QED BY <2>1, <2>2, ListedLive DEF AllInv
<1>4. Only(m) /\ vma' = vma /\ dma' = dma /\ mem'[m].heap \in Gone
  BY <1>1 DEF RegEraseEff, HeapTo, Gone
<1>5. Reached[m] = {}
  BY <1>3, OthersUnreached DEF AllInv, Contract
<1> QED BY <1>3, <1>4, <1>5, PhaseIs, EndsAlone

LEMMA RelFreeRef ==
  ASSUME AllInv, Contract, RaceInv', NEW t \in Thread, RelFreeEff(t) PROVE Buf!Next
<1>1. PICK m \in Mem : m = th[t].m
  BY DEF RelFreeEff
<1>2. th[t].pc = "rel_free"
  BY DEF RelFreeEff, Moves
<1>3. mem[m].heap = "live" /\ mem[m].state \in {"STALE", "LIVE", "DEAD_CB"}
  <2>1. mem[m].heap = "live"
    BY <1>1, <1>2 DEF AllInv, MapInv, RelsOK, LastPc
  <2>2. mem[m].state # "DEAD"
    BY <2>1 DEF AllInv, Inv, TableInv, TableOK, Gone
  <2>3. mem[m] \in MemRec
    BY DEF AllInv, Inv, TypeOK
  <2> QED BY <2>1, <2>2, <2>3 DEF MemRec
<1>4. ~InVma(m)
  <2>1. m \notin memList /\ m # NULL
    BY <1>1, <1>2, NullOut DEF AllInv, CtxInv, Lists
  <2> QED BY <2>1 DEF InVma, AllInv, RaceInv, NameInv, VmasOK
<1>5. Only(m) /\ vma' = vma /\ dma' = dma /\ mem'[m].heap \in Gone
  BY <1>1 DEF RelFreeEff, Gone
<1>6. Reached[m] = {}
  <2>1. mem'[m].heap # "live"
    BY <1>5 DEF Gone
  <2>2. \A d \in Dma : ~Touches(d, m)'
    BY <2>1, OthersUnreachedNext DEF Contract
  <2>3. \A d \in Dma : ~Touches(d, m)
    BY <1>5, <2>2 DEF Touches
  <2> QED BY <2>3, Unreached
<1>7. Phase[m] \in {"registered", "unmapped", "revoked"}
  BY <1>3, <1>4, PhaseIs
<1> QED BY <1>5, <1>6, <1>7, EndsAlone

LEMMA PinDoRef ==
  ASSUME AllInv, Contract, NEW t \in Thread, PinDoEff(t) PROVE Buf!Next
<1>1. PICK m \in Mem : m = th[t].m
  BY DEF PinDoEff
<1>2. PICK a \in Addr : a = th[t].a /\ vma[a] = NoVma /\ m \in memList /\ mem[m].state = "STALE"
  <2>1. th[t].pc \in PinPc
    BY DEF PinDoEff, Moves, PinPc
  <2> QED BY <1>1, <2>1 DEF AllInv, RaceInv, NameInv, PinsOK, OwnInv, StalePins
<1>3. /\ Only(m) /\ dma' = dma
      /\ mem'[m].heap = mem[m].heap /\ mem'[m].state = "LIVE"
      /\ vma'[a] = [m |-> m, f |-> th[t].f]
      /\ \A b \in Addr \ {a} : vma'[b] = vma[b]
  BY <1>1, <1>2 DEF PinDoEff
<1>4. mem[m].heap = "live"
  BY <1>2, ListedLive DEF AllInv
<1>5. vma[a].m = NULL /\ vma'[a].m = m
  BY <1>2, <1>3, NoVmaFields
<1>6. Phase[m] = "registered" /\ Phase'[m] = "pinned"
  <2>1. InVma(m)'
    BY <1>5 DEF InVma
  <2> QED BY <1>2, <1>3, <1>4, <2>1, PhaseIs, PhaseIsNext
<1>7. \A n \in Mem \ {m} : SameLife(n)
  <2> SUFFICES ASSUME NEW n \in Mem \ {m} PROVE InVma(n)' <=> InVma(n)
    BY <1>3 DEF SameLife, Only
  <2>1. vma[a].m # n /\ vma'[a].m # n
    BY <1>5, NullOut
  <2> QED BY <1>3, <2>1 DEF InVma
<1>8. Phase' = [Phase EXCEPT ![m] = "pinned"]
  BY <1>6, <1>7, PhaseSet
<1>9. Reached' = Reached
  BY <1>3, ReachFrame
<1> QED BY <1>6, <1>8, <1>9 DEF Buf!Next, Buf!Pin, Buf!Turn

LEMMA UnmapDoRef ==
  ASSUME AllInv, Contract, RaceInv', NEW t \in Thread, UnmapDoEff(t)
  PROVE  Buf!Next \/ UNCHANGED Buf!vars
<1>1. PICK m \in Mem : m = th[t].m
  BY DEF UnmapDoEff
<1>2. th[t].pc = "unmap_do" /\ th[t].op = "unmap"
  BY DEF UnmapDoEff, Moves, AllInv, CtxInv, Ops, OpOK
<1>3. PICK a \in Addr : a = th[t].a /\ vma[a].m = m
  BY <1>1, <1>2 DEF AllInv, RaceInv, NameInv, UnmapsOK
<1>4. m \in memList /\ mem[m].state \in Pinned /\ \A b \in Addr : vma[b].m = m => b = a
  BY <1>3, NullOut DEF AllInv, RaceInv, NameInv, VmasOK
<1>5. mem[m].heap = "live"
  BY <1>4, ListedLive DEF AllInv
<1>6. /\ Only(m) /\ mem'[m].heap = mem[m].heap /\ mem'[m].state = mem[m].state
      /\ vma'[a] = NoVma /\ \A b \in Addr \ {a} : vma'[b] = vma[b]
      /\ Drops(mem[m].dmas, ~UnmapsNow(m))
  BY <1>1, <1>3 DEF UnmapDoEff, SameUse
<1>7. InVma(m) /\ ~InVma(m)'
  <2>1. vma'[a].m # m
    BY <1>6, NoVmaFields, NullOut
  <2> QED BY <1>3, <1>4, <1>6, <2>1 DEF InVma
<1>8. \A n \in Mem \ {m} : SameLife(n)
  <2> SUFFICES ASSUME NEW n \in Mem \ {m} PROVE InVma(n)' <=> InVma(n)
    BY <1>6 DEF SameLife, Only
  <2>1. vma[a].m # n /\ vma'[a].m # n
    BY <1>3, <1>6, NoVmaFields, NullOut
  <2> QED BY <1>6, <2>1 DEF InVma
<1>9. \A n \in Mem \ {m} : SameReach(n)
  <2>1. \A d \in mem[m].dmas : dma[d].mem = m
    BY DEF AllInv, Inv, DmaInv, DmaListsSound
  <2> QED BY <1>6, <2>1 DEF SameReach, Touches, Drops
<1>10. Phase' = [Phase EXCEPT ![m] = Phase'[m]] /\ Reached' = [Reached EXCEPT ![m] = Reached'[m]]
  BY <1>8, <1>9, PhaseSet, ReachSet
<1>11. CASE mem[m].state = "LIVE"
  <2>1. Phase[m] = "pinned" /\ Phase'[m] = "unmapped"
    BY <1>5, <1>6, <1>7, <1>11, PhaseIs, PhaseIsNext
  <2>2. ASSUME NEW d \in Dma, Touches(d, m)' PROVE FALSE
    <3>1. Touches(d, m) /\ d \notin mem[m].dmas
      BY <1>6, <1>11, <2>2 DEF Touches, Drops, UnmapsNow
    <3>2. dma[d].heap = "live" /\ dma[d].mem = m
      BY <3>1, ReachesLive DEF AllInv, Contract, Touches
    <3>3. PICK u \in Thread : th[u].pc \in DmaPc
      BY <3>1, <3>2 DEF AllInv, BaseInv, DmaPlaced, Placed
    <3>4. th[u].op = "map"
      BY <3>3 DEF DmaPc, AllInv, CtxInv, Ops, OpOK
    <3> QED BY <1>2, <3>4, MapApart DEF AllInv, Contract
  <2>3. Reached'[m] = {}
    BY <2>2, UnreachedNext
  <2> QED BY <1>10, <2>1, <2>3 DEF Buf!Next, Buf!Unmap, Buf!Turn, Buf!Unreached
<1>12. CASE mem[m].state = "DEAD_CB"
  <2>1. Phase[m] = "revoked" /\ Phase'[m] = "revoked"
    BY <1>5, <1>6, <1>12, PhaseIs, PhaseIsNext
  <2>2. Reached[m] = {}
    BY <1>12, OthersUnreached DEF AllInv, Contract
  <2>3. Reached'[m] = {}
    BY <1>6, <1>12, OthersUnreachedNext DEF Contract
  <2>4. Phase' = Phase /\ Reached' = Reached
    <3>1. Phase = [n \in Mem |-> Phase[n]] /\ Reached = [n \in Mem |-> Reached[n]]
      BY ReachIs DEF Phase
    <3> QED BY <1>10, <2>1, <2>2, <2>3, <3>1
  <2> QED BY <2>4 DEF Buf!vars
<1> QED BY <1>4, <1>11, <1>12 DEF Pinned

LEMMA CloseDoRef ==
  ASSUME AllInv, Contract, NEW t \in Thread, CloseDoEff(t) PROVE Buf!Next
<1>1. /\ vma' = vma /\ dma' = dma
      /\ \A n \in Mem : /\ mem'[n].heap = IF n \in Stale THEN "limbo" ELSE mem[n].heap
                        /\ mem'[n].state = mem[n].state
  BY DEF CloseDoEff
<1>2. \A n \in Stale : n \in Mem /\ mem[n].heap = "live" /\ mem[n].state = "STALE"
  BY ListedLive DEF Stale, AllInv
<1>3. \A n \in Stale : Phase[n] = "registered" /\ Reached[n] = {}
  BY <1>2, PhaseIs, OthersUnreached DEF AllInv, Contract
<1>4. \A n \in Stale : Phase'[n] = "gone"
  BY <1>1, <1>2, PhaseIsNext DEF Gone
<1>5. \A n \in Mem \ Stale : Phase'[n] = Phase[n]
  <2>1. \A n \in Mem \ Stale : SameLife(n)
    BY <1>1 DEF SameLife, InVma
  <2> QED BY <2>1, PhaseStays
<1>6. Phase' = [n \in Mem |-> IF n \in Stale THEN "gone" ELSE Phase[n]]
  <2>1. Phase' = [n \in Mem |-> Phase'[n]]
    BY DEF Phase
  <2> QED BY <1>4, <1>5, <2>1
<1>7. Reached' = Reached
  BY <1>1, ReachFrame
<1>8. Buf!End(Stale)
  BY <1>3, <1>6, <1>7 DEF Buf!End
<1>9. Stale \in SUBSET Mem
  BY <1>2
<1> QED BY <1>8, <1>9 DEF Buf!Next

(* The mapping a thread is making is one of the registration it looked up, *)
(* which is pinned.                                                        *)
LEMMA MakesMapping ==
  ASSUME AllInv, Contract, NEW t \in Thread, th[t].pc \in DmaPc, NEW m, m = th[t].m
  PROVE  /\ m \in Mem /\ th[t].d \in Dma /\ dma[th[t].d].mem = m
         /\ mem[m].heap = "live" /\ InVma(m)
<1>1. th[t].op = "map" /\ th[t].pc \in MapHoldPc
  BY DEF DmaPc, MapHoldPc, AllInv, CtxInv, Ops, OpOK
<1>2. m = vma[th[t].a].m
  BY <1>1 DEF AllInv, MapInv, MapsOK
<1>3. m \in Mem /\ mem[m].heap = "live" /\ th[t].a \in Addr
  BY <1>1, <1>2, MapMem DEF AllInv, Contract
<1>4. th[t].d \in Dma /\ dma[th[t].d].mem = m
  BY ThreadTypes DEF AllInv, Inv, DmaInv, InFlight
<1> QED BY <1>2, <1>3, <1>4 DEF InVma

LEMMA MapDmaRef ==
  ASSUME AllInv, Contract, NEW t \in Thread, MapDmaEff(t) PROVE Buf!Next
<1>1. th[t].pc \in DmaPc
  BY DEF MapDmaEff, Moves, DmaPc
<1>2. PICK m \in Mem, d \in Dma :
        m = th[t].m /\ d = th[t].d /\ dma[d].mem = m /\ mem[m].heap = "live" /\ InVma(m)
  BY <1>1, MakesMapping
<1>3. /\ vma' = vma /\ mem' = mem /\ \A e \in Dma \ {d} : dma'[e] = dma[e]
      /\ dma'[d].mem = dma[d].mem /\ (dma'[d].mapped <=> mem[m].table)
  BY <1>2 DEF MapDmaEff
<1>4. CASE mem[m].table
  <2>1. Phase[m] = "pinned"
    BY <1>2, <1>4, PhaseIs DEF AllInv, RaceInv, CountInv, Tables
  <2>2. Phase' = Phase
    <3>1. \A n \in Mem : SameLife(n)
      BY <1>3 DEF SameLife, InVma
    <3> QED BY <3>1, PhasesStay
  <2>3. \A n \in Mem \ {m} : SameReach(n)
    BY <1>2, <1>3 DEF SameReach, Touches
  <2>4. Reached'[m] = Reached[m] \cup {d}
    <3>1. \A e \in Dma : Touches(e, m)' <=> Touches(e, m) \/ e = d
      BY <1>2, <1>3, <1>4 DEF Touches
    <3> QED BY <3>1, ReachIs
  <2>5. Reached' = [Reached EXCEPT ![m] = Reached[m] \cup {d}]
    BY <2>3, <2>4, ReachSet
  <2> QED BY <2>1, <2>2, <2>5 DEF Buf!Next, Buf!Reach
<1>5. CASE ~mem[m].table
  BY <1>2, <1>3, <1>5, Retracts
<1> QED BY <1>4, <1>5

LEMMA MapFailsRef ==
  ASSUME AllInv, Contract, NEW t \in Thread, MapFailsEff(t) PROVE Buf!Next
<1>1. th[t].pc \in DmaPc
  BY DEF MapFailsEff
<1>2. PICK m \in Mem, d \in Dma : m = th[t].m /\ d = th[t].d /\ dma[d].mem = m
  BY <1>1, MakesMapping
<1>3. /\ vma' = vma /\ mem' = mem /\ \A e \in Dma \ {d} : dma'[e] = dma[e]
      /\ dma'[d].mapped => dma[d].mapped /\ ~mem[m].table
  BY <1>2 DEF MapFailsEff
<1>4. ~dma'[d].mapped
  BY <1>2, <1>3, ReachesLive DEF Touches, AllInv, Contract
<1> QED BY <1>2, <1>3, <1>4, Retracts

LEMMA MapUndoRef ==
  ASSUME AllInv, Contract, NEW t \in Thread, NEW d, NEW m, MapUndoEff(t, d, m) PROVE Buf!Next
<1>1. m \in Mem /\ d \in Dma /\ dma[d].mem = m
  BY DEF MapUndoEff
<1>2. /\ vma' = vma /\ Only(m) /\ SameUse(m)
      /\ Drops({d}, ~UnmapsNow(m))
  BY DEF MapUndoEff
<1>3. \A n \in Mem : mem'[n].heap = mem[n].heap /\ mem'[n].state = mem[n].state
  BY <1>2 DEF Only, SameUse
<1>4. ~dma'[d].mapped
  <2>1. dma[d].mapped => UnmapsNow(m)
    BY <1>1, ReachesLive DEF Touches, AllInv, Contract, UnmapsNow
  <2> QED BY <1>1, <1>2, <2>1 DEF Drops
<1>5. \A e \in Dma \ {d} : (dma'[e].mapped <=> dma[e].mapped) /\ dma'[e].mem = dma[e].mem
  BY <1>2 DEF Drops
<1> QED BY <1>1, <1>2, <1>3, <1>4, <1>5, Retracts

LEMMA MapAllocRef ==
  ASSUME AllInv, Contract, NEW t \in Thread, NEW d \in Dma, MapAllocEff(t, d)
  PROVE  UNCHANGED Buf!vars
<1>1. /\ vma' = vma /\ mem' = mem /\ \A e \in Dma \ {d} : dma'[e] = dma[e]
      /\ dma[d].heap = "unused" /\ ~dma'[d].mapped
  BY DEF MapAllocEff
<1>2. ~dma[d].mapped
  BY <1>1 DEF AllInv, RaceInv, CountInv, Mapped
<1>3. \A n \in Mem : SameLife(n) /\ SameReach(n)
  BY <1>1, <1>2 DEF SameLife, InVma, SameReach, Touches
<1> QED BY <1>3, PhasesStay, ReachesStay DEF Buf!vars

LEMMA CbRunRef ==
  ASSUME AllInv, Contract, RaceInv', NEW m \in Mem, CbRunEff(m)
  PROVE  Buf!Next \/ UNCHANGED Buf!vars
<1>1. mem[m].state \in {"LIVE", "DEAD"}
  BY DEF AllInv, OwnInv, CbStates, CbRunEff
<1>2. /\ Only(m) /\ vma' = vma /\ mem'[m].heap = mem[m].heap
      /\ mem'[m].state = IF mem[m].state # "DEAD" THEN "DEAD_CB" ELSE mem[m].state
  BY DEF CbRunEff, CbActs
<1>3. CASE mem[m].state = "LIVE"
  <2>1. mem[m].heap = "live"
    BY <1>3 DEF AllInv, EndInv, LiveOnes
  <2>2. Phase[m] \in {"pinned", "unmapped"} /\ Phase'[m] = "revoked"
    BY <1>2, <1>3, <2>1, PhaseIs, PhaseIsNext
  <2>3. Phase' = [Phase EXCEPT ![m] = "revoked"]
    BY <1>2, <2>2, LifeFrame, PhaseSet
  <2>4. \A n \in Mem \ {m} : SameReach(n)
    <3>1. \A d \in mem[m].dmas : dma[d].mem = m
      BY DEF AllInv, Inv, DmaInv, DmaListsSound
    <3>2. \A d \in Dma : /\ dma'[d].mem = dma[d].mem
                         /\ d \notin mem[m].dmas => (dma'[d].mapped <=> dma[d].mapped)
      BY DEF CbRunEff
    <3> QED BY <3>1, <3>2 DEF SameReach, Touches
  <2>5. Reached'[m] = {}
    BY <1>2, <1>3, OthersUnreachedNext DEF Contract
  <2>6. Reached' = [Reached EXCEPT ![m] = {}]
    BY <2>4, <2>5, ReachSet
  <2> QED BY <2>2, <2>3, <2>6 DEF Buf!Next, Buf!Revoke, Buf!Turn, Buf!Unreached
<1>4. CASE mem[m].state = "DEAD"
  <2>1. \A d \in Dma : dma'[d].mem = dma[d].mem /\ (dma'[d].mapped <=> dma[d].mapped)
    BY <1>4 DEF CbRunEff, CbActs
  <2>2. \A n \in Mem : SameLife(n) /\ SameReach(n)
    BY <1>2, <1>4, <2>1 DEF Only, SameLife, InVma, SameReach, Touches
  <2> QED BY <2>2, PhasesStay, ReachesStay DEF Buf!vars
<1> QED BY <1>1, <1>3, <1>4

LEMMA GraceEndRef ==
  ASSUME NEW m \in Mem, GraceEndEff(m) PROVE UNCHANGED Buf!vars
<1>1. /\ Only(m) /\ vma' = vma /\ dma' = dma
      /\ mem[m].heap = "limbo" /\ mem'[m].heap = "freed"
  BY DEF GraceEndEff, HeapTo
<1>2. Phase[m] = "gone" /\ Phase'[m] = "gone"
  BY <1>1, PhaseIs, PhaseIsNext DEF Gone
<1>3. Phase' = Phase
  <2>1. Phase' = [Phase EXCEPT ![m] = Phase'[m]]
    BY <1>1, LifeFrame, PhaseSet
  <2>2. Phase = [n \in Mem |-> Phase[n]]
    BY DEF Phase
  <2> QED BY <1>2, <2>1, <2>2
<1> QED BY <1>1, <1>3, ReachFrame DEF Buf!vars

(* The steps of a call, but for those above, are not seen. *)
LEMMA CallRef ==
  ASSUME AllInv, Contract, NEW t \in Thread, CallEff(t)
  PROVE  Buf!Next \/ UNCHANGED Buf!vars
<1>1. ASSUME NEW f \in File, NEW l \in Loc, NEW m \in Mem, RegStartEff(t, f, l, m)
      PROVE  Buf!Next
  BY <1>1, RegStartRef
<1>2. ASSUME \A f \in File, l \in Loc, m \in Mem : ~RegStartEff(t, f, l, m)
      PROVE  mem' = mem /\ vma' = vma /\ dma' = dma
  BY <1>2 DEF CallEff, PinStartEff, UnmapStartEff, CloseStartEff, MapStartEff
<1> QED BY <1>1, <1>2, Unseeing

LEMMA SameUses ==
  ASSUME vma' = vma, dma' = dma, NEW m \in Mem, Only(m), SameUse(m)
  PROVE  UNCHANGED Buf!vars
BY Unseeing DEF Only, SameUse

LEMMA LockRef ==
  ASSUME AllInv, Contract, RaceInv', NEW t \in Thread, LockEff(t)
  PROVE  Buf!Next \/ UNCHANGED Buf!vars
<1>1. ASSUME RegInsertEff(t) PROVE UNCHANGED Buf!vars
  BY <1>1, SameUses DEF RegInsertEff
<1>2. ASSUME RegCopyEff(t) \/ PinReturnEff(t) \/ RelUnlinkEff(t) \/ RelCtxEff(t)
             \/ UnmapReturnEff(t) \/ CloseReturnEff(t)
             \/ \E pc, to : GoesOnPc(pc, to) /\ GoesOn(t, pc, to)
      PROVE  UNCHANGED Buf!vars
  <2>1. mem' = mem /\ vma' = vma /\ dma' = dma
    BY <1>2 DEF RegCopyEff, PinReturnEff, RelUnlinkEff, RelCtxEff, UnmapReturnEff,
                CloseReturnEff, GoesOn
  <2> QED BY <2>1, Unseeing
<1>3. ASSUME PinGetEff(t) PROVE UNCHANGED Buf!vars
  BY <1>3, SameUses DEF PinGetEff, RefTo
<1>4. ASSUME PinDoFailsEff(t) PROVE UNCHANGED Buf!vars
  <2>1. /\ vma' = vma /\ dma' = dma
        /\ \A n \in Mem : mem'[n].heap = mem[n].heap /\ mem'[n].state = mem[n].state
    BY <1>4 DEF PinDoFailsEff, Only
  <2> QED BY <2>1, Unseeing
<1>5. ASSUME NEW pc, NEW next, PutEff(t, pc, next) PROVE UNCHANGED Buf!vars
  BY <1>5, SameUses DEF PutEff, Puts, RefTo
<1> QED BY <1>1, <1>2, <1>3, <1>4, <1>5, RegInsertFailsRef, RegEraseRef, RelFreeRef, PinDoRef,
           UnmapDoRef, CloseDoRef DEF LockEff

LEMMA MapRef ==
  ASSUME AllInv, Contract, NEW t \in Thread, MapEff(t)
  PROVE  Buf!Next \/ UNCHANGED Buf!vars
<1>1. ASSUME MapLockEff(t) \/ WalkEndEff(t) \/ MapReturnEff(t) PROVE UNCHANGED Buf!vars
  <2>1. mem' = mem /\ vma' = vma /\ dma' = dma
    BY <1>1 DEF MapLockEff, WalkEndEff, MapReturnEff
  <2> QED BY <2>1, Unseeing
<1>2. ASSUME WalkMatchEff(t) PROVE UNCHANGED Buf!vars
  BY <1>2, SameUses DEF WalkMatchEff, RefTo
<1>3. ASSUME WalkSkipEff(t) PROVE UNCHANGED Buf!vars
  BY <1>3, SameUses DEF WalkSkipEff, RefTo
<1>4. ASSUME WalkPutEff(t) PROVE UNCHANGED Buf!vars
  BY <1>4, SameUses DEF WalkPutEff, RefTo
<1>5. ASSUME MapLinkEff(t) PROVE UNCHANGED Buf!vars
  BY <1>5, SameUses DEF MapLinkEff
<1> QED BY <1>1, <1>2, <1>3, <1>4, <1>5, MapAllocRef, MapDmaRef, MapFailsRef, MapUndoRef
        DEF MapEff

(* Every step of BafsMem is a step of BafsMemAbs or is not seen. *)
LEMMA StepRefines ==
  ASSUME AllInv, Contract, RaceInv', [Next]_vars
  PROVE  [Buf!Next]_Buf!vars
<1>1. StepEff
  BY NextDoes DEF AllInv
<1>2. \A m \in Mem : CbBeginEff(m) => UNCHANGED Buf!vars
  BY Unseeing DEF CbBeginEff
<1>3. Frozen => UNCHANGED Buf!vars
  BY Unseeing DEF Frozen
<1>4. \A a, b \in Addr : ~SplitVmaEff(a, b)
  BY DEF SplitVmaEff, Contract, Races
<1> QED BY <1>1, <1>2, <1>3, <1>4, CallRef, LockRef, MapRef, CbRunRef, GraceEndRef DEF StepEff

LEMMA InitRefines == Init => Buf!Init
<1> SUFFICES ASSUME Init PROVE Buf!Init
  OBVIOUS
<1>1. \A m \in Mem : mem[m].heap = "unused"
  BY DEF Init, UnusedMem
<1>2. \A d \in Dma : ~dma[d].mapped
  BY DEF Init, UnusedDma
<1>3. \A m \in Mem : Phase[m] = "new" /\ Reached[m] = {}
  BY <1>1, <1>2, PhaseIs, Unreached DEF Touches
<1>4. Phase = [m \in Mem |-> Phase[m]] /\ Reached = [m \in Mem |-> Reached[m]]
  BY ReachIs DEF Phase
<1> QED BY <1>3, <1>4 DEF Buf!Init

(* Counts, lists, locks and the handshake with the GPU driver implement    *)
(* the promise of BafsMemAbs to a process that keeps the whole contract:   *)
(* each registration is pinned at most once, controllers are given its     *)
(* pages only while it is pinned and mapped, they have lost them when an   *)
(* munmap or the GPU callback is done, and what has ended stays ended.     *)
THEOREM MemRefinement ==
  ASSUME Races, {"map", "unmap"} \notin Overlap, {"cb", "map"} \notin Overlap,
         {"cb", "pin"} \notin Overlap
  PROVE  Spec => MemImplementsAbs
<1>1. ASSUME Races, NoMapUnmap, NoCbMap, NoCbPin PROVE Spec => MemImplementsAbs
  <2>1. Inv /\ CtxInv /\ BaseInv /\ RaceInv /\ OwnInv /\ MapInv /\ EndInv /\ RaceInv'
        /\ [Next]_vars => [Buf!Next]_Buf!vars
    BY <1>1, StepRefines DEF Contract, AllInv
  <2> QED BY <1>1, <2>1, InitRefines, InvAlways, CtxAlways, BaseAlways, RaceAlways, OwnAlways,
             MapAlways, EndAlways, PTL DEF Spec, MemImplementsAbs, Buf!Spec
<1> QED BY <1>1 DEF NoMapUnmap, NoCbMap, NoCbPin

=============================================================================
