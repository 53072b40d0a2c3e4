-------------------------- MODULE BafsDmaMapProofs --------------------------
(***************************************************************************)
(* Proofs about BafsDmaMap, for every page size, every size of a           *)
(* registration that 32 bits hold, every group and every number of         *)
(* mappings.                                                               *)
(*                                                                         *)
(* The arithmetic is in one lemma, GranIsPage: for the pages that pinning  *)
(* has counted, the length the loops compute is the whole page, and the    *)
(* 32-bit product does not wrap.  So what the error path unmaps and what   *)
(* the release unmaps are what the loops have mapped.                      *)
(***************************************************************************)
EXTENDS BafsDmaMap, FiniteSetTheorems, SequenceTheorems, TLAPS

----------------------------------------------------------------------------
(* The inductive invariant. *)

MemRec == [st : {"none", "stale", "live"}, loc : {"CPU", "CUDA"}, size : Nat, len : Nat,
           p : Nat \ {0}, n : Nat]

CallPc == {"idle", "pin", "alloc", "map", "copy", "undo"}

CallRec == [pc : CallPc, file : [group : BOOLEAN, n_ctrls : Nat \ {0}], k : Nat, i : Nat,
            d : Nat, mine : Seq(Dma), n_dma_addrs : Nat, per : Nat]

Types ==
  /\ mem \in MemRec
  /\ call \in CallRec
  /\ dma \in [Dma -> {"unused", "filling", "linked", "freed"}]
  /\ lost \in Nat /\ arrays \in Int /\ bad \in BOOLEAN

(* The pages of a pinned registration are as many as its size needs, and a *)
(* range that is mapped is not empty.                                      *)
MemOK ==
  /\ At("pin") => mem.len > 0
  /\ mem.size < U32
  /\ mem.st = "live" \/ At("pin") => mem.n = NPages(mem.size, mem.p)
  /\ mem.st = "live" => mem.size > 0

(* Mappings are made for a live registration only; the one being filled is *)
(* the call's, and the ones the call has linked are in dma_list.           *)
CallOK ==
  /\ At("pin") => mem.st = "stale"
  /\ call.pc \in {"alloc", "map", "copy", "undo"} => mem.st = "live"
  /\ call.pc \in {"idle", "pin"} => call.mine = <<>> /\ ~call.file.group
  /\ mem.st # "live" => Linked = {}
  /\ \A d \in Dma : dma[d] = "filling" <=> At("map") /\ d = call.d
  /\ At("map") => call.d \in Dma /\ call.i <= mem.n
  /\ \A j \in 1 .. Len(call.mine) : dma[call.mine[j]] = "linked"

(* The pages taken so far are the first ones. *)
PagesOK ==
  /\ mem.st = "live" => pages = 0 .. mem.n - 1
  /\ At("pin") => \E k \in 0 .. mem.n : pages = 0 .. k - 1
  /\ mem.st # "live" /\ ~At("pin") => pages = {}

(* The objects that have an array of addresses. *)
InUse == {d \in Dma : dma[d] \in {"filling", "linked"}}

ArraysOK ==
  arrays = lost + (IF call.pc # "idle" THEN GroupArray ELSE 0)
           + HostArray * Cardinality(InUse)

(* What is mapped for the complete objects of a set. *)
Mapped(S) == UNION {UnmapDma(d) : d \in S}

(* BusExact, with a name for the complete objects' part. *)
BusIs == bus = Mapped(Linked) \cup (IF At("map") THEN Filled(call.d, call.i) ELSE {})

Inv == Types /\ MemOK /\ CallOK /\ PagesOK /\ ArraysOK /\ BusIs /\ UnmapMatches

----------------------------------------------------------------------------
(* Arithmetic. *)

(* The quotient and what is left of a division. *)
LEMMA DivFacts ==
  ASSUME NEW a \in Nat, NEW b \in Nat \ {0}
  PROVE  a \div b \in Nat /\ b * (a \div b) <= a /\ a < b * (a \div b) + b
OBVIOUS

(* The number of pages is enough for the size, and one less is not. *)
LEMMA NPagesFacts ==
  ASSUME NEW size \in Nat, NEW p \in Nat \ {0}
  PROVE  /\ NPages(size, p) \in Nat
         /\ NPages(size, p) * p >= size
         /\ size = 0 => NPages(size, p) = 0
         /\ size > 0 => (NPages(size, p) - 1) * p < size
<1> DEFINE n == NPages(size, p)
<1>1. size + p - 1 \in Nat
  OBVIOUS
<1>2. n \in Nat /\ p * n <= size + p - 1 /\ size + p - 1 < p * n + p
  BY <1>1, DivFacts DEF NPages
<1> HIDE DEF n
<1>3. p * n = n * p /\ (n - 1) * p = n * p - p
  BY <1>2
<1>4. n * p >= size /\ (n - 1) * p < size
  <2>1. n * p \in Int
    BY <1>2
  <2> QED BY <1>2, <1>3, <2>1
<1>5. ASSUME size = 0 PROVE n = 0
  <2>1. SUFFICES ASSUME n >= 1 PROVE FALSE
    BY <1>2
  <2>2. p * n >= p
    BY <1>2, <2>1
  <2> QED BY <1>2, <1>5, <2>2
<1> QED BY <1>2, <1>4, <1>5 DEF n

(* The length the loops give to every page that was counted is the page    *)
(* size: the product that finds the page's offset stays below the size,    *)
(* so it neither wraps at 32 bits nor shortens the page.                   *)
LEMMA GranIsPage ==
  ASSUME NEW size \in Nat, size < U32, NEW p \in Nat \ {0},
         NEW i \in 0 .. NPages(size, p) - 1
  PROVE  Gran(i, size, p) = p
<1> DEFINE n == NPages(size, p)
<1>1. n \in Nat /\ size > 0 /\ (n - 1) * p < size
  BY NPagesFacts
<1> HIDE DEF n
<1>2. i \in Nat /\ i <= n - 1
  BY <1>1 DEF n
<1>3. i * p \in Nat /\ i * p <= (n - 1) * p
  BY <1>1, <1>2
<1>4. i * p < size
  <2>1. (n - 1) * p \in Int
    BY <1>1
  <2> QED BY <1>1, <1>3, <2>1
<1>5. (i * p) % U32 = i * p
  <2> DEFINE x == i * p
  <2>1. x \in Nat /\ x < U32 /\ U32 \in Nat \ {0}
    BY <1>3, <1>4, SizesAssumption
  <2> HIDE DEF x
  <2>2. x % U32 = x
    BY <2>1
  <2> QED BY <2>2 DEF x
<1> QED BY <1>3, <1>4, <1>5 DEF Gran

----------------------------------------------------------------------------
(* Mappings as sets. *)

(* A mapping belongs to one object. *)
LEMMA OfOneObject ==
  /\ \A d : \A m \in UnmapDma(d) : m[1] = d
  /\ \A d, k : \A m \in Filled(d, k) : m[1] = d
BY DEF UnmapDma, Filled

(* What unmap_dma takes down is what the loop maps when it is through. *)
LEMMA UnmapIsFilled ==
  ASSUME Types, MemOK, mem.st = "live", NEW d
  PROVE  UnmapDma(d) = Filled(d, mem.n)
<1>1. /\ mem.size \in Nat /\ mem.size < U32 /\ mem.p \in Nat \ {0}
      /\ mem.n = NPages(mem.size, mem.p)
  BY DEF Types, MemRec, MemOK
<1>2. \A i \in 0 .. mem.n - 1 : Gran(i, mem.size, mem.p) = mem.p
  BY <1>1, GranIsPage
<1> QED BY <1>2 DEF UnmapDma, Filled

(* One page more. *)
LEMMA FilledMore ==
  ASSUME NEW d, NEW i \in Nat
  PROVE  /\ Filled(d, i + 1) = Filled(d, i) \cup {<<d, i, mem.p>>}
         /\ Filled(d, 0) = {}
<1>1. 0 .. (i + 1) - 1 = (0 .. i - 1) \cup {i} /\ 0 .. 0 - 1 = {}
  OBVIOUS
<1> QED BY <1>1 DEF Filled

(* More pages, more mappings. *)
LEMMA FilledGrows ==
  ASSUME NEW d, NEW i \in Nat, NEW n \in Nat, i <= n
  PROVE  Filled(d, i) \subseteq Filled(d, n)
<1>1. 0 .. i - 1 \subseteq 0 .. n - 1
  OBVIOUS
<1> QED BY <1>1 DEF Filled

(* The initial state satisfies the invariant. *)
LEMMA InitInv == Init => Inv
<1> SUFFICES ASSUME Init PROVE Inv
  OBVIOUS
<1> USE DEF Init
<1>1. Types
  <2>1. NoMem \in MemRec
    BY SizesAssumption DEF NoMem, MemRec
  <2>2. NoCall \in CallRec
    <3>1. <<>> \in Seq(Dma)
      OBVIOUS
    <3> QED BY <3>1 DEF NoCall, CallRec, CallPc
  <2>3. dma \in [Dma -> {"unused", "filling", "linked", "freed"}]
    OBVIOUS
  <2>4. lost \in Nat /\ arrays \in Int
    OBVIOUS
  <2>5. bad \in BOOLEAN
    BY Zenon
  <2> QED BY <2>1, <2>2, <2>3, <2>4, <2>5, Zenon DEF Types
<1>2. Linked = {} /\ InUse = {}
  BY DEF Linked, InUse
<1>3. MemOK /\ PagesOK /\ UnmapMatches
  BY SizesAssumption DEF MemOK, PagesOK, UnmapMatches, NoMem, NoCall, At
<1>4. CallOK
  BY <1>2 DEF CallOK, NoMem, NoCall, At
<1>5. BusIs
  BY <1>2 DEF BusIs, Mapped, At, NoCall
<1>6. ArraysOK
  <2>1. Cardinality(InUse) = 0
    BY <1>2, FS_EmptySet
  <2>2. HostArray \in {0, 1}
    BY DEF HostArray
  <2> QED BY <2>1, <2>2 DEF ArraysOK, NoCall
<1> QED BY <1>1, <1>3, <1>4, <1>5, <1>6 DEF Inv

(* The set of objects in use is finite. *)
LEMMA InUseFinite ==
  /\ IsFiniteSet(Dma) /\ IsFiniteSet(InUse) /\ Cardinality(InUse) \in Nat
<1>1. IsFiniteSet(Dma)
  BY SizesAssumption, FS_Interval DEF Dma
<1>2. InUse \in SUBSET Dma
  BY DEF InUse
<1> QED BY <1>1, <1>2, FS_Subset, FS_CardinalityType

(* Without mapping objects in use nothing is mapped. *)
LEMMA NothingMapped ==
  ASSUME Inv, call.pc \in {"idle", "pin"}, mem.st # "live"
  PROVE  Linked = {} /\ InUse = {} /\ bus = {}
<1>1. Linked = {} /\ \A d \in Dma : dma[d] # "filling"
  BY DEF Inv, CallOK, At
<1> QED BY <1>1 DEF Inv, BusIs, Mapped, At, Linked, InUse

----------------------------------------------------------------------------
(* Registering and pinning. *)

(* A step that touches no mapping object while none is in use keeps the    *)
(* mappings and the arrays exact.                                          *)
LEMMA PinFrame ==
  ASSUME Inv, mem.st # "live", call.pc \in {"idle", "pin"}, UNCHANGED dmaVars,
         call'.pc \in {"idle", "pin"}, call'.mine = <<>>, ~call'.file.group,
         call'.pc = "pin" => mem'.st = "stale"
  PROVE  CallOK' /\ ArraysOK' /\ BusIs' /\ UnmapMatches'
<1>1. Linked = {} /\ InUse = {} /\ bus = {} /\ \A d \in Dma : dma[d] # "filling"
  BY NothingMapped DEF Inv, CallOK, At
<1>2. /\ dma' = dma /\ bus' = bus /\ arrays' = arrays /\ lost' = lost /\ bad' = bad
      /\ Linked' = Linked /\ InUse' = InUse
  BY DEF dmaVars, Linked, InUse
<1>3. CallOK'
  BY <1>1, <1>2 DEF CallOK, At
<1>4. BusIs' /\ UnmapMatches'
  BY <1>1, <1>2 DEF Inv, BusIs, Mapped, UnmapMatches, At
<1>5. ArraysOK'
  <2>1. Cardinality(InUse) = 0 /\ Cardinality(InUse') = 0
    BY <1>1, <1>2, FS_EmptySet, Zenon
  <2>2. HostArray \in {0, 1} /\ HostArray' \in {0, 1}
    BY DEF HostArray
  <2>3. arrays = lost
    BY <2>1, <2>2 DEF Inv, Types, ArraysOK, CallOK, GroupArray
  <2>4. GroupArray' = 0 /\ lost \in Nat
    BY DEF GroupArray, Inv, Types
  <2>5. (HostArray' * Cardinality(InUse')) = 0
    <3>1. \A n \in {0, 1} : n * 0 = 0
      OBVIOUS
    <3> QED BY <2>1, <2>2, <3>1, Zenon
  <2> QED BY <1>2, <2>3, <2>4, <2>5 DEF ArraysOK
<1> QED BY <1>3, <1>4, <1>5

(* REG_MEM and mmap keep the invariant, when they fail too. *)
LEMMA PinSteps ==
  ASSUME Inv,
         \/ \E l \in {"CPU", "CUDA"}, s \in Size : Register(l, s)
         \/ \E len \in Length, p \in {PageSize} \cup GpuPageSize : PinStart(len, p)
         \/ PinPage \/ PinFails \/ PinCpu \/ PinCuda
  PROVE  Inv'
<1>1. /\ mem \in MemRec /\ call \in CallRec
      /\ call.pc \in {"idle", "pin"} => call.mine = <<>> /\ ~call.file.group
  BY DEF Inv, Types, CallOK
<1>2. ASSUME NEW l \in {"CPU", "CUDA"}, NEW s \in Size, Register(l, s) PROVE Inv'
  <2>0. s \in Nat /\ s < U32
    BY SizesAssumption
  <2>1. /\ call.pc = "idle" /\ mem.st = "none" /\ call' = call /\ pages' = pages
        /\ UNCHANGED dmaVars
        /\ mem' = [NoMem EXCEPT !.st = "stale", !.loc = l, !.size = s]
    BY <1>2 DEF Register, At
  <2>2. mem' \in MemRec /\ mem'.st = "stale" /\ mem'.size = s
    BY <2>0, <2>1, SizesAssumption DEF MemRec, NoMem
  <2>3. CallOK' /\ ArraysOK' /\ BusIs' /\ UnmapMatches'
    BY <1>1, <2>1, <2>2, PinFrame
  <2>4. Types' /\ MemOK' /\ PagesOK'
    BY <2>0, <2>1, <2>2 DEF Inv, Types, MemOK, PagesOK, dmaVars, At
  <2> QED BY <2>3, <2>4 DEF Inv
<1>3. ASSUME NEW len \in Length, NEW p \in {PageSize} \cup GpuPageSize, PinStart(len, p)
      PROVE  Inv'
  <2>0. p \in Nat \ {0} /\ len \in Nat /\ len > 0
    BY SizesAssumption
  <2>1. /\ call.pc = "idle" /\ mem.st = "stale" /\ call' = [call EXCEPT !.pc = "pin"]
        /\ pages' = pages /\ UNCHANGED dmaVars
        /\ mem' = [mem EXCEPT !.len = len, !.p = p, !.n = NPages(mem.size, p)]
    BY <1>3 DEF PinStart, At
  <2>2. NPages(mem.size, p) \in Nat
    BY <1>1, <2>0, NPagesFacts DEF MemRec
  <2>3. /\ mem' \in MemRec /\ mem'.st = "stale" /\ mem'.size = mem.size
        /\ mem'.p = p /\ mem'.n = NPages(mem.size, p) /\ mem'.len = len
    BY <1>1, <2>0, <2>1, <2>2 DEF MemRec
  <2>4. call' \in CallRec /\ call'.pc = "pin" /\ call'.mine = <<>> /\ ~call'.file.group
    BY <1>1, <2>1 DEF CallRec, CallPc
  <2>5. CallOK' /\ ArraysOK' /\ BusIs' /\ UnmapMatches'
    BY <2>1, <2>3, <2>4, PinFrame
  <2>6. Types' /\ MemOK'
    BY <2>0, <2>1, <2>3, <2>4 DEF Inv, Types, MemOK, dmaVars, At
  <2>7. PagesOK'
    <3>1. pages = {} /\ 0 .. 0 - 1 = {} /\ 0 \in 0 .. mem'.n
      BY <2>1, <2>2, <2>3 DEF Inv, PagesOK, At
    <3> QED BY <2>1, <2>3, <2>4, <3>1 DEF PagesOK, At
  <2> QED BY <2>5, <2>6, <2>7 DEF Inv
<1>4. ASSUME call.pc = "pin"
      PROVE  /\ mem.st = "stale" /\ mem.len > 0 /\ mem.n \in Nat /\ mem.n = NPages(mem.size, mem.p)
             /\ mem.size < U32 /\ mem.size \in Nat /\ mem.p \in Nat \ {0}
             /\ \E k \in 0 .. mem.n : pages = 0 .. k - 1 /\ Cardinality(pages) = k
  <2>1. PICK k \in 0 .. mem.n : pages = 0 .. k - 1
    BY <1>4 DEF Inv, PagesOK, At
  <2>2. mem.n \in Nat
    BY <1>1 DEF MemRec
  <2>3. Cardinality(0 .. k - 1) = k
    BY <2>2, FS_Interval
  <2> QED BY <1>1, <1>4, <2>1, <2>3 DEF Inv, CallOK, MemOK, MemRec, At
<1>5. CASE PinPage
  <2>1. /\ call.pc = "pin" /\ UNCHANGED <<mem, call>> /\ UNCHANGED dmaVars
        /\ Cardinality(pages) < mem.n /\ pages' = pages \cup {Cardinality(pages)}
    BY <1>5 DEF PinPage, At
  <2>2. PICK k \in 0 .. mem.n : pages = 0 .. k - 1 /\ Cardinality(pages) = k
    BY <1>4, <2>1
  <2>3. k + 1 \in 0 .. mem.n /\ pages' = 0 .. (k + 1) - 1
    BY <1>4, <2>1, <2>2
  <2>4. PagesOK'
    BY <1>4, <2>1, <2>3 DEF PagesOK, At
  <2>5. CallOK' /\ ArraysOK' /\ BusIs' /\ UnmapMatches'
    BY <1>1, <1>4, <2>1, PinFrame
  <2>6. Types' /\ MemOK'
    BY <2>1 DEF Inv, Types, MemOK, dmaVars, At
  <2> QED BY <2>4, <2>5, <2>6 DEF Inv
<1>6. ASSUME PinFails \/ PinCpu \/ PinCuda,
             NoCall \in CallRec, NoCall.pc = "idle", NoCall.mine = <<>>, ~NoCall.file.group
      PROVE  Inv'
  <2>1. call.pc = "pin" /\ call' = NoCall /\ UNCHANGED dmaVars
    BY <1>6 DEF PinFails, PinCpu, PinCuda, At
  <2>2. CASE PinFails
    <3>1. CallOK' /\ ArraysOK' /\ BusIs' /\ UnmapMatches'
      BY <1>4, <1>6, <2>1, PinFrame
    <3>2. Types' /\ MemOK' /\ PagesOK'
      BY <1>4, <1>6, <2>1, <2>2 DEF PinFails, Inv, Types, MemOK, PagesOK, dmaVars, At
    <3> QED BY <3>1, <3>2 DEF Inv
  <2>3. CASE PinCpu \/ PinCuda
    <3>1. mem' = [mem EXCEPT !.st = "live"]
      BY <2>3 DEF PinCpu, PinCuda
    <3>2. /\ mem' \in MemRec /\ mem'.st = "live" /\ mem'.n = mem.n /\ mem'.size = mem.size
          /\ mem'.p = mem.p
      BY <1>1, <3>1 DEF MemRec
    <3>3. CallOK' /\ ArraysOK' /\ BusIs' /\ UnmapMatches'
      BY <1>4, <1>6, <2>1, PinFrame
    <3>4. mem.size > 0
      <4>1. CASE PinCpu
        <5>1. mem.len <= mem.n /\ mem.len \in Nat /\ mem.size \in Nat
          BY <1>1, <4>1 DEF PinCpu, MemRec
        <5> QED BY <1>4, <2>1, <4>1, <5>1, NPagesFacts DEF PinCpu
      <4> QED BY <2>3, <4>1 DEF PinCuda
    <3>5. pages' = 0 .. mem.n - 1
      BY <1>4, <2>1, <2>3 DEF PinCpu, PinCuda
    <3>6. Types' /\ MemOK' /\ PagesOK'
      BY <1>4, <1>6, <2>1, <3>2, <3>4, <3>5 DEF Inv, Types, MemOK, PagesOK, dmaVars, At
    <3> QED BY <3>3, <3>6 DEF Inv
  <2> QED BY <1>6, <2>2, <2>3
<1>7. NoCall \in CallRec /\ NoCall.pc = "idle" /\ NoCall.mine = <<>> /\ ~NoCall.file.group
  <2>1. <<>> \in Seq(Dma)
    OBVIOUS
  <2> QED BY <2>1 DEF NoCall, CallRec, CallPc
<1> QED BY <1>2, <1>3, <1>5, <1>6, <1>7

----------------------------------------------------------------------------
(* DMA_MAP_MEM. *)

(* A step of a call, while the registration is live, leaves the pages and  *)
(* the sizes alone; what an object's release unmaps stays the same.        *)
LEMMA MapFrame ==
  ASSUME Inv, mem.st = "live", UNCHANGED <<mem, pages>>, call'.pc # "pin"
  PROVE  /\ MemOK' /\ PagesOK' /\ HostArray' = HostArray /\ HostArray \in {0, 1}
         /\ mem' \in MemRec /\ mem'.st = "live" /\ mem.n \in Nat
         /\ \A S : Mapped(S)' = Mapped(S)
<1>1. mem' = mem /\ pages' = pages /\ mem \in MemRec
  BY DEF Inv, Types
<1>2. MemOK' /\ PagesOK'
  BY <1>1 DEF Inv, MemOK, PagesOK, At
<1>3. HostArray' = HostArray /\ HostArray \in {0, 1}
  BY <1>1 DEF HostArray
<1>4. ASSUME NEW S PROVE Mapped(S)' = Mapped(S)
  BY <1>1 DEF Mapped, UnmapDma
<1> QED BY <1>1, <1>2, <1>3, <1>4 DEF MemRec

(* The idle call's record. *)
LEMMA NoCallFacts ==
  /\ NoCall \in CallRec /\ NoCall.pc = "idle" /\ NoCall.mine = <<>> /\ ~NoCall.file.group
<1>1. <<>> \in Seq(Dma)
  OBVIOUS
<1> QED BY <1>1 DEF NoCall, CallRec, CallPc

(* A call starts: a group's call allocates its array of objects. *)
LEMMA MapStartInv ==
  ASSUME Inv, NEW f \in Target, NEW c \in Cap, MapStart(f, c)
  PROVE  Inv'
<1>0. f \in [group : BOOLEAN, n_ctrls : Nat \ {0}] /\ c \in Nat
  BY SizesAssumption
<1>1. /\ call.pc = "idle" /\ mem.st = "live"
      /\ call' = [NoCall EXCEPT !.pc = "alloc", !.file = f, !.n_dma_addrs = c]
      /\ arrays' = arrays + (IF f.group THEN 1 ELSE 0)
      /\ mem' = mem /\ pages' = pages /\ dma' = dma /\ bus' = bus /\ lost' = lost /\ bad' = bad
  BY DEF MapStart, At
<1>2. call' \in CallRec /\ call'.pc = "alloc" /\ call'.mine = <<>> /\ call'.file = f
  BY <1>0, <1>1, NoCallFacts DEF CallRec, CallPc
<1>3. /\ MemOK' /\ PagesOK' /\ HostArray' = HostArray /\ HostArray \in {0, 1}
      /\ mem' \in MemRec /\ mem'.st = "live"
      /\ \A S : Mapped(S)' = Mapped(S)
  BY <1>1, <1>2, MapFrame
<1>4. Linked' = Linked /\ InUse' = InUse
  BY <1>1 DEF Linked, InUse
<1>5. Types'
  <2>1. arrays' \in Int /\ lost' \in Nat
    BY <1>1 DEF Inv, Types
  <2>2. bad' \in BOOLEAN
    BY <1>1, Zenon DEF Inv, Types
  <2>3. dma' \in [Dma -> {"unused", "filling", "linked", "freed"}]
    BY <1>1 DEF Inv, Types
  <2> QED BY <1>2, <1>3, <2>1, <2>2, <2>3, Zenon DEF Types
<1>6. CallOK'
  BY <1>1, <1>2, <1>3, <1>4 DEF Inv, CallOK, At
<1>7. BusIs' /\ UnmapMatches'
  <2>1. bus = Mapped(Linked)
    BY <1>1 DEF Inv, BusIs, At
  <2>2. Mapped(Linked)' = Mapped(Linked)
    BY <1>3, <1>4
  <2> QED BY <1>1, <1>2, <1>4, <2>1, <2>2 DEF Inv, BusIs, UnmapMatches, At
<1>8. ArraysOK'
  <2> DEFINE x == HostArray * Cardinality(InUse)
  <2>1. x \in Int
    BY <1>3, InUseFinite
  <2>2. arrays = lost + x /\ lost \in Nat
    BY <1>1, <2>1 DEF Inv, Types, ArraysOK
  <2>3. (HostArray * Cardinality(InUse))' = x
    BY <1>3, <1>4
  <2>4. GroupArray' = IF f.group THEN 1 ELSE 0
    BY <1>2 DEF GroupArray
  <2> HIDE DEF x
  <2> QED BY <1>1, <1>2, <2>1, <2>2, <2>3, <2>4 DEF ArraysOK
<1> QED BY <1>3, <1>5, <1>6, <1>7, <1>8 DEF Inv

(* A mapping object is allocated for the next controller. *)
LEMMA MapAllocInv ==
  ASSUME Inv, NEW e \in Dma, MapAlloc(e)
  PROVE  Inv'
<1>0. e \in Nat /\ call \in CallRec
  BY SizesAssumption DEF Dma, Inv, Types
<1>1. /\ call.pc = "alloc" /\ dma[e] = "unused"
      /\ dma' = [dma EXCEPT ![e] = "filling"]
      /\ call' = [call EXCEPT !.pc = "map", !.d = e, !.i = 0]
      /\ arrays' = arrays + HostArray
      /\ mem' = mem /\ pages' = pages /\ bus' = bus /\ lost' = lost /\ bad' = bad
  BY DEF MapAlloc, At
<1>2. /\ call' \in CallRec /\ call'.pc = "map" /\ call'.mine = call.mine
      /\ call'.file = call.file /\ call'.d = e /\ call'.i = 0
  BY <1>0, <1>1 DEF CallRec, CallPc
<1>3. /\ mem.st = "live"
      /\ dma \in [Dma -> {"unused", "filling", "linked", "freed"}]
      /\ \A d \in Dma : dma[d] # "filling"
      /\ call.mine \in Seq(Dma)
      /\ \A j \in 1 .. Len(call.mine) : call.mine[j] \in Dma /\ dma[call.mine[j]] = "linked"
  BY <1>1 DEF Inv, Types, CallOK, CallRec, At
<1>4. /\ MemOK' /\ PagesOK' /\ HostArray' = HostArray /\ HostArray \in {0, 1}
      /\ mem' \in MemRec /\ mem'.st = "live" /\ mem.n \in Nat
      /\ \A S : Mapped(S)' = Mapped(S)
  BY <1>1, <1>2, <1>3, MapFrame
<1>5. Linked' = Linked /\ InUse' = InUse \cup {e} /\ e \notin InUse
  BY <1>1, <1>3 DEF Linked, InUse
<1>6. Types'
  <2>1. arrays' \in Int /\ lost' \in Nat
    BY <1>1, <1>4 DEF Inv, Types
  <2>2. bad' \in BOOLEAN
    BY <1>1, Zenon DEF Inv, Types
  <2>3. dma' \in [Dma -> {"unused", "filling", "linked", "freed"}]
    BY <1>1, <1>3
  <2> QED BY <1>2, <1>4, <2>1, <2>2, <2>3, Zenon DEF Types
<1>7. CallOK'
  BY <1>1, <1>2, <1>3, <1>4 DEF CallOK, At
<1>8. BusIs' /\ UnmapMatches'
  <2>1. bus = Mapped(Linked)
    BY <1>1 DEF Inv, BusIs, At
  <2>2. Mapped(Linked)' = Mapped(Linked)
    BY <1>4, <1>5
  <2>3. Filled(call.d, call.i)' = {}
    BY <1>2 DEF Filled
  <2> QED BY <1>1, <1>2, <1>5, <2>1, <2>2, <2>3 DEF Inv, BusIs, UnmapMatches, At
<1>9. ArraysOK'
  <2>1. Cardinality(InUse) \in Nat /\ Cardinality(InUse') = Cardinality(InUse) + 1
    BY <1>5, InUseFinite, FS_AddElement
  <2>2. GroupArray' = GroupArray /\ GroupArray \in {0, 1}
    BY <1>2 DEF GroupArray
  <2>3. arrays = lost + GroupArray + HostArray * Cardinality(InUse) /\ lost \in Nat
    BY <1>1 DEF Inv, Types, ArraysOK
  <2>4. HostArray * (Cardinality(InUse) + 1) = HostArray * Cardinality(InUse) + HostArray
    BY <1>4, <2>1
  <2>5. HostArray * Cardinality(InUse) \in Int
    BY <1>4, <2>1
  <2>6. (HostArray * Cardinality(InUse))' = HostArray * Cardinality(InUse) + HostArray
    BY <1>4, <2>1, <2>4
  <2>7. arrays' = lost + GroupArray + (HostArray * Cardinality(InUse))'
    BY <1>1, <1>4, <2>2, <2>3, <2>5, <2>6
  <2> QED BY <1>1, <1>2, <2>2, <2>7 DEF ArraysOK
<1> QED BY <1>4, <1>6, <1>7, <1>8, <1>9 DEF Inv

(* A step that only moves the call on, with no object being filled before  *)
(* or after it, keeps the invariant.                                       *)
LEMMA MapMoves ==
  ASSUME Inv, UNCHANGED <<mem, pages, dma, bus, bad, arrays>>, mem.st = "live",
         call.pc \in {"alloc", "copy"}, call' \in CallRec,
         \/ /\ call'.pc = "undo" /\ call'.mine = call.mine /\ call'.file = call.file
            /\ lost' = lost
         \/ call' = NoCall /\ lost' = lost + GroupArray
  PROVE  Inv'
<1>1. /\ mem' = mem /\ pages' = pages /\ dma' = dma /\ bus' = bus /\ bad' = bad
      /\ arrays' = arrays
      /\ call'.pc \in {"idle", "undo"} /\ (call'.mine = call.mine \/ call'.mine = <<>>)
      /\ call'.pc = "idle" => call'.mine = <<>> /\ ~call'.file.group
  BY NoCallFacts
<1>2. /\ MemOK' /\ PagesOK' /\ HostArray' = HostArray /\ HostArray \in {0, 1}
      /\ mem' \in MemRec /\ mem'.st = "live"
      /\ \A S : Mapped(S)' = Mapped(S)
  BY <1>1, MapFrame
<1>3. Linked' = Linked /\ InUse' = InUse
  BY <1>1 DEF Linked, InUse
<1>4. GroupArray \in {0, 1} /\ lost \in Nat /\ arrays \in Int
  BY DEF GroupArray, Inv, Types
<1>5. Types'
  <2>1. arrays' \in Int /\ lost' \in Nat
    BY <1>1, <1>4
  <2>2. bad' \in BOOLEAN
    BY <1>1, Zenon DEF Inv, Types
  <2>3. dma' \in [Dma -> {"unused", "filling", "linked", "freed"}]
    BY <1>1 DEF Inv, Types
  <2> QED BY <1>2, <2>1, <2>2, <2>3, Zenon DEF Types
<1>6. CallOK'
  <2>1. \A d \in Dma : dma[d] # "filling"
    BY DEF Inv, CallOK, At
  <2>2. \A j \in 1 .. Len(call'.mine) : dma'[call'.mine[j]] = "linked"
    BY <1>1 DEF Inv, CallOK
  <2> QED BY <1>1, <1>2, <1>3, <2>1, <2>2 DEF CallOK, At
<1>7. BusIs' /\ UnmapMatches'
  <2>1. bus = Mapped(Linked)
    BY DEF Inv, BusIs, At
  <2>2. Mapped(Linked)' = Mapped(Linked)
    BY <1>2, <1>3
  <2> QED BY <1>1, <1>3, <2>1, <2>2 DEF Inv, BusIs, UnmapMatches, At
<1>8. ArraysOK'
  <2> DEFINE x == HostArray * Cardinality(InUse)
  <2>1. x \in Int
    BY <1>2, InUseFinite
  <2>2. arrays = lost + GroupArray + x
    BY <2>1 DEF Inv, ArraysOK
  <2>3. (HostArray * Cardinality(InUse))' = x
    BY <1>2, <1>3
  <2>4. call'.pc = "undo" => GroupArray' = GroupArray
    BY <1>1, NoCallFacts DEF GroupArray
  <2>5. arrays' = lost' + (IF call'.pc # "idle" THEN GroupArray' ELSE 0) + x
    <3> HIDE DEF x
    <3> QED BY <1>1, <1>4, <2>1, <2>2, <2>4, NoCallFacts
  <2> QED BY <2>3, <2>5 DEF ArraysOK
<1> QED BY <1>2, <1>5, <1>6, <1>7, <1>8 DEF Inv

(* The call allocates nothing, copies its result or fails to. *)
LEMMA MapMoveSteps ==
  ASSUME Inv, MapAllocFails \/ MapReturn \/ MapCopyFails
  PROVE  Inv'
<1>1. call \in CallRec /\ (call.pc \in {"alloc", "copy"} => mem.st = "live")
  BY DEF Inv, Types, CallOK
<1>2. CASE MapAllocFails \/ MapCopyFails
  <2>1. call.pc \in {"alloc", "copy"} /\ call' = [call EXCEPT !.pc = "undo"]
        /\ UNCHANGED <<mem, pages, dmaVars>>
    BY <1>2 DEF MapAllocFails, MapCopyFails, At
  <2>2. call' \in CallRec /\ call'.pc = "undo" /\ call'.mine = call.mine /\ call'.file = call.file
    BY <1>1, <2>1 DEF CallRec, CallPc
  <2> QED BY <1>1, <2>1, <2>2, MapMoves DEF dmaVars
<1>3. CASE MapReturn
  BY <1>1, <1>3, NoCallFacts, MapMoves DEF MapReturn, At
<1> QED BY <1>2, <1>3

(* While an object is filled. *)
LEMMA MapState ==
  ASSUME Inv, call.pc = "map"
  PROVE  /\ mem \in MemRec /\ mem.st = "live" /\ call \in CallRec /\ call.d \in Dma
         /\ call.i \in Nat /\ call.i <= mem.n /\ mem.n \in Nat
         /\ dma \in [Dma -> {"unused", "filling", "linked", "freed"}]
         /\ dma[call.d] = "filling" /\ call.d \notin Linked
         /\ \A d \in Dma : dma[d] = "filling" => d = call.d
         /\ call.mine \in Seq(Dma)
         /\ \A j \in 1 .. Len(call.mine) : call.mine[j] \in Dma /\ dma[call.mine[j]] = "linked"
         /\ bus = Mapped(Linked) \cup Filled(call.d, call.i)
<1>1. mem \in MemRec /\ call \in CallRec
      /\ dma \in [Dma -> {"unused", "filling", "linked", "freed"}]
  BY DEF Inv, Types
<1>2. /\ mem.st = "live" /\ call.d \in Dma /\ call.i <= mem.n
      /\ \A d \in Dma : dma[d] = "filling" <=> d = call.d
      /\ \A j \in 1 .. Len(call.mine) : dma[call.mine[j]] = "linked"
      /\ bus = Mapped(Linked) \cup Filled(call.d, call.i)
  BY DEF Inv, CallOK, BusIs, At
<1>3. call.mine \in Seq(Dma) /\ call.i \in Nat /\ mem.n \in Nat
  BY <1>1 DEF MemRec, CallRec
<1>4. \A j \in 1 .. Len(call.mine) : call.mine[j] \in Dma
  BY <1>3
<1>5. call.d \notin Linked
  BY <1>2 DEF Linked
<1> QED BY <1>1, <1>2, <1>3, <1>4, <1>5

(* One page, or all pages of a GPU, are mapped. *)
LEMMA MapPageInv ==
  ASSUME Inv, MapPage \/ MapGpuPages
  PROVE  Inv'
<1>1. /\ call.pc = "map" /\ call.i < mem.n /\ dma' = dma /\ lost' = lost
      /\ arrays' = arrays /\ bad' = bad /\ mem' = mem /\ pages' = pages
  BY DEF MapPage, MapGpuPages, At
<1>2. /\ mem \in MemRec /\ mem.st = "live" /\ call \in CallRec /\ call.d \in Dma
      /\ call.i \in Nat /\ call.i <= mem.n /\ mem.n \in Nat
      /\ bus = Mapped(Linked) \cup Filled(call.d, call.i)
  BY <1>1, MapState
<1>3. PICK m \in Nat : /\ call' = [call EXCEPT !.i = m] /\ m <= mem.n
                       /\ bus' = Mapped(Linked) \cup Filled(call.d, m)
  <2>1. CASE MapPage
    <3>1. Gran(call.i, mem.size, mem.p) = mem.p
      <4>1. /\ mem.size \in Nat /\ mem.size < U32 /\ mem.p \in Nat \ {0}
            /\ mem.n = NPages(mem.size, mem.p)
        BY <1>2 DEF MemRec, Inv, MemOK
      <4>2. call.i \in 0 .. NPages(mem.size, mem.p) - 1
        BY <1>1, <1>2, <4>1
      <4> QED BY <4>1, <4>2, GranIsPage
    <3>2. bus' = bus \cup {<<call.d, call.i, mem.p>>} /\ call' = [call EXCEPT !.i = call.i + 1]
      BY <2>1, <3>1 DEF MapPage
    <3>3. Filled(call.d, call.i + 1) = Filled(call.d, call.i) \cup {<<call.d, call.i, mem.p>>}
      BY <1>2, FilledMore
    <3>4. bus' = Mapped(Linked) \cup Filled(call.d, call.i + 1)
      <4> DEFINE U == Mapped(Linked)
                 F == Filled(call.d, call.i)
                 G == Filled(call.d, call.i + 1)
      <4>1. bus = U \cup F
        BY <1>2
      <4>2. G = F \cup {<<call.d, call.i, mem.p>>}
        BY <3>3
      <4> HIDE DEF U, F, G
      <4>3. bus' = U \cup G
        BY <3>2, <4>1, <4>2
      <4> QED BY <4>3 DEF U, G
    <3>5. call.i + 1 \in Nat /\ call.i + 1 <= mem.n
      BY <1>1, <1>2
    <3> QED BY <3>2, <3>4, <3>5
  <2>2. CASE MapGpuPages
    <3>1. Filled(call.d, call.i) \subseteq Filled(call.d, mem.n)
      BY <1>2, FilledGrows
    <3>2. bus' = Mapped(Linked) \cup Filled(call.d, mem.n)
      <4> DEFINE U == Mapped(Linked)
                 F == Filled(call.d, call.i)
                 G == Filled(call.d, mem.n)
      <4>1. bus = U \cup F /\ F \subseteq G /\ bus' = bus \cup G
        BY <1>2, <2>2, <3>1 DEF MapGpuPages
      <4> HIDE DEF U, F, G
      <4>2. bus' = U \cup G
        BY <4>1
      <4> QED BY <4>2 DEF U, G
    <3> QED BY <1>2, <2>2, <3>2 DEF MapGpuPages
  <2> QED BY <2>1, <2>2
<1>4. /\ call' \in CallRec /\ call'.pc = "map" /\ call'.d = call.d /\ call'.i = m
      /\ call'.mine = call.mine /\ call'.file = call.file
  BY <1>1, <1>2, <1>3 DEF CallRec
<1>5. /\ MemOK' /\ PagesOK' /\ HostArray' = HostArray /\ HostArray \in {0, 1}
      /\ mem' \in MemRec /\ mem'.st = "live"
      /\ \A S : Mapped(S)' = Mapped(S)
  BY <1>1, <1>2, <1>4, MapFrame
<1>6. Linked' = Linked /\ InUse' = InUse
  BY <1>1 DEF Linked, InUse
<1>7. Types'
  <2>1. bad' \in BOOLEAN
    BY <1>1, Zenon DEF Inv, Types
  <2>2. /\ dma' \in [Dma -> {"unused", "filling", "linked", "freed"}]
        /\ lost' \in Nat /\ arrays' \in Int
    BY <1>1 DEF Inv, Types
  <2> QED BY <1>4, <1>5, <2>1, <2>2, Zenon DEF Types
<1>8. CallOK'
  BY <1>1, <1>2, <1>3, <1>4, <1>6 DEF Inv, CallOK, At
<1>9. BusIs' /\ UnmapMatches'
  <2>1. Filled(call.d, call.i)' = Filled(call.d, m)
    BY <1>1, <1>4 DEF Filled
  <2>2. Mapped(Linked)' = Mapped(Linked)
    BY <1>5, <1>6
  <2> QED BY <1>1, <1>3, <1>4, <1>6, <2>1, <2>2 DEF Inv, BusIs, UnmapMatches, At
<1>10. ArraysOK'
  <2>1. GroupArray' = GroupArray
    BY <1>4 DEF GroupArray
  <2> QED BY <1>1, <1>4, <1>5, <1>6, <2>1 DEF Inv, ArraysOK
<1> QED BY <1>5, <1>7, <1>8, <1>9, <1>10 DEF Inv

(* What is mapped for one object is not mapped for another. *)
LEMMA OthersStay ==
  ASSUME Inv, mem.st = "live", NEW S
  PROVE  /\ \A T : S \cap T = {} =>
              Mapped(S \cup T) \ Mapped(T) = Mapped(S) /\ Mapped(T) \subseteq Mapped(S \cup T)
         /\ \A e, k : e \notin S => (Mapped(S) \cup Filled(e, k)) \ Filled(e, k) = Mapped(S)
         /\ \A e : Mapped(S \cup {e}) = Mapped(S) \cup Filled(e, mem.n)
         /\ Mapped({}) = {}
<1>1. \A d, k, m : m \in Filled(d, k) => m[1] = d
  BY OfOneObject
<1>2. \A d : UnmapDma(d) = Filled(d, mem.n)
  BY UnmapIsFilled DEF Inv
<1>3. \A T, m : m \in Mapped(T) <=> \E d \in T : m \in Filled(d, mem.n)
  BY <1>2 DEF Mapped
<1>4. ASSUME NEW T, S \cap T = {}
      PROVE  Mapped(S \cup T) \ Mapped(T) = Mapped(S) /\ Mapped(T) \subseteq Mapped(S \cup T)
  BY <1>1, <1>3, <1>4
<1>5. ASSUME NEW e, NEW k, e \notin S
      PROVE  (Mapped(S) \cup Filled(e, k)) \ Filled(e, k) = Mapped(S)
  BY <1>1, <1>3, <1>5
<1>6. ASSUME NEW e PROVE Mapped(S \cup {e}) = Mapped(S) \cup Filled(e, mem.n)
  BY <1>3
<1>7. Mapped({}) = {}
  BY <1>3
<1> QED BY <1>4, <1>5, <1>6, <1>7

(* A page cannot be mapped, or the addresses not be copied: the error path *)
(* gives back what the loop had mapped, and the object; its array is lost. *)
LEMMA MapFailsInv ==
  ASSUME Inv, MapFails
  PROVE  Inv'
<1>1. /\ call.pc = "map" /\ call' = [call EXCEPT !.pc = "undo"]
      /\ dma' = [dma EXCEPT ![call.d] = "freed"] /\ lost' = lost + HostArray
      /\ arrays' = arrays /\ mem' = mem /\ pages' = pages
      /\ bus' = bus \ Filled(call.d, call.i)
      /\ bad' = (bad \/ ~(Filled(call.d, call.i) \subseteq bus))
  BY DEF MapFails, Undone, At
<1>2. /\ mem \in MemRec /\ mem.st = "live" /\ call \in CallRec /\ call.d \in Dma
      /\ call.i \in Nat /\ call.i <= mem.n /\ mem.n \in Nat
      /\ dma \in [Dma -> {"unused", "filling", "linked", "freed"}]
      /\ dma[call.d] = "filling" /\ call.d \notin Linked
      /\ \A d \in Dma : dma[d] = "filling" => d = call.d
      /\ call.mine \in Seq(Dma)
      /\ \A j \in 1 .. Len(call.mine) : call.mine[j] \in Dma /\ dma[call.mine[j]] = "linked"
      /\ bus = Mapped(Linked) \cup Filled(call.d, call.i)
  BY <1>1, MapState
<1>3. /\ call' \in CallRec /\ call'.pc = "undo"
      /\ call'.mine = call.mine /\ call'.file = call.file
  BY <1>1, <1>2 DEF CallRec, CallPc
<1>4. /\ MemOK' /\ PagesOK' /\ HostArray' = HostArray /\ HostArray \in {0, 1}
      /\ mem' \in MemRec /\ mem'.st = "live"
      /\ \A S : Mapped(S)' = Mapped(S)
  BY <1>1, <1>2, <1>3, MapFrame
<1>5. Linked' = Linked /\ InUse' = InUse \ {call.d} /\ call.d \in InUse
  BY <1>1, <1>2 DEF Linked, InUse
<1>6. ~bad'
  <2>1. Filled(call.d, call.i) \subseteq bus
    BY <1>2
  <2>2. ~bad
    BY DEF Inv, UnmapMatches
  <2> QED BY <1>1, <2>1, <2>2, Zenon
<1>7. Types'
  <2>1. bad' \in BOOLEAN
    BY <1>1, Zenon
  <2>2. /\ dma' \in [Dma -> {"unused", "filling", "linked", "freed"}]
        /\ lost' \in Nat /\ arrays' \in Int
    BY <1>1, <1>2, <1>4 DEF Inv, Types
  <2> QED BY <1>3, <1>4, <2>1, <2>2, Zenon DEF Types
<1>8. CallOK'
  BY <1>1, <1>2, <1>3, <1>4 DEF CallOK, At
<1>9. BusIs' /\ UnmapMatches'
  <2> DEFINE U == Mapped(Linked)
             F == Filled(call.d, call.i)
  <2>1. Mapped(Linked)' = U
    BY <1>4, <1>5
  <2>2. (U \cup F) \ F = U
    BY <1>2, OthersStay
  <2>3. bus' = U
    BY <1>1, <1>2, <2>2
  <2> HIDE DEF U, F
  <2> QED BY <1>3, <1>5, <1>6, <2>1, <2>3 DEF BusIs, UnmapMatches, At
<1>10. ArraysOK'
  <2>1. Cardinality(InUse) \in Nat /\ Cardinality(InUse') = Cardinality(InUse) - 1
    BY <1>5, InUseFinite, FS_RemoveElement
  <2>2. GroupArray' = GroupArray /\ GroupArray \in {0, 1}
    BY <1>3 DEF GroupArray
  <2>3. arrays = lost + GroupArray + HostArray * Cardinality(InUse) /\ lost \in Nat
    BY <1>1 DEF Inv, Types, ArraysOK
  <2>4. HostArray * (Cardinality(InUse) - 1) = HostArray * Cardinality(InUse) - HostArray
    BY <1>4, <2>1
  <2>5. HostArray * Cardinality(InUse) \in Int
    BY <1>4, <2>1
  <2>6. (HostArray * Cardinality(InUse))' = HostArray * Cardinality(InUse) - HostArray
    BY <1>4, <2>1, <2>4
  <2>7. arrays' = lost' + GroupArray + (HostArray * Cardinality(InUse))'
    BY <1>1, <1>4, <2>2, <2>3, <2>5, <2>6
  <2> QED BY <1>1, <1>3, <2>2, <2>7 DEF ArraysOK
<1> QED BY <1>4, <1>7, <1>8, <1>9, <1>10 DEF Inv

(* The object is complete and enters dma_list. *)
LEMMA MapLinkInv ==
  ASSUME Inv, MapLink
  PROVE  Inv'
<1> DEFINE total == IF call.k = 0 THEN mem.n ELSE (call.n_dma_addrs + mem.n) % U32
<1>1. /\ call.pc = "map" /\ call.i = mem.n
      /\ dma' = [dma EXCEPT ![call.d] = "linked"]
      /\ call' = [call EXCEPT
                   !.n_dma_addrs = total,
                   !.mine = Append(@, call.d),
                   !.k = @ + 1,
                   !.per = IF call.k = 0 THEN total ELSE @,
                   !.pc = IF call.k + 1 < call.file.n_ctrls THEN "alloc" ELSE "copy"]
      /\ mem' = mem /\ pages' = pages /\ bus' = bus /\ lost' = lost /\ arrays' = arrays
      /\ bad' = bad
  BY DEF MapLink, At
<1>2. /\ mem \in MemRec /\ mem.st = "live" /\ call \in CallRec /\ call.d \in Dma
      /\ call.i \in Nat /\ call.i <= mem.n /\ mem.n \in Nat
      /\ dma \in [Dma -> {"unused", "filling", "linked", "freed"}]
      /\ dma[call.d] = "filling" /\ call.d \notin Linked
      /\ \A d \in Dma : dma[d] = "filling" => d = call.d
      /\ call.mine \in Seq(Dma)
      /\ \A j \in 1 .. Len(call.mine) : call.mine[j] \in Dma /\ dma[call.mine[j]] = "linked"
      /\ bus = Mapped(Linked) \cup Filled(call.d, call.i)
  BY <1>1, MapState
<1>3. /\ call' \in CallRec /\ call'.pc \in {"alloc", "copy"}
      /\ call'.mine = Append(call.mine, call.d) /\ call'.file = call.file
  <2>1. total \in Nat
    <3>1. call.n_dma_addrs \in Nat /\ U32 \in Nat \ {0}
      BY <1>2, SizesAssumption DEF CallRec
    <3> QED BY <1>2, <3>1
  <2>2. Append(call.mine, call.d) \in Seq(Dma)
    BY <1>2
  <2>3. call.per \in Nat /\ call.k + 1 \in Nat
    BY <1>2 DEF CallRec
  <2> DEFINE per == IF call.k = 0 THEN total ELSE call.per
             pc  == IF call.k + 1 < call.file.n_ctrls THEN "alloc" ELSE "copy"
  <2>4. per \in Nat /\ pc \in {"alloc", "copy"}
    BY <2>1, <2>3
  <2>5. call' = [call EXCEPT !.n_dma_addrs = total, !.mine = Append(call.mine, call.d),
                             !.k = call.k + 1, !.per = per, !.pc = pc]
    BY <1>1
  <2> HIDE DEF total, per, pc
  <2>6. call'.pc = pc /\ call'.mine = Append(call.mine, call.d) /\ call'.file = call.file
    BY <1>2, <2>5 DEF CallRec
  <2>7. call' \in CallRec
    BY <1>2, <2>1, <2>2, <2>3, <2>4, <2>5 DEF CallRec, CallPc
  <2> QED BY <2>4, <2>6, <2>7
<1>4. /\ MemOK' /\ PagesOK' /\ HostArray' = HostArray /\ HostArray \in {0, 1}
      /\ mem' \in MemRec /\ mem'.st = "live"
      /\ \A S : Mapped(S)' = Mapped(S)
  BY <1>1, <1>2, <1>3, MapFrame
<1>5. Linked' = Linked \cup {call.d} /\ InUse' = InUse
  BY <1>1, <1>2 DEF Linked, InUse
<1>6. Types'
  <2>1. bad' \in BOOLEAN
    BY <1>1, Zenon DEF Inv, Types
  <2>2. /\ dma' \in [Dma -> {"unused", "filling", "linked", "freed"}]
        /\ lost' \in Nat /\ arrays' \in Int
    BY <1>1, <1>2 DEF Inv, Types
  <2> QED BY <1>3, <1>4, <2>1, <2>2, Zenon DEF Types
<1>7. CallOK'
  <2>1. \A d \in Dma : dma'[d] # "filling"
    BY <1>1, <1>2
  <2>2. \A j \in 1 .. Len(call'.mine) : dma'[call'.mine[j]] = "linked"
    <3> SUFFICES ASSUME NEW j \in 1 .. Len(call'.mine) PROVE dma'[call'.mine[j]] = "linked"
      OBVIOUS
    <3>1. Len(call'.mine) = Len(call.mine) + 1 /\ Len(call.mine) \in Nat
      BY <1>2, <1>3
    <3>2. CASE j = Len(call.mine) + 1
      BY <1>1, <1>2, <1>3, <3>2
    <3>3. CASE j \in 1 .. Len(call.mine)
      <4>1. call'.mine[j] = call.mine[j]
        BY <1>2, <1>3, <3>3
      <4> QED BY <1>1, <1>2, <3>3, <4>1
    <3> QED BY <3>1, <3>2, <3>3
  <2> QED BY <1>3, <1>4, <2>1, <2>2 DEF CallOK, At
<1>8. BusIs' /\ UnmapMatches'
  <2>1. Mapped(Linked)' = Mapped(Linked \cup {call.d})
    BY <1>4, <1>5
  <2>2. Mapped(Linked \cup {call.d}) = Mapped(Linked) \cup Filled(call.d, mem.n)
    <3>1. \A e : Mapped(Linked \cup {e}) = Mapped(Linked) \cup Filled(e, mem.n)
      BY <1>2, OthersStay
    <3> QED BY <3>1, Zenon
  <2>3. bus' = Mapped(Linked)'
    BY <1>1, <1>2, <2>1, <2>2
  <2> QED BY <1>1, <1>3, <2>3 DEF Inv, BusIs, UnmapMatches, At
<1>9. ArraysOK'
  <2>1. GroupArray' = GroupArray
    BY <1>3 DEF GroupArray
  <2> HIDE DEF total
  <2> QED BY <1>1, <1>3, <1>4, <1>5, <2>1 DEF Inv, ArraysOK
<1> QED BY <1>4, <1>6, <1>7, <1>8, <1>9 DEF Inv

----------------------------------------------------------------------------
(* Giving mapping objects back. *)

(* Releasing objects of dma_list takes down what is mapped for them, and   *)
(* nothing else.                                                           *)
LEMMA Released ==
  ASSUME Inv, mem.st = "live", call.pc # "map", NEW S \in SUBSET Linked,
         Undone(UNION {UnmapDma(d) : d \in S}),
         dma' = [d \in Dma |-> IF d \in S THEN "freed" ELSE dma[d]]
  PROVE  /\ dma' \in [Dma -> {"unused", "filling", "linked", "freed"}]
         /\ \A d \in Dma : dma'[d] # "filling"
         /\ Linked' = Linked \ S /\ InUse' = InUse \ S /\ InUse = Linked
         /\ bus' = Mapped(Linked \ S) /\ bad' \in BOOLEAN /\ ~bad'
         /\ Cardinality(InUse) \in Nat /\ Cardinality(S) \in Nat
         /\ Cardinality(InUse') = Cardinality(InUse) - Cardinality(S)
<1>1. /\ dma \in [Dma -> {"unused", "filling", "linked", "freed"}]
      /\ \A d \in Dma : dma[d] # "filling"
  BY DEF Inv, Types, CallOK, At
<1>2. /\ dma' \in [Dma -> {"unused", "filling", "linked", "freed"}]
      /\ \A d \in Dma : dma'[d] # "filling"
      /\ Linked' = Linked \ S /\ InUse' = InUse \ S /\ InUse = Linked
  BY <1>1 DEF Linked, InUse
<1>3. bus = Mapped(Linked) /\ ~bad
  BY DEF Inv, BusIs, UnmapMatches, At
<1>4. bus' = bus \ Mapped(S) /\ bad' = (bad \/ ~(Mapped(S) \subseteq bus))
  BY DEF Undone, Mapped
<1>5. /\ Mapped((Linked \ S) \cup S) \ Mapped(S) = Mapped(Linked \ S)
      /\ Mapped(S) \subseteq Mapped((Linked \ S) \cup S)
  <2>1. (Linked \ S) \cap S = {}
    OBVIOUS
  <2>2. \A T : (Linked \ S) \cap T = {} =>
           /\ Mapped((Linked \ S) \cup T) \ Mapped(T) = Mapped(Linked \ S)
           /\ Mapped(T) \subseteq Mapped((Linked \ S) \cup T)
    BY OthersStay, Zenon
  <2> QED BY <2>1, <2>2, Zenon
<1>6. (Linked \ S) \cup S = Linked
  OBVIOUS
<1>7. bus' = Mapped(Linked \ S) /\ Mapped(S) \subseteq bus
  BY <1>3, <1>4, <1>5, <1>6
<1>8. bad' \in BOOLEAN /\ ~bad'
  BY <1>3, <1>4, <1>7, Zenon
<1>9. IsFiniteSet(S) /\ Cardinality(InUse \cap S) = Cardinality(S)
  <2>1. S \subseteq InUse /\ InUse \cap S = S
    BY <1>2
  <2> QED BY <2>1, InUseFinite, FS_Subset
<1>10. /\ Cardinality(InUse \ S) = Cardinality(InUse) - Cardinality(InUse \cap S)
       /\ Cardinality(S) \in Nat
  BY <1>9, InUseFinite, FS_Difference, FS_CardinalityType
<1> QED BY <1>2, <1>7, <1>8, <1>9, <1>10, InUseFinite

(* The call has failed: what it had linked is unmapped, and a group's      *)
(* array is freed.                                                         *)
LEMMA MapUndoInv ==
  ASSUME Inv, MapUndo
  PROVE  Inv'
<1> DEFINE S == {call.mine[j] : j \in 1 .. Len(call.mine)}
<1>1. /\ call.pc = "undo" /\ call' = NoCall
      /\ mem' = mem /\ pages' = pages /\ lost' = lost
      /\ Undone(UNION {UnmapDma(d) : d \in S})
      /\ dma' = [d \in Dma |-> IF d \in S THEN "freed" ELSE dma[d]]
      /\ arrays' = arrays - HostArray * Cardinality(S) - GroupArray
  BY DEF MapUndo, At
<1>2. mem.st = "live" /\ S \in SUBSET Linked
  <2>1. call.mine \in Seq(Dma) /\ mem.st = "live"
    BY <1>1 DEF Inv, Types, CallRec, CallOK
  <2>2. \A j \in 1 .. Len(call.mine) : call.mine[j] \in Dma
    BY <2>1
  <2>3. \A j \in 1 .. Len(call.mine) : call.mine[j] \in Linked
    BY <2>2 DEF Inv, CallOK, Linked
  <2> QED BY <2>1, <2>3
<1> HIDE DEF S
<1>3. /\ dma' \in [Dma -> {"unused", "filling", "linked", "freed"}]
      /\ \A d \in Dma : dma'[d] # "filling"
      /\ Linked' = Linked \ S
      /\ bus' = Mapped(Linked \ S) /\ bad' \in BOOLEAN /\ ~bad'
      /\ Cardinality(InUse) \in Nat /\ Cardinality(S) \in Nat
      /\ Cardinality(InUse') = Cardinality(InUse) - Cardinality(S)
  BY <1>1, <1>2, Released
<1>4. /\ MemOK' /\ PagesOK' /\ HostArray' = HostArray /\ HostArray \in {0, 1}
      /\ mem' \in MemRec /\ mem'.st = "live"
      /\ \A T : Mapped(T)' = Mapped(T)
  BY <1>1, <1>2, NoCallFacts, MapFrame
<1>5. /\ call'.pc = "idle" /\ call'.mine = <<>> /\ ~call'.file.group /\ call' \in CallRec
  BY <1>1, NoCallFacts
<1>6. CallOK'
  BY <1>3, <1>4, <1>5 DEF CallOK, At
<1>7. BusIs' /\ UnmapMatches'
  BY <1>3, <1>4, <1>5 DEF BusIs, UnmapMatches, At
<1>8. arrays' = lost + HostArray * Cardinality(InUse') /\ lost \in Nat /\ arrays' \in Int
  <2>1. arrays = lost + GroupArray + HostArray * Cardinality(InUse) /\ lost \in Nat
    BY <1>1 DEF Inv, Types, ArraysOK
  <2>2. GroupArray \in {0, 1}
    BY DEF GroupArray
  <2>3. HostArray * (Cardinality(InUse) - Cardinality(S))
          = HostArray * Cardinality(InUse) - HostArray * Cardinality(S)
    BY <1>3, <1>4
  <2>4. HostArray * Cardinality(InUse) \in Int /\ HostArray * Cardinality(S) \in Int
    BY <1>3, <1>4
  <2> QED BY <1>1, <1>3, <2>1, <2>2, <2>3, <2>4
<1>9. ArraysOK'
  <2>1. HostArray * Cardinality(InUse') \in Int
    BY <1>2, <1>3, <1>4
  <2> QED BY <1>1, <1>4, <1>5, <1>8, <2>1 DEF ArraysOK
<1>10. Types'
  BY <1>1, <1>3, <1>4, <1>5, <1>8, Zenon DEF Types
<1> QED BY <1>4, <1>6, <1>7, <1>9, <1>10 DEF Inv

(* munmap: every mapping, every array of addresses and every page of the   *)
(* registration is given back.                                             *)
LEMMA UnpinInv ==
  ASSUME Inv, Unpin
  PROVE  Inv'
<1>1. /\ call.pc = "idle" /\ call' = call /\ mem.st = "live"
      /\ mem' = NoMem /\ pages' = pages \ (0 .. mem.n - 1) /\ lost' = lost
      /\ Undone(UNION {UnmapDma(d) : d \in Linked})
      /\ dma' = [d \in Dma |-> IF d \in Linked THEN "freed" ELSE dma[d]]
      /\ arrays' = arrays - HostArray * Cardinality(Linked)
  BY DEF Unpin, At
<1>2. /\ dma' \in [Dma -> {"unused", "filling", "linked", "freed"}]
      /\ \A d \in Dma : dma'[d] # "filling"
      /\ Linked' = {} /\ InUse' = {} /\ InUse = Linked
      /\ bus' = Mapped({}) /\ bad' \in BOOLEAN /\ ~bad'
      /\ Cardinality(InUse) \in Nat
  <2>1. Linked \in SUBSET Linked /\ Linked \ Linked = {}
    OBVIOUS
  <2>2. /\ dma' \in [Dma -> {"unused", "filling", "linked", "freed"}]
        /\ \A d \in Dma : dma'[d] # "filling"
        /\ Linked' = Linked \ Linked /\ InUse' = InUse \ Linked /\ InUse = Linked
        /\ bus' = Mapped(Linked \ Linked) /\ bad' \in BOOLEAN /\ ~bad'
        /\ Cardinality(InUse) \in Nat
    BY <1>1, <2>1, Released
  <2> QED BY <2>1, <2>2, Zenon
<1>3. bus' = {} /\ Mapped(Linked)' = {}
  <2>1. Mapped({}) = {}
    BY DEF Mapped
  <2> QED BY <1>2, <2>1 DEF Mapped
<1>4. NoMem \in MemRec /\ NoMem.st = "none" /\ NoMem.size = 0
  BY SizesAssumption DEF NoMem, MemRec
<1>5. MemOK' /\ CallOK' /\ PagesOK'
  <2>1. pages' = {}
    BY <1>1 DEF Inv, PagesOK
  <2>2. /\ call.mine = <<>> /\ ~call.file.group /\ 0 < U32
    BY <1>1, SizesAssumption DEF Inv, CallOK
  <2> QED BY <1>1, <1>2, <1>4, <2>1, <2>2 DEF MemOK, CallOK, PagesOK, At
<1>6. BusIs' /\ UnmapMatches'
  BY <1>1, <1>2, <1>3 DEF BusIs, UnmapMatches, At
<1>7. arrays' = lost /\ lost \in Nat
  <2>1. HostArray \in {0, 1}
    BY DEF HostArray
  <2>2. HostArray * Cardinality(Linked) \in Int
    BY <1>2, <2>1
  <2>3. arrays = lost + HostArray * Cardinality(Linked) /\ lost \in Nat
    BY <1>1, <1>2, <2>2 DEF Inv, Types, ArraysOK
  <2> QED BY <1>1, <2>2, <2>3
<1>8. ArraysOK'
  <2>1. Cardinality(InUse') = 0 /\ HostArray' \in {0, 1}
    BY <1>2, FS_EmptySet DEF HostArray
  <2> QED BY <1>1, <1>7, <2>1 DEF ArraysOK
<1>9. Types'
  <2>1. call' \in CallRec /\ mem' \in MemRec /\ lost' \in Nat /\ arrays' \in Int
    BY <1>1, <1>4, <1>7 DEF Inv, Types
  <2> QED BY <1>2, <2>1, Zenon DEF Types
<1> QED BY <1>5, <1>6, <1>8, <1>9 DEF Inv

----------------------------------------------------------------------------
(* The theorems. *)

(* Every step keeps the invariant. *)
LEMMA InvNext == Inv /\ [Next]_vars => Inv'
<1> SUFFICES ASSUME Inv, [Next]_vars PROVE Inv'
  OBVIOUS
<1>1. CASE \E l \in {"CPU", "CUDA"}, s \in Size : Register(l, s)
  BY <1>1, PinSteps
<1>2. CASE \E len \in Length, p \in {PageSize} \cup GpuPageSize : PinStart(len, p)
  BY <1>2, PinSteps
<1>3. CASE PinPage \/ PinFails \/ PinCpu \/ PinCuda
  BY <1>3, PinSteps
<1>4. CASE Unpin
  BY <1>4, UnpinInv
<1>5. CASE \E f \in Target, c \in Cap : MapStart(f, c)
  BY <1>5, MapStartInv
<1>6. CASE \E d \in Dma : MapAlloc(d)
  BY <1>6, MapAllocInv
<1>7. CASE MapAllocFails \/ MapReturn \/ MapCopyFails
  BY <1>7, MapMoveSteps
<1>8. CASE MapPage \/ MapGpuPages
  BY <1>8, MapPageInv
<1>9. CASE MapFails
  BY <1>9, MapFailsInv
<1>10. CASE MapLink
  BY <1>10, MapLinkInv
<1>11. CASE MapUndo
  BY <1>11, MapUndoInv
<1>12. CASE UNCHANGED vars
  BY <1>12 DEF vars, Inv, Types, MemOK, CallOK, PagesOK, InUse, ArraysOK, BusIs, UnmapMatches,
     Mapped, UnmapDma, Filled, Linked, HostArray, GroupArray, At
<1> QED BY <1>1, <1>2, <1>3, <1>4, <1>5, <1>6, <1>7, <1>8, <1>9, <1>10, <1>11, <1>12 DEF Next

(* The invariant holds in every state of every run. *)
THEOREM Invariance == Spec => []Inv
<1>1. Init => Inv
  BY InitInv
<1>2. Inv /\ [Next]_vars => Inv'
  BY InvNext
<1> QED BY <1>1, <1>2, PTL DEF Spec

(* Whatever the sizes, what bafs_ctrl_dma_map_mem's error path, the undo   *)
(* of a group's call and the release of a mapping unmap is mapped, with    *)
(* the length they unmap it with.                                          *)
THEOREM UnmapsWhatIsMapped == Spec => []UnmapMatches
<1>1. Inv => UnmapMatches
  BY DEF Inv
<1> QED BY <1>1, Invariance, PTL

(* The mappings on the bus are those of the objects in dma_list and of the *)
(* pages the call in progress has reached: no failure leaves one behind.   *)
THEOREM BusAlwaysExact == Spec => []BusExact
<1>1. Inv => BusExact
  BY DEF Inv, BusIs, Mapped, BusExact
<1> QED BY <1>1, Invariance, PTL

(* Every mapping is of a whole page, and the pages cover the registration  *)
(* with none too many, for every size below 2^32 and every page size: the  *)
(* product i * map_gran never wraps.                                       *)
THEOREM MappingsAlwaysCover == Spec => []MappingsCover
<1>1. ASSUME Inv PROVE MappingsCover
  <2>1. /\ mem.n \in Nat /\ mem.p \in Nat \ {0} /\ mem.size \in Nat
        /\ mem.st = "live" => mem.n = NPages(mem.size, mem.p) /\ mem.size > 0
    BY <1>1 DEF Inv, Types, MemRec, MemOK
  <2>2. \A d, k, m : m \in Filled(d, k) => m[3] = mem.p
    BY DEF Filled
  <2>3. CASE mem.st # "live"
    <3>1. call.pc \in {"idle", "pin"}
      BY <1>1, <2>3 DEF Inv, Types, CallRec, CallPc, CallOK
    <3>2. bus = {}
      BY <1>1, <2>3, <3>1, NothingMapped
    <3> QED BY <2>3, <3>2 DEF MappingsCover
  <2>4. CASE mem.st = "live"
    <3>1. \A d : UnmapDma(d) = Filled(d, mem.n)
      BY <1>1, <2>4, UnmapIsFilled DEF Inv
    <3>2. \A m \in Mapped(Linked) : \E d : m \in Filled(d, mem.n)
      BY <3>1 DEF Mapped
    <3>3. \A m \in bus : m[3] = mem.p
      BY <1>1, <2>2, <3>2 DEF Inv, BusIs
    <3> QED BY <2>1, <2>4, <3>3, NPagesFacts DEF MappingsCover
  <2> QED BY <2>3, <2>4
<1> QED BY <1>1, Invariance, PTL

(* A failed pin and an ended registration leave no page, and the arrays in *)
(* use are exactly those of live objects and of a group's call, apart from *)
(* the ones the code is known to lose.                                     *)
THEOREM MemoryAlwaysExact == Spec => []MemoryExact
<1>1. Inv => MemoryExact
  BY DEF Inv, PagesOK, ArraysOK, InUse, MemoryExact
<1> QED BY <1>1, Invariance, PTL

----------------------------------------------------------------------------
(* The caller's array. *)

(* The entries that the objects of s fill, n pages each, one object after  *)
(* the other.                                                              *)
Slices(s, n) == {<<n * (j - 1) + i, <<s[j], i>>>> : j \in 1 .. Len(s), i \in 0 .. n - 1}

Distinct(s) == \A j, l \in 1 .. Len(s) : s[j] = s[l] => j = l

(* The array a successful call leaves, in the words of ArrayFilled. *)
InOrder(U, s) ==
  \A e, g \in U :
    (e[1] < g[1]) <=> \/ \E j, l \in 1 .. Len(s) : j < l /\ s[j] = e[2][1] /\ s[l] = g[2][1]
                      \/ e[2][1] = g[2][1] /\ e[2][2] < g[2][2]

(* Entries are ordered as the pages are: by object, then by page. *)
LEMMA SliceOrder ==
  ASSUME NEW n \in Nat, NEW j \in Nat \ {0}, NEW l \in Nat \ {0},
         NEW i \in 0 .. n - 1, NEW m \in 0 .. n - 1
  PROVE  n * (j - 1) + i < n * (l - 1) + m <=> j < l \/ (j = l /\ i < m)
<1> DEFINE a == n * (j - 1)
           b == n * (l - 1)
<1>1. a \in Int /\ b \in Int /\ i \in Nat /\ m \in Nat /\ i < n /\ m < n
  OBVIOUS
<1>2. j < l => a + n <= b
  <2> SUFFICES ASSUME j < l PROVE a + n <= b
    OBVIOUS
  <2>1. PICK k \in Nat : l - 1 = (j - 1) + 1 + k
    <3>1. l - j - 1 \in Nat /\ l - 1 = (j - 1) + 1 + (l - j - 1)
      OBVIOUS
    <3> QED BY <3>1
  <2>2. n * ((j - 1) + 1 + k) = a + n + n * k /\ n * k >= 0 /\ n * k \in Int
    OBVIOUS
  <2> QED BY <1>1, <2>1, <2>2
<1>3. l < j => b + n <= a
  <2> SUFFICES ASSUME l < j PROVE b + n <= a
    OBVIOUS
  <2>1. PICK k \in Nat : j - 1 = (l - 1) + 1 + k
    <3>1. j - l - 1 \in Nat /\ j - 1 = (l - 1) + 1 + (j - l - 1)
      OBVIOUS
    <3> QED BY <3>1
  <2>2. n * ((l - 1) + 1 + k) = b + n + n * k /\ n * k >= 0 /\ n * k \in Int
    OBVIOUS
  <2> QED BY <1>1, <2>1, <2>2
<1>4. j = l => a = b
  OBVIOUS
<1> HIDE DEF a, b
<1>5. a + i < b + m <=> j < l \/ (j = l /\ i < m)
  BY <1>1, <1>2, <1>3, <1>4
<1> QED BY <1>5 DEF a, b

(* Every index below n * L is an entry of one object's slice. *)
LEMMA SliceIndex ==
  ASSUME NEW n \in Nat, NEW L \in Nat
  PROVE  /\ \A j \in 1 .. L, i \in 0 .. n - 1 : n * (j - 1) + i \in 0 .. n * L - 1
         /\ \A x \in 0 .. n * L - 1 : \E j \in 1 .. L, i \in 0 .. n - 1 : x = n * (j - 1) + i
<1>1. ASSUME NEW j \in 1 .. L, NEW i \in 0 .. n - 1 PROVE n * (j - 1) + i \in 0 .. n * L - 1
  <2>1. PICK k \in Nat : L = (j - 1) + 1 + k /\ j - 1 \in Nat
    <3>1. L - j \in Nat /\ L = (j - 1) + 1 + (L - j) /\ j - 1 \in Nat
      OBVIOUS
    <3> QED BY <3>1
  <2>2. /\ n * ((j - 1) + 1 + k) = n * (j - 1) + n + n * k /\ n * k >= 0 /\ n * k \in Int
        /\ n * (j - 1) >= 0 /\ n * (j - 1) \in Int
    BY <2>1
  <2>3. n * L = n * (j - 1) + n + n * k
    BY <2>1, <2>2
  <2> QED BY <2>2, <2>3
<1>2. ASSUME NEW x \in 0 .. n * L - 1
      PROVE  \E j \in 1 .. L, i \in 0 .. n - 1 : x = n * (j - 1) + i
  <2>0. n * L \in Nat /\ x \in Nat /\ x < n * L
    OBVIOUS
  <2>1. n # 0
    BY <2>0
  <2> DEFINE q == x \div n
  <2>2. q \in Nat /\ n * q <= x /\ x < n * q + n
    BY <2>0, <2>1, DivFacts
  <2> HIDE DEF q
  <2>3. q < L
    <3> SUFFICES ASSUME q >= L PROVE FALSE
      BY <2>2
    <3>1. PICK k \in Nat : q = L + k
      <4>1. q - L \in Nat /\ q = L + (q - L)
        BY <2>2
      <4> QED BY <4>1
    <3>2. n * (L + k) = n * L + n * k /\ n * k >= 0 /\ n * k \in Int
      OBVIOUS
    <3> QED BY <2>0, <2>2, <3>1, <3>2
  <2>4. n * q \in Int /\ q + 1 \in 1 .. L /\ (q + 1) - 1 = q
    BY <2>2, <2>3
  <2>5. x - n * q \in 0 .. n - 1 /\ x = n * q + (x - n * q)
    BY <2>0, <2>2, <2>4
  <2> QED BY <2>4, <2>5
<1> QED BY <1>1, <1>2

(* Slices of distinct objects fill the array without gaps or overlap, and  *)
(* in order.                                                               *)
LEMMA SlicesFill ==
  ASSUME NEW T, NEW s \in Seq(T), NEW n \in Nat, Distinct(s)
  PROVE  /\ {e[1] : e \in Slices(s, n)} = 0 .. n * Len(s) - 1
         /\ Cardinality(Slices(s, n)) = n * Len(s)
         /\ InOrder(Slices(s, n), s)
<1> DEFINE L == Len(s)
           U == Slices(s, n)
           N == n * L
<1>1. L \in Nat /\ N \in Nat
  OBVIOUS
<1>2. \A e \in U : \E j \in 1 .. L, i \in 0 .. n - 1 : e = <<n * (j - 1) + i, <<s[j], i>>>>
  BY DEF Slices
<1>3. \A j \in 1 .. L, i \in 0 .. n - 1 : <<n * (j - 1) + i, <<s[j], i>>>> \in U
  BY DEF Slices
<1>4. /\ \A j \in 1 .. L, i \in 0 .. n - 1 : n * (j - 1) + i \in 0 .. N - 1
      /\ \A x \in 0 .. N - 1 : \E j \in 1 .. L, i \in 0 .. n - 1 : x = n * (j - 1) + i
  BY <1>1, SliceIndex
<1> HIDE DEF U, N
<1>5. /\ \A e \in U : e[1] \in 0 .. N - 1
      /\ \A x \in 0 .. N - 1 : \E e \in U : e[1] = x
  <2>1. ASSUME NEW e \in U PROVE e[1] \in 0 .. N - 1
    <3>1. PICK j \in 1 .. L, i \in 0 .. n - 1 : e = <<n * (j - 1) + i, <<s[j], i>>>>
      BY <1>2
    <3> QED BY <1>4, <3>1
  <2>2. ASSUME NEW x \in 0 .. N - 1 PROVE \E e \in U : e[1] = x
    <3>1. PICK j \in 1 .. L, i \in 0 .. n - 1 : x = n * (j - 1) + i
      BY <1>4
    <3>2. <<x, <<s[j], i>>>> \in U
      BY <1>3, <3>1
    <3> QED BY <3>2
  <2> QED BY <2>1, <2>2
<1>6. ASSUME NEW e \in U, NEW g \in U PROVE e[1] = g[1] => e = g
  <2>1. PICK j \in 1 .. L, i \in 0 .. n - 1 : e = <<n * (j - 1) + i, <<s[j], i>>>>
    BY <1>2
  <2>2. PICK l \in 1 .. L, m \in 0 .. n - 1 : g = <<n * (l - 1) + m, <<s[l], m>>>>
    BY <1>2
  <2>3. j \in Nat \ {0} /\ l \in Nat \ {0} /\ i \in Nat /\ m \in Nat
    BY <1>1
  <2>4. /\ n * (j - 1) + i < n * (l - 1) + m <=> j < l \/ (j = l /\ i < m)
        /\ n * (l - 1) + m < n * (j - 1) + i <=> l < j \/ (l = j /\ m < i)
    BY <2>3, SliceOrder
  <2>5. n * (j - 1) + i = n * (l - 1) + m => j = l /\ i = m
    <3>1. n * (j - 1) + i \in Int /\ n * (l - 1) + m \in Int
      BY <2>3
    <3> QED BY <2>3, <2>4, <3>1
  <2> QED BY <2>1, <2>2, <2>5
<1>7. {e[1] : e \in U} = 0 .. N - 1
  BY <1>5
<1>8. Cardinality(U) = N
  <2> DEFINE f == [e \in U |-> e[1]]
  <2>1. f \in [U -> 0 .. N - 1]
    BY <1>5
  <2>2. f \in Bijection(U, 0 .. N - 1)
    BY <1>5, <1>6, <2>1 DEF Bijection, Injection, Surjection, IsInjective
  <2>3. IsFiniteSet(0 .. N - 1) /\ Cardinality(0 .. N - 1) = N
    <3>1. N \in Nat /\ N - 1 \in Int /\ 0 \in Int
      BY <1>1 DEF N
    <3> QED BY <3>1, FS_Interval
  <2> HIDE DEF f
  <2>4. f \in Injection(U, 0 .. N - 1) /\ f \in Surjection(U, 0 .. N - 1)
    BY <2>2 DEF Bijection
  <2>5. Cardinality(U) = Cardinality(0 .. N - 1)
    BY <2>3, <2>4, FS_Injection
  <2> QED BY <2>3, <2>5
<1>9. InOrder(U, s)
  <2> SUFFICES ASSUME NEW e \in U, NEW g \in U
               PROVE  (e[1] < g[1]) <=>
                        \/ \E j, l \in 1 .. Len(s) : j < l /\ s[j] = e[2][1] /\ s[l] = g[2][1]
                        \/ e[2][1] = g[2][1] /\ e[2][2] < g[2][2]
    BY DEF InOrder
  <2>1. PICK j \in 1 .. L, i \in 0 .. n - 1 : e = <<n * (j - 1) + i, <<s[j], i>>>>
    BY <1>2
  <2>2. PICK l \in 1 .. L, m \in 0 .. n - 1 : g = <<n * (l - 1) + m, <<s[l], m>>>>
    BY <1>2
  <2>3. j \in Nat \ {0} /\ l \in Nat \ {0} /\ i \in Nat /\ m \in Nat
    BY <1>1
  <2>4. n * (j - 1) + i < n * (l - 1) + m <=> j < l \/ (j = l /\ i < m)
    BY <2>3, SliceOrder
  <2>5. e[1] < g[1] <=> j < l \/ (j = l /\ i < m)
    BY <2>1, <2>2, <2>4
  <2>6. e[2][1] = s[j] /\ e[2][2] = i /\ g[2][1] = s[l] /\ g[2][2] = m
    BY <2>1, <2>2
  <2>7. \A a \in 1 .. Len(s) : (s[a] = s[j] <=> a = j) /\ (s[a] = s[l] <=> a = l)
    BY DEF Distinct
  <2>8. (\E a, b \in 1 .. Len(s) : a < b /\ s[a] = s[j] /\ s[b] = s[l]) <=> j < l
    BY <2>7
  <2>9. s[j] = s[l] <=> j = l
    BY <2>7
  <2> QED BY <2>5, <2>6, <2>8, <2>9
<1> QED BY <1>7, <1>8, <1>9 DEF U, N

(* One object more. *)
LEMMA SliceMore ==
  ASSUME NEW T, NEW s \in Seq(T), NEW d \in T, NEW n \in Nat
  PROVE  /\ Slices(Append(s, d), n)
              = Slices(s, n) \cup {<<n * Len(s) + i, <<d, i>>>> : i \in 0 .. n - 1}
         /\ Distinct(s) /\ (\A j \in 1 .. Len(s) : s[j] # d) => Distinct(Append(s, d))
         /\ Slices(<<>>, n) = {} /\ Distinct(<<>>)
<1> DEFINE r == Append(s, d)
           L == Len(s)
<1>1. /\ L \in Nat /\ Len(r) = L + 1 /\ r[L + 1] = d
      /\ \A j \in 1 .. L : r[j] = s[j]
      /\ 1 .. L + 1 = (1 .. L) \cup {L + 1} /\ (L + 1) - 1 = L
  OBVIOUS
<1>2. Slices(<<>>, n) = {} /\ Distinct(<<>>)
  BY DEF Slices, Distinct
<1>3. Distinct(s) /\ (\A j \in 1 .. Len(s) : s[j] # d) => Distinct(r)
  <2> HIDE DEF r
  <2> QED BY <1>1 DEF Distinct
<1>4. \A e : e \in Slices(r, n) <=>
         e \in Slices(s, n) \/ e \in {<<n * L + i, <<d, i>>>> : i \in 0 .. n - 1}
  <2> HIDE DEF r, L
  <2>1. \A e : e \in Slices(r, n) <=>
           \E j \in 1 .. L + 1, i \in 0 .. n - 1 : e = <<n * (j - 1) + i, <<r[j], i>>>>
    BY <1>1 DEF Slices
  <2>2. \A e : e \in Slices(s, n) <=>
           \E j \in 1 .. L, i \in 0 .. n - 1 : e = <<n * (j - 1) + i, <<s[j], i>>>>
    BY DEF Slices, L
  <2>3. \A j \in 1 .. L + 1 : j \in 1 .. L \/ j = L + 1
    BY <1>1
  <2>4. \A j \in 1 .. L : j \in 1 .. L + 1
    BY <1>1
  <2>5. L + 1 \in 1 .. L + 1
    BY <1>1
  <2>6. \A i : <<n * ((L + 1) - 1) + i, <<r[L + 1], i>>>> = <<n * L + i, <<d, i>>>>
    BY <1>1
  <2> SUFFICES ASSUME NEW e
               PROVE  e \in Slices(r, n) <=>
                        e \in Slices(s, n) \/ \E i \in 0 .. n - 1 : e = <<n * L + i, <<d, i>>>>
    OBVIOUS
  <2>7. ASSUME e \in Slices(r, n)
        PROVE  e \in Slices(s, n) \/ \E i \in 0 .. n - 1 : e = <<n * L + i, <<d, i>>>>
    <3>1. PICK j \in 1 .. L + 1, i \in 0 .. n - 1 : e = <<n * (j - 1) + i, <<r[j], i>>>>
      BY <2>1, <2>7
    <3>2. CASE j \in 1 .. L
      <4>1. e = <<n * (j - 1) + i, <<s[j], i>>>>
        BY <1>1, <3>1, <3>2
      <4> QED BY <2>2, <3>2, <4>1
    <3>3. CASE j = L + 1
      BY <2>6, <3>1, <3>3
    <3> QED BY <2>3, <3>2, <3>3
  <2>8. ASSUME e \in Slices(s, n) PROVE e \in Slices(r, n)
    <3>1. PICK j \in 1 .. L, i \in 0 .. n - 1 : e = <<n * (j - 1) + i, <<s[j], i>>>>
      BY <2>2, <2>8
    <3>2. e = <<n * (j - 1) + i, <<r[j], i>>>>
      BY <1>1, <3>1
    <3> QED BY <2>1, <2>4, <3>2
  <2>9. ASSUME NEW i \in 0 .. n - 1, e = <<n * L + i, <<d, i>>>> PROVE e \in Slices(r, n)
    BY <2>1, <2>5, <2>6, <2>9
  <2> QED BY <2>7, <2>8, <2>9
<1> QED BY <1>2, <1>3, <1>4

(* The part of the invariant that follows the array: while a call runs, it *)
(* holds the slices of the objects linked so far and call.per is the size  *)
(* of one; what a successful call has returned stays so until the next.    *)
ResultOK ==
  \E n \in Nat : /\ res.mine \in Seq(Dma) /\ Distinct(res.mine)
                 /\ user = Slices(res.mine, n) /\ res.n_dma_addrs = n * Len(res.mine)

CallArrayOK ==
  /\ call.file \in Target
  /\ user = Slices(call.mine, mem.n) /\ Distinct(call.mine)
  /\ call.k = Len(call.mine)
  /\ call.k > 0 => call.per = mem.n /\ call.n_dma_addrs = mem.n * call.k
  /\ IF At("copy") THEN call.k > 0 ELSE call.k < call.file.n_ctrls

ArrayInv ==
  /\ mem.st = "none" \/ mem.size \in Size
  /\ mem.p \in {PageSize} \cup GpuPageSize
  /\ call.pc \in {"idle", "pin"} /\ res.ok => ResultOK
  /\ call.pc \in {"alloc", "map", "copy"} => CallArrayOK
  /\ call.pc \in {"alloc", "map", "copy", "undo"} => ~res.ok

(* The addresses of a whole group's mappings can be counted in 32 bits:    *)
(* with pages of 4096 bytes, any group of less than 4096 controllers.      *)
Countable ==
  \A f \in Target, s \in Size, p \in {PageSize} \cup GpuPageSize :
    f.n_ctrls * NPages(s, p) < U32

(* A step that leaves the caller's array and the last result alone, and    *)
(* that is not in a call, keeps the invariant of the array.                *)
LEMMA ArrayFrame ==
  ASSUME ArrayInv, UNCHANGED <<user, res>>, call'.pc \in {"idle", "pin"},
         call.pc \in {"idle", "pin"} \/ ~res.ok,
         mem'.st = "none" \/ mem'.size \in Size, mem'.p \in {PageSize} \cup GpuPageSize
  PROVE  ArrayInv'
<1>1. res' = res /\ user' = user
  OBVIOUS
<1>2. ResultOK => ResultOK'
  BY <1>1 DEF ResultOK
<1> QED BY <1>1, <1>2 DEF ArrayInv

(* Steps outside DMA_MAP_MEM, and the end of a call that has failed. *)
LEMMA ArrayOutside ==
  ASSUME Inv, ArrayInv,
         \/ \E l \in {"CPU", "CUDA"}, s \in Size : Register(l, s)
         \/ \E len \in Length, p \in {PageSize} \cup GpuPageSize : PinStart(len, p)
         \/ PinPage \/ PinFails \/ PinCpu \/ PinCuda \/ Unpin \/ MapUndo
  PROVE  ArrayInv'
<1>0. /\ mem \in MemRec /\ call \in CallRec /\ NoCall.pc = "idle"
      /\ mem.st = "none" \/ mem.size \in Size
      /\ mem.p \in {PageSize} \cup GpuPageSize
      /\ call.pc \in {"alloc", "map", "copy", "undo"} => ~res.ok
  BY NoCallFacts DEF Inv, Types, ArrayInv
<1>1. ASSUME NEW l \in {"CPU", "CUDA"}, NEW s \in Size, Register(l, s) PROVE ArrayInv'
  <2>1. /\ call.pc = "idle" /\ call' = call /\ UNCHANGED <<user, res>>
        /\ mem' = [NoMem EXCEPT !.st = "stale", !.loc = l, !.size = s]
    BY <1>1 DEF Register, At, dmaVars
  <2>2. mem'.size = s /\ mem'.p = PageSize
    BY <2>1 DEF NoMem
  <2> QED BY <2>1, <2>2, ArrayFrame
<1>2. ASSUME NEW len \in Length, NEW p \in {PageSize} \cup GpuPageSize, PinStart(len, p)
      PROVE  ArrayInv'
  <2>1. /\ call.pc = "idle" /\ call' = [call EXCEPT !.pc = "pin"] /\ UNCHANGED <<user, res>>
        /\ mem' = [mem EXCEPT !.len = len, !.p = p, !.n = NPages(mem.size, p)]
    BY <1>2 DEF PinStart, At, dmaVars
  <2>2. mem'.st = mem.st /\ mem'.size = mem.size /\ mem'.p = p /\ call'.pc = "pin"
    BY <1>0, <2>1 DEF MemRec, CallRec
  <2> QED BY <1>0, <2>1, <2>2, ArrayFrame
<1>3. CASE PinPage \/ PinFails \/ PinCpu \/ PinCuda
  <2>1. /\ call.pc = "pin" /\ (call' = call \/ call' = NoCall) /\ UNCHANGED <<user, res>>
        /\ mem' = mem \/ mem' = [mem EXCEPT !.st = "live"]
    BY <1>3 DEF PinPage, PinFails, PinCpu, PinCuda, At, dmaVars
  <2>2. mem'.size = mem.size /\ mem'.p = mem.p /\ (mem'.st = mem.st \/ mem'.st = "live")
    BY <1>0, <2>1 DEF MemRec
  <2>3. mem.st # "none"
    BY <2>1 DEF Inv, CallOK, At
  <2> QED BY <1>0, <2>1, <2>2, <2>3, ArrayFrame
<1>4. CASE Unpin
  <2>1. call.pc = "idle" /\ call' = call /\ UNCHANGED <<user, res>> /\ mem' = NoMem
    BY <1>4 DEF Unpin, At
  <2>2. mem'.st = "none" /\ mem'.p = PageSize
    BY <2>1 DEF NoMem
  <2> QED BY <2>1, <2>2, ArrayFrame
<1>5. CASE MapUndo
  <2>1. call.pc = "undo" /\ call' = NoCall /\ UNCHANGED <<user, res>> /\ mem' = mem
    BY <1>5 DEF MapUndo, At
  <2> QED BY <1>0, <2>1, ArrayFrame
<1> QED BY <1>1, <1>2, <1>3, <1>4, <1>5

(* Steps of a call that leave its objects as they are. *)
LEMMA ArrayInside ==
  ASSUME Inv, ArrayInv,
         \/ \E f \in Target, c \in Cap : MapStart(f, c)
         \/ \E d \in Dma : MapAlloc(d)
         \/ MapAllocFails \/ MapPage \/ MapGpuPages \/ MapFails \/ MapReturn \/ MapCopyFails
  PROVE  ArrayInv'
<1>0. /\ mem \in MemRec /\ call \in CallRec /\ mem.n \in Nat
      /\ NoCall.pc = "idle" /\ NoCall.mine = <<>> /\ NoCall.k = 0
  BY DEF Inv, Types, MemRec, NoCall
<1>1. ASSUME NEW f \in Target, NEW c \in Cap, MapStart(f, c) PROVE ArrayInv'
  <2>0. f.n_ctrls \in Nat \ {0}
    BY SizesAssumption
  <2>1. /\ call' = [NoCall EXCEPT !.pc = "alloc", !.file = f, !.n_dma_addrs = c]
        /\ user' = {} /\ res' = NoResult /\ mem' = mem
    BY <1>1 DEF MapStart
  <2>2. call'.pc = "alloc" /\ call'.file = f /\ call'.mine = <<>> /\ call'.k = 0 /\ ~res'.ok
    BY <2>1 DEF NoCall, NoResult
  <2>3. Slices(<<>>, mem.n) = {} /\ Distinct(<<>>) /\ Len(<<>>) = 0
    BY DEF Slices, Distinct
  <2>4. CallArrayOK'
    BY <2>0, <2>1, <2>2, <2>3 DEF CallArrayOK, At
  <2> QED BY <2>1, <2>2, <2>4 DEF ArrayInv
<1>2. CASE \/ (\E d \in Dma : MapAlloc(d)) \/ MapPage \/ MapGpuPages
           \/ MapAllocFails \/ MapFails \/ MapCopyFails
  <2>1. /\ call.pc \in {"alloc", "map", "copy"} /\ mem' = mem /\ user' = user /\ res' = res
        /\ call'.pc \in {"alloc", "map", "undo"} /\ (call'.pc # "undo" => call.pc # "copy")
        /\ call'.file = call.file /\ call'.mine = call.mine /\ call'.k = call.k
        /\ call'.per = call.per /\ call'.n_dma_addrs = call.n_dma_addrs
    <3>1. CASE \E d \in Dma : MapAlloc(d)
      <4>1. PICK d \in Dma : MapAlloc(d)
        BY <3>1
      <4> QED BY <1>0, <4>1 DEF MapAlloc, CallRec, At
    <3>2. CASE MapPage \/ MapGpuPages
      BY <1>0, <3>2 DEF MapPage, MapGpuPages, CallRec, At
    <3>3. CASE MapAllocFails \/ MapFails \/ MapCopyFails
      BY <1>0, <3>3 DEF MapAllocFails, MapFails, MapCopyFails, CallRec, At, dmaVars
    <3> QED BY <1>2, <3>1, <3>2, <3>3
  <2>2. call'.pc # "undo" => CallArrayOK'
    BY <2>1 DEF ArrayInv, CallArrayOK, At
  <2> QED BY <2>1, <2>2 DEF ArrayInv
<1>3. CASE MapReturn
  <2>1. /\ call.pc = "copy" /\ call' = NoCall /\ user' = user /\ mem' = mem
        /\ res' = [ok |-> TRUE, mine |-> call.mine, n_dma_addrs |-> call.n_dma_addrs]
    BY <1>3 DEF MapReturn, At
  <2>2. /\ user = Slices(call.mine, mem.n) /\ Distinct(call.mine) /\ call.mine \in Seq(Dma)
        /\ call.n_dma_addrs = mem.n * Len(call.mine)
    BY <1>0, <2>1 DEF ArrayInv, CallArrayOK, CallRec, At
  <2>3. ResultOK'
    BY <1>0, <2>1, <2>2 DEF ResultOK
  <2> QED BY <1>0, <2>1, <2>3 DEF ArrayInv
<1> QED BY <1>1, <1>2, <1>3

(* A complete object fills the next slice: if a group's addresses can be   *)
(* counted, their number does not wrap and the slices do not overlap.      *)
LEMMA ArrayLink ==
  ASSUME Inv, ArrayInv, MapLink, Countable
  PROVE  ArrayInv'
<1> DEFINE n == mem.n
           total == IF call.k = 0 THEN n ELSE (call.n_dma_addrs + n) % U32
           per == IF call.k = 0 THEN total ELSE call.per
           pc == IF call.k + 1 < call.file.n_ctrls THEN "alloc" ELSE "copy"
<1>1. /\ call.pc = "map" /\ user' = user \cup Slice /\ mem' = mem /\ res' = res
      /\ call' = [call EXCEPT !.n_dma_addrs = total, !.mine = Append(call.mine, call.d),
                              !.k = call.k + 1, !.per = per, !.pc = pc]
  BY DEF MapLink, At
<1>2. /\ call \in CallRec /\ call.d \in Dma /\ n \in Nat /\ call.mine \in Seq(Dma)
      /\ mem.st = "live"
      /\ \A j \in 1 .. Len(call.mine) : call.mine[j] # call.d
  <2>1. /\ call \in CallRec /\ call.d \in Dma /\ n \in Nat /\ call.mine \in Seq(Dma)
        /\ mem.st = "live" /\ dma[call.d] = "filling"
        /\ \A j \in 1 .. Len(call.mine) : dma[call.mine[j]] = "linked"
    BY <1>1, MapState
  <2> QED BY <2>1
<1>3. /\ call.file \in Target /\ user = Slices(call.mine, n) /\ Distinct(call.mine)
      /\ call.k = Len(call.mine) /\ call.k \in Nat /\ call.k < call.file.n_ctrls
      /\ call.k > 0 => call.per = n /\ call.n_dma_addrs = n * call.k
      /\ call.per \in Nat
  BY <1>1, <1>2 DEF ArrayInv, CallArrayOK, CallRec, At
<1>4. n * (call.k + 1) \in Nat /\ n * (call.k + 1) < U32 /\ n * (call.k + 1) = n * call.k + n
  <2>1. mem.size \in Size /\ mem.p \in {PageSize} \cup GpuPageSize /\ n = NPages(mem.size, mem.p)
    BY <1>2 DEF ArrayInv, Inv, MemOK
  <2>2. call.file.n_ctrls * n < U32
    BY <1>3, <2>1 DEF Countable
  <2>3. call.file.n_ctrls \in Nat /\ U32 \in Nat
    BY <1>3, SizesAssumption
  <2>4. PICK k \in Nat : call.file.n_ctrls = call.k + 1 + k
    <3> DEFINE m == call.file.n_ctrls
               c == call.k
    <3>1. m \in Nat /\ c \in Nat /\ c < m
      BY <1>3, <2>3
    <3> HIDE DEF m, c
    <3>2. m - c - 1 \in Nat /\ m = c + 1 + (m - c - 1)
      BY <3>1
    <3> QED BY <3>2 DEF m, c
  <2> DEFINE c == call.k
  <2>5. c \in Nat /\ (c + 1 + k) * n < U32
    BY <1>3, <2>2, <2>4
  <2> HIDE DEF n, c
  <2>6. (c + 1 + k) * n = n * (c + 1) + k * n /\ k * n >= 0 /\ k * n \in Int
    BY <1>2, <2>5
  <2>7. n * (c + 1) \in Nat /\ n * (c + 1) = n * c + n
    BY <1>2, <2>5
  <2>8. n * (c + 1) < U32
    BY <2>3, <2>5, <2>6, <2>7
  <2> QED BY <2>7, <2>8 DEF c
<1>5. total = n * (call.k + 1) /\ per = n
  <2>1. CASE call.k = 0
    BY <1>2, <2>1
  <2>2. CASE call.k > 0
    <3>1. call.n_dma_addrs + n = n * (call.k + 1)
      BY <1>3, <1>4, <2>2
    <3> DEFINE x == n * (call.k + 1)
    <3>2. x \in Nat /\ x < U32 /\ U32 \in Nat \ {0}
      BY <1>4, SizesAssumption
    <3> HIDE DEF x
    <3>3. x % U32 = x
      BY <3>2
    <3> QED BY <1>3, <2>2, <3>1, <3>3 DEF x
  <2> QED BY <1>3, <2>1, <2>2
<1>6. Slice = {<<n * Len(call.mine) + i, <<call.d, i>>>> : i \in 0 .. n - 1}
  <2>1. call.per * call.k = n * Len(call.mine)
    <3>1. CASE call.k = 0
      BY <1>2, <1>3, <3>1
    <3>2. CASE call.k > 0
      BY <1>3, <3>2
    <3> QED BY <1>3, <3>1, <3>2
  <2> QED BY <2>1 DEF Slice
<1>7. /\ Slices(Append(call.mine, call.d), n) = user \cup Slice
      /\ Distinct(Append(call.mine, call.d))
  <2> DEFINE s == call.mine
             d == call.d
  <2>1. s \in Seq(Dma) /\ d \in Dma /\ n \in Nat
    BY <1>2
  <2>2. Distinct(s) /\ \A j \in 1 .. Len(s) : s[j] # d
    BY <1>2, <1>3
  <2>3. user = Slices(s, n) /\ Slice = {<<n * Len(s) + i, <<d, i>>>> : i \in 0 .. n - 1}
    BY <1>3, <1>6
  <2> HIDE DEF s, d, n
  <2>4. /\ Slices(Append(s, d), n)
             = Slices(s, n) \cup {<<n * Len(s) + i, <<d, i>>>> : i \in 0 .. n - 1}
        /\ Distinct(s) /\ (\A j \in 1 .. Len(s) : s[j] # d) => Distinct(Append(s, d))
    BY <2>1, SliceMore
  <2>5. Slices(Append(s, d), n) = user \cup Slice /\ Distinct(Append(s, d))
    BY <2>2, <2>3, <2>4
  <2> QED BY <2>5 DEF s, d, n
<1>8. Len(Append(call.mine, call.d)) = call.k + 1 /\ pc \in {"alloc", "copy"}
  BY <1>2, <1>3
<1> HIDE DEF total, per, pc, n
<1>9. /\ call'.pc = pc /\ call'.mine = Append(call.mine, call.d) /\ call'.k = call.k + 1
      /\ call'.per = per /\ call'.n_dma_addrs = total /\ call'.file = call.file
  BY <1>1, <1>2 DEF CallRec
<1>10. IF pc = "copy" THEN call.k + 1 > 0 ELSE call.k + 1 < call.file.n_ctrls
  BY <1>3 DEF pc
<1>11. CallArrayOK'
  BY <1>1, <1>3, <1>5, <1>7, <1>8, <1>9, <1>10 DEF CallArrayOK, At, n
<1> QED BY <1>1, <1>8, <1>9, <1>11 DEF ArrayInv

(* A DMA_MAP_MEM that succeeds has filled the array with the addresses of  *)
(* all pages, controller after controller, without gaps or overlap, if the *)
(* addresses of a group's mappings can be counted in 32 bits.              *)
THEOREM ArrayAlwaysFilled ==
  ASSUME Countable
  PROVE  Spec => []ArrayFilled
<1>1. Init => ArrayInv
  BY DEF Init, ArrayInv, NoMem, NoCall, NoResult
<1>2. Inv /\ ArrayInv /\ [Next]_vars => ArrayInv'
  <2> SUFFICES ASSUME Inv, ArrayInv, [Next]_vars PROVE ArrayInv'
    OBVIOUS
  <2>1. CASE UNCHANGED vars
    BY <2>1 DEF vars, ArrayInv, ResultOK, CallArrayOK, At
  <2>2. CASE Next
    BY <2>2, ArrayOutside, ArrayInside, ArrayLink DEF Next
  <2> QED BY <2>1, <2>2
<1>3. ArrayInv => ArrayFilled
  <2> SUFFICES ASSUME ArrayInv, res.ok, call.pc = "idle"
               PROVE  /\ {e[1] : e \in user} = 0 .. res.n_dma_addrs - 1
                      /\ Cardinality(user) = res.n_dma_addrs
                      /\ InOrder(user, res.mine)
    BY DEF ArrayFilled, InOrder, At
  <2>1. PICK n \in Nat : /\ res.mine \in Seq(Dma) /\ Distinct(res.mine)
                         /\ user = Slices(res.mine, n)
                         /\ res.n_dma_addrs = n * Len(res.mine)
    BY DEF ArrayInv, ResultOK
  <2> QED BY <2>1, SlicesFill
<1> QED BY <1>1, <1>2, <1>3, Invariance, PTL DEF Spec

=============================================================================
