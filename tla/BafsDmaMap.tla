----------------------------- MODULE BafsDmaMap -----------------------------
(***************************************************************************)
(* The numbers and arrays of pinning and of DMA_MAP_MEM: page counts, the  *)
(* length each page is mapped with, the slices of the caller's address     *)
(* array that the controllers of a group fill, and what the error paths    *)
(* give back page by page: mem.c, ctrl.c and group.c.                      *)
(*                                                                         *)
(* BafsMem has the references and the interleavings, with a page table as  *)
(* a whole.  Here one call at a time works on one registration, one page   *)
(* after the other.                                                        *)
(***************************************************************************)
EXTENDS Integers, Sequences, FiniteSets

CONSTANTS
  PageSize,     \* PAGE_SIZE
  GpuPageSize,  \* the page sizes of GPUs
  U32,          \* 2^32: sizes and the loop's products are 32 bits wide
  Size,         \* sizes the process registers
  Length,       \* lengths it maps
  Target,       \* the files DMA_MAP_MEM is called on, as [group, n_ctrls]
  Cap,          \* capacities of the array it passes
  MaxDma        \* bound on the number of bafs_mem_dma objects made

ASSUME SizesAssumption ==
  /\ PageSize \in Nat \ {0} /\ U32 \in Nat \ {0}
  /\ GpuPageSize \subseteq Nat \ {0}
  /\ Size \subseteq 0 .. U32 - 1
  /\ Length \subseteq Nat \ {0}
  /\ Target \subseteq [group : BOOLEAN, n_ctrls : Nat \ {0}]
  /\ Cap \subseteq Nat
  /\ MaxDma \in Nat

Dma == 1 .. MaxDma

VARIABLES
  mem,     \* the registration
  pages,   \* indices of the pages allocated or pinned for it
  dma,     \* the bafs_mem_dma objects: "unused", "filling", "linked" or "freed"
  bus,     \* DMA mappings as <<dma, page, length>>
  cap,     \* the number of entries the caller says its array has
  user,    \* the entries of the caller's array that were written
  call,    \* the call in progress
  res,     \* what the last DMA_MAP_MEM returned
  lost,    \* arrays that were allocated and that nobody will free
  arrays,  \* arrays allocated and not freed
  bad      \* TRUE: something was unmapped that was not mapped with that length

vars == <<mem, pages, dma, bus, cap, user, call, res, lost, arrays, bad>>

----------------------------------------------------------------------------
(* Sizes. *)

(* Mutant: the last, partial page is forgotten. *)
NPages_floor(size, p) == size \div p

NPages(size, p) == (size + p - 1) \div p

(* The length the loops give page i: i * map_gran is an unsigned product.  *)
Gran(i, size, p) ==
  LET off == (i * p) % U32
  IN IF off > size THEN (p - (off - size)) % U32 ELSE p

----------------------------------------------------------------------------
NoCall == [pc |-> "idle", file |-> [group |-> FALSE, n_ctrls |-> 1], k |-> 0, i |-> 0,
           d |-> 0, mine |-> <<>>, n_dma_addrs |-> 0, per |-> 0]

NoMem == [st |-> "none", loc |-> "CPU", size |-> 0, len |-> 0, p |-> PageSize, n |-> 0]

NoResult == [ok |-> FALSE, mine |-> <<>>, n_dma_addrs |-> 0]

Init ==
  /\ mem = NoMem /\ pages = {}
  /\ dma = [d \in Dma |-> "unused"]
  /\ bus = {} /\ cap = 0 /\ user = {}
  /\ call = NoCall /\ res = NoResult
  /\ lost = 0 /\ arrays = 0 /\ bad = FALSE

At(pc) == call.pc = pc

dmaVars == <<dma, bus, cap, user, res, lost, arrays, bad>>

----------------------------------------------------------------------------
(* REG_MEM and mmap. *)

Register(loc, size) ==
  /\ At("idle") /\ mem.st = "none"
  /\ mem' = [NoMem EXCEPT !.st = "stale", !.loc = loc, !.size = size]
  /\ UNCHANGED <<pages, call, dmaVars>>

(* The GPU driver says which page size it has; a page of the host is fixed. *)
PinStart(len, p) ==
  /\ At("idle") /\ mem.st = "stale"
  /\ IF mem.loc = "CPU" THEN p = PageSize ELSE p \in GpuPageSize
  /\ mem' = [mem EXCEPT !.len = len, !.p = p, !.n = NPages(mem.size, p)]
  /\ call' = [call EXCEPT !.pc = "pin"]
  /\ UNCHANGED <<pages, dmaVars>>

PinPage ==
  /\ At("pin") /\ mem.loc = "CPU"
  /\ Cardinality(pages) < mem.n
  /\ pages' = pages \cup {Cardinality(pages)}
  /\ UNCHANGED <<mem, call, dmaVars>>

(* No page, no page table, an unaligned address, or the GPU driver fails: *)
(* the pages taken so far are given back.                                 *)
PinFails ==
  /\ At("pin")
  /\ pages' = {}
  /\ call' = NoCall
  /\ UNCHANGED <<mem, dmaVars>>

(* vm_map_pages_zero maps the range, which must not be longer than the    *)
(* pages; a length of the range is a number of host pages.                *)
PinCpu ==
  /\ At("pin") /\ mem.loc = "CPU"
  /\ Cardinality(pages) = mem.n
  /\ mem.len <= mem.n
  /\ mem' = [mem EXCEPT !.st = "live"]
  /\ call' = NoCall
  /\ UNCHANGED <<pages, dmaVars>>

(* nvidia_p2p_get_pages gave n_pages entries; the loop remaps each.       *)
PinCuda ==
  /\ At("pin") /\ mem.loc = "CUDA" /\ mem.size > 0
  /\ pages' = 0 .. mem.n - 1
  /\ mem' = [mem EXCEPT !.st = "live"]
  /\ call' = NoCall
  /\ UNCHANGED dmaVars

----------------------------------------------------------------------------
(* Giving DMA mappings back. *)

Undone(S) == bus' = bus \ S /\ bad' = (bad \/ ~(S \subseteq bus))

(* What unmap_dma takes down for d. *)
UnmapDma(d) == {<<d, i, Gran(i, mem.size, mem.p)>> : i \in 0 .. mem.n - 1}

(* Mutant: the error path unmaps what the loop was about to map, too. *)
Filled_offByOne(d, k) == {<<d, i, mem.p>> : i \in 0 .. k}

(* What out_unmap of bafs_ctrl_dma_map_mem takes down: the first k pages,  *)
(* each with the full granularity.                                         *)
Filled(d, k) == {<<d, i, mem.p>> : i \in 0 .. k - 1}

Linked == {d \in Dma : dma[d] = "linked"}

HostArray == IF mem.loc = "CPU" THEN 1 ELSE 0

(* munmap, and the end of the registration: bafs_mem_release and           *)
(* __bafs_mem_release.                                                     *)
Unpin ==
  /\ At("idle") /\ mem.st = "live"
  /\ Undone(UNION {UnmapDma(d) : d \in Linked})
  /\ dma' = [d \in Dma |-> IF d \in Linked THEN "freed" ELSE dma[d]]
  /\ arrays' = arrays - HostArray * Cardinality(Linked)
  /\ pages' = pages \ (0 .. mem.n - 1)
  /\ mem' = NoMem
  /\ UNCHANGED <<cap, user, call, res, lost>>

----------------------------------------------------------------------------
(* DMA_MAP_MEM: __bafs_ctrl_dma_map_mem, and bafs_group_dma_map_mem, which *)
(* has an array of the mapping objects.                                    *)

GroupArray == IF call.file.group THEN 1 ELSE 0

MapStart(f, c) ==
  /\ At("idle") /\ mem.st = "live"
  /\ call' = [NoCall EXCEPT !.pc = "alloc", !.file = f, !.n_dma_addrs = c]
  /\ cap' = c
  /\ user' = {}
  /\ res' = NoResult
  /\ arrays' = arrays + (IF f.group THEN 1 ELSE 0)
  /\ UNCHANGED <<mem, pages, dma, bus, lost, bad>>

(* bafs_ctrl_dma_map_mem for controller number k. *)
MapAlloc(d) ==
  /\ At("alloc")
  /\ dma[d] = "unused" /\ \A e \in 1 .. d - 1 : dma[e] # "unused"
  /\ dma' = [dma EXCEPT ![d] = "filling"]
  /\ arrays' = arrays + HostArray
  /\ call' = [call EXCEPT !.pc = "map", !.d = d, !.i = 0]
  /\ UNCHANGED <<mem, pages, bus, cap, user, res, lost, bad>>

MapAllocFails ==
  /\ At("alloc")
  /\ call' = [call EXCEPT !.pc = "undo"]
  /\ UNCHANGED <<mem, pages, dmaVars>>

MapPage ==
  /\ At("map") /\ mem.loc = "CPU"
  /\ call.i < mem.n
  /\ bus' = bus \cup {<<call.d, call.i, Gran(call.i, mem.size, mem.p)>>}
  /\ call' = [call EXCEPT !.i = @ + 1]
  /\ UNCHANGED <<mem, pages, dma, cap, user, res, lost, arrays, bad>>

MapGpuPages ==
  /\ At("map") /\ mem.loc = "CUDA"
  /\ call.i < mem.n
  /\ bus' = bus \cup Filled(call.d, mem.n)
  /\ call' = [call EXCEPT !.i = mem.n]
  /\ UNCHANGED <<mem, pages, dma, cap, user, res, lost, arrays, bad>>

(* Mutant: the error jumps past out_unmap. *)
MapFails_keepsPages ==
  /\ At("map")
  /\ dma' = [dma EXCEPT ![call.d] = "freed"]
  /\ lost' = lost + HostArray
  /\ call' = [call EXCEPT !.pc = "undo"]
  /\ UNCHANGED <<mem, pages, bus, bad, cap, user, res, arrays>>

(* dma_map_single, nvidia_p2p_dma_map_pages or the copy of the addresses   *)
(* fails: out_unmap and out_delete_dma.  The array of addresses is not     *)
(* freed.                                                                  *)
MapFails ==
  /\ At("map")
  /\ Undone(Filled(call.d, call.i))
  /\ dma' = [dma EXCEPT ![call.d] = "freed"]
  /\ lost' = lost + HostArray
  /\ call' = [call EXCEPT !.pc = "undo"]
  /\ UNCHANGED <<mem, pages, cap, user, res, arrays>>

(* The entries of the caller's array that controller k fills. *)
Slice == {<<call.per * call.k + i, <<call.d, i>>>> : i \in 0 .. mem.n - 1}

(* Mutant: the number of addresses starts from what the caller passed. *)
MapLink_adds ==
  LET total == (call.n_dma_addrs + mem.n) % U32
  IN /\ At("map") /\ call.i = mem.n
     /\ user' = user \cup Slice
     /\ dma' = [dma EXCEPT ![call.d] = "linked"]
     /\ call' = [call EXCEPT
                   !.n_dma_addrs = total,
                   !.mine = Append(@, call.d),
                   !.k = @ + 1,
                   !.per = IF call.k = 0 THEN total ELSE @,
                   !.pc = IF call.k + 1 < call.file.n_ctrls THEN "alloc" ELSE "copy"]
     /\ UNCHANGED <<mem, pages, bus, cap, res, lost, arrays, bad>>

MapLink ==
  LET total == IF call.k = 0 THEN mem.n ELSE (call.n_dma_addrs + mem.n) % U32
  IN /\ At("map") /\ call.i = mem.n
     /\ user' = user \cup Slice
     /\ dma' = [dma EXCEPT ![call.d] = "linked"]
     /\ call' = [call EXCEPT
                   !.n_dma_addrs = total,
                   !.mine = Append(@, call.d),
                   !.k = @ + 1,
                   !.per = IF call.k = 0 THEN total ELSE @,
                   !.pc = IF call.k + 1 < call.file.n_ctrls THEN "alloc" ELSE "copy"]
     /\ UNCHANGED <<mem, pages, bus, cap, res, lost, arrays, bad>>

(* A group's array of mapping objects is not freed on success. *)
MapReturn ==
  /\ At("copy")
  /\ res' = [ok |-> TRUE, mine |-> call.mine, n_dma_addrs |-> call.n_dma_addrs]
  /\ lost' = lost + GroupArray
  /\ call' = NoCall
  /\ UNCHANGED <<mem, pages, dma, bus, cap, user, arrays, bad>>

MapCopyFails ==
  /\ At("copy")
  /\ call' = [call EXCEPT !.pc = "undo"]
  /\ UNCHANGED <<mem, pages, dmaVars>>

(* Mutant: a failed group call does not free its array either. *)
MapUndo_keepsArray ==
  /\ At("undo")
  /\ LET S == {call.mine[j] : j \in 1 .. Len(call.mine)}
     IN /\ Undone(UNION {UnmapDma(d) : d \in S})
        /\ dma' = [d \in Dma |-> IF d \in S THEN "freed" ELSE dma[d]]
        /\ arrays' = arrays - HostArray * Cardinality(S)
  /\ call' = NoCall
  /\ UNCHANGED <<mem, pages, cap, user, res, lost>>

(* out_unmap_mems: bafs_ctrl_dma_unmap_mem for every mapping of the call.  *)
MapUndo ==
  /\ At("undo")
  /\ LET S == {call.mine[j] : j \in 1 .. Len(call.mine)}
     IN /\ Undone(UNION {UnmapDma(d) : d \in S})
        /\ dma' = [d \in Dma |-> IF d \in S THEN "freed" ELSE dma[d]]
        /\ arrays' = arrays - HostArray * Cardinality(S) - GroupArray
  /\ call' = NoCall
  /\ UNCHANGED <<mem, pages, cap, user, res, lost>>

----------------------------------------------------------------------------
Next ==
  \/ \E l \in {"CPU", "CUDA"}, s \in Size : Register(l, s)
  \/ \E len \in Length, p \in {PageSize} \cup GpuPageSize : PinStart(len, p)
  \/ PinPage \/ PinFails \/ PinCpu \/ PinCuda \/ Unpin
  \/ \E f \in Target, c \in Cap : MapStart(f, c)
  \/ \E d \in Dma : MapAlloc(d)
  \/ MapAllocFails \/ MapPage \/ MapGpuPages \/ MapFails \/ MapLink \/ MapReturn
  \/ MapCopyFails \/ MapUndo

Spec == Init /\ [][Next]_vars

----------------------------------------------------------------------------
(* Properties. *)

(* Everything that is unmapped, on the error paths and at munmap, is       *)
(* mapped, and with the length it is unmapped with, though out_unmap uses  *)
(* another length than the loop.                                           *)
UnmapMatches == ~bad

(* The DMA mappings are those of every page of the objects in dma_list,    *)
(* and of the pages the call in progress has reached: none is left of an   *)
(* object that is freed, nor of a registration that is unmapped.           *)
BusExact ==
  bus = (UNION {UnmapDma(d) : d \in Linked})
        \cup (IF At("map") THEN Filled(call.d, call.i) ELSE {})

(* A DMA mapping covers the whole of its page, and the pages together the  *)
(* whole registration: no size makes the 32-bit product i * map_gran wrap  *)
(* or the length of the last page too short.                               *)
MappingsCover ==
  /\ \A m \in bus : m[3] = mem.p
  /\ mem.st = "live" => mem.n * mem.p >= mem.size /\ (mem.n - 1) * mem.p < mem.size

(* A DMA_MAP_MEM that succeeds has filled the caller's array with the      *)
(* addresses of all pages, one controller after the other, without gaps    *)
(* or overlap, and n_dma_addrs says how many.                              *)
ArrayFilled ==
  res.ok /\ At("idle") =>
    /\ {e[1] : e \in user} = 0 .. res.n_dma_addrs - 1
    /\ Cardinality(user) = res.n_dma_addrs
    /\ \A e, g \in user :
         (e[1] < g[1]) <=> \/ \E j, l \in 1 .. Len(res.mine) :
                                j < l /\ res.mine[j] = e[2][1] /\ res.mine[l] = g[2][1]
                           \/ e[2][1] = g[2][1] /\ e[2][2] < g[2][2]

(* No page is left when a pin has failed or a registration has ended, and  *)
(* the arrays in use are those of mapping objects and of the group call in *)
(* progress, apart from the ones that error paths and successful group     *)
(* calls are known to lose.                                                *)
MemoryExact ==
  /\ IF mem.st = "live" THEN pages = 0 .. mem.n - 1 ELSE At("pin") \/ pages = {}
  /\ arrays = lost + (IF call.pc # "idle" THEN GroupArray ELSE 0)
              + HostArray * Cardinality({d \in Dma : dma[d] \in {"filling", "linked"}})

(* "in-out __u32 n_dma_addrs" (module/include/linux/bafs.h): not more      *)
(* entries of the caller's array are written than it said there are.       *)
CapacityRespected == \A e \in user : e[1] < cap
=============================================================================
