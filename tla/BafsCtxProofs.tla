--------------------------- MODULE BafsCtxProofs ---------------------------
(***************************************************************************)
(* Proofs about BafsCtx, for every number of threads, processes, process   *)
(* numbers, files and contexts and every way in which numbers are used     *)
(* again.                                                                  *)
(*                                                                         *)
(* The inductive invariant Inv ties each context to the table, to the      *)
(* files and calls that hold a reference on it, and to the one thread that *)
(* releases it.  It holds whatever calls overlap and whoever inherits      *)
(* files, because a step that would break it is a fault.  What needs the   *)
(* usage contract is proved from Inv and one more invariant each.          *)
(***************************************************************************)
EXTENDS BafsCtx, FiniteSetTheorems, TLAPS

USE ConstantsAssumption

----------------------------------------------------------------------------
(* The inductive invariant. *)

Opening   == {"cmpxchg", "get", "opened"}
Releasing == {"erase", "free"}
Closing   == {"put"} \cup Releasing

(* What a thread has in its locals at each step. *)
LocalsOK(s) ==
  /\ s.pc = "idle" => s = Idle
  /\ s.pc # "idle" => s.p \in Proc /\ s.n \in Pid /\ s.f \in File
  /\ s.pc \in Opening => s.op = "open" /\ s.n = PidOf[s.p]
  /\ s.pc \in Closing => s.op = "close"
  /\ s.pc \in {"get", "opened"} \cup Closing =>
       s.c \in Ctx /\ ctx[s.c].heap # "unused" /\ ctx[s.c].n = s.n

Locals == \A t \in Thread : LocalsOK(th[t])

(* A call works on a file that is not open, and on no other call's file. *)
FilesApart ==
  \A t \in Thread : th[t].pc # "idle" =>
    /\ file[th[t].f] = NoFile
    /\ \A u \in Thread : u # t => th[u].f # th[t].f

(* An open file has a context, of the number of the process that opened it. *)
FilesOK ==
  \A f \in File : file[f] # NoFile =>
    /\ file[f].c \in Ctx /\ file[f].by \in Proc /\ file[f].users # {}
    /\ ctx[file[f].c].n = PidOf[file[f].by]

(* A context that was never made is untouched; one that was made has the   *)
(* number of its process.                                                  *)
CtxOK ==
  \A c \in Ctx :
    /\ ctx[c].heap = "unused" => ctx[c] = UnusedCtx
    /\ ctx[c].heap # "unused" => ctx[c].p \in Proc /\ ctx[c].n = PidOf[ctx[c].p]

(* A context that is counted exists and is in the table. *)
CountedIsFound ==
  \A c \in Ctx : ctx[c].ref > 0 => ctx[c].heap = "live" /\ slot[ctx[c].n] = c

(* A context without references is released by one thread, which finds it  *)
(* in the table until it has erased it.                                    *)
ReleasedOnce ==
  /\ \A t \in Thread : th[t].pc \in Releasing =>
       /\ ctx[th[t].c].heap = "live" /\ ctx[th[t].c].ref = 0
       /\ th[t].pc = "erase" => slot[th[t].n] = th[t].c
       /\ th[t].pc = "free" => slot[th[t].n] # th[t].c
       /\ \A u \in Thread : u # t /\ th[u].pc \in Releasing => th[u].c # th[t].c
  /\ \A c \in Ctx : ctx[c].heap = "live" /\ ctx[c].ref = 0 =>
       \E t \in Thread : th[t].pc \in Releasing /\ th[t].c = c

Inv ==
  /\ TypeOK
  /\ Locals /\ FilesApart /\ FilesOK /\ CtxOK
  /\ CountedIsFound /\ ReleasedOnce
  /\ TableExact /\ RefExact /\ PidRefExact

(* Of two calls for one number, the second was let in by the first. *)
PairsMayOverlap ==
  \A t, u \in Thread :
    t # u /\ th[t].pc # "idle" /\ th[u].pc # "idle" /\ th[t].n = th[u].n =>
      {th[t].op, th[u].op} \in Overlap

(* The context an open has found in the table is still counted. *)
FoundIsCounted == \A t \in Thread : th[t].pc = "get" => ctx[th[t].c].ref > 0

ContractInv == PairsMayOverlap /\ FoundIsCounted /\ NoFault

(* Without inherited files, whoever refers to a context is its process. *)
OwnInv ==
  /\ \A p, q \in Proc : proc[p] = "alive" /\ proc[q] = "alive" /\ PidOf[p] = PidOf[q]
       => p = q
  /\ \A f \in File : file[f] # NoFile =>
       /\ file[f].users = {file[f].by}
       /\ proc[file[f].by] = "alive"
       /\ ctx[file[f].c].p = file[f].by
  /\ \A t \in Thread : th[t].pc # "idle" => proc[th[t].p] = "alive"
  /\ \A t \in Thread : th[t].pc \in {"opened", "put"} => ctx[th[t].c].p = th[t].p

----------------------------------------------------------------------------
(* Counting. *)

(* The sets that the counts are compared with are finite. *)
LEMMA CardFacts ==
  /\ \A c \in Ctx : /\ IsFiniteSet(FilesOf(c)) /\ Cardinality(FilesOf(c)) \in Nat
                   /\ IsFiniteSet(Holders(c)) /\ Cardinality(Holders(c)) \in Nat
  /\ \A p \in Proc : IsFiniteSet(Owned(p)) /\ Cardinality(Owned(p)) \in Nat
<1>1. ASSUME NEW c \in Ctx
      PROVE  FilesOf(c) \in SUBSET File /\ Holders(c) \in SUBSET Thread
  BY DEF FilesOf, Holders
<1>2. ASSUME NEW p \in Proc PROVE Owned(p) \in SUBSET Ctx
  BY DEF Owned
<1> QED BY <1>1, <1>2, FS_Subset, FS_CardinalityType

(* A context with a file or a call that holds it is counted. *)
LEMMA HeldIsCounted ==
  ASSUME Inv
  PROVE  /\ \A f \in File : file[f] # NoFile => ctx[file[f].c].ref > 0
         /\ \A t \in Thread : th[t].pc \in {"opened", "put"} => ctx[th[t].c].ref > 0
<1>1. ASSUME NEW f \in File, file[f] # NoFile PROVE ctx[file[f].c].ref > 0
  <2>1. file[f].c \in Ctx /\ FilesOf(file[f].c) # {}
    BY <1>1 DEF Inv, FilesOK, FilesOf
  <2>2. Cardinality(FilesOf(file[f].c)) # 0
    BY <2>1, CardFacts, FS_EmptySet
  <2> QED BY <2>1, <2>2, CardFacts DEF Inv, RefExact
<1>2. ASSUME NEW t \in Thread, th[t].pc \in {"opened", "put"}
      PROVE  ctx[th[t].c].ref > 0
  <2>1. th[t].c \in Ctx /\ Holders(th[t].c) # {}
    BY <1>2 DEF Inv, Locals, LocalsOK, Closing, Holders
  <2>2. Cardinality(Holders(th[t].c)) # 0
    BY <2>1, CardFacts, FS_EmptySet
  <2> QED BY <2>1, <2>2, CardFacts DEF Inv, RefExact
<1> QED BY <1>1, <1>2

(* The invariant holds when the module has just been loaded. *)
LEMMA InitInv == Init => Inv
<1> SUFFICES ASSUME Init PROVE Inv
  OBVIOUS
<1> USE DEF Init
<1>1. TypeOK
  BY DEF TypeOK, CtxRec, FileRec, ThreadRec, Pc, UnusedCtx, NoFile, Idle
<1>2. Locals /\ FilesApart /\ FilesOK /\ CtxOK
  BY DEF Locals, LocalsOK, FilesApart, FilesOK, CtxOK, UnusedCtx, Idle, Opening, Closing,
         Releasing
<1>3. CountedIsFound /\ ReleasedOnce /\ TableExact
  BY DEF CountedIsFound, ReleasedOnce, TableExact, UnusedCtx, Idle, Releasing
<1>4. RefExact
  <2>1. ASSUME NEW c \in Ctx PROVE FilesOf(c) = {} /\ Holders(c) = {}
    BY DEF FilesOf, Holders, NoFile, Idle
  <2>2. ASSUME NEW c \in Ctx
        PROVE  Cardinality(FilesOf(c)) = 0 /\ Cardinality(Holders(c)) = 0
    BY <2>1, FS_EmptySet, Zenon
  <2> QED BY <2>2 DEF RefExact, UnusedCtx
<1>5. PidRefExact
  <2>1. ASSUME NEW p \in Proc PROVE Owned(p) = {}
    BY DEF Owned, UnusedCtx
  <2>2. ASSUME NEW p \in Proc PROVE Cardinality(Owned(p)) = 0
    BY <2>1, FS_EmptySet, Zenon
  <2> QED BY <2>2 DEF PidRefExact
<1> QED BY <1>1, <1>2, <1>3, <1>4, <1>5 DEF Inv

----------------------------------------------------------------------------
(* Frames. *)

(* A step that moves no reference keeps the counts of contexts exact. *)
LEMMA SameRefs ==
  ASSUME RefExact,
         \A c \in Ctx : ctx'[c].ref = ctx[c].ref,
         \A f \in File : file'[f].c = file[f].c,
         \A t \in Thread : \/ th'[t] = th[t]
                          \/ /\ th[t].pc \notin {"opened", "put"}
                             /\ th'[t].pc \notin {"opened", "put"}
  PROVE  RefExact'
<1> SUFFICES ASSUME NEW c \in Ctx
             PROVE  ctx'[c].ref = Cardinality(FilesOf(c)') + Cardinality(Holders(c)')
  BY DEF RefExact
<1>1. FilesOf(c)' = FilesOf(c)
  BY DEF FilesOf
<1>2. Holders(c)' = Holders(c)
  BY DEF Holders
<1> QED BY <1>1, <1>2 DEF RefExact

(* A step that neither makes nor frees a context keeps the pid references. *)
LEMMA SamePids ==
  ASSUME PidRefExact,
         \A c \in Ctx : ctx'[c].heap = ctx[c].heap /\ ctx'[c].p = ctx[c].p,
         UNCHANGED <<pidRef, leak>>
  PROVE  PidRefExact'
<1> SUFFICES ASSUME NEW p \in Proc
             PROVE  pidRef[p] = Cardinality(Owned(p)') + leak[p]
  BY DEF PidRefExact
<1>1. Owned(p)' = Owned(p)
  BY DEF Owned
<1> QED BY <1>1 DEF PidRefExact

(* Counting one element more. *)
LEMMA OneMore ==
  ASSUME NEW S, NEW T, NEW x, IsFiniteSet(S), x \notin S, T = S \cup {x}
  PROVE  Cardinality(T) = Cardinality(S) + 1
BY FS_AddElement

(* Counting one element less. *)
LEMMA OneLess ==
  ASSUME NEW S, NEW T, NEW x, IsFiniteSet(S), x \in S, T = S \ {x}
  PROVE  Cardinality(T) = Cardinality(S) - 1
BY FS_RemoveElement

(* A thread's new locals are well typed when its fields are. *)
LEMMA ThreadType ==
  ASSUME TypeOK, NEW t \in Thread, NEW s \in ThreadRec, th' = [th EXCEPT ![t] = s]
  PROVE  th' \in [Thread -> ThreadRec]
BY DEF TypeOK

(* What publishing a new context does: it is the only one of its number    *)
(* in the table, nobody refers to it yet, and the process has one more.    *)
LEMMA PublishFacts ==
  ASSUME Inv, NEW c \in Ctx, NEW p \in Proc, slot[PidOf[p]] = NULL, Publish(c, p),
         leak' = leak
  PROVE  /\ slot' \in [Pid -> Ctx \cup {NULL}]
         /\ ctx' \in [Ctx -> CtxRec]
         /\ pidRef' \in [Proc -> Nat]
         /\ ctx[c] = UnusedCtx
         /\ FilesOf(c) = {} /\ Holders(c) = {}
         /\ CtxOK'
         /\ CountedIsFound'
         /\ PidRefExact'
<1> DEFINE n == PidOf[p]
<1>1. n \in Pid /\ TypeOK /\ ctx[c] = UnusedCtx
  BY DEF Publish, Inv, CtxOK
<1>2. /\ slot' = [slot EXCEPT ![n] = c]
      /\ ctx' = [ctx EXCEPT ![c] = [heap |-> "live", ref |-> 1, n |-> n, p |-> p]]
      /\ pidRef' = [pidRef EXCEPT ![p] = @ + 1]
  BY DEF Publish
<1>3. slot' \in [Pid -> Ctx \cup {NULL}] /\ pidRef' \in [Proc -> Nat]
  BY <1>1, <1>2 DEF TypeOK
<1>4. ctx' \in [Ctx -> CtxRec]
  BY <1>1, <1>2 DEF TypeOK, CtxRec
<1>5. FilesOf(c) = {} /\ Holders(c) = {}
  <2>1. ctx[c].ref = 0 /\ ctx[c].ref = Cardinality(FilesOf(c)) + Cardinality(Holders(c))
    BY <1>1 DEF UnusedCtx, Inv, RefExact
  <2>2. Cardinality(FilesOf(c)) = 0 /\ Cardinality(Holders(c)) = 0
    BY <2>1, CardFacts
  <2> QED BY <2>2, CardFacts, FS_EmptySet
<1>6. CtxOK'
  BY <1>1, <1>2 DEF Inv, TypeOK, CtxRec, CtxOK
<1>7. CountedIsFound'
  BY <1>1, <1>2 DEF Inv, TypeOK, CtxRec, CountedIsFound, CtxOK
<1>8. PidRefExact'
  <2> SUFFICES ASSUME NEW q \in Proc
               PROVE  pidRef'[q] = Cardinality(Owned(q)') + leak[q]
    BY DEF PidRefExact
  <2>1. pidRef[q] = Cardinality(Owned(q)) + leak[q] /\ pidRef[q] \in Nat /\ leak[q] \in Nat
    BY <1>1 DEF Inv, PidRefExact, TypeOK
  <2>2. CASE q = p
    <3>1. Owned(p)' = Owned(p) \cup {c} /\ c \notin Owned(p)
      BY <1>1, <1>2 DEF Owned, TypeOK, CtxRec, UnusedCtx
    <3>2. Cardinality(Owned(p)') = Cardinality(Owned(p)) + 1
      BY <3>1, CardFacts, FS_AddElement
    <3> QED BY <1>1, <1>2, <2>1, <2>2, <3>2, CardFacts DEF TypeOK
  <2>3. CASE q # p
    <3>1. Owned(q)' = Owned(q)
      BY <1>1, <1>2, <2>3 DEF Owned, TypeOK, CtxRec, UnusedCtx
    <3> QED BY <1>1, <1>2, <2>1, <2>3, <3>1 DEF TypeOK
  <2> QED BY <2>2, <2>3
<1> QED BY <1>1, <1>3, <1>4, <1>5, <1>6, <1>7, <1>8

----------------------------------------------------------------------------
(* Opening a file. *)

(* bafs_core_open keeps the invariant. *)
LEMMA CoreOpenInv ==
  ASSUME Inv, NEW t \in Thread, NEW p \in Proc, NEW f \in File, NEW c \in Ctx,
         CoreOpen(t, p, f, c)
  PROVE  Inv'
<1> DEFINE n == PidOf[p]
<1>1. /\ slot[n] = NULL /\ file[f] = NoFile /\ FileFree(f) /\ Publish(c, p) /\ n \in Pid
      /\ file' = [file EXCEPT ![f] = FileOf(c, p)]
      /\ UNCHANGED <<proc, leak, th, fault>>
  BY DEF CoreOpen
<1>2. /\ slot' = [slot EXCEPT ![n] = c]
      /\ ctx' = [ctx EXCEPT ![c] = [heap |-> "live", ref |-> 1, n |-> n, p |-> p]]
  BY <1>1 DEF Publish
<1>3. /\ TypeOK /\ slot' \in [Pid -> Ctx \cup {NULL}] /\ ctx' \in [Ctx -> CtxRec]
      /\ pidRef' \in [Proc -> Nat] /\ ctx[c] = UnusedCtx
      /\ FilesOf(c) = {} /\ Holders(c) = {}
      /\ CtxOK' /\ CountedIsFound' /\ PidRefExact'
  BY <1>1, PublishFacts DEF Inv
<1>4. TypeOK'
  <2>1. file' \in [File -> FileRec]
    BY <1>1 DEF Inv, TypeOK, FileRec, FileOf
  <2> QED BY <1>1, <1>3, <2>1 DEF TypeOK
<1>5. Locals'
  BY <1>1, <1>2, <1>3 DEF Inv, TypeOK, CtxRec, Locals, LocalsOK, Opening, Closing,
                          Releasing, UnusedCtx
<1>6. FilesApart'
  BY <1>1 DEF Inv, TypeOK, FilesApart, FileFree
<1>7. FilesOK'
  <2>1. \A g \in File : file[g].c # c
    BY <1>3 DEF FilesOf
  <2>2. ctx'[c].n = n /\ \A b \in Ctx \ {c} : ctx'[b] = ctx[b]
    BY <1>2, <1>3 DEF TypeOK
  <2>3. file'[f] = FileOf(c, p) /\ \A g \in File \ {f} : file'[g] = file[g]
    BY <1>1, <1>3 DEF TypeOK
  <2> QED BY <2>1, <2>2, <2>3 DEF Inv, FilesOK, FileOf
<1>8. ReleasedOnce'
  BY <1>1, <1>2, <1>3 DEF Inv, TypeOK, CtxRec, ThreadRec, Locals, LocalsOK, ReleasedOnce,
                          Releasing, Closing, UnusedCtx
<1>9. TableExact'
  BY <1>1, <1>2, <1>3 DEF Inv, TypeOK, CtxRec, TableExact, At, UnusedCtx
<1>10. RefExact'
  <2> SUFFICES ASSUME NEW b \in Ctx
               PROVE  ctx'[b].ref = Cardinality(FilesOf(b)') + Cardinality(Holders(b)')
    BY DEF RefExact
  <2>1. Holders(b)' = Holders(b)
    BY <1>1 DEF Holders
  <2>2. CASE b = c
    <3>1. FilesOf(c)' = {f}
      BY <1>1, <1>3 DEF TypeOK, FileRec, FilesOf, FileOf
    <3>2. Cardinality(FilesOf(b)') = 1 /\ Cardinality(Holders(b)') = 0
      BY <1>3, <2>1, <2>2, <3>1, FS_EmptySet, FS_Singleton, Zenon
    <3>3. ctx'[b].ref = 1
      BY <1>2, <1>3, <2>2 DEF TypeOK
    <3> QED BY <3>2, <3>3
  <2>3. CASE b # c
    <3>1. FilesOf(b)' = FilesOf(b)
      BY <1>1, <1>3, <2>3 DEF TypeOK, FileRec, FilesOf, FileOf, NoFile
    <3> QED BY <1>2, <1>3, <2>1, <2>3, <3>1 DEF Inv, RefExact, TypeOK
  <2> QED BY <2>2, <2>3
<1> QED BY <1>3, <1>4, <1>5, <1>6, <1>7, <1>8, <1>9, <1>10 DEF Inv

(* The entry into bafs_get_ctx keeps the invariant. *)
LEMMA DevOpenInv ==
  ASSUME Inv, NEW t \in Thread, NEW p \in Proc, NEW f \in File, DevOpen(t, p, f)
  PROVE  Inv'
<1>1. /\ th[t].pc = "idle" /\ file[f] = NoFile /\ FileFree(f) /\ PidOf[p] \in Pid
      /\ th' = [th EXCEPT ![t] = [op |-> "open", pc |-> "cmpxchg", p |-> p,
                                  n |-> PidOf[p], f |-> f, c |-> NULL]]
      /\ UNCHANGED <<slot, ctx, file, proc, pidRef, leak, fault>>
  BY DEF DevOpen, MayStart, At
<1>2. TypeOK'
  BY <1>1 DEF Inv, TypeOK, ThreadRec, Op, Pc
<1>3. Locals'
  BY <1>1 DEF Inv, TypeOK, Locals, LocalsOK, Opening, Closing, Releasing
<1>4. FilesApart'
  BY <1>1 DEF Inv, TypeOK, FilesApart, FileFree
<1>5. FilesOK' /\ CtxOK' /\ CountedIsFound'
  BY <1>1 DEF Inv, FilesOK, CtxOK, CountedIsFound
<1>6. ReleasedOnce' /\ TableExact'
  BY <1>1 DEF Inv, TypeOK, ReleasedOnce, Releasing, TableExact, At
<1>7. RefExact'
  BY <1>1, SameRefs DEF Inv, TypeOK
<1>8. PidRefExact'
  BY <1>1, SamePids DEF Inv
<1> QED BY <1>2, <1>3, <1>4, <1>5, <1>6, <1>7, <1>8 DEF Inv

(* A context that is new goes into the table. *)
LEMMA GetNewInv ==
  ASSUME Inv, NEW t \in Thread, NEW c \in Ctx, GetNew(t, c)
  PROVE  Inv'
<1> DEFINE n == th[t].n
           p == th[t].p
<1>1. /\ th[t].pc = "cmpxchg" /\ slot[n] = NULL /\ Publish(c, p)
      /\ p \in Proc /\ n = PidOf[p] /\ n \in Pid
      /\ th' = [th EXCEPT ![t].pc = "opened", ![t].c = c]
      /\ UNCHANGED <<file, proc, leak, fault>>
  BY DEF GetNew, Runs, At, Inv, Locals, LocalsOK, Opening
<1>2. /\ slot' = [slot EXCEPT ![n] = c]
      /\ ctx' = [ctx EXCEPT ![c] = [heap |-> "live", ref |-> 1, n |-> n, p |-> p]]
  BY <1>1 DEF Publish
<1>3. /\ TypeOK /\ slot' \in [Pid -> Ctx \cup {NULL}] /\ ctx' \in [Ctx -> CtxRec]
      /\ pidRef' \in [Proc -> Nat] /\ ctx[c] = UnusedCtx
      /\ FilesOf(c) = {} /\ Holders(c) = {}
      /\ CtxOK' /\ CountedIsFound' /\ PidRefExact'
  BY <1>1, PublishFacts DEF Inv
<1>4. TypeOK'
  <2>1. th' \in [Thread -> ThreadRec]
    <3>1. th' = [th EXCEPT ![t] = [th[t] EXCEPT !.pc = "opened", !.c = c]]
      BY <1>1
    <3>2. [th[t] EXCEPT !.pc = "opened", !.c = c] \in ThreadRec
      <4>1. th[t] \in ThreadRec
        BY <1>3 DEF TypeOK
      <4> QED BY <4>1 DEF ThreadRec, Pc
    <3> QED BY <1>3, <3>1, <3>2, ThreadType
  <2> QED BY <1>1, <1>3, <2>1 DEF TypeOK
<1>5. Locals'
  BY <1>1, <1>2, <1>3 DEF Inv, TypeOK, CtxRec, ThreadRec, Locals, LocalsOK, Opening,
                          Closing, Releasing, UnusedCtx
<1>6. FilesApart'
  BY <1>1 DEF Inv, TypeOK, ThreadRec, FilesApart
<1>7. FilesOK'
  <2>1. \A f \in File : file[f].c # c
    BY <1>3 DEF FilesOf
  <2>2. \A b \in Ctx \ {c} : ctx'[b] = ctx[b]
    BY <1>2, <1>3 DEF TypeOK
  <2> QED BY <1>1, <2>1, <2>2 DEF Inv, FilesOK
<1>8. ReleasedOnce'
  <2>1. \A u \in Thread : th[u].pc \in Releasing \/ th'[u].pc \in Releasing => th'[u] = th[u]
    BY <1>1, <1>3 DEF TypeOK, ThreadRec, Releasing
  <2>2. \A u \in Thread : th[u].pc \in Releasing => th[u].c \in Ctx /\ th[u].c # c
    BY <1>3 DEF Inv, Locals, LocalsOK, Closing, UnusedCtx
  <2>3. \A b \in Ctx : b # c => ctx'[b] = ctx[b]
    BY <1>2, <1>3 DEF TypeOK
  <2>4. ctx'[c].ref = 1 /\ slot'[n] = c
    BY <1>1, <1>2, <1>3 DEF TypeOK
  <2>5. \A m \in Pid : m # n => slot'[m] = slot[m]
    BY <1>1, <1>2, <1>3 DEF TypeOK
  <2>6. \A u \in Thread : th[u].pc \in Releasing =>
          /\ th[u].n \in Pid
          /\ th[u].pc = "erase" => th[u].n # n
    BY <1>1, <2>2 DEF Inv, Locals, LocalsOK, Releasing, ReleasedOnce
  <2>7. ASSUME NEW u \in Thread, th'[u].pc \in Releasing
        PROVE  /\ ctx'[th'[u].c].heap = "live" /\ ctx'[th'[u].c].ref = 0
               /\ th'[u].pc = "erase" => slot'[th'[u].n] = th'[u].c
               /\ th'[u].pc = "free" => slot'[th'[u].n] # th'[u].c
               /\ \A v \in Thread : v # u /\ th'[v].pc \in Releasing => th'[v].c # th'[u].c
    <3>1. th'[u] = th[u] /\ th[u].pc \in Releasing
      BY <2>1, <2>7
    <3>2. ctx'[th[u].c] = ctx[th[u].c]
      BY <2>2, <2>3, <3>1
    <3>3. th[u].pc = "erase" => slot'[th[u].n] = slot[th[u].n]
      BY <2>5, <2>6, <3>1
    <3>4. th[u].pc = "free" => slot'[th[u].n] # th[u].c
      BY <2>2, <2>4, <2>5, <2>6, <3>1 DEF Inv, ReleasedOnce
    <3> QED BY <2>1, <3>1, <3>2, <3>3, <3>4 DEF Inv, ReleasedOnce
  <2>8. ASSUME NEW b \in Ctx, ctx'[b].heap = "live", ctx'[b].ref = 0
        PROVE  \E u \in Thread : th'[u].pc \in Releasing /\ th'[u].c = b
    BY <2>1, <2>3, <2>4, <2>8 DEF Inv, ReleasedOnce
  <2> QED BY <2>7, <2>8 DEF ReleasedOnce
<1>9. TableExact'
  <2>1. \A u \in Thread : At(u, "free") => At(u, "free")' /\ th'[u].c = th[u].c
    BY <1>1, <1>3 DEF TypeOK, At
  <2> QED BY <1>1, <1>2, <1>3, <2>1 DEF Inv, TypeOK, CtxRec, TableExact, UnusedCtx
<1>10. RefExact'
  <2> SUFFICES ASSUME NEW b \in Ctx
               PROVE  ctx'[b].ref = Cardinality(FilesOf(b)') + Cardinality(Holders(b)')
    BY DEF RefExact
  <2>1. FilesOf(b)' = FilesOf(b)
    BY <1>1 DEF FilesOf
  <2>2. CASE b = c
    <3>1. Holders(c)' = {t}
      BY <1>1, <1>3 DEF TypeOK, ThreadRec, Holders
    <3>2. Cardinality(Holders(b)') = 1 /\ Cardinality(FilesOf(b)') = 0
      BY <1>3, <2>1, <2>2, <3>1, FS_EmptySet, FS_Singleton, Zenon
    <3>3. ctx'[b].ref = 1
      BY <1>2, <1>3, <2>2 DEF TypeOK
    <3> QED BY <3>2, <3>3
  <2>3. CASE b # c
    <3>1. Holders(b)' = Holders(b)
      BY <1>1, <1>3, <2>3 DEF TypeOK, ThreadRec, Holders
    <3> QED BY <1>2, <1>3, <2>1, <2>3, <3>1 DEF Inv, RefExact, TypeOK
  <2> QED BY <2>2, <2>3
<1> QED BY <1>3, <1>4, <1>5, <1>6, <1>7, <1>8, <1>9, <1>10 DEF Inv

(* A step of a call that changes nothing but its own locals, or ends it,   *)
(* before it has a reference.                                              *)
LEMMA LocalStep ==
  ASSUME Inv, NEW t \in Thread, NEW s \in ThreadRec,
         th' = [th EXCEPT ![t] = s], LocalsOK(s),
         UNCHANGED <<slot, ctx, file, proc, fault>>,
         th[t].pc \in {"cmpxchg"}, s.pc \in {"idle", "get"},
         s.pc # "idle" => s.f = th[t].f
  PROVE  /\ th' \in [Thread -> ThreadRec]
         /\ Locals' /\ FilesApart' /\ FilesOK' /\ CtxOK' /\ CountedIsFound'
         /\ ReleasedOnce' /\ TableExact' /\ RefExact'
<1>1. th' \in [Thread -> ThreadRec] /\ TypeOK
  BY ThreadType DEF Inv
<1>2. th'[t] = s /\ \A u \in Thread \ {t} : th'[u] = th[u]
  BY <1>1 DEF TypeOK
<1>3. Locals'
  BY <1>2 DEF Inv, Locals, LocalsOK
<1>4. FilesApart'
  <2>1. \A u \in Thread : th[u].pc = "idle" => th[u].f = NULL
    BY DEF Inv, Locals, LocalsOK, Idle
  <2>2. s.pc = "idle" => s.f = NULL
    BY DEF LocalsOK, Idle
  <2>3. \A u \in Thread : th[u].pc # "idle" => th[u].f \in File
    BY DEF Inv, Locals, LocalsOK
  <2> QED BY <1>2, <2>1, <2>2, <2>3 DEF Inv, FilesApart
<1>5. FilesOK' /\ CtxOK' /\ CountedIsFound'
  BY DEF Inv, FilesOK, CtxOK, CountedIsFound
<1>6. ReleasedOnce'
  BY <1>2 DEF Inv, ReleasedOnce, Releasing
<1>7. TableExact'
  BY <1>2 DEF Inv, TableExact, At
<1>8. RefExact'
  BY <1>2, SameRefs DEF Inv
<1> QED BY <1>1, <1>3, <1>4, <1>5, <1>6, <1>7, <1>8

(* bafs_get_ctx finds a context, or fails for want of memory. *)
LEMMA GetInv ==
  ASSUME Inv, NEW t \in Thread, GetFound(t) \/ GetNoMemory(t) \/ GetFails(t)
  PROVE  Inv'
<1>1. /\ TypeOK /\ th[t] \in ThreadRec /\ th[t].pc = "cmpxchg"
      /\ th[t].p \in Proc /\ th[t].n \in Pid /\ th[t].f \in File
      /\ th[t].op = "open" /\ th[t].n = PidOf[th[t].p]
  BY DEF GetFound, GetNoMemory, GetFails, Runs, At, Inv, Locals, LocalsOK, Opening, TypeOK
<1>2. CASE GetFound(t)
  <2> DEFINE c == slot[th[t].n]
             s == [th[t] EXCEPT !.pc = "get", !.c = c]
  <2>1. /\ c \in Ctx /\ th' = [th EXCEPT ![t].pc = "get", ![t].c = c]
        /\ UNCHANGED <<slot, ctx, file, proc, pidRef, leak, fault>>
    BY <1>1, <1>2 DEF GetFound, TypeOK
  <2>2. th' = [th EXCEPT ![t] = s] /\ s \in ThreadRec
    BY <1>1, <2>1 DEF ThreadRec, Pc
  <2>3. /\ s.pc = "get" /\ s.c = c /\ s.p = th[t].p /\ s.n = th[t].n /\ s.f = th[t].f
        /\ s.op = th[t].op
    BY <1>1 DEF ThreadRec
  <2>4. ctx[c].heap = "live" /\ ctx[c].n = th[t].n
    BY <1>1, <2>1 DEF Inv, TableExact
  <2>5. LocalsOK(s)
    BY <1>1, <2>1, <2>3, <2>4 DEF LocalsOK, Opening, Closing, Releasing
  <2> HIDE DEF s
  <2>6. th' \in [Thread -> ThreadRec] /\ Locals' /\ FilesApart' /\ FilesOK' /\ CtxOK'
        /\ CountedIsFound' /\ ReleasedOnce' /\ TableExact' /\ RefExact'
    BY <1>1, <2>1, <2>2, <2>3, <2>5, LocalStep
  <2>7. PidRefExact'
    BY <2>1, SamePids DEF Inv
  <2> QED BY <1>1, <2>1, <2>6, <2>7 DEF Inv, TypeOK
<1>3. CASE GetNoMemory(t) \/ GetFails(t)
  <2>1. /\ th' = [th EXCEPT ![t] = Idle] /\ Idle \in ThreadRec /\ LocalsOK(Idle)
        /\ Idle.pc = "idle"
        /\ UNCHANGED <<slot, ctx, file, proc, fault>>
    BY <1>3 DEF GetNoMemory, GetFails, Return, Idle, ThreadRec, Pc, LocalsOK, Opening,
                Closing, Releasing
  <2>2. th' \in [Thread -> ThreadRec] /\ Locals' /\ FilesApart' /\ FilesOK' /\ CtxOK'
        /\ CountedIsFound' /\ ReleasedOnce' /\ TableExact' /\ RefExact'
    BY <1>1, <2>1, LocalStep
  <2>3. /\ pidRef' \in [Proc -> Nat] /\ leak' \in [Proc -> 0 .. MaxLeak]
        /\ PidRefExact'
    <3>1. CASE GetNoMemory(t)
      BY <1>1, <3>1, SamePids DEF GetNoMemory, Inv, TypeOK
    <3>2. CASE GetFails(t)
      <4>1. /\ leak[th[t].p] < MaxLeak
            /\ leak' = [leak EXCEPT ![th[t].p] = @ + 1]
            /\ pidRef' = [pidRef EXCEPT ![th[t].p] = @ + 1]
        BY <3>2 DEF GetFails
      <4>2. pidRef' \in [Proc -> Nat] /\ leak' \in [Proc -> 0 .. MaxLeak]
        BY <1>1, <4>1 DEF TypeOK
      <4>3. ASSUME NEW p \in Proc PROVE pidRef'[p] = Cardinality(Owned(p)') + leak'[p]
        <5>1. Owned(p)' = Owned(p)
          BY <2>1 DEF Owned
        <5>2. pidRef[p] = Cardinality(Owned(p)) + leak[p] /\ Cardinality(Owned(p)) \in Nat
          BY CardFacts DEF Inv, PidRefExact
        <5>3. pidRef'[p] - leak'[p] = pidRef[p] - leak[p]
          BY <1>1, <4>1 DEF TypeOK
        <5>4. pidRef[p] \in Nat /\ leak[p] \in Nat /\ pidRef'[p] \in Nat /\ leak'[p] \in Nat
          BY <1>1, <4>2 DEF TypeOK
        <5> QED BY <5>1, <5>2, <5>3, <5>4
      <4> QED BY <4>2, <4>3 DEF PidRefExact
    <3> QED BY <1>3, <3>1, <3>2
  <2> QED BY <1>1, <2>1, <2>2, <2>3 DEF Inv, TypeOK
<1> QED BY <1>2, <1>3

(* A call takes the reference on the context it has found. *)
LEMMA GetRefInv ==
  ASSUME Inv, NEW t \in Thread, GetRef(t)
  PROVE  Inv'
<1> DEFINE c == th[t].c
<1>1. /\ TypeOK /\ c \in Ctx /\ ctx[c].heap = "live" /\ ctx[c].ref > 0
      /\ th[t].pc = "get" /\ LocalsOK(th[t])
  BY DEF GetRef, Runs, At, UseAfterFree, DeadRef, Inv, Locals, LocalsOK, Closing, TypeOK,
         CtxRec
<1>2. /\ ctx' = [ctx EXCEPT ![c].ref = @ + 1]
      /\ th' = [th EXCEPT ![t].pc = "opened"]
      /\ UNCHANGED <<slot, file, proc, pidRef, leak, fault>>
  BY DEF GetRef, Goto
<1>3. TypeOK'
  <2>1. ctx' \in [Ctx -> CtxRec]
    BY <1>1, <1>2 DEF TypeOK, CtxRec
  <2>2. th' \in [Thread -> ThreadRec]
    BY <1>1, <1>2 DEF TypeOK, ThreadRec, Pc
  <2> QED BY <1>1, <1>2, <2>1, <2>2 DEF TypeOK
<1>4. Locals'
  BY <1>1, <1>2 DEF Inv, TypeOK, CtxRec, ThreadRec, Locals, LocalsOK, Opening, Closing,
                    Releasing
<1>5. FilesApart'
  BY <1>1, <1>2 DEF Inv, TypeOK, CtxRec, ThreadRec, FilesApart
<1>6. FilesOK' /\ CtxOK'
  BY <1>1, <1>2 DEF Inv, TypeOK, CtxRec, FilesOK, CtxOK
<1>7. CountedIsFound' /\ ReleasedOnce' /\ TableExact'
  BY <1>1, <1>2 DEF Inv, TypeOK, CtxRec, ThreadRec, Locals, LocalsOK, CountedIsFound,
                    ReleasedOnce, TableExact, Releasing, Closing, Opening, At
<1>8. RefExact'
  <2> SUFFICES ASSUME NEW b \in Ctx
               PROVE  ctx'[b].ref = Cardinality(FilesOf(b)') + Cardinality(Holders(b)')
    BY DEF RefExact
  <2>1. /\ FilesOf(b)' = FilesOf(b)
        /\ ctx[b].ref = Cardinality(FilesOf(b)) + Cardinality(Holders(b))
    BY <1>2 DEF FilesOf, Inv, RefExact
  <2>2. CASE b = c
    <3>1. Holders(b)' = Holders(b) \cup {t} /\ t \notin Holders(b)
      BY <1>1, <1>2, <2>2 DEF TypeOK, ThreadRec, Holders
    <3>2. Cardinality(Holders(b)') = Cardinality(Holders(b)) + 1
      BY <3>1, CardFacts, OneMore
    <3>3. ctx'[b].ref = ctx[b].ref + 1
      BY <1>1, <1>2, <2>2 DEF TypeOK, CtxRec
    <3> QED BY <2>1, <3>2, <3>3, CardFacts
  <2>3. CASE b # c
    <3>1. Holders(b)' = Holders(b)
      BY <1>1, <1>2, <2>3 DEF TypeOK, ThreadRec, Holders
    <3>2. ctx'[b].ref = ctx[b].ref
      BY <1>1, <1>2, <2>3 DEF TypeOK, CtxRec
    <3> QED BY <2>1, <3>1, <3>2
  <2> QED BY <2>2, <2>3
<1>9. PidRefExact'
  BY <1>1, <1>2, SamePids DEF Inv, TypeOK, CtxRec
<1> QED BY <1>3, <1>4, <1>5, <1>6, <1>7, <1>8, <1>9 DEF Inv

(* The open returns: the reference of the call is now the file's. *)
LEMMA OpenedInv ==
  ASSUME Inv, NEW t \in Thread, Opened(t)
  PROVE  Inv'
<1> DEFINE c == th[t].c
           f == th[t].f
           p == th[t].p
<1>1. /\ TypeOK /\ th[t].pc = "opened" /\ c \in Ctx /\ f \in File /\ p \in Proc
      /\ ctx[c].n = PidOf[p] /\ file[f] = NoFile
      /\ \A u \in Thread : u # t => th[u].f # f
  BY DEF Opened, Runs, At, Inv, Locals, LocalsOK, Opening, FilesApart
<1>2. /\ file' = [file EXCEPT ![f] = FileOf(c, p)]
      /\ th' = [th EXCEPT ![t] = Idle]
      /\ UNCHANGED <<slot, ctx, proc, pidRef, leak, fault>>
  BY DEF Opened, Return
<1>3. TypeOK'
  <2>1. file' \in [File -> FileRec]
    BY <1>1, <1>2 DEF TypeOK, FileRec, FileOf
  <2>2. th' \in [Thread -> ThreadRec]
    BY <1>1, <1>2 DEF TypeOK, ThreadRec, Pc, Idle
  <2> QED BY <1>1, <1>2, <2>1, <2>2 DEF TypeOK
<1>4. Locals'
  BY <1>1, <1>2 DEF Inv, TypeOK, Locals, LocalsOK, Opening, Closing, Releasing, Idle
<1>5. FilesApart'
  <2>1. th'[t] = Idle /\ \A u \in Thread \ {t} : th'[u] = th[u]
    BY <1>1, <1>2 DEF TypeOK
  <2>2. \A g \in File \ {f} : file'[g] = file[g]
    BY <1>1, <1>2 DEF TypeOK
  <2> QED BY <1>1, <2>1, <2>2 DEF Inv, FilesApart, Idle, Locals, LocalsOK
<1>6. FilesOK' /\ CtxOK' /\ CountedIsFound'
  BY <1>1, <1>2 DEF Inv, TypeOK, FilesOK, CtxOK, CountedIsFound, FileOf
<1>7. ReleasedOnce' /\ TableExact'
  BY <1>1, <1>2 DEF Inv, TypeOK, ReleasedOnce, TableExact, Releasing, At, Idle
<1>8. RefExact'
  <2> SUFFICES ASSUME NEW b \in Ctx
               PROVE  ctx'[b].ref = Cardinality(FilesOf(b)') + Cardinality(Holders(b)')
    BY DEF RefExact
  <2>1. /\ ctx'[b].ref = ctx[b].ref
        /\ ctx[b].ref = Cardinality(FilesOf(b)) + Cardinality(Holders(b))
    BY <1>2 DEF Inv, RefExact
  <2>0. /\ file'[f].c = c /\ \A g \in File \ {f} : file'[g] = file[g]
        /\ th'[t] = Idle /\ \A u \in Thread \ {t} : th'[u] = th[u]
    BY <1>1, <1>2 DEF TypeOK, FileOf
  <2>2. CASE b = c
    <3>1. FilesOf(b)' = FilesOf(b) \cup {f} /\ f \notin FilesOf(b)
      BY <1>1, <2>0, <2>2 DEF FilesOf, NoFile
    <3>2. Holders(b)' = Holders(b) \ {t} /\ t \in Holders(b)
      BY <1>1, <2>0, <2>2 DEF Holders, Idle
    <3>3. Cardinality(FilesOf(b)') = Cardinality(FilesOf(b)) + 1
      BY <3>1, CardFacts, OneMore
    <3>4. Cardinality(Holders(b)') = Cardinality(Holders(b)) - 1
      BY <3>2, CardFacts, OneLess
    <3> QED BY <2>1, <3>3, <3>4, CardFacts
  <2>3. CASE b # c
    <3>1. FilesOf(b)' = FilesOf(b)
      BY <1>1, <1>2, <2>3 DEF TypeOK, FilesOf, FileOf, NoFile
    <3>2. Holders(b)' = Holders(b)
      BY <1>1, <1>2, <2>3 DEF TypeOK, Holders, Idle
    <3> QED BY <2>1, <3>1, <3>2
  <2> QED BY <2>2, <2>3
<1>9. PidRefExact'
  BY <1>2, SamePids DEF Inv
<1> QED BY <1>3, <1>4, <1>5, <1>6, <1>7, <1>8, <1>9 DEF Inv
----------------------------------------------------------------------------
(* Closing a file. *)

(* The release of a file moves its reference to the call. *)
LEMMA ReleaseInv ==
  ASSUME Inv, NEW t \in Thread, NEW p \in Proc, NEW f \in File, Release(t, p, f)
  PROVE  Inv'
<1> DEFINE c == file[f].c
           n == ctx[c].n
           s == [op |-> "close", pc |-> "put", p |-> p, n |-> n, f |-> f, c |-> c]
<1>1. /\ TypeOK /\ th[t].pc = "idle" /\ th[t] = Idle
      /\ file' = [file EXCEPT ![f] = NoFile]
      /\ th' = [th EXCEPT ![t] = s]
      /\ UNCHANGED <<slot, ctx, proc, pidRef, leak, fault>>
  BY DEF Release, MayStart, At, Inv, Locals, LocalsOK
<1>2. /\ file[f] # NoFile /\ c \in Ctx /\ n \in Pid /\ ctx[c].heap = "live"
  <2>1. file[f] # NoFile
    BY DEF Release, NoFile
  <2>2. c \in Ctx /\ n \in Pid
    BY <2>1 DEF Inv, FilesOK
  <2> QED BY <2>1, <2>2, HeldIsCounted DEF Inv, CountedIsFound
<1>3. s \in ThreadRec /\ LocalsOK(s) /\ s.pc = "put" /\ s.f = f /\ s.c = c
  BY <1>2 DEF ThreadRec, Op, Pc, LocalsOK, Opening, Closing, Releasing
<1> HIDE DEF s
<1>4. /\ th'[t] = s /\ \A u \in Thread \ {t} : th'[u] = th[u]
      /\ file'[f] = NoFile /\ \A g \in File \ {f} : file'[g] = file[g]
  BY <1>1 DEF TypeOK
<1>5. TypeOK'
  <2>1. th' \in [Thread -> ThreadRec]
    BY <1>1, <1>3, ThreadType
  <2>2. file' \in [File -> FileRec]
    BY <1>1 DEF TypeOK, FileRec, NoFile
  <2> QED BY <1>1, <2>1, <2>2 DEF TypeOK
<1>6. Locals'
  BY <1>1, <1>3, <1>4 DEF Inv, Locals, LocalsOK
<1>7. FilesApart'
  <2>1. \A u \in Thread : th[u].f # f
    BY <1>2 DEF Inv, FilesApart, Locals, LocalsOK, Idle
  <2> QED BY <1>1, <1>3, <1>4, <2>1 DEF Inv, FilesApart, Locals, LocalsOK
<1>8. FilesOK' /\ CtxOK' /\ CountedIsFound'
  BY <1>1, <1>4 DEF Inv, FilesOK, CtxOK, CountedIsFound
<1>9. ReleasedOnce'
  BY <1>1, <1>3, <1>4 DEF Inv, ReleasedOnce, Releasing
<1>10. TableExact'
  BY <1>1, <1>3, <1>4 DEF Inv, TableExact, At
<1>11. RefExact'
  <2> SUFFICES ASSUME NEW b \in Ctx
               PROVE  ctx'[b].ref = Cardinality(FilesOf(b)') + Cardinality(Holders(b)')
    BY DEF RefExact
  <2>1. /\ ctx'[b].ref = ctx[b].ref
        /\ ctx[b].ref = Cardinality(FilesOf(b)) + Cardinality(Holders(b))
    BY <1>1 DEF Inv, RefExact
  <2>2. CASE b = c
    <3>1. FilesOf(b)' = FilesOf(b) \ {f} /\ f \in FilesOf(b)
      BY <1>2, <1>4, <2>2 DEF FilesOf, NoFile
    <3>2. Holders(b)' = Holders(b) \cup {t} /\ t \notin Holders(b)
      BY <1>1, <1>3, <1>4, <2>2 DEF Holders
    <3>3. Cardinality(FilesOf(b)') = Cardinality(FilesOf(b)) - 1
      BY <3>1, CardFacts, OneLess
    <3>4. Cardinality(Holders(b)') = Cardinality(Holders(b)) + 1
      BY <3>2, CardFacts, OneMore
    <3> QED BY <2>1, <3>3, <3>4, CardFacts
  <2>3. CASE b # c
    <3>1. FilesOf(b)' = FilesOf(b)
      BY <1>2, <1>4, <2>3 DEF FilesOf, NoFile
    <3>2. Holders(b)' = Holders(b)
      BY <1>1, <1>3, <1>4, <2>3 DEF Holders
    <3> QED BY <2>1, <3>1, <3>2
  <2> QED BY <2>2, <2>3
<1>12. PidRefExact'
  BY <1>1, SamePids DEF Inv
<1> QED BY <1>5, <1>6, <1>7, <1>8, <1>9, <1>10, <1>11, <1>12 DEF Inv

(* bafs_put_ctx: the call that puts the last reference, and no other,      *)
(* becomes the one that releases the context.                              *)
LEMMA PutCtxInv ==
  ASSUME Inv, NEW t \in Thread, PutCtx(t)
  PROVE  Inv'
<1> DEFINE c == th[t].c
           n == th[t].n
           s == IF ctx[c].ref = 1 THEN [th[t] EXCEPT !.pc = "erase"] ELSE Idle
<1>1. /\ TypeOK /\ th[t] \in ThreadRec /\ th[t].pc = "put" /\ LocalsOK(th[t])
      /\ c \in Ctx /\ n \in Pid /\ ctx[c].n = n
      /\ th[t].f \in File /\ file[th[t].f] = NoFile
  BY DEF PutCtx, Runs, At, Inv, Locals, LocalsOK, Closing, TypeOK, FilesApart
<1>2. /\ ctx[c].ref > 0 /\ ctx[c].ref \in Nat /\ ctx[c].heap = "live" /\ slot[n] = c
  BY <1>1, HeldIsCounted DEF Inv, CountedIsFound, TypeOK, CtxRec
<1>3. /\ ctx' = [ctx EXCEPT ![c].ref = @ - 1]
      /\ th' = [th EXCEPT ![t] = s]
      /\ UNCHANGED <<slot, file, proc, pidRef, leak, fault>>
  BY DEF PutCtx, Goto, Return
<1>4. s \in ThreadRec /\ s.pc = (IF ctx[c].ref = 1 THEN "erase" ELSE "idle")
  BY <1>1 DEF ThreadRec, Pc, Idle
<1>5. s.pc = "erase" => s.c = c /\ s.n = n /\ s.f = th[t].f /\ s.p = th[t].p /\ s.op = th[t].op
  BY <1>1, <1>4 DEF ThreadRec
<1>6. s.pc = "idle" => s = Idle
  BY <1>4
<1> HIDE DEF s
<1>7. /\ th'[t] = s /\ \A u \in Thread \ {t} : th'[u] = th[u]
  BY <1>1, <1>3 DEF TypeOK
<1>8. /\ ctx'[c].ref = ctx[c].ref - 1
      /\ \A b \in Ctx : /\ ctx'[b].heap = ctx[b].heap /\ ctx'[b].n = ctx[b].n
                        /\ ctx'[b].p = ctx[b].p
                        /\ b # c => ctx'[b] = ctx[b]
  BY <1>1, <1>3 DEF TypeOK, CtxRec
<1>9. TypeOK'
  <2>1. th' \in [Thread -> ThreadRec]
    BY <1>1, <1>3, <1>4, ThreadType
  <2>2. ctx' \in [Ctx -> CtxRec]
    BY <1>1, <1>2, <1>3 DEF TypeOK, CtxRec
  <2> QED BY <1>1, <1>3, <2>1, <2>2 DEF TypeOK
<1>10. Locals'
  <2>1. LocalsOK(th[t])'
    BY <1>1, <1>2, <1>4, <1>5, <1>6, <1>7, <1>8 DEF LocalsOK, Opening, Closing, Releasing
  <2>2. ASSUME NEW u \in Thread, u # t PROVE LocalsOK(th[u])'
    BY <1>7, <1>8, <2>2 DEF Inv, Locals, LocalsOK
  <2> QED BY <2>1, <2>2 DEF Locals
<1>11. FilesApart'
  <2>1. \A u \in Thread : th[u].pc = "idle" => th[u].f = NULL
    BY DEF Inv, Locals, LocalsOK, Idle
  <2>2. s.pc = "idle" => s.f = NULL
    BY <1>6 DEF Idle
  <2>3. \A u \in Thread : th[u].pc # "idle" => th[u].f \in File
    BY DEF Inv, Locals, LocalsOK
  <2> QED BY <1>1, <1>3, <1>4, <1>5, <1>7, <2>1, <2>2, <2>3 DEF Inv, FilesApart
<1>12. FilesOK'
  BY <1>3, <1>8 DEF Inv, FilesOK
<1>13. CtxOK'
  <2>1. \A b \in Ctx : ctx'[b].heap = "unused" => b # c
    BY <1>2, <1>8
  <2> QED BY <1>8, <2>1 DEF Inv, CtxOK
<1>14. CountedIsFound'
  BY <1>1, <1>2, <1>3, <1>8 DEF Inv, CountedIsFound
<1>15. ReleasedOnce'
  <2>1. \A u \in Thread : th[u].pc \in Releasing => u # t /\ th[u].c # c
    BY <1>1, <1>2 DEF Inv, ReleasedOnce, Releasing
  <2>2. \A u \in Thread : th[u].pc \in Releasing => th[u].c \in Ctx
    BY DEF Inv, Locals, LocalsOK, Closing
  <2>3. ASSUME NEW u \in Thread, th'[u].pc \in Releasing
        PROVE  /\ ctx'[th'[u].c].heap = "live" /\ ctx'[th'[u].c].ref = 0
               /\ th'[u].pc = "erase" => slot'[th'[u].n] = th'[u].c
               /\ th'[u].pc = "free" => slot'[th'[u].n] # th'[u].c
               /\ \A v \in Thread : v # u /\ th'[v].pc \in Releasing => th'[v].c # th'[u].c
    <3>1. CASE u = t
      <4>1. th'[u] = s /\ s.pc = "erase" /\ ctx[c].ref = 1
        BY <1>4, <1>7, <2>3, <3>1 DEF Releasing
      <4> QED BY <1>2, <1>3, <1>5, <1>7, <1>8, <2>1, <3>1, <4>1
    <3>2. CASE u # t
      <4>1. th'[u] = th[u] /\ th[u].pc \in Releasing
        BY <1>7, <2>3, <3>2
      <4>2. \A v \in Thread : v # u /\ th'[v].pc \in Releasing => th'[v].c # th[u].c
        BY <1>4, <1>5, <1>7, <2>1, <3>2, <4>1 DEF Inv, ReleasedOnce, Releasing
      <4> QED BY <1>3, <1>8, <2>1, <2>2, <4>1, <4>2 DEF Inv, ReleasedOnce
    <3> QED BY <3>1, <3>2
  <2>4. ASSUME NEW b \in Ctx, ctx'[b].heap = "live", ctx'[b].ref = 0
        PROVE  \E u \in Thread : th'[u].pc \in Releasing /\ th'[u].c = b
    <3>1. CASE b = c
      <4>1. ctx[c].ref = 1
        BY <1>2, <1>8, <2>4, <3>1
      <4> QED BY <1>4, <1>5, <1>7, <3>1, <4>1 DEF Releasing
    <3>2. CASE b # c
      BY <1>7, <1>8, <2>1, <2>4, <3>2 DEF Inv, ReleasedOnce
    <3> QED BY <3>1, <3>2
  <2> QED BY <2>3, <2>4 DEF ReleasedOnce
<1>16. TableExact'
  BY <1>1, <1>3, <1>7, <1>8 DEF Inv, TypeOK, TableExact, At
<1>17. RefExact'
  <2> SUFFICES ASSUME NEW b \in Ctx
               PROVE  ctx'[b].ref = Cardinality(FilesOf(b)') + Cardinality(Holders(b)')
    BY DEF RefExact
  <2>1. /\ FilesOf(b)' = FilesOf(b)
        /\ ctx[b].ref = Cardinality(FilesOf(b)) + Cardinality(Holders(b))
    BY <1>3 DEF FilesOf, Inv, RefExact
  <2>2. CASE b = c
    <3>1. Holders(b)' = Holders(b) \ {t} /\ t \in Holders(b)
      BY <1>1, <1>4, <1>7, <2>2 DEF Holders
    <3>2. Cardinality(Holders(b)') = Cardinality(Holders(b)) - 1
      BY <3>1, CardFacts, OneLess
    <3> QED BY <1>8, <2>1, <2>2, <3>2, CardFacts
  <2>3. CASE b # c
    <3>1. Holders(b)' = Holders(b)
      BY <1>1, <1>4, <1>7, <2>3 DEF Holders
    <3> QED BY <1>8, <2>1, <2>3, <3>1
  <2> QED BY <2>2, <2>3
<1>18. PidRefExact'
  BY <1>3, <1>8, SamePids DEF Inv
<1> QED BY <1>9, <1>10, <1>11, <1>12, <1>13, <1>14, <1>15, <1>16, <1>17, <1>18 DEF Inv

(* The context leaves the table: the entry that goes is its own. *)
LEMMA EraseInv ==
  ASSUME Inv, NEW t \in Thread, Erase(t)
  PROVE  Inv'
<1> DEFINE c == th[t].c
           n == th[t].n
<1>1. /\ TypeOK /\ th[t].pc = "erase" /\ LocalsOK(th[t])
      /\ c \in Ctx /\ n \in Pid /\ ctx[c].n = n
      /\ ctx[c].heap = "live" /\ ctx[c].ref = 0 /\ slot[n] = c
  BY DEF Erase, Runs, At, Inv, Locals, LocalsOK, Closing, Releasing, ReleasedOnce
<1>2. /\ slot' = [slot EXCEPT ![n] = NULL]
      /\ th' = [th EXCEPT ![t].pc = "free"]
      /\ UNCHANGED <<ctx, file, proc, pidRef, leak, fault>>
  BY <1>1 DEF Erase, Goto
<1>3. /\ slot'[n] = NULL /\ \A m \in Pid \ {n} : slot'[m] = slot[m]
      /\ \A u \in Thread \ {t} : th'[u] = th[u]
      /\ th'[t].pc = "free" /\ th'[t].c = c /\ th'[t].n = n /\ th'[t].f = th[t].f
      /\ th'[t].p = th[t].p /\ th'[t].op = th[t].op
  BY <1>1, <1>2 DEF TypeOK, ThreadRec
<1>4. TypeOK'
  <2>1. th' \in [Thread -> ThreadRec]
    <3>1. th[t] \in ThreadRec
      BY <1>1 DEF TypeOK
    <3>2. [th[t] EXCEPT !.pc = "free"] \in ThreadRec
      BY <3>1 DEF ThreadRec, Pc
    <3> QED BY <1>1, <1>2, <3>2, ThreadType
  <2>2. slot' \in [Pid -> Ctx \cup {NULL}]
    BY <1>1, <1>2 DEF TypeOK
  <2> QED BY <1>1, <1>2, <2>1, <2>2 DEF TypeOK
<1>5. Locals'
  BY <1>1, <1>2, <1>3 DEF Inv, Locals, LocalsOK, Opening, Closing, Releasing
<1>6. FilesApart'
  BY <1>1, <1>2, <1>3 DEF Inv, FilesApart
<1>7. FilesOK' /\ CtxOK'
  BY <1>2 DEF Inv, FilesOK, CtxOK
<1>8. CountedIsFound'
  <2> SUFFICES ASSUME NEW b \in Ctx, ctx[b].ref > 0
               PROVE  ctx[b].heap = "live" /\ slot'[ctx[b].n] = b
    BY <1>2 DEF CountedIsFound
  <2>1. ctx[b].heap = "live" /\ slot[ctx[b].n] = b /\ b # c /\ ctx[b].n \in Pid
    BY <1>1 DEF Inv, CountedIsFound, CtxOK
  <2> QED BY <1>1, <1>3, <2>1
<1>9. ReleasedOnce'
  <2>1. \A u \in Thread : th'[u].pc \in Releasing <=> th[u].pc \in Releasing
    BY <1>1, <1>3 DEF Releasing
  <2>2. \A u \in Thread : th'[u].c = th[u].c /\ th'[u].n = th[u].n
    BY <1>3
  <2>3. \A u \in Thread : th[u].pc \in Releasing => th[u].n \in Pid /\ th[u].c \in Ctx
    BY DEF Inv, Locals, LocalsOK, Releasing, Closing
  <2>4. \A u \in Thread \ {t} : th[u].pc \in Releasing => th[u].c # c
    BY <1>1 DEF Inv, ReleasedOnce, Releasing
  <2>5. \A u \in Thread : th'[u].pc = "erase" => slot'[th[u].n] = th[u].c
    BY <1>1, <1>3, <2>3, <2>4 DEF Inv, ReleasedOnce, Releasing
  <2>6. \A u \in Thread : th'[u].pc = "free" => slot'[th[u].n] # th[u].c
    BY <1>1, <1>3, <2>3, <2>4 DEF Inv, ReleasedOnce, Releasing
  <2> QED BY <1>2, <2>1, <2>2, <2>5, <2>6 DEF Inv, ReleasedOnce
<1>10. TableExact'
  <2>1. \A m \in Pid : slot'[m] # NULL => slot'[m] = slot[m]
    BY <1>3
  <2>2. ASSUME NEW b \in Ctx, ctx[b].heap = "live"
        PROVE  \/ slot'[ctx[b].n] = b
               \/ \E u \in Thread : th'[u].c = b /\ th'[u].pc = "free"
    <3>1. ctx[b].n \in Pid
      BY <2>2 DEF Inv, CtxOK
    <3>2. CASE b = c
      BY <1>3, <3>2
    <3>3. CASE b # c /\ slot[ctx[b].n] = b
      BY <1>1, <1>3, <3>1, <3>3
    <3>4. CASE b # c /\ \E u \in Thread : th[u].c = b /\ th[u].pc = "free"
      BY <1>1, <1>3, <3>4
    <3> QED BY <2>2, <3>2, <3>3, <3>4 DEF Inv, TableExact, At
  <2> QED BY <1>2, <2>1, <2>2 DEF Inv, TableExact, At
<1>11. RefExact'
  <2>1. \A u \in Thread : \/ th'[u] = th[u]
                          \/ /\ th[u].pc \notin {"opened", "put"}
                             /\ th'[u].pc \notin {"opened", "put"}
    BY <1>1, <1>3
  <2> QED BY <1>2, <2>1, SameRefs DEF Inv
<1>12. PidRefExact'
  BY <1>2, SamePids DEF Inv
<1> QED BY <1>4, <1>5, <1>6, <1>7, <1>8, <1>9, <1>10, <1>11, <1>12 DEF Inv

(* The context is freed: no entry, file or count of it is left. *)
LEMMA FreeInv ==
  ASSUME Inv, NEW t \in Thread, Free(t)
  PROVE  Inv'
<1> DEFINE c == th[t].c
           n == th[t].n
           p == ctx[c].p
<1>1. /\ TypeOK /\ th[t].pc = "free"
      /\ c \in Ctx /\ n \in Pid /\ ctx[c].n = n /\ p \in Proc
      /\ ctx[c].heap = "live" /\ ctx[c].ref = 0 /\ slot[n] # c
  BY DEF Free, Runs, At, Inv, Locals, LocalsOK, Closing, Releasing, ReleasedOnce, CtxOK
<1>2. /\ ctx' = [ctx EXCEPT ![c].heap = "freed"]
      /\ pidRef' = [pidRef EXCEPT ![p] = @ - 1]
      /\ th' = [th EXCEPT ![t] = Idle]
      /\ UNCHANGED <<slot, file, proc, leak, fault>>
  BY DEF Free, Return
<1>3. /\ th'[t] = Idle /\ \A u \in Thread \ {t} : th'[u] = th[u]
      /\ ctx'[c].heap = "freed" /\ \A b \in Ctx \ {c} : ctx'[b] = ctx[b]
      /\ \A b \in Ctx : /\ ctx'[b].ref = ctx[b].ref /\ ctx'[b].n = ctx[b].n
                        /\ ctx'[b].p = ctx[b].p
      /\ pidRef'[p] = pidRef[p] - 1 /\ \A q \in Proc \ {p} : pidRef'[q] = pidRef[q]
  BY <1>1, <1>2 DEF TypeOK, CtxRec
<1>4. \A b \in Ctx : ctx'[b].heap = "unused" <=> ctx[b].heap = "unused"
  BY <1>1, <1>3
<1>5. PidRefExact' /\ pidRef' \in [Proc -> Nat]
  <2>1. ASSUME NEW q \in Proc
        PROVE  pidRef'[q] = Cardinality(Owned(q)') + leak[q] /\ pidRef'[q] \in Nat
    <3>1. /\ pidRef[q] = Cardinality(Owned(q)) + leak[q]
          /\ pidRef[q] \in Nat /\ leak[q] \in Nat /\ Cardinality(Owned(q)) \in Nat
      BY <1>1, CardFacts DEF Inv, PidRefExact, TypeOK
    <3>2. CASE q = p
      <4>1. Owned(q)' = Owned(q) \ {c} /\ c \in Owned(q)
        BY <1>1, <1>3, <3>2 DEF Owned
      <4>2. Cardinality(Owned(q)') = Cardinality(Owned(q)) - 1
        BY <4>1, CardFacts, OneLess
      <4>3. Cardinality(Owned(q)) # 0
        BY <4>1, CardFacts, FS_EmptySet
      <4> QED BY <1>3, <3>1, <3>2, <4>2, <4>3
    <3>3. CASE q # p
      <4>1. Owned(q)' = Owned(q)
        BY <1>1, <1>3, <3>3 DEF Owned
      <4> QED BY <1>3, <3>1, <3>3, <4>1
    <3> QED BY <3>2, <3>3
  <2>2. PidRefExact'
    BY <1>2, <2>1 DEF PidRefExact
  <2>3. pidRef' \in [Proc -> Nat]
    BY <1>1, <1>2, <2>1 DEF TypeOK
  <2> QED BY <2>2, <2>3
<1>6. TypeOK'
  <2>1. th' \in [Thread -> ThreadRec]
    BY <1>1, <1>2 DEF TypeOK, ThreadRec, Pc, Idle
  <2>2. ctx' \in [Ctx -> CtxRec]
    <3>1. ctx[c] \in CtxRec
      BY <1>1 DEF TypeOK
    <3>2. [ctx[c] EXCEPT !.heap = "freed"] \in CtxRec
      BY <3>1 DEF CtxRec
    <3> QED BY <1>1, <1>2, <3>2 DEF TypeOK
  <2> QED BY <1>1, <1>2, <1>5, <2>1, <2>2 DEF TypeOK
<1>7. Locals'
  BY <1>3, <1>4 DEF Inv, Locals, LocalsOK, Opening, Closing, Releasing, Idle
<1>8. FilesApart'
  BY <1>2, <1>3 DEF Inv, FilesApart, Idle, Locals, LocalsOK
<1>9. FilesOK'
  BY <1>2, <1>3 DEF Inv, FilesOK
<1>10. CtxOK'
  BY <1>1, <1>3, <1>4 DEF Inv, CtxOK
<1>11. CountedIsFound'
  BY <1>1, <1>2, <1>3 DEF Inv, CountedIsFound
<1>12. ReleasedOnce'
  <2>1. \A u \in Thread : th'[u].pc \in Releasing => u # t /\ th'[u] = th[u]
    BY <1>3 DEF Releasing, Idle
  <2>2. \A u \in Thread \ {t} : th[u].pc \in Releasing => th[u].c \in Ctx \ {c}
    BY <1>1 DEF Inv, ReleasedOnce, Releasing, Locals, LocalsOK, Closing
  <2>3. ASSUME NEW b \in Ctx, ctx'[b].heap = "live", ctx'[b].ref = 0
        PROVE  \E u \in Thread : th'[u].pc \in Releasing /\ th'[u].c = b
    BY <1>3, <2>3 DEF Inv, ReleasedOnce
  <2> QED BY <1>2, <1>3, <2>1, <2>2, <2>3 DEF Inv, ReleasedOnce
<1>13. TableExact'
  <2>1. \A m \in Pid : slot[m] # c
    BY <1>1 DEF Inv, TableExact
  <2>2. \A m \in Pid : slot[m] # NULL => slot[m] \in Ctx
    BY <1>1 DEF TypeOK
  <2>3. \A b \in Ctx : ctx'[b].heap = "live" => b # c /\ ctx[b].heap = "live"
    BY <1>3
  <2>4. \A u \in Thread : th[u].c # c => th'[u] = th[u]
    BY <1>3
  <2> QED BY <1>2, <1>3, <2>1, <2>2, <2>3, <2>4 DEF Inv, TableExact, At
<1>14. RefExact'
  <2>1. \A u \in Thread : \/ th'[u] = th[u]
                          \/ /\ th[u].pc \notin {"opened", "put"}
                             /\ th'[u].pc \notin {"opened", "put"}
    BY <1>1, <1>3 DEF Idle
  <2> QED BY <1>2, <1>3, <2>1, SameRefs DEF Inv
<1> QED BY <1>5, <1>6, <1>7, <1>8, <1>9, <1>10, <1>11, <1>12, <1>13, <1>14 DEF Inv

----------------------------------------------------------------------------
(* Processes, and the invariant. *)

(* Steps of processes change nothing but who has a file open. *)
LEMMA ProcessesInv ==
  ASSUME Inv, Processes
  PROVE  Inv'
<1>1. /\ UNCHANGED <<slot, ctx, pidRef, leak, th, fault>>
      /\ proc' \in [Proc -> {"unborn", "alive", "dead"}]
  BY DEF Processes, Start, Exit, Fork, Unshare, Inv, TypeOK
<1> DEFINE Same(f, g) == /\ g \in FileRec /\ g.c = f.c /\ g.by = f.by
                         /\ g.users = {} <=> f.users = {}
<1>2. file' \in [File -> FileRec] /\ \A f \in File : Same(file[f], file'[f])
  <2>1. CASE UNCHANGED file
    BY <2>1 DEF Inv, TypeOK
  <2>2. ASSUME NEW p \in Proc, NEW q \in Proc, Fork(p, q)
        PROVE  file' \in [File -> FileRec] /\ \A f \in File : Same(file[f], file'[f])
    <3>1. \A f \in File : /\ file[f] \in FileRec
                          /\ file'[f] = file[f]
                             \/ /\ p \in file[f].users
                                /\ file'[f] = [file[f] EXCEPT !.users = @ \cup {q}]
      BY <2>2 DEF Fork, Inv, TypeOK
    <3>2. ASSUME NEW f \in File PROVE Same(file[f], file'[f])
      <4>1. \A r \in FileRec : p \in r.users =>
              Same(r, [r EXCEPT !.users = @ \cup {q}])
        BY DEF FileRec
      <4> QED BY <3>1, <4>1
    <3>3. file' \in [File -> FileRec]
      BY <2>2, <3>2 DEF Fork
    <3> QED BY <3>2, <3>3
  <2>3. ASSUME NEW p \in Proc, NEW f \in File, Unshare(p, f)
        PROVE  file' \in [File -> FileRec] /\ \A g \in File : Same(file[g], file'[g])
    <3>1. /\ file' = [file EXCEPT ![f].users = @ \ {p}]
          /\ p \in file[f].users /\ file[f].users # {p} /\ file[f].users \in SUBSET Proc
      BY <2>3 DEF Unshare, Inv, TypeOK, FileRec
    <3>2. file[f].users \ {p} # {}
      BY <3>1
    <3> QED BY <3>1, <3>2 DEF Inv, TypeOK, FileRec
  <2> QED BY <2>1, <2>2, <2>3 DEF Processes, Start, Exit
<1>3. \A f \in File : file'[f] = NoFile <=> file[f] = NoFile
  <2>1. \A r \in FileRec : r = NoFile <=> r.c = NULL /\ r.by = NULL /\ r.users = {}
    BY DEF FileRec, NoFile
  <2>2. \A f \in File : file[f] \in FileRec
    BY DEF Inv, TypeOK
  <2> QED BY <1>2, <2>1, <2>2
<1>4. TypeOK'
  BY <1>1, <1>2 DEF Inv, TypeOK
<1>5. Locals' /\ CtxOK' /\ CountedIsFound' /\ ReleasedOnce' /\ TableExact'
  BY <1>1 DEF Inv, Locals, LocalsOK, CtxOK, CountedIsFound, ReleasedOnce, TableExact, At
<1>6. FilesApart'
  BY <1>1, <1>3 DEF Inv, FilesApart, Locals, LocalsOK
<1>7. FilesOK'
  BY <1>1, <1>2, <1>3 DEF Inv, FilesOK
<1>8. RefExact' /\ PidRefExact'
  BY <1>1, <1>2, SameRefs, SamePids DEF Inv
<1> QED BY <1>4, <1>5, <1>6, <1>7, <1>8 DEF Inv

(* No step changes what the invariant is about but the ones above. *)
LEMMA SameInv ==
  ASSUME Inv, UNCHANGED <<slot, ctx, file, proc, pidRef, leak, th>>,
         fault' \in {"none", "use_after_free", "dead_ref"}
  PROVE  Inv'
<1>1. TypeOK' /\ Locals' /\ FilesApart' /\ FilesOK' /\ CtxOK' /\ CountedIsFound'
  BY DEF Inv, TypeOK, Locals, LocalsOK, FilesApart, FilesOK, CtxOK, CountedIsFound
<1>2. ReleasedOnce' /\ TableExact'
  BY DEF Inv, ReleasedOnce, TableExact, At
<1>3. RefExact' /\ PidRefExact'
  BY SameRefs, SamePids DEF Inv
<1> QED BY <1>1, <1>2, <1>3 DEF Inv

(* Every step keeps the invariant. *)
LEMMA InvNext == Inv /\ [Next]_vars => Inv'
<1> SUFFICES ASSUME Inv, [Next]_vars PROVE Inv'
  OBVIOUS
<1>1. ASSUME NEW t \in Thread, Open(t) PROVE Inv'
  BY <1>1, CoreOpenInv, DevOpenInv DEF Open
<1>2. ASSUME NEW t \in Thread, Close(t) PROVE Inv'
  BY <1>2, ReleaseInv DEF Close
<1>3. ASSUME NEW t \in Thread, Step(t) PROVE Inv'
  BY <1>3, GetNewInv, GetInv, GetRefInv, OpenedInv, PutCtxInv, EraseInv, FreeInv DEF Step
<1>4. ASSUME NEW t \in Thread, Oops(t) PROVE Inv'
  BY <1>4, SameInv DEF Oops
<1>5. CASE Halted \/ UNCHANGED vars
  BY <1>5, SameInv DEF Halted, vars, Inv, TypeOK
<1> QED BY <1>1, <1>2, <1>3, <1>4, <1>5, ProcessesInv DEF Next

(* The inductive invariant holds, whatever calls overlap, whoever inherits *)
(* files and however numbers are used again.                               *)
THEOREM Invariance == Spec => []Inv
BY InitInv, InvNext, PTL DEF Spec

(* Type correctness of the contexts, the table and the calls on them: no   *)
(* count falls below zero.                                                 *)
THEOREM TypeCorrect == Spec => []TypeOK
<1>1. Inv => TypeOK
  BY DEF Inv
<1> QED BY <1>1, Invariance, PTL

(* An entry of bafs_global_ctx_xa is a context that exists, of that        *)
(* number, and every context that exists is found until its release has    *)
(* erased it.                                                              *)
THEOREM TableAlwaysExact == Spec => []TableExact
<1>1. Inv => TableExact
  BY DEF Inv
<1> QED BY <1>1, Invariance, PTL

(* The kref of a context is the number of files that refer to it and of    *)
(* the calls about to give a reference to a file or to put it.             *)
THEOREM CtxCountExact == Spec => []RefExact
<1>1. Inv => RefExact
  BY DEF Inv
<1> QED BY <1>1, Invariance, PTL

(* A struct pid has one reference for every context that exists and one    *)
(* for every open that failed after find_get_pid.                          *)
THEOREM PidCountExact == Spec => []PidRefExact
<1>1. Inv => PidRefExact
  BY DEF Inv
<1> QED BY <1>1, Invariance, PTL

----------------------------------------------------------------------------
(* Under the usage contract nothing goes wrong. *)

(* What a step does to the threads: nothing, or one thread starts a call,  *)
(* goes on with it or returns.                                             *)
Moves(t) ==
  /\ \A u \in Thread \ {t} : th'[u] = th[u]
  /\ \/ th'[t] = Idle
     \/ th[t].pc = "idle" /\ MayStart(t, th'[t].op, th'[t].n)
     \/ th[t].pc # "idle" /\ th'[t].op = th[t].op /\ th'[t].n = th[t].n /\ th'[t].p = th[t].p

(* No step of the specification does anything else to them.                *)
LEMMA ThreadSteps ==
  ASSUME Inv, [Next]_vars
  PROVE  UNCHANGED th \/ \E t \in Thread : Moves(t)
<1>1. th \in [Thread -> ThreadRec]
  BY DEF Inv, TypeOK
<1>2. ASSUME NEW t \in Thread, NEW p \in Proc, NEW f \in File, DevOpen(t, p, f)
      PROVE  Moves(t)
  BY <1>1, <1>2 DEF DevOpen, MayStart, At, Moves
<1>3. ASSUME NEW t \in Thread, NEW p \in Proc, NEW f \in File, Release(t, p, f)
      PROVE  Moves(t)
  BY <1>1, <1>3 DEF Release, MayStart, At, Moves
<1>4. ASSUME NEW t \in Thread, th[t].pc # "idle", NEW pc \in Pc, Goto(t, pc)
      PROVE  Moves(t)
  BY <1>1, <1>4 DEF Goto, ThreadRec, Moves
<1>5. ASSUME NEW t \in Thread, th[t].pc # "idle", NEW pc \in Pc, NEW c \in Ctx,
             th' = [th EXCEPT ![t].pc = pc, ![t].c = c]
      PROVE  Moves(t)
  BY <1>1, <1>5 DEF ThreadRec, Moves
<1>6. ASSUME NEW t \in Thread, Return(t) PROVE Moves(t)
  BY <1>1, <1>6 DEF Return, Moves
<1>7. ASSUME NEW t \in Thread, Step(t) PROVE Moves(t)
  <2>1. ASSUME NEW c \in Ctx, GetNew(t, c) PROVE Moves(t)
    BY <1>5, <2>1 DEF GetNew, Runs, At, Pc
  <2>2. CASE GetFound(t)
    <3>1. slot[th[t].n] \in Ctx
      BY <2>2 DEF GetFound, Runs, At, Inv, TypeOK, Locals, LocalsOK
    <3> QED BY <1>5, <2>2, <3>1 DEF GetFound, Runs, At, Pc
  <2>3. CASE GetNoMemory(t) \/ GetFails(t) \/ Opened(t) \/ Free(t)
    BY <1>6, <2>3 DEF GetNoMemory, GetFails, Opened, Free
  <2>4. CASE GetRef(t) \/ PutCtx(t) \/ Erase(t)
    BY <1>4, <1>6, <2>4 DEF GetRef, PutCtx, Erase, Runs, At, Pc
  <2> QED BY <1>7, <2>1, <2>2, <2>3, <2>4 DEF Step
<1> QED
  BY <1>2, <1>3, <1>7 DEF Next, Open, Close, CoreOpen, Oops, Processes, Start, Exit, Fork,
     Unshare, Halted, vars

(* A call that has found a context keeps it counted, and nothing faults,   *)
(* as long as no process opens a device while it closes one.               *)
LEMMA ContractNext ==
  ASSUME {"open", "close"} \notin Overlap, Inv, Inv', ContractInv, [Next]_vars
  PROVE  ContractInv'
<1>1. PairsMayOverlap'
  <2>1. ASSUME NEW t \in Thread, Moves(t), NEW u \in Thread \ {t},
               th'[t].pc # "idle", th'[u].pc # "idle", th'[t].n = th'[u].n
        PROVE  {th'[t].op, th'[u].op} \in Overlap
    <3>1. th'[u] = th[u] /\ th'[t] # Idle
      BY <2>1 DEF Moves, Idle
    <3>2. CASE th[t].pc = "idle"
      BY <2>1, <3>1, <3>2 DEF Moves, MayStart
    <3>3. CASE th[t].pc # "idle"
      BY <2>1, <3>1, <3>3 DEF Moves, MayStart, At, ContractInv, PairsMayOverlap
    <3> QED BY <3>2, <3>3
  <2>2. \A x, y : {x, y} = {y, x}
    OBVIOUS
  <2>3. CASE UNCHANGED th
    BY <2>3 DEF ContractInv, PairsMayOverlap
  <2>4. ASSUME NEW t \in Thread, Moves(t) PROVE PairsMayOverlap'
    BY <2>1, <2>2, <2>4 DEF Moves, ContractInv, PairsMayOverlap
  <2> QED BY <2>3, <2>4, ThreadSteps
<1>2. \A t, u \in Thread : th[t].pc \in Opening /\ th[u].pc \in Closing =>
        t # u /\ th[t].n # th[u].n
  <2> SUFFICES ASSUME NEW t \in Thread, NEW u \in Thread, th[t].pc \in Opening,
                      th[u].pc \in Closing, th[t].n = th[u].n
               PROVE  FALSE
    BY DEF Opening, Closing, Releasing
  <2>1. th[t].op = "open" /\ th[u].op = "close" /\ t # u
    BY DEF Inv, Locals, LocalsOK
  <2> QED BY <2>1 DEF ContractInv, PairsMayOverlap, Opening, Closing, Releasing
<1>3. \A t \in Thread : th[t].pc \in {"get", "opened"} \cup Closing =>
        th[t].c \in Ctx /\ ctx[th[t].c].n = th[t].n
  BY DEF Inv, Locals, LocalsOK
<1>4. FoundIsCounted'
  <2>1. CASE UNCHANGED <<th, ctx>>
    BY <2>1 DEF ContractInv, FoundIsCounted
  <2>2. ASSUME NEW t \in Thread, NEW c \in Ctx, NEW p \in Proc, Publish(c, p),
               \A u \in Thread : th'[u].pc = "get" => th'[u] = th[u]
        PROVE  FoundIsCounted'
    <3>1. \A u \in Thread : th[u].pc = "get" => th[u].c # c
      BY <2>2 DEF Publish, Inv, Locals, LocalsOK
    <3>2. \A b \in Ctx \ {c} : ctx'[b] = ctx[b]
      BY <2>2 DEF Publish, Inv, TypeOK
    <3> QED BY <1>3, <2>2, <3>1, <3>2 DEF ContractInv, FoundIsCounted
  <2>3. ASSUME NEW t \in Thread, GetFound(t) PROVE FoundIsCounted'
    <3> DEFINE c == slot[th[t].n]
    <3>1. /\ c \in Ctx /\ th[t].n \in Pid /\ th[t].pc = "cmpxchg"
          /\ ctx[c].heap = "live" /\ ctx[c].n = th[t].n
      BY <2>3 DEF GetFound, Runs, At, Inv, TypeOK, Locals, LocalsOK, TableExact
    <3>2. ctx[c].ref # 0
      <4>1. ASSUME NEW u \in Thread, th[u].pc \in Releasing, th[u].c = c PROVE FALSE
        BY <1>2, <1>3, <3>1, <4>1 DEF Opening, Closing
      <4> QED BY <3>1, <4>1 DEF Inv, ReleasedOnce
    <3>3. ctx[c].ref > 0
      BY <3>1, <3>2 DEF Inv, TypeOK, CtxRec
    <3>4. th'[t].c = c /\ \A u \in Thread \ {t} : th'[u] = th[u]
      BY <2>3 DEF GetFound, Inv, TypeOK, ThreadRec
    <3> QED BY <2>3, <3>3, <3>4 DEF GetFound, ContractInv, FoundIsCounted
  <2>4. ASSUME NEW t \in Thread, GetRef(t) PROVE FoundIsCounted'
    <3>1. \A b \in Ctx : ctx[b].ref > 0 => ctx'[b].ref > 0
      BY <2>4 DEF GetRef, Inv, TypeOK, CtxRec
    <3>2. \A u \in Thread : th'[u].pc = "get" => th'[u] = th[u]
      BY <2>4 DEF GetRef, Goto, Inv, TypeOK, ThreadRec
    <3> QED BY <1>3, <3>1, <3>2 DEF ContractInv, FoundIsCounted
  <2>5. ASSUME NEW t \in Thread, PutCtx(t) PROVE FoundIsCounted'
    <3>1. th[t].pc = "put" /\ ctx' = [ctx EXCEPT ![th[t].c].ref = @ - 1]
      BY <2>5 DEF PutCtx, Runs, At
    <3>2. \A u \in Thread : th[u].pc = "get" => th[u].c # th[t].c
      BY <1>2, <1>3, <3>1 DEF Opening, Closing
    <3>3. \A b \in Ctx : b # th[t].c => ctx'[b] = ctx[b]
      BY <3>1 DEF Inv, TypeOK
    <3>4. \A u \in Thread : th'[u].pc = "get" => th'[u] = th[u]
      BY <2>5 DEF PutCtx, Goto, Return, Idle, Inv, TypeOK, ThreadRec
    <3> QED BY <1>3, <3>2, <3>3, <3>4 DEF ContractInv, FoundIsCounted
  <2>6. ASSUME \A b \in Ctx : ctx'[b].ref = ctx[b].ref,
               \A u \in Thread : th'[u].pc = "get" => th'[u] = th[u]
        PROVE  FoundIsCounted'
    BY <1>3, <2>6 DEF ContractInv, FoundIsCounted
  <2>7. ASSUME NEW t \in Thread, Open(t) \/ Close(t) PROVE FoundIsCounted'
    <3>1. ASSUME NEW p \in Proc, NEW f \in File, DevOpen(t, p, f) \/ Release(t, p, f)
          PROVE  FoundIsCounted'
      BY <2>6, <3>1 DEF DevOpen, Release, Inv, TypeOK
    <3>2. ASSUME NEW p \in Proc, NEW f \in File, NEW c \in Ctx, CoreOpen(t, p, f, c)
          PROVE  FoundIsCounted'
      BY <2>2, <3>2 DEF CoreOpen
    <3> QED BY <2>7, <3>1, <3>2 DEF Open, Close
  <2>8. ASSUME NEW t \in Thread, Step(t) PROVE FoundIsCounted'
    <3>1. ASSUME NEW c \in Ctx, GetNew(t, c) PROVE FoundIsCounted'
      <4>1. th[t].p \in Proc
        BY <3>1 DEF GetNew, Runs, At, Inv, Locals, LocalsOK
      <4>2. \A u \in Thread : th'[u].pc = "get" => th'[u] = th[u]
        BY <3>1 DEF GetNew, Inv, TypeOK, ThreadRec
      <4> QED BY <2>2, <3>1, <4>1, <4>2 DEF GetNew
    <3>2. CASE GetNoMemory(t) \/ GetFails(t) \/ Opened(t)
      BY <2>6, <3>2 DEF GetNoMemory, GetFails, Opened, Return, Idle, Inv, TypeOK
    <3>3. CASE Erase(t)
      BY <2>6, <3>3 DEF Erase, Goto, Inv, TypeOK, ThreadRec
    <3>4. CASE Free(t)
      BY <2>6, <3>4 DEF Free, Return, Idle, Inv, TypeOK, CtxRec
    <3> QED BY <2>3, <2>4, <2>5, <2>8, <3>1, <3>2, <3>3, <3>4 DEF Step
  <2> QED BY <2>1, <2>7, <2>8 DEF Next, Oops, Processes, Start, Exit, Fork, Unshare, Halted,
                                 vars
<1>5. NoFault'
  <2>1. ASSUME NEW t \in Thread, Oops(t) PROVE FALSE
    <3>1. th[t].pc \in {"get", "put"} /\ (ctx[th[t].c].heap = "freed" \/ ctx[th[t].c].ref = 0)
      BY <2>1 DEF Oops, UseAfterFree, DeadRef
    <3>2. th[t].c \in Ctx /\ ctx[th[t].c].ref > 0
      BY <1>3, <3>1, HeldIsCounted DEF ContractInv, FoundIsCounted, Closing
    <3> QED BY <3>1, <3>2 DEF Inv, CountedIsFound
  <2>2. UNCHANGED fault
    BY <2>1 DEF Next, Open, CoreOpen, DevOpen, Close, Release, Step, GetNew, GetFound,
       GetNoMemory, GetFails, GetRef, Opened, PutCtx, Erase, Free, Processes, Start, Exit,
       Fork, Unshare, Halted, vars
  <2> QED BY <2>2 DEF ContractInv, NoFault
<1> QED BY <1>1, <1>4, <1>5 DEF ContractInv

(* The usage contract is enough: if no process opens a device while it     *)
(* closes one, no call uses a context that has been freed and none revives *)
(* a count of zero, whatever opens and closes overlap besides.             *)
THEOREM ContractPreventsFaults ==
  ASSUME {"open", "close"} \notin Overlap
  PROVE  Spec => []NoFault
<1>1. Init => ContractInv
  BY DEF Init, Idle, ContractInv, PairsMayOverlap, FoundIsCounted, NoFault
<1>2. Inv /\ Inv' /\ ContractInv /\ [Next]_vars => ContractInv'
  BY ContractNext
<1>3. ContractInv => NoFault
  BY DEF ContractInv
<1> QED BY <1>1, <1>2, <1>3, Invariance, PTL DEF Spec

----------------------------------------------------------------------------
(* Without inherited files a process has a context of its own. *)

(* Somebody who is alive vouches for every context that is counted. *)
LEMMA CountedIsOwned ==
  ASSUME Inv, OwnInv, NEW c \in Ctx, ctx[c].ref > 0
  PROVE  ctx[c].p \in Proc /\ proc[ctx[c].p] = "alive" /\ PidOf[ctx[c].p] = ctx[c].n
<1>1. FilesOf(c) # {} \/ Holders(c) # {}
  <2>1. ctx[c].ref = Cardinality(FilesOf(c)) + Cardinality(Holders(c))
    BY DEF Inv, RefExact
  <2>2. ASSUME FilesOf(c) = {}, Holders(c) = {} PROVE FALSE
    <3>1. Cardinality(FilesOf(c)) = 0 /\ Cardinality(Holders(c)) = 0
      BY <2>2, FS_EmptySet, Zenon
    <3> QED BY <2>1, <3>1
  <2> QED BY <2>2
<1>2. ASSUME NEW f \in File, file[f].c = c PROVE proc[ctx[c].p] = "alive"
  BY <1>2 DEF OwnInv, NoFile
<1>3. ASSUME NEW t \in Thread, th[t].c = c, th[t].pc \in {"opened", "put"}
      PROVE  proc[ctx[c].p] = "alive"
  BY <1>3 DEF OwnInv
<1>4. ctx[c].p \in Proc /\ PidOf[ctx[c].p] = ctx[c].n
  BY DEF Inv, CountedIsFound, CtxOK
<1> QED BY <1>1, <1>2, <1>3, <1>4 DEF FilesOf, Holders

(* Every step keeps the contexts with their processes, whatever calls      *)
(* overlap.                                                                *)
LEMMA OwnNext ==
  ASSUME ~Inherit, Inv, OwnInv, [Next]_vars
  PROVE  OwnInv'
<1>1. /\ \A f \in File : file[f] # NoFile =>
           /\ file[f].c \in Ctx /\ file[f].by \in Proc /\ ctx[file[f].c].heap # "unused"
           /\ ctx[file[f].c].n = PidOf[file[f].by]
      /\ \A t \in Thread : th[t].pc \in {"opened", "put"} =>
           th[t].c \in Ctx /\ ctx[th[t].c].heap # "unused"
      /\ \A t \in Thread : th[t].pc # "idle" => th[t].p \in Proc
  <2>1. \A f \in File : file[f] # NoFile => ctx[file[f].c].heap # "unused"
    BY HeldIsCounted DEF Inv, FilesOK, CountedIsFound
  <2> QED BY <2>1 DEF Inv, FilesOK, Locals, LocalsOK, Closing
<1>2. TypeOK
  BY DEF Inv
<1>3. ASSUME UNCHANGED <<file, ctx, th>>,
             \A p, q \in Proc : /\ proc'[p] = "alive" /\ proc'[q] = "alive"
                                /\ PidOf[p] = PidOf[q] => p = q,
             \A f \in File : file[f] # NoFile => proc'[file[f].by] = "alive",
             \A t \in Thread : th[t].pc # "idle" => proc'[th[t].p] = "alive"
      PROVE  OwnInv'
  BY <1>3 DEF OwnInv
<1>4. ASSUME UNCHANGED proc, \A c \in Ctx : ctx[c].heap # "unused" => ctx'[c].p = ctx[c].p,
             \A f \in File : file'[f] = file[f] \/ file'[f] = NoFile,
             \A t \in Thread : \/ th'[t] = th[t] \/ th'[t] = Idle
                              \/ /\ th'[t].pc \notin {"idle", "opened", "put"}
                                 /\ proc[th'[t].p] = "alive"
      PROVE  OwnInv'
  BY <1>1, <1>4 DEF OwnInv, Idle
<1>5. ASSUME NEW t \in Thread, Open(t) PROVE OwnInv'
  <2>1. ASSUME NEW p \in Proc, NEW f \in File, DevOpen(t, p, f) PROVE OwnInv'
    BY <1>2, <1>4, <2>1 DEF DevOpen, TypeOK
  <2>2. ASSUME NEW p \in Proc, NEW f \in File, NEW c \in Ctx, CoreOpen(t, p, f, c)
        PROVE  OwnInv'
    <3>1. /\ proc[p] = "alive" /\ UNCHANGED <<proc, th>> /\ ctx[c].heap = "unused"
          /\ ctx'[c].p = p /\ \A b \in Ctx \ {c} : ctx'[b] = ctx[b]
          /\ file'[f] = FileOf(c, p) /\ \A g \in File \ {f} : file'[g] = file[g]
      BY <1>2, <2>2 DEF CoreOpen, Publish, TypeOK
    <3>2. file'[f].users = {p} /\ file'[f].by = p /\ file'[f].c = c
      BY <3>1 DEF FileOf
    <3> QED BY <1>1, <3>1, <3>2 DEF OwnInv
  <2> QED BY <1>5, <2>1, <2>2 DEF Open
<1>6. ASSUME NEW t \in Thread, NEW p \in Proc, NEW f \in File, Release(t, p, f) PROVE OwnInv'
  <2>0. file[f].users = {p} /\ file[f] # NoFile
    BY <1>6 DEF Release, NoFile
  <2>1. /\ UNCHANGED <<proc, ctx>>
        /\ th'[t].pc = "put" /\ th'[t].p = p /\ th'[t].c = file[f].c
        /\ \A u \in Thread \ {t} : th'[u] = th[u]
        /\ file'[f] = NoFile /\ \A g \in File \ {f} : file'[g] = file[g]
    BY <1>2, <1>6 DEF Release, TypeOK
  <2>2. file[f].by = p
    BY <2>0 DEF OwnInv
  <2> QED BY <2>0, <2>1, <2>2 DEF OwnInv
<1>7. ASSUME NEW t \in Thread, Step(t) PROVE OwnInv'
  <2>1. ASSUME NEW c \in Ctx, GetNew(t, c) PROVE OwnInv'
    <3>1. /\ th[t].pc = "cmpxchg" /\ UNCHANGED <<proc, file>> /\ ctx[c].heap = "unused"
          /\ ctx'[c].p = th[t].p /\ \A b \in Ctx \ {c} : ctx'[b] = ctx[b]
      BY <1>2, <2>1 DEF GetNew, Runs, At, Publish, TypeOK
    <3>2. /\ th'[t].p = th[t].p /\ th'[t].c = c
          /\ \A u \in Thread \ {t} : th'[u] = th[u]
      BY <1>2, <2>1 DEF GetNew, TypeOK, ThreadRec
    <3> QED BY <1>1, <3>1, <3>2 DEF OwnInv
  <2>2. CASE GetFound(t)
    <3>1. /\ th[t].pc = "cmpxchg" /\ th'[t].pc = "get" /\ th'[t].p = th[t].p
          /\ \A u \in Thread \ {t} : th'[u] = th[u]
          /\ UNCHANGED <<ctx, file, proc>>
      BY <1>2, <2>2 DEF GetFound, Runs, At, TypeOK, ThreadRec
    <3>2. proc[th'[t].p] = "alive"
      BY <3>1 DEF OwnInv
    <3> QED BY <1>4, <3>1, <3>2
  <2>3. CASE GetNoMemory(t) \/ GetFails(t)
    BY <1>2, <1>4, <2>3 DEF GetNoMemory, GetFails, Return, TypeOK
  <2>4. CASE GetRef(t)
    <3> DEFINE c == th[t].c
    <3>1. /\ th[t].pc = "get" /\ ctx[c].ref # 0 /\ UNCHANGED <<proc, file>>
          /\ \A b \in Ctx : ctx'[b].p = ctx[b].p
          /\ th'[t].p = th[t].p /\ th'[t].c = c
          /\ \A u \in Thread \ {t} : th'[u] = th[u]
      BY <1>2, <2>4 DEF GetRef, Runs, At, DeadRef, Goto, TypeOK, CtxRec, ThreadRec
    <3>2. c \in Ctx /\ ctx[c].n = PidOf[th[t].p] /\ th[t].p \in Proc /\ ctx[c].ref > 0
      BY <3>1 DEF Inv, TypeOK, CtxRec, Locals, LocalsOK, Opening
    <3>3. ctx[c].p = th[t].p
      BY <3>1, <3>2, CountedIsOwned DEF OwnInv
    <3> QED BY <1>1, <3>1, <3>2, <3>3 DEF OwnInv
  <2>5. CASE Opened(t)
    <3> DEFINE f == th[t].f
    <3>1. /\ th[t].pc = "opened" /\ f \in File /\ UNCHANGED <<ctx, proc>>
          /\ th'[t] = Idle /\ \A u \in Thread \ {t} : th'[u] = th[u]
          /\ file'[f] = FileOf(th[t].c, th[t].p) /\ \A g \in File \ {f} : file'[g] = file[g]
      BY <1>2, <2>5 DEF Opened, Runs, At, Return, TypeOK, Inv, Locals, LocalsOK
    <3>2. file'[f].users = {th[t].p} /\ file'[f].by = th[t].p /\ file'[f].c = th[t].c
      BY <3>1 DEF FileOf
    <3> QED BY <3>1, <3>2 DEF OwnInv, Idle
  <2>6. CASE PutCtx(t) \/ Erase(t) \/ Free(t)
    <3>1. th[t].pc \in Closing /\ proc[th[t].p] = "alive"
      BY <2>6 DEF PutCtx, Erase, Free, Runs, At, OwnInv, Closing, Releasing
    <3>2. UNCHANGED <<proc, file>> /\ \A c \in Ctx : ctx'[c].p = ctx[c].p
      BY <1>2, <2>6 DEF PutCtx, Erase, Free, TypeOK, CtxRec
    <3>3. \A u \in Thread \ {t} : th'[u] = th[u]
      BY <1>2, <2>6 DEF PutCtx, Erase, Free, Goto, Return, TypeOK
    <3>4. th'[t] = Idle \/ (th'[t].pc \in Releasing /\ th'[t].p = th[t].p)
      <4>0. th \in [Thread -> ThreadRec]
        BY <1>2 DEF TypeOK
      <4>1. ASSUME Return(t) PROVE th'[t] = Idle
        BY <4>0, <4>1 DEF Return
      <4>2. ASSUME NEW pc \in {"erase", "free"}, Goto(t, pc)
            PROVE  th'[t].pc \in Releasing /\ th'[t].p = th[t].p
        BY <4>0, <4>2 DEF Goto, ThreadRec, Releasing
      <4> QED BY <2>6, <4>1, <4>2 DEF PutCtx, Erase, Free
    <3> QED BY <1>4, <3>1, <3>2, <3>3, <3>4 DEF Releasing
  <2> QED BY <1>7, <2>1, <2>2, <2>3, <2>4, <2>5, <2>6 DEF Step
<1>8. CASE Processes
  <2>1. ASSUME NEW p \in Proc, Start(p) PROVE OwnInv'
    BY <1>2, <1>3, <2>1 DEF Start, MayBegin, TypeOK, OwnInv
  <2>2. ASSUME NEW p \in Proc, Exit(p) PROVE OwnInv'
    BY <1>1, <1>2, <1>3, <2>2 DEF Exit, TypeOK, OwnInv, Idle
  <2>3. ASSUME NEW p \in Proc, NEW f \in File, Unshare(p, f) PROVE OwnInv'
    BY <2>3 DEF Unshare, OwnInv, NoFile
  <2>4. ASSUME NEW p \in Proc, NEW q \in Proc, Fork(p, q) PROVE OwnInv'
    BY <2>4 DEF Fork
  <2> QED BY <1>8, <2>1, <2>2, <2>3, <2>4 DEF Processes
<1>9. CASE (\E t \in Thread : Oops(t)) \/ Halted \/ UNCHANGED vars
  BY <1>9 DEF Oops, Halted, vars, OwnInv
<1> QED BY <1>5, <1>6, <1>7, <1>8, <1>9 DEF Next, Close

(* Where no child inherits a file, the context of a file is that of the    *)
(* process that opened it, whatever calls overlap and however soon a       *)
(* number is used again.                                                   *)
THEOREM ContextIsOwn ==
  ASSUME ~Inherit
  PROVE  Spec => []OwnContext
<1>1. Init => OwnInv
  BY DEF Init, OwnInv, Idle
<1>2. Inv /\ OwnInv /\ [Next]_vars => OwnInv'
  BY OwnNext
<1>3. OwnInv => OwnContext
  BY DEF OwnInv, OwnContext
<1> QED BY <1>1, <1>2, <1>3, Invariance, PTL DEF Spec

----------------------------------------------------------------------------
(* BafsCtx implements BafsCtxAbs. *)

(* A step that opens and closes no file and ends no context is not seen. *)
LEMMA NotSeen ==
  ASSUME \A f \in File : /\ file'[f] = NoFile <=> file[f] = NoFile
                         /\ file'[f].c = file[f].c /\ file'[f].by = file[f].by,
         \A c \in Ctx : ctx'[c].heap # "unused" /\ ctx'[c].ref = 0
                        <=> ctx[c].heap # "unused" /\ ctx[c].ref = 0
  PROVE  UNCHANGED Abs!vars
<1>1. Member' = Member
  BY DEF Member
<1>2. Over' = Over
  BY DEF Over
<1> QED BY <1>1, <1>2 DEF Abs!vars

(* A file that is opened joins the files of its number. *)
LEMMA JoinStep ==
  ASSUME Inv, NEW f \in File, NEW c \in Ctx, NEW p \in Proc, file[f] = NoFile,
         file' = [file EXCEPT ![f] = FileOf(c, p)],
         c \notin Over, Over' = Over,
         \A g \in File : file[g] # NoFile =>
           (PidOf[file[g].by] = PidOf[p] <=> file[g].c = c)
  PROVE  Abs!Next
<1> DEFINE n == PidOf[p]
<1>1. n \in Pid /\ Member[f] = NULL
  BY DEF Member
<1>2. ASSUME NEW g \in File, Member[g] # NULL PROVE Member[g].n = n <=> Member[g].c = c
  BY <1>2 DEF Member
<1>3. Member' = [Member EXCEPT ![f] = [c |-> c, n |-> n]]
  BY DEF Inv, TypeOK, Member, FileOf, NoFile
<1>4. Abs!Join(f, n, c)
  BY <1>1, <1>2, <1>3 DEF Abs!Join
<1> QED BY <1>1, <1>4 DEF Abs!Next

(* Every step of BafsCtx is a step of BafsCtxAbs or is not seen. *)
LEMMA StepRefines ==
  ASSUME Inv, [Next]_vars
  PROVE  [Abs!Next]_Abs!vars
<1>1. TypeOK
  BY DEF Inv
<1>2. \A f \in File : file[f] # NoFile =>
        /\ file[f].c \in Ctx /\ file[f].by \in Proc
        /\ ctx[file[f].c].n = PidOf[file[f].by]
        /\ slot[PidOf[file[f].by]] = file[f].c
  BY HeldIsCounted DEF Inv, FilesOK, CountedIsFound
<1>3. ASSUME NEW t \in Thread, NEW p \in Proc, NEW f \in File, NEW c \in Ctx,
             CoreOpen(t, p, f, c)
      PROVE  Abs!Next
  <2>1. /\ slot[PidOf[p]] = NULL /\ file[f] = NoFile /\ ctx[c].heap = "unused"
        /\ file' = [file EXCEPT ![f] = FileOf(c, p)]
        /\ ctx' = [ctx EXCEPT ![c] = [heap |-> "live", ref |-> 1, n |-> PidOf[p], p |-> p]]
    BY <1>3 DEF CoreOpen, Publish
  <2>2. c \notin Over /\ Over' = Over
    BY <1>1, <2>1 DEF Over, TypeOK
  <2>3. \A g \in File : file[g] # NoFile =>
          PidOf[file[g].by] # PidOf[p] /\ file[g].c # c
    <3>1. \A g \in File : file[g] # NoFile => ctx[file[g].c].heap # "unused"
      BY <1>2, HeldIsCounted DEF Inv, CountedIsFound
    <3> QED BY <1>2, <2>1, <3>1
  <2> QED BY <2>1, <2>2, <2>3, JoinStep
<1>4. ASSUME NEW t \in Thread, Opened(t) PROVE Abs!Next
  <2> DEFINE c == th[t].c
             p == th[t].p
             f == th[t].f
  <2>1. /\ c \in Ctx /\ p \in Proc /\ f \in File /\ file[f] = NoFile
        /\ ctx[c].n = PidOf[p] /\ ctx[c].ref > 0 /\ slot[PidOf[p]] = c
        /\ file' = [file EXCEPT ![f] = FileOf(c, p)] /\ ctx' = ctx
    BY <1>4, HeldIsCounted DEF Opened, Runs, At, Inv, Locals, LocalsOK, Opening, FilesApart,
       CountedIsFound
  <2>2. c \notin Over /\ Over' = Over
    BY <2>1 DEF Over
  <2>3. \A g \in File : file[g] # NoFile =>
          (PidOf[file[g].by] = PidOf[p] <=> file[g].c = c)
    BY <1>2, <2>1
  <2> QED BY <2>1, <2>2, <2>3, JoinStep
<1>5. ASSUME NEW t \in Thread, NEW p \in Proc, NEW f \in File, Release(t, p, f)
      PROVE  Abs!Next
  <2>1. file[f] # NoFile /\ file' = [file EXCEPT ![f] = NoFile] /\ ctx' = ctx
    BY <1>5 DEF Release, NoFile
  <2>2. Member' = [Member EXCEPT ![f] = NULL] /\ Member[f] \in [c : Ctx, n : Pid]
    BY <1>1, <1>2, <2>1 DEF Member, TypeOK
  <2>3. Over' = Over
    BY <2>1 DEF Over
  <2> QED BY <2>2, <2>3 DEF Abs!Next, Abs!Leave
<1>6. ASSUME NEW t \in Thread, PutCtx(t) PROVE Abs!Next \/ UNCHANGED Abs!vars
  <2> DEFINE c == th[t].c
  <2>1. /\ c \in Ctx /\ ctx[c].ref \in Nat /\ ctx[c].ref > 0 /\ ctx[c].heap = "live"
        /\ t \in Holders(c)
        /\ ctx' = [ctx EXCEPT ![c].ref = @ - 1] /\ file' = file
    BY <1>1, <1>6, HeldIsCounted DEF PutCtx, Runs, At, Inv, Locals, LocalsOK, Closing,
       CountedIsFound, Holders, TypeOK, CtxRec
  <2>2. /\ ctx'[c].ref = ctx[c].ref - 1 /\ ctx'[c].heap = "live"
        /\ \A b \in Ctx \ {c} : ctx'[b] = ctx[b]
    BY <1>1, <2>1 DEF TypeOK, CtxRec
  <2>3. CASE ctx[c].ref = 1
    <3>1. FilesOf(c) = {}
      <4>1. Cardinality(Holders(c)) # 0
        BY <2>1, CardFacts, FS_EmptySet
      <4>2. ctx[c].ref = Cardinality(FilesOf(c)) + Cardinality(Holders(c))
        BY <2>1 DEF Inv, RefExact
      <4>3. Cardinality(FilesOf(c)) = 0
        BY <2>1, <2>3, <4>1, <4>2, CardFacts
      <4> QED BY <2>1, <4>3, CardFacts, FS_EmptySet
    <3>2. \A f \in File : Member[f] # NULL => Member[f].c # c
      BY <3>1 DEF Member, FilesOf
    <3>3. c \notin Over /\ Over' = Over \cup {c} /\ Member' = Member
      BY <2>1, <2>2, <2>3 DEF Over, Member
    <3> QED BY <2>1, <3>2, <3>3 DEF Abs!Next, Abs!End
  <2>4. CASE ctx[c].ref # 1
    <3>1. ctx'[c].ref # 0
      BY <2>1, <2>2, <2>4
    <3>2. \A b \in Ctx : ctx'[b].heap # "unused" /\ ctx'[b].ref = 0
                         <=> ctx[b].heap # "unused" /\ ctx[b].ref = 0
      BY <2>1, <2>2, <3>1
    <3> QED BY <2>1, <3>2, NotSeen
  <2> QED BY <2>3, <2>4
<1>7. ASSUME NEW t \in Thread, NEW c \in Ctx, GetNew(t, c) PROVE UNCHANGED Abs!vars
  <2>1. /\ file' = file /\ ctx[c].heap = "unused" /\ ctx'[c].ref = 1
        /\ \A b \in Ctx \ {c} : ctx'[b] = ctx[b]
    BY <1>1, <1>7 DEF GetNew, Publish, TypeOK
  <2> QED BY <2>1, NotSeen
<1>8. ASSUME NEW t \in Thread, GetRef(t) PROVE UNCHANGED Abs!vars
  <2>1. /\ file' = file /\ th[t].c \in Ctx /\ ctx[th[t].c].ref # 0 /\ ctx'[th[t].c].ref # 0
        /\ \A b \in Ctx \ {th[t].c} : ctx'[b] = ctx[b]
    BY <1>1, <1>8 DEF GetRef, Runs, At, DeadRef, TypeOK, CtxRec, Inv, Locals, LocalsOK
  <2> QED BY <2>1, NotSeen
<1>9. ASSUME NEW t \in Thread, Free(t) PROVE UNCHANGED Abs!vars
  <2>1. file' = file /\ \A b \in Ctx : ctx'[b].ref = ctx[b].ref
    BY <1>1, <1>9 DEF Free, TypeOK, CtxRec
  <2>2. \A b \in Ctx : ctx'[b].heap = ctx[b].heap \/ (b = th[t].c /\ ctx'[b].heap = "freed")
    <3>1. ctx \in [Ctx -> CtxRec] /\ ctx' = [ctx EXCEPT ![th[t].c].heap = "freed"]
      BY <1>1, <1>9 DEF Free, TypeOK
    <3>2. ASSUME NEW b \in Ctx, b # th[t].c PROVE ctx'[b] = ctx[b]
      BY <3>1, <3>2
    <3>3. ASSUME NEW b \in Ctx, b = th[t].c PROVE ctx'[b].heap = "freed"
      BY <3>1, <3>3 DEF CtxRec
    <3> QED BY <3>2, <3>3
  <2>3. ctx[th[t].c].heap # "unused"
    BY <1>9 DEF Free, Runs, At, Inv, Locals, LocalsOK, Closing, Releasing
  <2> QED BY <2>1, <2>2, <2>3, NotSeen
<1>10. ASSUME UNCHANGED <<file, ctx>> PROVE UNCHANGED Abs!vars
  BY <1>10, NotSeen
<1>11. CASE Processes
  <2>1. /\ ctx' = ctx
        /\ \A f \in File : /\ file[f] \in FileRec /\ file'[f] \in FileRec
                           /\ file'[f].c = file[f].c /\ file'[f].by = file[f].by
    <3>1. file' \in [File -> FileRec]
      BY <1>11, ProcessesInv DEF Inv, TypeOK
    <3>2. ASSUME NEW p \in Proc, NEW q \in Proc, Fork(p, q), NEW f \in File
          PROVE  file'[f].c = file[f].c /\ file'[f].by = file[f].by
      BY <1>1, <3>2 DEF Fork, TypeOK, FileRec
    <3>3. ASSUME NEW p \in Proc, NEW g \in File, Unshare(p, g), NEW f \in File
          PROVE  file'[f].c = file[f].c /\ file'[f].by = file[f].by
      BY <1>1, <3>3 DEF Unshare, TypeOK, FileRec
    <3>4. ctx' = ctx
      BY <1>11 DEF Processes, Start, Exit, Fork, Unshare
    <3> QED BY <1>1, <1>11, <3>1, <3>2, <3>3, <3>4 DEF Processes, Start, Exit, TypeOK
  <2>0. NoFile.c = NULL /\ NULL \notin Ctx
    BY DEF NoFile
  <2>2. \A f \in File : file[f] = NoFile <=> file[f].c = NULL
    BY <2>0 DEF Inv, FilesOK
  <2>3. \A f \in File : file'[f] = NoFile <=> file'[f].c = NULL
    BY <1>11, <2>0, ProcessesInv DEF Inv, FilesOK
  <2> QED BY <2>1, <2>2, <2>3, NotSeen
<1> QED
  BY <1>3, <1>4, <1>5, <1>6, <1>7, <1>8, <1>9, <1>10, <1>11 DEF Next, Open, DevOpen, Close,
     Step, GetFound, GetNoMemory, GetFails, Erase, Oops, Halted, vars

(* When the module has just been loaded no file is open and no context has *)
(* ended.                                                                  *)
LEMMA InitRefines == Init => Abs!Init
BY DEF Init, Abs!Init, Member, Over, NoFile, UnusedCtx

(* The table and the counts implement the promise of BafsCtxAbs: the files *)
(* of a process number share one context, and a context that has ended is  *)
(* never given to a file again.                                            *)
THEOREM Refinement == Spec => ImplementsAbs
<1>1. Inv /\ [Next]_vars => [Abs!Next]_Abs!vars
  BY StepRefines
<1> QED BY <1>1, InitRefines, Invariance, PTL DEF Spec, ImplementsAbs, Abs!Spec

=============================================================================
