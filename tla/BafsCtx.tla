------------------------------ MODULE BafsCtx ------------------------------
(***************************************************************************)
(* The contexts of the processes that use the driver (struct bafs_ctx) and *)
(* the global table that finds the context of a process by its number      *)
(* (bafs_global_ctx_xa): bafs_core_open, bafs_get_ctx, bafs_put_ctx,       *)
(* __bafs_core_ctx_release and the release of files, in core.c, ctrl.c and *)
(* group.c.                                                                *)
(*                                                                         *)
(* The table operations of an xarray are atomic and are steps of their     *)
(* own.  Nothing covers the time between finding a context in the table    *)
(* and taking a reference on it, nor the time between the last put and the *)
(* erasure from the table.  A step that would use freed memory or revive a *)
(* count of zero is a fault, after which nothing happens.                  *)
(*                                                                         *)
(* A registration's reference on its context is given back before the last *)
(* file of the process is released (BafsMem, NothingLeft), so only files   *)
(* are counted here.                                                       *)
(***************************************************************************)
EXTENDS Integers, FiniteSets

CONSTANTS
  Thread,   \* threads in the kernel, each at work for one process at a time
  Proc,     \* processes over the whole life of the system
  Pid,      \* process numbers (tgid)
  PidOf,    \* PidOf[p]: the number of p; a number is used again after an exit
  File,     \* open files; bounds the number of opens
  Ctx,      \* struct bafs_ctx objects; bounds the number of contexts made
  MaxLeak,  \* bound on the pid references a failed open leaves behind
  Overlap,  \* {o1, o2} \in Overlap: calls o1 and o2 on one number may overlap
  Inherit,  \* TRUE: a process may leave open files to a child
  NULL

Op == {"open", "close"}

ASSUME ConstantsAssumption ==
  /\ IsFiniteSet(Thread) /\ IsFiniteSet(File) /\ IsFiniteSet(Ctx)
  /\ PidOf \in [Proc -> Pid]
  /\ MaxLeak \in Nat
  /\ Overlap \subseteq SUBSET Op
  /\ Inherit \in BOOLEAN
  /\ NULL \notin Ctx \cup Proc \cup File \cup Pid \cup Thread
  /\ NULL \notin [c : Ctx, n : Pid]

VARIABLES
  slot,    \* bafs_global_ctx_xa
  ctx,     \* the bafs_ctx objects
  file,    \* the context an open file refers to, who opened it, who has it open
  proc,    \* "unborn", "alive" or "dead"
  pidRef,  \* references on the struct pid of a process
  leak,    \* those among them that no call will put any more
  th,      \* program counter and locals of each thread
  fault    \* "none", or the memory error that happened

vars == <<slot, ctx, file, proc, pidRef, leak, th, fault>>

----------------------------------------------------------------------------
(* Objects and control. *)

Idle == [op |-> "none", pc |-> "idle", p |-> NULL, n |-> NULL, f |-> NULL, c |-> NULL]

UnusedCtx == [heap |-> "unused", ref |-> 0, n |-> NULL, p |-> NULL]

NoFile == [c |-> NULL, by |-> NULL, users |-> {}]

Init ==
  /\ slot   = [n \in Pid |-> NULL]
  /\ ctx    = [c \in Ctx |-> UnusedCtx]
  /\ file   = [f \in File |-> NoFile]
  /\ proc   = [p \in Proc |-> "unborn"]
  /\ pidRef = [p \in Proc |-> 0]
  /\ leak   = [p \in Proc |-> 0]
  /\ th     = [t \in Thread |-> Idle]
  /\ fault  = "none"

At(t, pc) == th[t].pc = pc

Goto(t, pc) == th' = [th EXCEPT ![t].pc = pc]

Return(t) == th' = [th EXCEPT ![t] = Idle]

MayStart(t, op, n) ==
  /\ At(t, "idle")
  /\ fault = "none"
  /\ \A u \in Thread \ {t} : th[u].n = n => {op, th[u].op} \in Overlap

(* Steps that dereference the context in th[t].c. *)
UseAfterFree(t) == th[t].pc \in {"get", "put"} /\ ctx[th[t].c].heap = "freed"

(* kref_get or kref_put on a count that is zero. *)
DeadRef(t) == th[t].pc \in {"get", "put"} /\ ctx[th[t].c].ref = 0

Runs(t, pc) ==
  /\ At(t, pc)
  /\ fault = "none"
  /\ ~UseAfterFree(t) /\ ~DeadRef(t)

----------------------------------------------------------------------------
(* Processes: the kernel's.  A number is free again when its process is    *)
(* gone, whoever still has a reference on the struct pid.                  *)

FileFree(f) == \A u \in Thread : th[u].f # f

MayBegin(p) ==
  proc[p] = "unborn" /\ \A q \in Proc : PidOf[q] = PidOf[p] => proc[q] # "alive"

Start(p) ==
  /\ fault = "none"
  /\ MayBegin(p)
  /\ proc' = [proc EXCEPT ![p] = "alive"]
  /\ UNCHANGED <<slot, ctx, file, pidRef, leak, th, fault>>

Fork(p, q) ==
  /\ fault = "none"
  /\ Inherit
  /\ proc[p] = "alive"
  /\ MayBegin(q)
  /\ proc' = [proc EXCEPT ![q] = "alive"]
  /\ file' = [f \in File |-> IF p \in file[f].users
                             THEN [file[f] EXCEPT !.users = @ \cup {q}] ELSE file[f]]
  /\ UNCHANGED <<slot, ctx, pidRef, leak, th, fault>>

(* exit closes the files of the process first. *)
Exit(p) ==
  /\ fault = "none"
  /\ proc[p] = "alive"
  /\ \A f \in File : p \notin file[f].users
  /\ \A t \in Thread : th[t].p # p
  /\ proc' = [proc EXCEPT ![p] = "dead"]
  /\ UNCHANGED <<slot, ctx, file, pidRef, leak, th, fault>>

----------------------------------------------------------------------------
(* A new context, as kzalloc and kref_init leave it, goes into the table   *)
(* with a reference on the struct pid of its process.                      *)
Publish(c, p) ==
  /\ ctx[c].heap = "unused"
  /\ slot' = [slot EXCEPT ![PidOf[p]] = c]
  /\ ctx' = [ctx EXCEPT ![c] = [heap |-> "live", ref |-> 1, n |-> PidOf[p], p |-> p]]
  /\ pidRef' = [pidRef EXCEPT ![p] = @ + 1]

FileOf(c, p) == [c |-> c, by |-> p, users |-> {p}]

(* Mutant: xa_store in the place of xa_insert. *)
CoreOpen_store(t, p, f, c) ==
  /\ MayStart(t, "open", PidOf[p])
  /\ proc[p] = "alive"
  /\ file[f] = NoFile /\ FileFree(f)
  /\ Publish(c, p)
  /\ file' = [file EXCEPT ![f] = FileOf(c, p)]
  /\ UNCHANGED <<proc, leak, th, fault>>

(* bafs_core_open.  xa_insert fails, and the open with it, if the process  *)
(* has a context already or there is no memory: nothing changes then.      *)
CoreOpen(t, p, f, c) ==
  /\ MayStart(t, "open", PidOf[p])
  /\ proc[p] = "alive"
  /\ file[f] = NoFile /\ FileFree(f)
  /\ slot[PidOf[p]] = NULL
  /\ Publish(c, p)
  /\ file' = [file EXCEPT ![f] = FileOf(c, p)]
  /\ UNCHANGED <<proc, leak, th, fault>>

(* bafs_ctrl_open and bafs_group_open call bafs_get_ctx. *)
DevOpen(t, p, f) ==
  /\ MayStart(t, "open", PidOf[p])
  /\ proc[p] = "alive"
  /\ file[f] = NoFile /\ FileFree(f)
  /\ th' = [th EXCEPT ![t] = [op |-> "open", pc |-> "cmpxchg", p |-> p, n |-> PidOf[p],
                              f |-> f, c |-> NULL]]
  /\ UNCHANGED <<slot, ctx, file, proc, pidRef, leak, fault>>

(* xa_cmpxchg found no context: the new one is in the table. *)
GetNew(t, c) ==
  /\ Runs(t, "cmpxchg")
  /\ slot[th[t].n] = NULL
  /\ Publish(c, th[t].p)
  /\ th' = [th EXCEPT ![t].pc = "opened", ![t].c = c]
  /\ UNCHANGED <<file, proc, leak, fault>>

(* Mutant: the reference on the context found is taken before anything can *)
(* happen to it, but nobody asks whether it is still counted.              *)
GetFound_noGet(t) ==
  /\ Runs(t, "cmpxchg")
  /\ slot[th[t].n] # NULL
  /\ th' = [th EXCEPT ![t].pc = "opened", ![t].c = slot[th[t].n]]
  /\ UNCHANGED <<slot, ctx, file, proc, pidRef, leak, fault>>

(* xa_cmpxchg found one: the new one is thrown away. *)
GetFound(t) ==
  /\ Runs(t, "cmpxchg")
  /\ slot[th[t].n] # NULL
  /\ th' = [th EXCEPT ![t].pc = "get", ![t].c = slot[th[t].n]]
  /\ UNCHANGED <<slot, ctx, file, proc, pidRef, leak, fault>>

(* No memory for the new context. *)
GetNoMemory(t) ==
  /\ Runs(t, "cmpxchg")
  /\ Return(t)
  /\ UNCHANGED <<slot, ctx, file, proc, pidRef, leak, fault>>

(* No memory for the table: out_free_mem_xa frees the new context and does *)
(* not put the struct pid.                                                 *)
GetFails(t) ==
  /\ Runs(t, "cmpxchg")
  /\ slot[th[t].n] = NULL
  /\ leak[th[t].p] < MaxLeak
  /\ leak' = [leak EXCEPT ![th[t].p] = @ + 1]
  /\ pidRef' = [pidRef EXCEPT ![th[t].p] = @ + 1]
  /\ Return(t)
  /\ UNCHANGED <<slot, ctx, file, proc, fault>>

GetRef(t) ==
  /\ Runs(t, "get")
  /\ ctx' = [ctx EXCEPT ![th[t].c].ref = @ + 1]
  /\ Goto(t, "opened")
  /\ UNCHANGED <<slot, file, proc, pidRef, leak, fault>>

Opened(t) ==
  /\ Runs(t, "opened")
  /\ file' = [file EXCEPT ![th[t].f] = FileOf(th[t].c, th[t].p)]
  /\ Return(t)
  /\ UNCHANGED <<slot, ctx, proc, pidRef, leak, fault>>

----------------------------------------------------------------------------
(* p closes f, or exits.  The release handler runs when nobody else has    *)
(* the file open: bafs_core_release, bafs_ctrl_file_release,               *)
(* bafs_group_release.                                                     *)

Unshare(p, f) ==
  /\ fault = "none"
  /\ p \in file[f].users
  /\ file[f].users # {p}
  /\ file' = [file EXCEPT ![f].users = @ \ {p}]
  /\ UNCHANGED <<slot, ctx, proc, pidRef, leak, th, fault>>

(* Mutant: a release handler forgets bafs_put_ctx. *)
Release_noPut(t, p, f) ==
  /\ file[f].users = {p}
  /\ MayStart(t, "close", ctx[file[f].c].n)
  /\ file' = [file EXCEPT ![f] = NoFile]
  /\ UNCHANGED <<slot, ctx, proc, pidRef, leak, th, fault>>

Release(t, p, f) ==
  /\ file[f].users = {p}
  /\ MayStart(t, "close", ctx[file[f].c].n)
  /\ file' = [file EXCEPT ![f] = NoFile]
  /\ th' = [th EXCEPT ![t] = [op |-> "close", pc |-> "put", p |-> p,
                              n |-> ctx[file[f].c].n, f |-> f, c |-> file[f].c]]
  /\ UNCHANGED <<slot, ctx, proc, pidRef, leak, fault>>

(* bafs_put_ctx: the last reference runs __bafs_core_ctx_release. *)
PutCtx(t) ==
  /\ Runs(t, "put")
  /\ ctx' = [ctx EXCEPT ![th[t].c].ref = @ - 1]
  /\ IF ctx[th[t].c].ref = 1 THEN Goto(t, "erase") ELSE Return(t)
  /\ UNCHANGED <<slot, file, proc, pidRef, leak, fault>>

(* Mutant: the context stays in the table. *)
Erase_forgotten(t) ==
  /\ Runs(t, "erase")
  /\ Goto(t, "free")
  /\ UNCHANGED <<slot, ctx, file, proc, pidRef, leak, fault>>

(* xa_erase takes out whatever the table has for the number. *)
Erase(t) ==
  /\ Runs(t, "erase")
  /\ slot' = [slot EXCEPT ![ctx[th[t].c].n] = NULL]
  /\ Goto(t, "free")
  /\ UNCHANGED <<ctx, file, proc, pidRef, leak, fault>>

(* Mutant: the struct pid is not put. *)
Free_noPutPid(t) ==
  /\ Runs(t, "free")
  /\ ctx' = [ctx EXCEPT ![th[t].c].heap = "freed"]
  /\ Return(t)
  /\ UNCHANGED <<slot, file, proc, pidRef, leak, fault>>

(* put_pid, xa_destroy and kfree *)
Free(t) ==
  /\ Runs(t, "free")
  /\ pidRef' = [pidRef EXCEPT ![ctx[th[t].c].p] = @ - 1]
  /\ ctx' = [ctx EXCEPT ![th[t].c].heap = "freed"]
  /\ Return(t)
  /\ UNCHANGED <<slot, file, proc, leak, fault>>

----------------------------------------------------------------------------
(* A memory error happens. *)
Oops(t) ==
  /\ fault = "none"
  /\ \/ UseAfterFree(t) /\ fault' = "use_after_free"
     \/ DeadRef(t) /\ fault' = "dead_ref"
  /\ UNCHANGED <<slot, ctx, file, proc, pidRef, leak, th>>

Open(t) == \E p \in Proc, f \in File :
             DevOpen(t, p, f) \/ \E c \in Ctx : CoreOpen(t, p, f, c)

Close(t) == \E p \in Proc, f \in File : Release(t, p, f)

(* The next step of a call in flight. *)
Step(t) ==
  \/ \E c \in Ctx : GetNew(t, c)
  \/ GetFound(t) \/ GetNoMemory(t) \/ GetFails(t) \/ GetRef(t) \/ Opened(t)
  \/ PutCtx(t) \/ Erase(t) \/ Free(t)

Processes ==
  \/ \E p \in Proc : Start(p) \/ Exit(p)
  \/ \E p, q \in Proc : Fork(p, q)
  \/ \E p \in Proc, f \in File : Unshare(p, f)

(* Nobody is in a call, or an error has happened. *)
Halted ==
  /\ fault # "none" \/ \A t \in Thread : th[t] = Idle
  /\ UNCHANGED vars

Next ==
  \/ \E t \in Thread : Open(t) \/ Close(t) \/ Step(t) \/ Oops(t)
  \/ Processes
  \/ Halted

Spec == Init /\ [][Next]_vars

----------------------------------------------------------------------------
(* Properties. *)

Pc == {"idle", "cmpxchg", "get", "opened", "put", "erase", "free"}

CtxRec == [heap : {"unused", "live", "freed"}, ref : Nat, n : Pid \cup {NULL},
           p : Proc \cup {NULL}]

FileRec == [c : Ctx \cup {NULL}, by : Proc \cup {NULL}, users : SUBSET Proc]

ThreadRec == [op : Op \cup {"none"}, pc : Pc, p : Proc \cup {NULL},
              n : Pid \cup {NULL}, f : File \cup {NULL}, c : Ctx \cup {NULL}]

(* Type correctness: no count falls below zero, on a failed open and on    *)
(* the release of a context that another process has inherited either.     *)
TypeOK ==
  /\ slot \in [Pid -> Ctx \cup {NULL}]
  /\ ctx \in [Ctx -> CtxRec]
  /\ file \in [File -> FileRec]
  /\ proc \in [Proc -> {"unborn", "alive", "dead"}]
  /\ pidRef \in [Proc -> Nat]
  /\ leak \in [Proc -> 0 .. MaxLeak]
  /\ th \in [Thread -> ThreadRec]
  /\ fault \in {"none", "use_after_free", "dead_ref"}

(* No open or close uses a context that has been freed, or takes a         *)
(* reference on one whose last reference is gone.                          *)
NoFault == fault = "none"

(* The table and the contexts agree: an entry is a context that exists and *)
(* is of that number, and every context that exists is found by its number *)
(* until its release has erased it.  So a release never erases the entry   *)
(* of another context, and nobody finds a context that has been freed.     *)
TableExact ==
  /\ \A n \in Pid : slot[n] # NULL =>
       ctx[slot[n]].heap = "live" /\ ctx[slot[n]].n = n
  /\ \A c \in Ctx : ctx[c].heap = "live" =>
       \/ slot[ctx[c].n] = c
       \/ \E t \in Thread : th[t].c = c /\ At(t, "free")

(* The files and the calls that have a reference on c. *)
FilesOf(c) == {f \in File : file[f].c = c}

Holders(c) == {t \in Thread : th[t].c = c /\ th[t].pc \in {"opened", "put"}}

(* The count of a context is the number of files that refer to it and of   *)
(* calls that are about to give a reference to a file or to put it.        *)
RefExact ==
  \A c \in Ctx : ctx[c].ref = Cardinality(FilesOf(c)) + Cardinality(Holders(c))

(* A process gets the context of its own: not one that an earlier process  *)
(* of the same number has left behind.                                     *)
OwnContext == \A f \in File : file[f] # NoFile => ctx[file[f].c].p = file[f].by

(* The contexts that exist for p. *)
Owned(p) == {c \in Ctx : ctx[c].heap = "live" /\ ctx[c].p = p}

(* One reference on the struct pid for every context that exists, and the  *)
(* ones that failed opens have lost.                                       *)
PidRefExact ==
  \A p \in Proc : pidRef[p] = Cardinality(Owned(p)) + leak[p]

(* What an observer of the open files sees. *)
Member == [f \in File |-> IF file[f] = NoFile THEN NULL
                          ELSE [c |-> file[f].c, n |-> PidOf[file[f].by]]]

Over == {c \in Ctx : ctx[c].heap # "unused" /\ ctx[c].ref = 0}

Abs == INSTANCE BafsCtxAbs WITH member <- Member, over <- Over

(* The table and the counts implement the promise of BafsCtxAbs: whatever  *)
(* opens and closes overlap and whoever inherits files, up to the first    *)
(* memory error, the files of a number share one context, and a context    *)
(* whose last reference is gone is never given to a file again.            *)
ImplementsAbs == Abs!Spec

=============================================================================
