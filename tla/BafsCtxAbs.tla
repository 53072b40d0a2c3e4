---------------------------- MODULE BafsCtxAbs ----------------------------
(***************************************************************************)
(* What the contexts promise to the files of the driver: the open files of *)
(* one process number share one context, files of different numbers never  *)
(* do, and a context that has ended is not used again.  BafsCtx implements *)
(* this with a reference count and a table (see Abs there).                *)
(***************************************************************************)
CONSTANTS File, Ctx, Pid, NULL

VARIABLES
  member,  \* the context and the process number of an open file, or NULL
  over     \* the contexts that have ended

vars == <<member, over>>

Init ==
  /\ member = [f \in File |-> NULL]
  /\ over = {}

(* A file of number n is opened: it shares the context of the open files   *)
(* of n, or is the first to have c.                                        *)
Join(f, n, c) ==
  /\ member[f] = NULL
  /\ c \notin over
  /\ \A g \in File : member[g] # NULL => (member[g].n = n <=> member[g].c = c)
  /\ member' = [member EXCEPT ![f] = [c |-> c, n |-> n]]
  /\ UNCHANGED over

(* A file is closed. *)
Leave(f) ==
  /\ member[f] # NULL
  /\ member' = [member EXCEPT ![f] = NULL]
  /\ UNCHANGED over

(* A context ends when no open file has it. *)
End(c) ==
  /\ c \notin over
  /\ \A f \in File : member[f] # NULL => member[f].c # c
  /\ over' = over \cup {c}
  /\ UNCHANGED member

Next ==
  \/ \E f \in File, n \in Pid, c \in Ctx : Join(f, n, c)
  \/ \E f \in File : Leave(f)
  \/ \E c \in Ctx : End(c)

Spec == Init /\ [][Next]_vars
=============================================================================
