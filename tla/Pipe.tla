---------------------------------- MODULE Pipe ----------------------------------
(***************************************************************************)
(* lab2/2-2.c, 2-2_nolock.c and 2-2r.c: two children write their texts     *)
(* into one pipe and the parent reads it once both have ended.  Only 2-2.c *)
(* locks; COUNT pieces of SIZE bytes are 2000 of 1, in 2-2r.c 1 of 35.  A  *)
(* piece of at most PIPE_BUF bytes is written at once, and its write waits *)
(* for room in the pipe.                                                   *)
(***************************************************************************)
EXTENDS Integers, Sequences

CONSTANTS COUNT, SIZE,
          READ,         \* bytes the parent asks for (4000, in 2-2r.c 70)
          CAPACITIES    \* the bytes a pipe may hold

ASSUME PipeAssumption ==
  /\ COUNT \in Nat \ {0} /\ SIZE \in Nat \ {0}
  /\ READ \in Nat /\ CAPACITIES \subseteq Nat

Children == {1, 2}

VARIABLES
  locked,    \* which program: TRUE in 2-2.c
  capacity,  \* the bytes the pipe holds
  pc,        \* each child: "unborn", "start", "write", "sleep", "zombie", "reaped"
  i,         \* each child's loop counter
  pipe,      \* the pieces in the pipe: who wrote it, which of its pieces it is
  lock,      \* the child that holds the record lock on the pipe, 0 if none
  parent,    \* "fork1", "fork2", "wait", "read", "exit"
  InPipe     \* what the parent has read

given == <<locked, capacity>>
vars == <<given, pc, i, pipe, lock, parent, InPipe>>

Init ==
  /\ locked \in BOOLEAN /\ capacity \in CAPACITIES
  /\ pc = [c \in Children |-> "unborn"] /\ i = [c \in Children |-> 0]
  /\ pipe = <<>> /\ lock = 0 /\ parent = "fork1" /\ InPipe = <<>>

-----------------------------------------------------------------------------
(* The parent.  fork is repeated until it succeeds; a failed one changes   *)
(* nothing.  Either wait takes any child that has ended.                   *)

fork(c) ==
  /\ parent = IF c = 1 THEN "fork1" ELSE "fork2"
  /\ pc' = [pc EXCEPT ![c] = "start"]
  /\ parent' = IF c = 1 THEN "fork2" ELSE "wait"
  /\ UNCHANGED <<given, i, pipe, lock, InPipe>>

wait_once(c) ==                        \* mutant: one wait for two children
  /\ parent = "wait" /\ pc[c] = "zombie"
  /\ pc' = [pc EXCEPT ![c] = "reaped"]
  /\ parent' = "read"
  /\ UNCHANGED <<given, i, pipe, lock, InPipe>>

wait(c) ==
  /\ parent = "wait" /\ pc[c] = "zombie"
  /\ pc' = [pc EXCEPT ![c] = "reaped"]
  /\ parent' = IF \A d \in Children \ {c} : pc[d] = "reaped" THEN "read" ELSE "wait"
  /\ UNCHANGED <<given, i, pipe, lock, InPipe>>

(* The parent keeps the writing end open: with nothing to read it waits.   *)
read ==
  /\ parent = "read" /\ pipe # <<>>
  /\ \E n \in 0 .. Len(pipe) :
       /\ n * SIZE <= READ
       /\ n = Len(pipe) \/ (n + 1) * SIZE > READ
       /\ InPipe' = SubSeq(pipe, 1, n)
       /\ pipe' = SubSeq(pipe, n + 1, Len(pipe))
  /\ parent' = "exit"
  /\ UNCHANGED <<given, pc, i, lock>>

(* A child.                                                                *)
lockf_shared(c) ==                     \* mutant: the lock excludes nobody
  /\ pc[c] = "start"
  /\ lock' = IF locked THEN c ELSE lock
  /\ pc' = [pc EXCEPT ![c] = "write"]
  /\ UNCHANGED <<given, i, pipe, parent, InPipe>>

lockf(c) ==
  /\ pc[c] = "start"
  /\ locked => lock = 0
  /\ lock' = IF locked THEN c ELSE lock
  /\ pc' = [pc EXCEPT ![c] = "write"]
  /\ UNCHANGED <<given, i, pipe, parent, InPipe>>

write(c) ==
  /\ pc[c] = "write" /\ i[c] < COUNT
  /\ (Len(pipe) + 1) * SIZE <= capacity
  /\ pipe' = Append(pipe, <<c, i[c] + 1>>)
  /\ i' = [i EXCEPT ![c] = @ + 1]
  /\ UNCHANGED <<given, pc, lock, parent, InPipe>>

sleep(c) ==
  /\ pc[c] = "write" /\ i[c] = COUNT
  /\ pc' = [pc EXCEPT ![c] = "sleep"]
  /\ UNCHANGED <<given, i, pipe, lock, parent, InPipe>>

exit_locked(c) ==                      \* mutant: the lock is never released
  /\ pc[c] = "sleep"
  /\ pc' = [pc EXCEPT ![c] = "zombie"]
  /\ UNCHANGED <<given, i, pipe, lock, parent, InPipe>>

exit(c) ==
  /\ pc[c] = "sleep"
  /\ lock' = IF locked THEN 0 ELSE lock
  /\ pc' = [pc EXCEPT ![c] = "zombie"]
  /\ UNCHANGED <<given, i, pipe, parent, InPipe>>

Child(c) == lockf(c) \/ write(c) \/ sleep(c) \/ exit(c)
Parent == read \/ \E c \in Children : fork(c) \/ wait(c)

Next == Parent \/ \E c \in Children : Child(c)

Spec == Init /\ [][Next]_vars

(* The kernel runs each process that can go on, and fork succeeds in the   *)
(* end.  A lock that is free again is taken by the only other contender.   *)
FairSpec == Spec /\ WF_vars(Parent) /\ \A c \in Children : WF_vars(Child(c))

-----------------------------------------------------------------------------
TypeOK ==
  /\ locked \in BOOLEAN /\ capacity \in CAPACITIES
  /\ pc \in [Children -> {"unborn", "start", "write", "sleep", "zombie", "reaped"}]
  /\ i \in [Children -> 0 .. COUNT]
  /\ pipe \in Seq(Children \X (1 .. COUNT)) /\ InPipe \in Seq(Children \X (1 .. COUNT))
  /\ lock \in {0} \cup Children
  /\ parent \in {"fork1", "fork2", "wait", "read", "exit"}

(* Under the lock the pipe never shows a piece of one child between two of *)
(* the other: each text stays whole, whichever child is first.             *)
Whole(text) == \A j, k, l \in DOMAIN text :
                 j < k /\ k < l /\ text[j][1] = text[l][1] => text[k][1] = text[j][1]
TextsWhole == locked => Whole(pipe) /\ Whole(InPipe)

Total == 2 * COUNT * SIZE

(* What the parent reads, with or without the lock, is every piece of both *)
(* children, those of one child in the order it wrote them: nothing is     *)
(* lost or read too early, as it reads after both have ended (wait, read). *)
InOrder(text) == \A j, k \in DOMAIN text :
                   j < k /\ text[j][1] = text[k][1] => text[j][2] < text[k][2]
Holds(text, c, n) == \E k \in DOMAIN text : text[k] = <<c, n>>
ReadIsComplete ==
  parent = "exit" /\ Total <= READ =>
    /\ InOrder(InPipe)
    /\ \A c \in Children, n \in 1 .. COUNT : Holds(InPipe, c, n)

(* If the pipe takes both texts the parent comes to its end; if not, all   *)
(* three block: the writer for room, the other child for the lock or for   *)
(* room, the parent for their end, before it has read anything.            *)
EndsIfItFits ==
  /\ Total <= capacity => <>(parent = "exit")
  /\ Total > capacity => <>[](parent = "wait" /\ ~ \E c \in Children : pc[c] = "zombie")
=============================================================================
