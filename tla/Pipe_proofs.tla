------------------------------- MODULE Pipe_proofs -------------------------------
(***************************************************************************)
(* For texts of any length the lock keeps them whole, and what the parent  *)
(* reads is complete.  The inductive invariant says which pieces are in    *)
(* the pipe: those of child c are exactly the first i[c], in order, and    *)
(* while c holds the lock they are at the end of the pipe.                 *)
(***************************************************************************)
EXTENDS Pipe, TLAPS

Pieces == Children \X (1 .. COUNT)

Types ==
  /\ locked \in BOOLEAN /\ capacity \in CAPACITIES
  /\ pc \in [Children -> {"unborn", "start", "write", "sleep", "zombie", "reaped"}]
  /\ i \in [Children -> 0 .. COUNT]
  /\ pipe \in Seq(Pieces) /\ InPipe \in Seq(Pieces)
  /\ lock \in {0} \cup Children
  /\ parent \in {"fork1", "fork2", "wait", "read", "exit"}

Forks == /\ parent = "fork1" => pc[1] = "unborn"
         /\ parent \in {"fork1", "fork2"} => pc[2] = "unborn"
Reads == parent \in {"read", "exit"} => \A c \in Children : pc[c] = "reaped"
Ended == \A c \in Children : pc[c] \in {"sleep", "zombie", "reaped"} => i[c] = COUNT
NotBegun == \A c \in Children : pc[c] \in {"unborn", "start"} => i[c] = 0

Written(c) == \A k \in DOMAIN pipe : pipe[k][1] = c => pipe[k][2] <= i[c]
Stored(c) == \A n \in 1 .. i[c] : Holds(pipe, c, n)
Contents == parent # "exit" =>
              /\ InOrder(pipe) /\ Len(pipe) = i[1] + i[2]
              /\ \A c \in Children : Written(c) /\ Stored(c)

Holder == locked => \A c \in Children : lock = c <=> pc[c] \in {"write", "sleep"}
AtEnd(c) == \A j, k \in DOMAIN pipe : j < k /\ pipe[j][1] = c => pipe[k][1] = c
HolderLast == locked /\ parent # "exit" => \A c \in Children : lock = c => AtEnd(c)

IInv == Types /\ Forks /\ Reads /\ Ended /\ NotBegun /\ Contents /\ Holder /\ HolderLast
        /\ TextsWhole /\ ReadIsComplete

LEMMA TypeDef == TypeOK <=> Types
BY DEF TypeOK, Types, Pieces

LEMMA InitInv == Init => IInv
<1> SUFFICES ASSUME Init PROVE IInv OBVIOUS
<1> USE PipeAssumption DEF Init, Children
<1>1. Types BY DEF Types, Pieces
<1>2. Forks /\ Reads /\ Ended /\ NotBegun BY DEF Forks, Reads, Ended, NotBegun
<1>3. Contents BY DEF Contents, InOrder, Written, Stored, Holds
<1>4. Holder /\ HolderLast BY DEF Holder, HolderLast, AtEnd
<1>5. TextsWhole /\ ReadIsComplete BY DEF TextsWhole, ReadIsComplete, Whole
<1> QED BY <1>1, <1>2, <1>3, <1>4, <1>5 DEF IInv

(* What Append does to a sequence, place by place.                         *)
LEMMA AppendPlaces ==
  ASSUME NEW S, NEW s \in Seq(S), NEW e \in S
  PROVE  /\ Append(s, e) \in Seq(S) /\ Len(Append(s, e)) = Len(s) + 1
         /\ DOMAIN Append(s, e) = DOMAIN s \cup {Len(s) + 1}
         /\ \A k \in DOMAIN s : Append(s, e)[k] = s[k]
         /\ Append(s, e)[Len(s) + 1] = e
         /\ \A k \in DOMAIN s : k \in Nat /\ k < Len(s) + 1
OBVIOUS

(* The parts of the invariant about the pipe survive a step that leaves    *)
(* the pipe, the counters and the lock of every writer alone.              *)
LEMMA WriteInv ==
  ASSUME IInv, NEW c \in Children, write(c)
  PROVE  IInv'
<1> DEFINE e == <<c, i[c] + 1>>
<1>0. /\ i[c] \in 0 .. COUNT /\ i[c] < COUNT /\ COUNT \in Nat /\ i \in [Children -> 0 .. COUNT]
      /\ pipe \in Seq(Pieces) /\ e \in Pieces /\ pc[c] = "write"
      /\ pipe' = Append(pipe, e) /\ i' = [i EXCEPT ![c] = @ + 1]
      /\ UNCHANGED <<locked, capacity, pc, lock, parent, InPipe>>
  BY PipeAssumption DEF IInv, Types, write, Pieces, given
<1> HIDE DEF e
<1>a. /\ pipe' \in Seq(Pieces) /\ Len(pipe') = Len(pipe) + 1
      /\ DOMAIN pipe' = DOMAIN pipe \cup {Len(pipe) + 1}
      /\ \A k \in DOMAIN pipe : pipe'[k] = pipe[k]
      /\ pipe'[Len(pipe) + 1] = e
      /\ \A k \in DOMAIN pipe : k \in Nat /\ k < Len(pipe) + 1
      /\ Len(pipe) \in Nat
  BY <1>0, AppendPlaces
<1>b. e[1] = c /\ e[2] = i[c] + 1 /\ e = <<c, i[c] + 1>> BY DEF e
<1>c. parent # "exit" BY <1>0 DEF IInv, Reads
<1>d. i'[c] = i[c] + 1 /\ \A d \in Children : d # c => i'[d] = i[d] BY <1>0
<1>e. \A k \in DOMAIN pipe : pipe[k][1] \in Children /\ pipe[k][2] \in 1 .. COUNT
  BY <1>0 DEF Pieces
<1>1. Types' BY <1>0, <1>a DEF IInv, Types
<1>2. Forks' /\ Reads' /\ Ended' /\ NotBegun'
  BY <1>0, <1>d DEF IInv, Forks, Reads, Ended, NotBegun
<1>3. Contents'
  <2>1. InOrder(pipe) /\ Len(pipe) = i[1] + i[2] /\ \A d \in Children : Written(d) /\ Stored(d)
    BY <1>c DEF IInv, Contents
  <2>2. InOrder(pipe')
    <3> SUFFICES ASSUME NEW j \in DOMAIN pipe', NEW k \in DOMAIN pipe',
                        j < k, pipe'[j][1] = pipe'[k][1]
                 PROVE  pipe'[j][2] < pipe'[k][2]
      BY DEF InOrder
    <3>1. CASE k \in DOMAIN pipe
      <4>1. j \in DOMAIN pipe BY <3>1, <1>a
      <4> QED BY <4>1, <3>1, <1>a, <2>1 DEF InOrder
    <3>2. CASE k = Len(pipe) + 1
      <4>1. j \in DOMAIN pipe BY <3>2, <1>a
      <4>2. pipe[j][1] = c /\ pipe'[k][2] = i[c] + 1 BY <4>1, <3>2, <1>a, <1>b
      <4>3. pipe[j][2] <= i[c] BY <4>1, <4>2, <2>1 DEF Written
      <4> QED BY <4>1, <4>2, <4>3, <1>0, <1>a, <1>e
    <3> QED BY <3>1, <3>2, <1>a
  <2>3. Len(pipe') = i'[1] + i'[2]
    BY <1>0, <1>a, <1>d, <2>1 DEF Children
  <2>4. ASSUME NEW d \in Children PROVE Written(d)'
    <3> SUFFICES ASSUME NEW k \in DOMAIN pipe', pipe'[k][1] = d PROVE pipe'[k][2] <= i'[d]
      BY DEF Written
    <3>1. CASE k \in DOMAIN pipe
      <4>1. pipe[k][2] <= i[d] BY <3>1, <1>a, <2>1 DEF Written
      <4> QED BY <4>1, <3>1, <1>a, <1>d, <1>e, <1>0
    <3>2. CASE k = Len(pipe) + 1 BY <3>2, <1>a, <1>b, <1>d, <1>0
    <3> QED BY <3>1, <3>2, <1>a
  <2>5. ASSUME NEW d \in Children PROVE Stored(d)'
    <3> SUFFICES ASSUME NEW n \in 1 .. i'[d] PROVE Holds(pipe', d, n)
      BY DEF Stored
    <3>1. CASE n \in 1 .. i[d]
      <4>1. PICK k \in DOMAIN pipe : pipe[k] = <<d, n>> BY <3>1, <2>1 DEF Stored, Holds
      <4> QED BY <4>1, <1>a DEF Holds
    <3>2. CASE n \notin 1 .. i[d]
      <4>1. d = c /\ n = i[c] + 1 BY <3>2, <1>d, <1>0
      <4> QED BY <4>1, <1>a, <1>b DEF Holds
    <3> QED BY <3>1, <3>2
  <2> QED BY <2>2, <2>3, <2>4, <2>5 DEF Contents
<1>4. Holder' BY <1>0 DEF IInv, Holder
<1>5. HolderLast'
  <2> SUFFICES ASSUME locked, NEW d \in Children, lock = d PROVE AtEnd(d)'
    BY <1>0 DEF HolderLast
  <2>1. d = c BY <1>0 DEF IInv, Holder
  <2>2. AtEnd(c) BY <2>1, <1>c DEF IInv, HolderLast
  <2>3. ASSUME NEW j \in DOMAIN pipe', NEW k \in DOMAIN pipe', j < k, pipe'[j][1] = c
        PROVE  pipe'[k][1] = c
    <3>1. CASE k \in DOMAIN pipe
      <4>1. j \in DOMAIN pipe BY <3>1, <2>3, <1>a
      <4> QED BY <4>1, <3>1, <2>3, <2>2, <1>a DEF AtEnd
    <3>2. CASE k = Len(pipe) + 1 BY <3>2, <1>a, <1>b
    <3> QED BY <3>1, <3>2, <1>a
  <2> QED BY <2>1, <2>3 DEF AtEnd
<1>6. TextsWhole'
  <2> SUFFICES ASSUME locked PROVE Whole(pipe')
    BY <1>0 DEF IInv, TextsWhole
  <2>0. Whole(pipe) BY DEF IInv, TextsWhole
  <2>1. AtEnd(c) BY <1>0, <1>c DEF IInv, Holder, HolderLast
  <2>2. ASSUME NEW j \in DOMAIN pipe', NEW k \in DOMAIN pipe', NEW l \in DOMAIN pipe',
               j < k, k < l, pipe'[j][1] = pipe'[l][1]
        PROVE  pipe'[k][1] = pipe'[j][1]
    <3>1. CASE l \in DOMAIN pipe
      <4>1. j \in DOMAIN pipe /\ k \in DOMAIN pipe BY <3>1, <2>2, <1>a
      <4> QED BY <4>1, <3>1, <2>2, <2>0, <1>a DEF Whole
    <3>2. CASE l = Len(pipe) + 1
      <4>1. j \in DOMAIN pipe /\ k \in DOMAIN pipe BY <3>2, <2>2, <1>a
      <4>2. pipe[j][1] = c BY <4>1, <3>2, <2>2, <1>a, <1>b
      <4> QED BY <4>1, <4>2, <2>1, <2>2, <1>a DEF AtEnd
    <3> QED BY <3>1, <3>2, <1>a
  <2> QED BY <2>2 DEF Whole
<1>7. ReadIsComplete' BY <1>0, <1>c DEF ReadIsComplete
<1> QED BY <1>1, <1>2, <1>3, <1>4, <1>5, <1>6, <1>7 DEF IInv

(* The bytes of fewer pieces are fewer bytes.                              *)
LEMMA PiecesBytes ==
  ASSUME NEW a \in Nat, NEW b \in Nat, a <= b
  PROVE  a * SIZE <= b * SIZE
<1>1. PICK d \in Nat : b = a + d
  <2> WITNESS b - a \in Nat
  <2> QED OBVIOUS
<1>2. SIZE \in Nat BY PipeAssumption
<1>3. b * SIZE = a * SIZE + d * SIZE BY <1>1, <1>2, Z3
<1>4. d * SIZE \in Nat /\ a * SIZE \in Nat BY <1>2, Z3
<1> QED BY <1>3, <1>4

(* A front of the pipe that leaves nothing readable behind.                *)
LEMMA ReadInv ==
  ASSUME IInv, read
  PROVE  IInv'
<1>0. /\ parent = "read" /\ parent' = "exit" /\ UNCHANGED <<locked, capacity, pc, i, lock>>
      /\ pipe \in Seq(Pieces) /\ i \in [Children -> 0 .. COUNT] /\ COUNT \in Nat
  BY PipeAssumption DEF IInv, Types, read, given
<1>1. PICK n \in 0 .. Len(pipe) : /\ n = Len(pipe) \/ (n + 1) * SIZE > READ
                                  /\ InPipe' = SubSeq(pipe, 1, n)
                                  /\ pipe' = SubSeq(pipe, n + 1, Len(pipe))
  BY DEF read
<1>2. /\ InPipe' \in Seq(Pieces) /\ DOMAIN InPipe' = 1 .. n
      /\ \A k \in 1 .. n : InPipe'[k] = pipe[k]
      /\ pipe' \in Seq(Pieces) /\ DOMAIN pipe' = 1 .. Len(pipe) - n
      /\ \A k \in 1 .. Len(pipe) - n : pipe'[k] = pipe[k + n]
      /\ n \in Nat /\ Len(pipe) \in Nat /\ DOMAIN pipe = 1 .. Len(pipe) /\ n <= Len(pipe)
  BY <1>0, <1>1
<1>3. Types' BY <1>0, <1>2 DEF IInv, Types
<1>4. Forks' /\ Reads' /\ Ended' /\ NotBegun' BY <1>0 DEF IInv, Forks, Reads, Ended, NotBegun
<1>5. Contents' /\ HolderLast' BY <1>0 DEF Contents, HolderLast
<1>6. Holder' BY <1>0 DEF IInv, Holder
<1>7. TextsWhole'
  <2> SUFFICES ASSUME locked PROVE Whole(pipe') /\ Whole(InPipe')
    BY <1>0 DEF TextsWhole
  <2>1. Whole(pipe) BY DEF IInv, TextsWhole
  <2>2. Whole(InPipe')
    <3> SUFFICES ASSUME NEW j \in 1 .. n, NEW k \in 1 .. n, NEW l \in 1 .. n,
                        j < k, k < l, pipe[j][1] = pipe[l][1]
                 PROVE  pipe[k][1] = pipe[j][1]
      BY <1>2 DEF Whole
    <3> QED BY <1>2, <2>1 DEF Whole
  <2>3. Whole(pipe')
    <3> SUFFICES ASSUME NEW j \in DOMAIN pipe', NEW k \in DOMAIN pipe', NEW l \in DOMAIN pipe',
                        j < k, k < l, pipe'[j][1] = pipe'[l][1]
                 PROVE  pipe'[k][1] = pipe'[j][1]
      BY DEF Whole
    <3>1. j + n \in DOMAIN pipe /\ k + n \in DOMAIN pipe /\ l + n \in DOMAIN pipe
          /\ j + n < k + n /\ k + n < l + n
      BY <1>2
    <3>2. pipe'[j] = pipe[j + n] /\ pipe'[k] = pipe[k + n] /\ pipe'[l] = pipe[l + n]
      BY <1>2
    <3> QED BY <3>1, <3>2, <2>1 DEF Whole
  <2> QED BY <2>2, <2>3
<1>8. ReadIsComplete'
  <2> SUFFICES ASSUME Total <= READ
               PROVE  /\ InOrder(InPipe')
                      /\ \A c \in Children, m \in 1 .. COUNT : Holds(InPipe', c, m)
    BY DEF ReadIsComplete
  <2>1. \A c \in Children : i[c] = COUNT
    BY <1>0 DEF IInv, Reads, Ended
  <2>2. /\ InOrder(pipe) /\ Len(pipe) = 2 * COUNT
        /\ \A c \in Children, m \in 1 .. COUNT : Holds(pipe, c, m)
    BY <2>1, <1>0 DEF IInv, Contents, Stored, Children
  <2>3. n = Len(pipe)
    <3> SUFFICES ASSUME n # Len(pipe) PROVE FALSE OBVIOUS
    <3>0. n + 1 \in Nat /\ 2 * COUNT \in Nat /\ n + 1 <= 2 * COUNT
      BY <2>2, <1>2, <1>0
    <3>1. (n + 1) * SIZE <= (2 * COUNT) * SIZE BY PiecesBytes, <3>0
    <3>2. (n + 1) * SIZE <= READ /\ (n + 1) * SIZE > READ
      <4>1. (n + 1) * SIZE > READ BY <1>1
      <4>2. (2 * COUNT) * SIZE <= READ BY DEF Total
      <4>3. (n + 1) * SIZE \in Int /\ (2 * COUNT) * SIZE \in Int /\ READ \in Int
        <5>1. SIZE \in Nat /\ READ \in Nat BY PipeAssumption
        <5> HIDE DEF Total
        <5> QED BY <5>1, <3>0, Z3
      <4> HIDE DEF Total
      <4> QED BY <3>1, <4>1, <4>2, <4>3
    <3>3. (n + 1) * SIZE \in Int /\ READ \in Int
      <4>1. SIZE \in Nat /\ READ \in Nat BY PipeAssumption
      <4> QED BY <4>1, <3>0, Z3
    <3> QED BY <3>2, <3>3
  <2>4. /\ DOMAIN InPipe' = DOMAIN pipe
        /\ \A k \in DOMAIN pipe : InPipe'[k] = pipe[k]
    BY <1>2, <2>3
  <2>5. InOrder(InPipe') BY <2>2, <2>4 DEF InOrder
  <2>6. ASSUME NEW c \in Children, NEW m \in 1 .. COUNT PROVE Holds(InPipe', c, m)
    <3>1. PICK k \in DOMAIN pipe : pipe[k] = <<c, m>> BY <2>2 DEF Holds
    <3> QED BY <3>1, <2>4 DEF Holds
  <2> QED BY <2>5, <2>6
<1> QED BY <1>3, <1>4, <1>5, <1>6, <1>7, <1>8 DEF IInv

(* The steps that leave the pipe alone.                                    *)
LEMMA QuietInv ==
  ASSUME IInv, NEW c \in Children,
         fork(c) \/ wait(c) \/ lockf(c) \/ sleep(c) \/ exit(c)
  PROVE  IInv'
<1>0. /\ UNCHANGED <<locked, capacity, i, pipe, InPipe>> /\ pc \in [Children -> {"unborn", "start", "write", "sleep", "zombie", "reaped"}]
      /\ lock \in {0} \cup Children
      /\ parent' = "exit" => parent = "exit"
      /\ \A d \in Children \ {c} : pc'[d] = pc[d]
  BY DEF IInv, Types, fork, wait, lockf, sleep, exit, given
<1>1. Types' BY <1>0 DEF IInv, Types, fork, wait, lockf, sleep, exit, Children
<1>a. Forks' BY <1>0 DEF IInv, Forks, fork, wait, lockf, sleep, exit, Children
<1>b. fork(c) => pc[c] = "unborn" BY DEF IInv, Forks, fork, Children
<1>2. Reads' BY <1>0 DEF IInv, Reads, fork, wait, lockf, sleep, exit, Children
<1>3. Ended' BY <1>0 DEF IInv, Ended, fork, wait, lockf, sleep, exit
<1>4. NotBegun' BY <1>0, <1>b DEF IInv, NotBegun, fork, wait, lockf, sleep, exit
<1>5. parent' # "exit" => parent # "exit"
  BY <1>0 DEF fork, wait, lockf, sleep, exit
<1>6. Contents' BY <1>0, <1>5 DEF IInv, Contents, InOrder, Written, Stored, Holds
<1>7. Holder' BY <1>0, <1>b DEF IInv, Holder, fork, wait, lockf, sleep, exit, Children
<1>8. HolderLast'
  <2>1. CASE lockf(c)
    <3> SUFFICES ASSUME locked, parent # "exit" PROVE AtEnd(c)'
      BY <2>1, <1>0, <1>5 DEF HolderLast, lockf, Children
    <3>1. i[c] = 0 /\ Written(c) BY <2>1 DEF IInv, NotBegun, Contents, lockf
    <3>2. \A k \in DOMAIN pipe : pipe[k][1] # c
      <4>1. \A k \in DOMAIN pipe : pipe[k][2] \in 1 .. COUNT BY DEF IInv, Types, Pieces
      <4> QED BY <3>1, <4>1, PipeAssumption DEF Written
    <3> QED BY <3>2, <1>0 DEF AtEnd
  <2>2. CASE ~ lockf(c)
    <3>1. locked => lock' \in {0, lock} BY <2>2 DEF fork, wait, sleep, exit
    <3> QED BY <3>1, <1>0, <1>5 DEF IInv, HolderLast, AtEnd, Children
  <2> QED BY <2>1, <2>2
<1>9. TextsWhole' BY <1>0 DEF IInv, TextsWhole
<1>10. ReadIsComplete'
  <2>1. ReadIsComplete BY DEF IInv
  <2>2. InOrder(InPipe') <=> InOrder(InPipe) BY <1>0
  <2>3. \A d \in Children, n \in 1 .. COUNT : Holds(InPipe', d, n) <=> Holds(InPipe, d, n)
    BY <1>0
  <2> QED BY <2>1, <2>2, <2>3, <1>0 DEF ReadIsComplete
<1> QED BY <1>1, <1>a, <1>2, <1>3, <1>4, <1>6, <1>7, <1>8, <1>9, <1>10 DEF IInv

LEMMA NextInv == IInv /\ [Next]_vars => IInv'
<1> SUFFICES ASSUME IInv, [Next]_vars PROVE IInv' OBVIOUS
<1>1. CASE read BY <1>1, ReadInv
<1>2. ASSUME NEW c \in Children, write(c) PROVE IInv' BY <1>2, WriteInv
<1>3. ASSUME NEW c \in Children, fork(c) \/ wait(c) \/ lockf(c) \/ sleep(c) \/ exit(c)
      PROVE IInv'
  BY <1>3, QuietInv
<1>4. CASE UNCHANGED vars
  BY <1>4 DEF vars, given, IInv, Types, Forks, Reads, Ended, NotBegun, Contents, Written, Stored, Holds,
              InOrder, Holder, HolderLast, AtEnd, TextsWhole, Whole, ReadIsComplete
<1> QED BY <1>1, <1>2, <1>3, <1>4 DEF Next, Parent, Child

LEMMA Invariance == Spec => []IInv
<1> QED BY InitInv, NextInv, PTL DEF Spec

(* The pipe, the counters and the program counters keep their types: no    *)
(* child writes more pieces than its text has.                             *)
THEOREM PipeTypeCorrect == Spec => []TypeOK
<1>1. IInv => TypeOK BY TypeDef DEF IInv
<1> QED BY <1>1, Invariance, PTL

(* With the lock, texts of any length stay whole in the pipe and in what   *)
(* the parent reads (2-2.c).                                               *)
THEOREM LockKeepsTexts == Spec => []TextsWhole
<1>1. IInv => TextsWhole BY DEF IInv
<1> QED BY <1>1, Invariance, PTL

(* With or without the lock the parent reads every piece of both children, *)
(* each child's in order, if it asks for as many bytes.                    *)
THEOREM NothingIsLost == Spec => []ReadIsComplete
<1>1. IInv => ReadIsComplete BY DEF IInv
<1> QED BY <1>1, Invariance, PTL
=============================================================================
