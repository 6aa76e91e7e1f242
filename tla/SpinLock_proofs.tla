----------------------------- MODULE SpinLock_proofs -----------------------------
(***************************************************************************)
(* Mutual exclusion, and that the program implements Counter, for any      *)
(* number of threads and of turns.                                         *)
(***************************************************************************)
EXTENDS SpinLock, TLAPS

(* A thread is new until main creates it, what it read at its load still   *)
(* holds at its store, its place tells where its loop counter stands, and  *)
(* the threads main has joined are done.                                   *)
NotCreated == main = "create" => \A t \in Threads : t >= next => pc[t] = "new"
RegisterFresh == \A t \in Threads : pc[t] = "store" => reg[t] = shared_value
LoopBound == \A t \in Threads : /\ pc[t] \in {"lock", "load", "store", "unlock"} => i[t] < ITERATIONS
                                /\ pc[t] = "done" => i[t] = ITERATIONS
                                /\ pc[t] = "new" => i[t] = 0
Joined == main = "join" => \A t \in Threads : t < next => pc[t] = "done"

IInv == /\ TypeOK /\ MutualExclusion
        /\ NotCreated /\ RegisterFresh /\ LoopBound /\ Joined

-----------------------------------------------------------------------------
LEMMA InitInv == Init => IInv
BY SpinLockAssumption DEF Init, IInv, TypeOK, MutualExclusion, Inside, NotCreated,
                          RegisterFresh, LoopBound, Joined, Threads

LEMMA CreateInv == ASSUME IInv, pthread_create PROVE IInv'
<1>1. CASE /\ pc' = [pc EXCEPT ![next] = "lock"] /\ next' = next + 1
           /\ UNCHANGED main
  <2>1. /\ next \in Threads /\ pc[next] = "new" /\ main = "create"
        /\ UNCHANGED <<flag, shared_value, i, reg, printed>>
    BY SpinLockAssumption DEF pthread_create, IInv, TypeOK, NotCreated, Threads
  <2>2. TypeOK'
    BY <1>1, <2>1, SpinLockAssumption DEF IInv, TypeOK, Threads
  <2>3. /\ pc'[next] = "lock" /\ i[next] = 0
        /\ \A t \in Threads : t # next => pc'[t] = pc[t]
    BY <1>1, <2>1 DEF IInv, TypeOK, LoopBound
  <2>4. Inside' = Inside
    BY <2>1, <2>3 DEF Inside
  <2>5. MutualExclusion'
    BY <2>1, <2>4 DEF IInv, MutualExclusion
  <2>6. NotCreated' /\ Joined'
    BY <1>1, <2>1, <2>3 DEF IInv, TypeOK, NotCreated, Joined, Threads
  <2>7. RegisterFresh' /\ LoopBound'
    BY <2>1, <2>3, SpinLockAssumption DEF IInv, RegisterFresh, LoopBound
  <2>. QED BY <2>2, <2>5, <2>6, <2>7 DEF IInv
<1>2. CASE main' = "exit" /\ UNCHANGED <<pc, next>>
  BY <1>2 DEF pthread_create, IInv, TypeOK, MutualExclusion, Inside, NotCreated,
              RegisterFresh, LoopBound, Joined
<1>. QED BY <1>1, <1>2 DEF pthread_create

LEMMA JoinInv == ASSUME IInv, pthread_join PROVE IInv'
<1>1. UNCHANGED <<flag, shared_value, i, reg, pc, printed>> /\ main' = "join"
  BY DEF pthread_join
<1>2. TypeOK' /\ Joined'
  <2>1. CASE main = "create" /\ next > THREADS /\ next' = 1
    BY <1>1, <2>1, SpinLockAssumption DEF IInv, TypeOK, Joined, Threads
  <2>2. CASE main = "join" /\ next <= THREADS /\ pc[next] = "done" /\ next' = next + 1
    BY <1>1, <2>2, SpinLockAssumption DEF IInv, TypeOK, Joined, Threads
  <2>. QED BY <2>1, <2>2 DEF pthread_join
<1>. QED BY <1>1, <1>2 DEF IInv, MutualExclusion, Inside, NotCreated, RegisterFresh, LoopBound

LEMMA FinishInv == ASSUME IInv, Finish PROVE IInv'
<1>1. TypeOK'
  BY DEF Finish, IInv, TypeOK
<1>. QED BY <1>1 DEF Finish, IInv, MutualExclusion, Inside, NotCreated, RegisterFresh,
                     LoopBound, Joined

-----------------------------------------------------------------------------
(* A thread that moves from label a to label b is the only one that moves. *)
LEMMA Moves ==
  ASSUME IInv, NEW t \in Threads, NEW a, NEW b, At(t, a), Goto(t, b),
         a \notin {"new", "done"}
  PROVE  /\ pc[t] = a /\ pc'[t] = b
         /\ \A u \in Threads : u # t => pc'[u] = pc[u]
         /\ main # "exit"
         /\ UNCHANGED <<main, next, printed>>
         /\ NotCreated' /\ Joined'
<1>1. /\ pc[t] = a /\ pc'[t] = b
      /\ \A u \in Threads : u # t => pc'[u] = pc[u]
      /\ main # "exit"
      /\ UNCHANGED <<main, next, printed>>
  BY DEF At, Goto, IInv, TypeOK
<1>. QED BY <1>1 DEF IInv, NotCreated, Joined

LEMMA LockInv == ASSUME IInv, NEW t \in Threads, spinlock_lock(t) PROVE IInv'
<1>. DEFINE b == IF flag = 0 THEN "load" ELSE "lock"
<1>1. /\ pc[t] = "lock" /\ pc'[t] = b
      /\ \A u \in Threads : u # t => pc'[u] = pc[u]
      /\ UNCHANGED <<main, next, printed>> /\ NotCreated' /\ Joined'
  BY Moves DEF spinlock_lock
<1>2. flag' = 1 /\ UNCHANGED <<shared_value, i, reg>>
  BY DEF spinlock_lock
<1>3. TypeOK'
  BY <1>1, <1>2 DEF IInv, TypeOK, spinlock_lock, Goto
<1>4. MutualExclusion'
  <2>1. CASE flag = 0
    <3>1. Inside = {}
      BY <2>1 DEF IInv, MutualExclusion
    <3>2. Inside' = {t}
      BY <1>1, <2>1, <3>1 DEF Inside
    <3>. QED BY <1>2, <3>2 DEF MutualExclusion
  <2>2. CASE flag = 1
    <3>1. Inside' = Inside
      BY <1>1, <2>2 DEF Inside
    <3>. QED BY <1>2, <2>2, <3>1 DEF IInv, MutualExclusion
  <2>. QED BY <2>1, <2>2 DEF IInv, TypeOK
<1>5. RegisterFresh' /\ LoopBound'
  BY <1>1, <1>2 DEF IInv, RegisterFresh, LoopBound
<1>. QED BY <1>1, <1>3, <1>4, <1>5 DEF IInv

LEMMA LoadInv == ASSUME IInv, NEW t \in Threads, Load(t) PROVE IInv'
<1>1. /\ pc[t] = "load" /\ pc'[t] = "store"
      /\ \A u \in Threads : u # t => pc'[u] = pc[u]
      /\ UNCHANGED <<main, next, printed>> /\ NotCreated' /\ Joined'
  BY Moves DEF Load
<1>2. reg' = [reg EXCEPT ![t] = shared_value] /\ UNCHANGED <<flag, shared_value, i>>
  BY DEF Load
<1>3. TypeOK'
  BY <1>1, <1>2 DEF IInv, TypeOK, Load, Goto
<1>4. MutualExclusion'
  <2>1. Inside' = Inside
    BY <1>1 DEF Inside
  <2>. QED BY <1>2, <2>1 DEF IInv, MutualExclusion
<1>5. RegisterFresh' /\ LoopBound'
  BY <1>1, <1>2 DEF IInv, TypeOK, RegisterFresh, LoopBound
<1>. QED BY <1>1, <1>3, <1>4, <1>5 DEF IInv

(* The store is where mutual exclusion counts: no other thread holds a     *)
(* value read before it.                                                   *)
LEMMA StoreInv == ASSUME IInv, NEW t \in Threads, Store(t) PROVE IInv'
<1>1. /\ pc[t] = "store" /\ pc'[t] = "unlock"
      /\ \A u \in Threads : u # t => pc'[u] = pc[u]
      /\ UNCHANGED <<main, next, printed>> /\ NotCreated' /\ Joined'
  BY Moves DEF Store
<1>2. shared_value' = reg[t] + 1 /\ UNCHANGED <<flag, i, reg>>
  BY DEF Store
<1>3. TypeOK'
  BY <1>1, <1>2 DEF IInv, TypeOK, Store, Goto
<1>4. MutualExclusion'
  <2>1. Inside' = Inside
    BY <1>1 DEF Inside
  <2>. QED BY <1>2, <2>1 DEF IInv, MutualExclusion
<1>5. RegisterFresh'
  <2>1. \A u \in Threads : u # t => pc[u] # "store"
    BY <1>1 DEF IInv, MutualExclusion, Inside
  <2>. QED BY <1>1, <2>1 DEF RegisterFresh
<1>6. LoopBound'
  BY <1>1, <1>2 DEF IInv, LoopBound
<1>. QED BY <1>1, <1>3, <1>4, <1>5, <1>6 DEF IInv

LEMMA UnlockInv == ASSUME IInv, NEW t \in Threads, spinlock_unlock(t) PROVE IInv'
<1>. DEFINE b == IF i[t] + 1 < ITERATIONS THEN "lock" ELSE "done"
<1>1. /\ pc[t] = "unlock" /\ pc'[t] = b
      /\ \A u \in Threads : u # t => pc'[u] = pc[u]
      /\ UNCHANGED <<main, next, printed>> /\ NotCreated' /\ Joined'
  BY Moves DEF spinlock_unlock
<1>2. flag' = 0 /\ i' = [i EXCEPT ![t] = @ + 1] /\ UNCHANGED <<shared_value, reg>>
  BY DEF spinlock_unlock
<1>3. i[t] \in 0 .. ITERATIONS /\ i[t] < ITERATIONS
  BY <1>1 DEF IInv, TypeOK, LoopBound
<1>4. TypeOK'
  BY <1>1, <1>2, <1>3, SpinLockAssumption DEF IInv, TypeOK, spinlock_unlock, Goto
<1>5. MutualExclusion'
  <2>1. Inside = {t}
    BY <1>1 DEF IInv, MutualExclusion, Inside
  <2>2. Inside' = {}
    BY <1>1, <2>1 DEF Inside
  <2>. QED BY <1>2, <2>2 DEF MutualExclusion
<1>6. RegisterFresh' /\ LoopBound'
  BY <1>1, <1>2, <1>3, SpinLockAssumption DEF IInv, TypeOK, RegisterFresh, LoopBound
<1>. QED BY <1>1, <1>4, <1>5, <1>6 DEF IInv

LEMMA NextInv == IInv /\ [Next]_vars => IInv'
<1>. SUFFICES ASSUME IInv, [Next]_vars PROVE IInv'
  OBVIOUS
<1>1. CASE Main
  BY <1>1, CreateInv, JoinInv, FinishInv DEF Main
<1>2. ASSUME NEW t \in Threads, Thread(t) PROVE IInv'
  BY <1>2, LockInv, LoadInv, StoreInv, UnlockInv DEF Thread
<1>3. CASE UNCHANGED vars
  BY <1>3 DEF vars, IInv, TypeOK, MutualExclusion, Inside, NotCreated, RegisterFresh,
              LoopBound, Joined
<1>. QED BY <1>1, <1>2, <1>3 DEF Next

LEMMA Inductive == Spec => []IInv
BY InitInv, NextInv, PTL DEF Spec

(* Flag, counters and registers stay in their types, and every loop in its *)
(* bound (thread_function, main).                                          *)
THEOREM SpinTypeCorrect == Spec => []TypeOK
<1>1. IInv => TypeOK
  BY DEF IInv
<1>. QED BY <1>1, Inductive, PTL

(* At most one thread at a time is inside the lock, for any number of      *)
(* threads and turns.                                                      *)
THEOREM LockExcludes == Spec => []MutualExclusion
<1>1. IInv => MutualExclusion
  BY DEF IInv
<1>. QED BY <1>1, Inductive, PTL

-----------------------------------------------------------------------------
(* The refinement: a store is an increment of the abstract counter, Finish *)
(* its print, and every other step leaves it alone.                        *)

LEMMA InitRefines == Init => Abstract!Init
BY DEF Init, Abstract!Init, made

(* A thread's turns count as made from its store on.                       *)
LEMMA StepRefines == IInv /\ [Next]_vars => [Abstract!Next]_<<shared_value, made, printed>>
<1>. SUFFICES ASSUME IInv, [Next]_vars
              PROVE  [Abstract!Next]_<<shared_value, made, printed>>
  OBVIOUS
<1>1. CASE pthread_create
  <2>1. CASE main' = "exit" /\ UNCHANGED <<pc, next>>
    BY <1>1, <2>1 DEF pthread_create, made
  <2>2. CASE pc' = [pc EXCEPT ![next] = "lock"]
    <3>1. next \in Threads /\ pc[next] = "new"
      BY <1>1, SpinLockAssumption DEF pthread_create, IInv, TypeOK, NotCreated, Threads
    <3>2. \A t \in Threads : pc'[t] = "unlock" <=> pc[t] = "unlock"
      BY <2>2, <3>1 DEF IInv, TypeOK
    <3>3. made' = made
      BY <1>1, <3>2 DEF pthread_create, made
    <3>. QED BY <1>1, <3>3 DEF pthread_create
  <2>. QED BY <1>1, <2>1, <2>2 DEF pthread_create
<1>2. CASE pthread_join
  BY <1>2 DEF pthread_join, made
<1>3. CASE Finish
  <2>1. \A t \in Threads : made[t] = ITERATIONS
    <3>1. \A t \in Threads : t < next
      BY <1>3, SpinLockAssumption DEF Finish, IInv, TypeOK, Threads
    <3>2. \A t \in Threads : pc[t] = "done" /\ i[t] = ITERATIONS
      BY <1>3, <3>1 DEF Finish, IInv, Joined, LoopBound
    <3>. QED BY <3>2 DEF made
  <2>2. made' = made /\ shared_value' = shared_value /\ printed' = {shared_value}
    BY <1>3 DEF Finish, made
  <2>. QED BY <2>1, <2>2 DEF Abstract!Next, Abstract!Report
<1>4. ASSUME NEW t \in Threads, Thread(t)
      PROVE  [Abstract!Next]_<<shared_value, made, printed>>
  <2>1. CASE spinlock_lock(t) \/ Load(t)
    <3>1. /\ pc[t] \in {"lock", "load"} /\ pc'[t] # "unlock"
          /\ \A u \in Threads : u # t => pc'[u] = pc[u]
          /\ i' = i /\ shared_value' = shared_value /\ printed' = printed
      BY <2>1, Moves DEF spinlock_lock, Load
    <3>2. made' = made
      BY <3>1 DEF made
    <3>. QED BY <3>1, <3>2
  <2>2. CASE Store(t)
    <3>1. /\ pc[t] = "store" /\ pc'[t] = "unlock"
          /\ \A u \in Threads : u # t => pc'[u] = pc[u]
          /\ i' = i /\ printed' = printed
      BY <2>2, Moves DEF Store
    <3>2. shared_value' = shared_value + 1
      BY <2>2, <3>1 DEF Store, IInv, RegisterFresh
    <3>3. made[t] = i[t] /\ made[t] < ITERATIONS
      BY <3>1 DEF made, IInv, LoopBound
    <3>4. made' = [made EXCEPT ![t] = @ + 1]
      BY <3>1 DEF made
    <3>5. Abstract!Count(t)
      BY <3>1, <3>2, <3>3, <3>4 DEF Abstract!Count
    <3>. QED BY <3>5 DEF Abstract!Next
  <2>3. CASE spinlock_unlock(t)
    <3>1. /\ pc[t] = "unlock" /\ pc'[t] # "unlock"
          /\ \A u \in Threads : u # t => pc'[u] = pc[u]
          /\ i' = [i EXCEPT ![t] = @ + 1]
          /\ shared_value' = shared_value /\ printed' = printed
      BY <2>3, Moves DEF spinlock_unlock
    <3>2. i \in [Threads -> 0 .. ITERATIONS]
      BY DEF IInv, TypeOK
    <3>3. made' = made
      BY <3>1, <3>2 DEF made
    <3>. QED BY <3>1, <3>3
  <2>. QED BY <1>4, <2>1, <2>2, <2>3 DEF Thread
<1>5. CASE UNCHANGED vars
  BY <1>5 DEF vars, made
<1>. QED BY <1>1, <1>2, <1>3, <1>4, <1>5 DEF Next, Main

(* The program implements Counter: every increment of every thread takes   *)
(* effect exactly once, and what is printed is read after all of them.     *)
THEOREM SpinLockCounts == Spec => ImplementsCounter
<1>1. Init => Abstract!Init
  BY InitRefines
<1>2. IInv /\ [Next]_vars => [Abstract!Next]_<<shared_value, made, printed>>
  BY StepRefines
<1>. QED BY <1>1, <1>2, Inductive, PTL DEF Spec, ImplementsCounter, Abstract!Spec
=============================================================================
