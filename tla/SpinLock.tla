-------------------------------- MODULE SpinLock --------------------------------
(***************************************************************************)
(* lab1-3/spinlock.c: threads that increment shared_value under a          *)
(* test-and-set lock, and the main thread that creates and joins them.     *)
(* shared_value++ is a load and a store.  A process that exits takes its   *)
(* threads along.                                                          *)
(***************************************************************************)
EXTENDS Integers

CONSTANTS THREADS,      \* threads created, numbered in order (2 in the code)
          ITERATIONS    \* turns of each thread's loop (5000 in the code)

ASSUME SpinLockAssumption == THREADS \in Nat /\ ITERATIONS \in Nat \ {0}

Threads == 1 .. THREADS

VARIABLES flag,           \* spinlock_t.flag
          shared_value,
          i, reg,         \* each thread's loop counter and register
          pc,             \* "new" until created; "done" once returned
          main,           \* "create", "join", "exit"
          next,           \* the thread main creates or joins next
          printed         \* the final value printed: a set of at most one

vars == <<flag, shared_value, i, reg, pc, main, next, printed>>

Init ==
  /\ flag = 0 /\ shared_value = 0
  /\ i = [t \in Threads |-> 0] /\ reg = [t \in Threads |-> 0]
  /\ pc = [t \in Threads |-> "new"]
  /\ main = "create" /\ next = 1 /\ printed = {}

-----------------------------------------------------------------------------
(* main: a failed pthread_create returns 1 at once.                        *)

pthread_create ==
  /\ main = "create" /\ next <= THREADS
  /\ \/ /\ pc' = [pc EXCEPT ![next] = "lock"]
        /\ next' = next + 1
        /\ UNCHANGED main
     \/ main' = "exit" /\ UNCHANGED <<pc, next>>
  /\ UNCHANGED <<flag, shared_value, i, reg, printed>>

pthread_join ==
  /\ \/ main = "create" /\ next > THREADS /\ next' = 1
     \/ main = "join" /\ next <= THREADS /\ pc[next] = "done" /\ next' = next + 1
  /\ main' = "join"
  /\ UNCHANGED <<flag, shared_value, i, reg, pc, printed>>

Finish_unjoined ==                      \* mutant: the second join is missing
  /\ main = "join" /\ next >= THREADS
  /\ main' = "exit" /\ printed' = {shared_value}
  /\ UNCHANGED <<flag, shared_value, i, reg, pc, next>>

Finish ==
  /\ main = "join" /\ next > THREADS
  /\ main' = "exit" /\ printed' = {shared_value}
  /\ UNCHANGED <<flag, shared_value, i, reg, pc, next>>

(* thread_function.                                                        *)
At(t, label) == main # "exit" /\ pc[t] = label
Goto(t, label) == pc' = [pc EXCEPT ![t] = label] /\ UNCHANGED <<main, next, printed>>

lock_plain(t) ==                        \* mutant: the flag is not tested
  At(t, "lock") /\ flag' = 1 /\ Goto(t, "load") /\ UNCHANGED <<shared_value, i, reg>>

spinlock_lock(t) ==
  /\ At(t, "lock")
  /\ flag' = 1
  /\ Goto(t, IF flag = 0 THEN "load" ELSE "lock")
  /\ UNCHANGED <<shared_value, i, reg>>

Load(t) ==
  /\ At(t, "load")
  /\ reg' = [reg EXCEPT ![t] = shared_value]
  /\ Goto(t, "store")
  /\ UNCHANGED <<flag, shared_value, i>>

Store(t) ==
  /\ At(t, "store")
  /\ shared_value' = reg[t] + 1
  /\ Goto(t, "unlock")
  /\ UNCHANGED <<flag, i, reg>>

unlock_kept(t) ==                       \* mutant: the flag is not cleared
  /\ At(t, "unlock")
  /\ i' = [i EXCEPT ![t] = @ + 1]
  /\ Goto(t, IF i[t] + 1 < ITERATIONS THEN "lock" ELSE "done")
  /\ UNCHANGED <<flag, shared_value, reg>>

spinlock_unlock(t) ==
  /\ At(t, "unlock")
  /\ flag' = 0
  /\ i' = [i EXCEPT ![t] = @ + 1]
  /\ Goto(t, IF i[t] + 1 < ITERATIONS THEN "lock" ELSE "done")
  /\ UNCHANGED <<shared_value, reg>>

Thread(t) == spinlock_lock(t) \/ Load(t) \/ Store(t) \/ spinlock_unlock(t)
Main == pthread_create \/ pthread_join \/ Finish

Next == Main \/ \E t \in Threads : Thread(t)

Spec == Init /\ [][Next]_vars

(* The kernel runs every thread that can run; the spinning thread is       *)
(* promised no more, as test-and-set gives no order among the waiting.     *)
FairSpec == Spec /\ WF_vars(Main) /\ \A t \in Threads : WF_vars(Thread(t))

-----------------------------------------------------------------------------
Inside == {t \in Threads : pc[t] \in {"load", "store", "unlock"}}

TypeOK ==
  /\ flag \in {0, 1} /\ shared_value \in Nat
  /\ i \in [Threads -> 0 .. ITERATIONS] /\ reg \in [Threads -> Nat]
  /\ pc \in [Threads -> {"new", "lock", "load", "store", "unlock", "done"}]
  /\ main \in {"create", "join", "exit"} /\ next \in 1 .. THREADS + 1
  /\ printed \in SUBSET Nat

(* At most one thread is between spinlock_lock and the end of              *)
(* spinlock_unlock, and the flag tells whether one is.                     *)
MutualExclusion == /\ \A t, u \in Inside : t = u
                   /\ flag = 1 <=> Inside # {}

(* Each increment takes effect once and atomically, at its store, and      *)
(* main prints after the last one: the program implements Counter.         *)
made == [t \in Threads |-> IF pc[t] = "unlock" THEN i[t] + 1 ELSE i[t]]
Abstract == INSTANCE Counter WITH value <- shared_value, Delta <- [t \in Threads |-> 1]
ImplementsCounter == Abstract!Spec

(* Every run ends: no thread spins for ever, as the others run out of      *)
(* turns, and main joins them all unless a creation failed.                *)
Terminates == <>(main = "exit")
=============================================================================
