------------------------------- MODULE SemCounter -------------------------------
(***************************************************************************)
(* lab1-2/1-2.c and 1-2_signal.c: one thread counts a shared variable up,  *)
(* another down, and main prints it once both have returned.  1-2_signal.c *)
(* puts a POSIX semaphore around each step, 1-2.c nothing.  shared++ and   *)
(* shared-- are a load and a store, as built without optimisation.         *)
(***************************************************************************)
EXTENDS Integers

CONSTANT ITERATIONS     \* turns of each loop (10000 in the code)

ASSUME SemCounterAssumption == ITERATIONS \in Nat \ {0}

Threads == {"add", "sub"}
Delta == [t \in Threads |-> IF t = "add" THEN 1 ELSE -1]

VARIABLES guarded,        \* which program: TRUE in 1-2_signal.c
          signal,         \* the semaphore's value
          shared,
          i, reg,         \* each thread's loop counter and register
          pc,             \* "new" until created; "done" once returned
          main,           \* "add", "sub" to create next, "join1", "join2", "exit"
          printed         \* the result printed: a set of at most one

vars == <<guarded, signal, shared, i, reg, pc, main, printed>>

First == IF guarded THEN "wait" ELSE "load"

Init ==
  /\ guarded \in BOOLEAN
  /\ signal = 1 /\ shared = 0
  /\ i = [t \in Threads |-> 0] /\ reg = [t \in Threads |-> 0]
  /\ pc = [t \in Threads |-> "new"]
  /\ main = "add" /\ printed = {}

-----------------------------------------------------------------------------
(* main: a failed pthread_create returns 1, and takes a running thread     *)
(* along.                                                                  *)

pthread_create ==
  /\ main \in Threads
  /\ \/ /\ pc' = [pc EXCEPT ![main] = First]
        /\ main' = IF main = "add" THEN "sub" ELSE "join1"
     \/ main' = "exit" /\ UNCHANGED pc
  /\ UNCHANGED <<guarded, signal, shared, i, reg, printed>>

pthread_join_first ==                   \* mutant: the second join is missing
  /\ main = "join1" /\ pc["add"] = "done"
  /\ main' = "exit" /\ printed' = {shared}
  /\ UNCHANGED <<guarded, signal, shared, i, reg, pc>>

pthread_join ==
  /\ \/ /\ main = "join1" /\ pc["add"] = "done"
        /\ main' = "join2" /\ UNCHANGED printed
     \/ /\ main = "join2" /\ pc["sub"] = "done"
        /\ main' = "exit" /\ printed' = {shared}
  /\ UNCHANGED <<guarded, signal, shared, i, reg, pc>>

(* add and sub.                                                            *)
At(t, label) == main # "exit" /\ pc[t] = label
Goto(t, label) == pc' = [pc EXCEPT ![t] = label] /\ UNCHANGED <<guarded, main, printed>>
NextTurn(t) == IF i[t] + 1 < ITERATIONS THEN First ELSE "done"

sem_wait(t) ==
  /\ At(t, "wait") /\ signal > 0
  /\ signal' = signal - 1
  /\ Goto(t, "load")
  /\ UNCHANGED <<shared, i, reg>>

Load(t) ==
  /\ At(t, "load")
  /\ reg' = [reg EXCEPT ![t] = shared]
  /\ Goto(t, "store")
  /\ UNCHANGED <<signal, shared, i>>

Store_twice(t) ==                       \* mutant: a step of two
  /\ At(t, "store")
  /\ shared' = reg[t] + 2 * Delta[t]
  /\ IF guarded THEN Goto(t, "post") /\ UNCHANGED i
                ELSE Goto(t, NextTurn(t)) /\ i' = [i EXCEPT ![t] = @ + 1]
  /\ UNCHANGED <<signal, reg>>

Store(t) ==
  /\ At(t, "store")
  /\ shared' = reg[t] + Delta[t]
  /\ IF guarded THEN Goto(t, "post") /\ UNCHANGED i
                ELSE Goto(t, NextTurn(t)) /\ i' = [i EXCEPT ![t] = @ + 1]
  /\ UNCHANGED <<signal, reg>>

post_missing(t) ==                      \* mutant: the last turn keeps the semaphore
  /\ At(t, "post")
  /\ signal' = IF NextTurn(t) = "done" THEN signal ELSE signal + 1
  /\ i' = [i EXCEPT ![t] = @ + 1]
  /\ Goto(t, NextTurn(t))
  /\ UNCHANGED <<shared, reg>>

sem_post(t) ==
  /\ At(t, "post")
  /\ signal' = signal + 1
  /\ i' = [i EXCEPT ![t] = @ + 1]
  /\ Goto(t, NextTurn(t))
  /\ UNCHANGED <<shared, reg>>

Thread(t) == sem_wait(t) \/ Load(t) \/ Store(t) \/ sem_post(t)
Main == pthread_create \/ pthread_join

Next == Main \/ \E t \in Threads : Thread(t)

Spec == Init /\ [][Next]_vars

(* The kernel runs every thread that can run.  A semaphore that is free is *)
(* taken in the end, as the only other contender runs out of turns.        *)
FairSpec == Spec /\ WF_vars(Main) /\ \A t \in Threads : WF_vars(Thread(t))

-----------------------------------------------------------------------------
Stored(t) == IF pc[t] = "post" THEN i[t] + 1 ELSE i[t]

(* The semaphore is binary, and the loop counters stay in their loops.     *)
TypeOK ==
  /\ guarded \in BOOLEAN
  /\ signal \in {0, 1} /\ shared \in Int
  /\ i \in [Threads -> 0 .. ITERATIONS] /\ reg \in [Threads -> Int]
  /\ pc \in [Threads -> {"new", "wait", "load", "store", "post", "done"}]
  /\ main \in Threads \cup {"join1", "join2", "exit"}
  /\ printed \subseteq Int

(* 1-2_signal.c prints 0 in every interleaving: no step is lost.           *)
ResultZero == guarded => printed \subseteq {0}

(* Without the semaphore steps may be lost but none is made up: shared is  *)
(* never above the steps up nor below the steps down made so far, so what  *)
(* 1-2.c prints is within -ITERATIONS .. ITERATIONS.                       *)
RaceBounded ==
  /\ shared \in - Stored("sub") .. Stored("add")
  /\ printed \subseteq - ITERATIONS .. ITERATIONS

(* Under the semaphore every step takes effect once and atomically, at its *)
(* store: 1-2_signal.c implements Counter.  (Nothing is said of 1-2.c.)    *)
Abstract == INSTANCE Counter WITH
              value   <- IF guarded THEN shared ELSE 0,
              made    <- [t \in Threads |-> IF guarded THEN Stored(t) ELSE 0],
              printed <- IF guarded THEN printed ELSE {}
ImplementsCounter == Abstract!Spec

(* Every run ends: the semaphore is always posted again.                   *)
Terminates == <>(main = "exit")
=============================================================================
