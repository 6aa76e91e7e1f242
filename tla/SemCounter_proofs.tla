--------------------------- MODULE SemCounter_proofs ---------------------------
(***************************************************************************)
(* What the counting threads of lab1-2 do for any number of turns: with    *)
(* the semaphore the result is 0 and SemCounter implements Counter, and    *)
(* without it the result stays between the steps down and the steps up.    *)
(***************************************************************************)
EXTENDS SemCounter, TLAPS

Inside(t) == pc[t] \in {"load", "store", "post"}

(* A thread in its loop has a turn left, and one that returned has none.   *)
LoopBound ==
  \A t \in Threads :
    /\ pc[t] \in {"wait", "load", "store", "post"} => i[t] < ITERATIONS
    /\ pc[t] = "done" => i[t] = ITERATIONS
    /\ pc[t] = "new" => i[t] = 0
    /\ ~ guarded => pc[t] # "post"

(* What main has not created has not run, what it has joined is done.      *)
Joined ==
  /\ main = "add" => \A t \in Threads : pc[t] = "new"
  /\ main = "sub" => pc["sub"] = "new"
  /\ main = "join2" => pc["add"] = "done"
  /\ printed # {} => /\ main = "exit" /\ printed = {shared}
                     /\ \A t \in Threads : pc[t] = "done"

(* The semaphore is taken when a thread is inside, and only one is.        *)
Excluded ==
  guarded => /\ signal = 0 <=> \E t \in Threads : Inside(t)
             /\ \A t, u \in Threads : Inside(t) /\ Inside(u) => t = u

(* Inside, a register is fresh and no step has been lost so far.           *)
Exact ==
  guarded => /\ \A t \in Threads : pc[t] = "store" => reg[t] = shared
             /\ shared = Stored("add") - Stored("sub")

(* In any case nothing is ahead of the steps stored.                       *)
Bounded ==
  /\ - Stored("sub") <= shared /\ shared <= Stored("add")
  /\ \A t \in Threads : pc[t] = "store" =>
       - Stored("sub") <= reg[t] /\ reg[t] <= Stored("add")

IInv == TypeOK /\ LoopBound /\ Joined /\ Excluded /\ Exact /\ Bounded

LEMMA StoredType == TypeOK => \A t \in Threads : Stored(t) \in Nat
BY SemCounterAssumption DEF TypeOK, Stored

LEMMA InitInv == Init => IInv
<1> SUFFICES ASSUME Init PROVE IInv OBVIOUS
<1>1. \A t \in Threads : Stored(t) = 0 BY DEF Init, Stored
<1>2. TypeOK BY SemCounterAssumption DEF Init, TypeOK, Threads
<1>3. LoopBound /\ Joined /\ Excluded BY DEF Init, LoopBound, Joined, Excluded, Inside
<1>4. Exact /\ Bounded BY <1>1 DEF Init, Exact, Bounded, Threads
<1> QED BY <1>2, <1>3, <1>4 DEF IInv

LEMMA MainInv == IInv /\ Main => IInv'
<1> SUFFICES ASSUME IInv, Main PROVE IInv' OBVIOUS
<1>1. UNCHANGED <<guarded, signal, shared, i, reg>> BY DEF Main, pthread_create, pthread_join
<1>2. CASE pthread_create
  <2>1. ASSUME main' = "exit", pc' = pc, printed' = printed PROVE IInv'
    <3>1. \A t \in Threads : Stored(t)' = Stored(t) BY <1>1, <2>1 DEF Stored
    <3>2. printed = {} BY <1>2 DEF IInv, Joined, pthread_create, Threads
    <3>3. TypeOK' BY <1>1, <2>1 DEF IInv, TypeOK
    <3>4. LoopBound' /\ Joined' /\ Excluded' /\ Exact' /\ Bounded'
      BY <1>1, <2>1, <3>1, <3>2 DEF IInv, LoopBound, Joined, Excluded, Exact, Bounded, Inside, Threads
    <3> QED BY <3>3, <3>4 DEF IInv
  <2>2. ASSUME main \in Threads, pc' = [pc EXCEPT ![main] = First], printed' = printed,
               main' = IF main = "add" THEN "sub" ELSE "join1"
        PROVE  IInv'
    <3>0. pc[main] = "new" /\ First \in {"wait", "load"} /\ i[main] = 0 /\ printed = {}
      BY <2>2 DEF IInv, Joined, First, Threads, LoopBound
    <3>a. guarded => First = "wait" BY DEF First
    <3>b. pc \in [Threads -> {"new", "wait", "load", "store", "post", "done"}]
      BY DEF IInv, TypeOK
    <3>1. \A t \in Threads : Stored(t)' = Stored(t) BY <1>1, <2>2, <3>0, <3>b DEF Stored
    <3>2. TypeOK' BY <1>1, <2>2, <3>0 DEF IInv, TypeOK, Threads
    <3>3. LoopBound' BY <1>1, <2>2, <3>0, <3>b, SemCounterAssumption DEF IInv, LoopBound
    <3>4. Joined' BY <1>1, <2>2, <3>0, <3>b DEF IInv, Joined, Threads
    <3>5. Excluded' BY <1>1, <2>2, <3>0, <3>a, <3>b DEF IInv, Excluded, Inside
    <3>6. Exact' /\ Bounded' BY <1>1, <2>2, <3>0, <3>1, <3>b DEF IInv, Exact, Bounded, Threads
    <3> QED BY <3>2, <3>3, <3>4, <3>5, <3>6 DEF IInv
  <2> QED BY <1>2, <2>1, <2>2 DEF pthread_create
<1>3. CASE pthread_join
  <2>0. pc' = pc /\ main' \in {"join2", "exit"} /\ main \in {"join1", "join2"}
    BY <1>3 DEF pthread_join
  <2>1. \A t \in Threads : Stored(t)' = Stored(t) BY <1>1, <2>0 DEF Stored
  <2>2. TypeOK' BY <1>1, <1>3, <2>0 DEF IInv, TypeOK, pthread_join
  <2>3. LoopBound' /\ Excluded' /\ Exact' /\ Bounded'
    BY <1>1, <2>0, <2>1 DEF IInv, LoopBound, Excluded, Exact, Bounded, Inside, Threads
  <2>4. Joined' BY <1>1, <1>3, <2>0 DEF IInv, Joined, pthread_join, Threads
  <2> QED BY <2>2, <2>3, <2>4 DEF IInv
<1> QED BY <1>2, <1>3 DEF Main

LEMMA ThreadInv == ASSUME IInv, NEW t \in Threads, Thread(t) PROVE IInv'
<1>0. /\ main # "exit" /\ printed = {} /\ main' = main /\ printed' = printed
      /\ guarded \in BOOLEAN /\ guarded' = guarded
      /\ pc \in [Threads -> {"new", "wait", "load", "store", "post", "done"}]
      /\ i \in [Threads -> 0 .. ITERATIONS] /\ reg \in [Threads -> Int]
      /\ signal \in {0, 1} /\ shared \in Int /\ ITERATIONS \in Nat
      /\ \A u \in Threads : Stored(u) \in Nat
      /\ pc[t] \in {"wait", "load", "store", "post"}
  BY SemCounterAssumption, StoredType
     DEF IInv, TypeOK, Joined, Thread, sem_wait, Load, Store, sem_post, At, Goto
<1>a. First \in {"wait", "load"} /\ (guarded => First = "wait") BY DEF First
<1>b. i[t] < ITERATIONS BY <1>0 DEF IInv, LoopBound
<1>c. main \in {"sub", "join1", "join2"} /\ (main = "sub" => t = "add") /\ (main = "join2" => t = "sub")
  BY <1>0 DEF IInv, Joined, TypeOK, Threads
<1>d. Joined'
  <2>1. \A u \in Threads \ {t} : pc'[u] = pc[u]
    BY <1>0 DEF Thread, sem_wait, Load, Store, sem_post, Goto
  <2> QED BY <1>0, <1>c, <2>1 DEF IInv, Joined, Threads
<1>1. CASE sem_wait(t)
  <2>0. /\ pc[t] = "wait" /\ pc' = [pc EXCEPT ![t] = "load"] /\ signal = 1 /\ signal' = 0
        /\ UNCHANGED <<shared, i, reg>>
    BY <1>1, <1>0 DEF sem_wait, At, Goto
  <2>1. \A u \in Threads : Stored(u)' = Stored(u) BY <2>0, <1>0 DEF Stored
  <2>2. TypeOK' BY <2>0, <1>0 DEF IInv, TypeOK
  <2>3. LoopBound' BY <2>0, <1>0 DEF IInv, LoopBound
  <2>4. Excluded' BY <2>0, <1>0 DEF IInv, Excluded, Inside
  <2>5. Exact' /\ Bounded' BY <2>0, <2>1, <1>0 DEF IInv, Exact, Bounded, Threads
  <2> QED BY <2>2, <2>3, <2>4, <2>5, <1>d DEF IInv
<1>2. CASE Load(t)
  <2>0. /\ pc[t] = "load" /\ pc' = [pc EXCEPT ![t] = "store"] /\ reg' = [reg EXCEPT ![t] = shared]
        /\ UNCHANGED <<signal, shared, i>>
    BY <1>2 DEF Load, At, Goto
  <2>1. \A u \in Threads : Stored(u)' = Stored(u) BY <2>0, <1>0 DEF Stored
  <2>2. TypeOK' BY <2>0, <1>0 DEF IInv, TypeOK
  <2>3. LoopBound' BY <2>0, <1>0 DEF IInv, LoopBound
  <2>4. Excluded' BY <2>0, <1>0 DEF IInv, Excluded, Inside
  <2>5. Exact' /\ Bounded' BY <2>0, <2>1, <1>0 DEF IInv, Exact, Bounded, Threads
  <2> QED BY <2>2, <2>3, <2>4, <2>5, <1>d DEF IInv
<1>3. CASE Store(t)
  <2>0. /\ pc[t] = "store" /\ shared' = reg[t] + Delta[t] /\ UNCHANGED <<signal, reg>>
        /\ IF guarded THEN pc' = [pc EXCEPT ![t] = "post"] /\ i' = i
                      ELSE pc' = [pc EXCEPT ![t] = NextTurn(t)] /\ i' = [i EXCEPT ![t] = i[t] + 1]
    BY <1>3 DEF Store, At, Goto
  <2>1. /\ Stored(t)' = Stored(t) + 1 /\ \A u \in Threads \ {t} : Stored(u)' = Stored(u)
    <3>1. NextTurn(t) # "post" BY <1>a DEF NextTurn
    <3> QED BY <2>0, <1>0, <3>1 DEF Stored
  <2>2. TypeOK' BY <2>0, <1>0, <1>a, <1>b DEF IInv, TypeOK, NextTurn, Delta
  <2>3. LoopBound' BY <2>0, <1>0, <1>a, <1>b DEF IInv, LoopBound, NextTurn
  <2>4. Excluded' BY <2>0, <1>0 DEF IInv, Excluded, Inside
  <2>5. Exact'
    <3> SUFFICES ASSUME guarded PROVE Exact' BY <1>0 DEF Exact
    <3>1. \A u \in Threads : pc'[u] # "store"
      BY <2>0, <1>0 DEF IInv, Excluded, Inside
    <3>2. reg[t] = shared BY <2>0 DEF IInv, Exact
    <3> QED BY <3>1, <3>2, <2>0, <2>1, <1>0 DEF IInv, Exact, Delta, Threads
  <2>6. Bounded'
    <3>1. \A u \in Threads : pc'[u] = "store" => u # t /\ pc[u] = "store"
      BY <2>0, <1>0, <1>a DEF NextTurn
    <3> QED BY <3>1, <2>0, <2>1, <1>0 DEF IInv, Bounded, Delta, Threads
  <2> QED BY <2>2, <2>3, <2>4, <2>5, <2>6, <1>d DEF IInv
<1>4. CASE sem_post(t)
  <2>0. /\ pc[t] = "post" /\ signal' = signal + 1 /\ UNCHANGED <<shared, reg>>
        /\ pc' = [pc EXCEPT ![t] = NextTurn(t)] /\ i' = [i EXCEPT ![t] = i[t] + 1]
    BY <1>4 DEF sem_post, At, Goto
  <2>1. guarded BY <2>0 DEF IInv, LoopBound
  <2>2. signal = 0 BY <2>0, <2>1 DEF IInv, Excluded, Inside
  <2>3. NextTurn(t) \in {"wait", "done"} BY <1>a, <2>1 DEF NextTurn
  <2>4. \A u \in Threads : Stored(u)' = Stored(u) BY <2>0, <2>3, <1>0 DEF Stored
  <2>5. TypeOK' BY <2>0, <2>2, <2>3, <1>0, <1>b DEF IInv, TypeOK
  <2>6. LoopBound'
    <3>1. \A u \in Threads \ {t} : pc'[u] = pc[u] /\ i'[u] = i[u] BY <2>0, <1>0
    <3>2. pc'[t] = NextTurn(t) /\ i'[t] = i[t] + 1 BY <2>0, <1>0
    <3>3. IF i[t] + 1 < ITERATIONS THEN NextTurn(t) = "wait" ELSE NextTurn(t) = "done"
      BY <2>1, <1>a DEF NextTurn
    <3>4. i[t] \in Nat BY <1>0
    <3>5. /\ pc'[t] \in {"wait", "load", "store", "post"} => i'[t] < ITERATIONS
          /\ pc'[t] = "done" => i'[t] = ITERATIONS
          /\ pc'[t] # "new"
      BY <3>2, <3>3, <3>4, <1>0, <1>b
    <3> QED BY <3>1, <3>5, <2>1, <1>0 DEF IInv, LoopBound
  <2>7. Excluded' BY <2>0, <2>1, <2>2, <2>3, <1>0 DEF IInv, Excluded, Inside
  <2>8. Exact' /\ Bounded' BY <2>0, <2>3, <2>4, <1>0 DEF IInv, Exact, Bounded, Threads
  <2> QED BY <2>5, <2>6, <2>7, <2>8, <1>d DEF IInv
<1> QED BY <1>1, <1>2, <1>3, <1>4 DEF Thread

LEMMA Inductive == Spec => []IInv
<1>1. IInv /\ UNCHANGED vars => IInv'
  BY DEF vars, IInv, TypeOK, LoopBound, Joined, Excluded, Exact, Bounded, Inside, Stored
<1>2. IInv /\ [Next]_vars => IInv' BY <1>1, MainInv, ThreadInv DEF Next
<1> QED BY InitInv, <1>2, PTL DEF Spec

(* The counters keep to their loops and the semaphore stays binary.        *)
THEOREM SemTypeCorrect == Spec => []TypeOK
<1>1. IInv => TypeOK BY DEF IInv
<1> QED BY <1>1, Inductive, PTL

(* For any number of turns the guarded program prints 0 (1-2_signal.c).    *)
THEOREM SemPrintsZero == Spec => []ResultZero
<1>1. IInv => ResultZero
  <2> SUFFICES ASSUME IInv, guarded, printed # {} PROVE printed = {0} BY DEF ResultZero
  <2>1. printed = {shared} /\ \A t \in Threads : Stored(t) = ITERATIONS
    BY DEF IInv, Joined, LoopBound, Stored
  <2>2. shared = 0
    BY <2>1, SemCounterAssumption DEF IInv, Exact, Threads
  <2> QED BY <2>1, <2>2
<1> QED BY <1>1, Inductive, PTL

(* Every step of the guarded program maps to a step of Counter or to a     *)
(* stutter: Store to Count, the second join to Report.                     *)
LEMMA StepRefines ==
  ASSUME guarded, IInv, [Next]_vars
  PROVE  [Abstract!Next]_<<shared, [t \in Threads |-> Stored(t)], printed>>
<1>0. /\ pc \in [Threads -> {"new", "wait", "load", "store", "post", "done"}]
      /\ i \in [Threads -> 0 .. ITERATIONS] /\ ITERATIONS \in Nat
  BY SemCounterAssumption DEF IInv, TypeOK
<1>1. CASE pthread_create
  <2>1. UNCHANGED <<guarded, shared, i, printed>> BY <1>1 DEF pthread_create
  <2>2. \A t \in Threads : Stored(t)' = Stored(t)
    BY <1>0, <1>1, <2>1 DEF pthread_create, Stored, IInv, Joined, First, Threads
  <2> QED BY <2>1, <2>2
<1>2. CASE pthread_join
  <2>1. UNCHANGED <<guarded, shared, i, pc>> BY <1>2 DEF pthread_join
  <2>2. \A t \in Threads : Stored(t)' = Stored(t) BY <2>1 DEF Stored
  <2>3. CASE UNCHANGED printed BY <2>1, <2>2, <2>3
  <2>4. CASE main = "join2" /\ pc["sub"] = "done" /\ printed' = {shared}
    <3>1. \A t \in Threads : Stored(t) = ITERATIONS
      BY <2>4 DEF IInv, Joined, LoopBound, Stored, Threads
    <3>2. Abstract!Report BY <2>1, <2>2, <2>4, <3>1 DEF Abstract!Report
    <3> QED BY <3>2 DEF Abstract!Next
  <2> QED BY <1>2, <2>3, <2>4 DEF pthread_join
<1>3. ASSUME NEW t \in Threads, Thread(t)
      PROVE  [Abstract!Next]_<<shared, [u \in Threads |-> Stored(u)], printed>>
  <2>0. /\ printed' = printed /\ guarded' = guarded /\ First # "post"
        /\ \A u \in Threads \ {t} : Stored(u)' = Stored(u)
    BY <1>0, <1>3 DEF Thread, sem_wait, Load, Store, sem_post, Goto, First, Stored
  <2>1. CASE Store(t)
    <3>1. /\ pc[t] = "store" /\ pc' = [pc EXCEPT ![t] = "post"] /\ i' = i
          /\ shared' = reg[t] + Delta[t]
      BY <2>1 DEF Store, At, Goto
    <3>2. reg[t] = shared BY <3>1 DEF IInv, Exact
    <3>3. Stored(t) = i[t] /\ Stored(t)' = i[t] + 1 BY <3>1, <1>0 DEF Stored
    <3>4. Stored(t) < ITERATIONS BY <3>1, <3>3 DEF IInv, LoopBound
    <3>5. [u \in Threads |-> Stored(u)]' =
            [[u \in Threads |-> Stored(u)] EXCEPT ![t] = Stored(t) + 1]
      BY <3>3, <2>0
    <3>6. Abstract!Count(t) BY <2>0, <3>1, <3>2, <3>4, <3>5 DEF Abstract!Count
    <3> QED BY <3>6 DEF Abstract!Next
  <2>2. CASE sem_wait(t) \/ Load(t) \/ sem_post(t)
    <3>1. shared' = shared BY <2>2 DEF sem_wait, Load, sem_post
    <3>2. Stored(t)' = Stored(t)
      BY <2>0, <2>2, <1>0 DEF sem_wait, Load, sem_post, At, Goto, NextTurn, Stored
    <3> QED BY <2>0, <3>1, <3>2
  <2> QED BY <1>3, <2>1, <2>2 DEF Thread
<1>4. CASE UNCHANGED vars BY <1>4 DEF vars, Stored
<1> QED BY <1>1, <1>2, <1>3, <1>4 DEF Next, Main

(* With the semaphore, every step of every thread takes effect once, and   *)
(* the result is printed after all of them: Counter is implemented.        *)
THEOREM SemCounts == Spec => ImplementsCounter
<1> DEFINE seen == <<IF guarded THEN shared ELSE 0,
                     [t \in Threads |-> IF guarded THEN Stored(t) ELSE 0],
                     IF guarded THEN printed ELSE {}>>
<1>1. Init => Abstract!Init BY DEF Init, Abstract!Init, Stored
<1>2. ASSUME IInv, [Next]_vars PROVE [Abstract!Next]_seen
  <2>1. guarded \in BOOLEAN /\ guarded' = guarded
    BY <1>2 DEF IInv, TypeOK, vars, Next, Main, Thread, pthread_create, pthread_join,
                sem_wait, Load, Store, sem_post, Goto
  <2>2. CASE guarded BY <1>2, <2>1, <2>2, StepRefines
  <2>3. CASE ~ guarded BY <2>1, <2>3
  <2> QED BY <2>1, <2>2, <2>3
<1> QED BY <1>1, <1>2, Inductive, PTL DEF Spec, ImplementsCounter, Abstract!Spec

(* Without the semaphore no step is made up, whatever is lost (1-2.c).     *)
THEOREM RaceKeepsBounds == Spec => []RaceBounded
<1>1. IInv => RaceBounded
  <2> SUFFICES ASSUME IInv PROVE RaceBounded OBVIOUS
  <2>1. /\ \A t \in Threads : Stored(t) \in Nat
        /\ shared \in Int /\ ITERATIONS \in Nat
    BY StoredType, SemCounterAssumption DEF IInv, TypeOK
  <2>2. printed # {} => \A t \in Threads : Stored(t) = ITERATIONS
    BY DEF IInv, Joined, LoopBound, Stored
  <2> QED BY <2>1, <2>2 DEF IInv, Joined, Bounded, RaceBounded, Threads
<1> QED BY <1>1, Inductive, PTL
=============================================================================
