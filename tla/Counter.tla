--------------------------------- MODULE Counter ---------------------------------
(***************************************************************************)
(* What the counting programs of lab1 promise: every one of the steps of   *)
(* every thread takes effect once and at once, and the value printed at    *)
(* the end is read after the last of them.                                 *)
(***************************************************************************)
EXTENDS Integers

CONSTANTS Threads,      \* the threads that count
          Delta,        \* what each of them adds in a step
          ITERATIONS    \* the steps of each

VARIABLES value,        \* the shared number
          made,         \* the steps each thread has made
          printed       \* the values printed when all is over

Init == value = 0 /\ made = [t \in Threads |-> 0] /\ printed = {}

Count(t) ==
  /\ made[t] < ITERATIONS
  /\ value' = value + Delta[t]
  /\ made' = [made EXCEPT ![t] = @ + 1]
  /\ UNCHANGED printed

Report == /\ \A t \in Threads : made[t] = ITERATIONS
         /\ printed' = {value}
         /\ UNCHANGED <<value, made>>

Next == Report \/ \E t \in Threads : Count(t)

Spec == Init /\ [][Next]_<<value, made, printed>>
=============================================================================
