--------------------------------- MODULE Paging ---------------------------------
(***************************************************************************)
(* What a page replacement policy promises, without a queue: which pages   *)
(* are in which frames, and which of two resident pages is older.  A page  *)
(* in memory stays in its frame; a missing page takes the lowest unused    *)
(* frame, or that of the oldest page when there is none.  FIFO reckons the *)
(* age from the load, LRU from the last use.                               *)
(***************************************************************************)
EXTENDS Integers, FiniteSets, Sequences

CONSTANTS Page

VARIABLES pages, frameCount, algorithm,    \* chosen at the start and kept
          i, faults,                       \* references served, page faults
          frame,                           \* each page's frame, 0 if none
          older                            \* <<p, q>>: p is to go before q

vars == <<pages, frameCount, algorithm, i, faults, frame, older>>

FIFO == 1
LRU  == 2

Resident == {p \in Page : frame[p] # 0}

Init == i = 0 /\ faults = 0 /\ frame = [p \in Page |-> 0] /\ older = {}

Youngest(p, others) == {<<q, p>> : q \in others \ {p}}
Without(p) == {pair \in older : p \notin {pair[1], pair[2]}}

Hit(p) ==
  /\ frame[p] # 0
  /\ older' = IF algorithm = LRU THEN Without(p) \cup Youngest(p, Resident) ELSE older
  /\ UNCHANGED <<frame, faults>>

Load(p) ==
  /\ frame[p] = 0 /\ Cardinality(Resident) < frameCount
  /\ frame' = [frame EXCEPT ![p] = Cardinality(Resident) + 1]
  /\ older' = older \cup Youngest(p, Resident)
  /\ faults' = faults + 1

Replace(p) ==
  /\ frame[p] = 0 /\ Cardinality(Resident) = frameCount
  /\ \E victim \in Resident :
       /\ \A q \in Resident : <<q, victim>> \notin older
       /\ frame' = [frame EXCEPT ![p] = frame[victim], ![victim] = 0]
       /\ older' = Without(victim) \cup Youngest(p, Resident \ {victim})
  /\ faults' = faults + 1

NoFrames == frameCount <= 0 /\ faults' = faults + 1 /\ UNCHANGED <<frame, older>>

Reference ==
  /\ i < Len(pages)
  /\ i' = i + 1
  /\ Hit(pages[i + 1]) \/ Load(pages[i + 1]) \/ Replace(pages[i + 1]) \/ NoFrames

Finish ==
  /\ i = Len(pages)
  /\ frame' = [p \in Page |-> 0] /\ older' = {}
  /\ UNCHANGED <<i, faults>>

Next == (Reference \/ Finish) /\ UNCHANGED <<pages, frameCount, algorithm>>

Spec == Init /\ [][Next]_vars
=============================================================================
