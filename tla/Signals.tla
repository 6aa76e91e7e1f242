-------------------------------- MODULE Signals --------------------------------
(***************************************************************************)
(* lab2/2-1.c: a parent waits for a key or its alarm, then signals two     *)
(* children that wait for it.  signal() keeps a handler installed, masks   *)
(* its signal while the handler runs and restarts wait, as glibc's does.   *)
(* The kernel delivers the lowest pending signal first.                    *)
(***************************************************************************)
EXTENDS Integers, Sequences

CONSTANT MaxKeys        \* Ctrl-C and Ctrl-\ pressed at most

ASSUME SignalsAssumption == MaxKeys \in Nat

SIGINT == 2
SIGQUIT == 3
SIGALRM == 14
Keys == {SIGINT, SIGQUIT}
Children == {"child1", "child2"}
Procs == {"parent"} \cup Children

VARIABLES
  pc,           \* each process: its next step, "unborn", "zombie", "reaped"
  installed,    \* how many of its signal calls each has made
  pending,      \* the signals sent to each and not yet delivered
  frames,       \* each child's running calls of waiting, the newest last
  alarm,        \* "unset", "set", "rung"
  keys,         \* pressed so far
  sent,         \* the children the parent has signalled
  said          \* who has printed that it is killed

vars == <<pc, installed, pending, frames, alarm, keys, sent, said>>

Own(c) == IF c = "child1" THEN 16 ELSE 17

installs_keys_first(p) ==               \* mutant: the parent's signal comes last
  IF p = "parent" THEN <<SIGINT, SIGQUIT, SIGALRM>> ELSE <<SIGINT, SIGQUIT, SIGALRM, Own(p)>>

(* The signals for which a process calls signal, in this order.            *)
installs(p) ==
  IF p = "parent" THEN <<SIGINT, SIGQUIT, SIGALRM>> ELSE <<Own(p), SIGINT, SIGQUIT, SIGALRM>>

Handled(p, s) == \E k \in 1 .. installed[p] : installs(p)[k] = s

(* waiting handles all but the child's own signal.                         *)
handler_all_inter(p, s) == "inter_handler"  \* mutant: nobody waits for the parent
handler(p, s) == IF p = "parent" \/ s = Own(p) THEN "inter_handler" ELSE "waiting"

Alive(p) == pc[p] \notin {"unborn", "zombie", "reaped"}
Top(p) == frames[p][Len(frames[p])]
Masked(p) == {frames[p][k].sig : k \in DOMAIN frames[p]}
Deliverable(p) == pending[p] \ Masked(p)
Blocked(p) == /\ Deliverable(p) = {}
              /\ IF frames[p] # <<>> THEN Top(p).at = "paused" ELSE pc[p] \in {"pause", "wait"}

Init ==
  /\ pc = [p \in Procs |-> IF p = "parent" THEN "fork1" ELSE "unborn"]
  /\ installed = [p \in Procs |-> 0] /\ pending = [p \in Procs |-> {}]
  /\ frames = [p \in Procs |-> <<>>]
  /\ alarm = "unset" /\ keys = 0 /\ sent = {} /\ said = {}

Goto(p, label) == pc' = [pc EXCEPT ![p] = label]

(* A process takes the signals that wait for it before its next step.      *)
Runs(p, label) == pc[p] = label /\ frames[p] = <<>> /\ Deliverable(p) = {}

(* 17 is SIGCHLD: with no handler it is dropped as it is sent.             *)
Send(ps, s) ==
  pending' = [p \in Procs |-> IF p \in ps /\ Alive(p) /\ (s = 17 => Handled(p, s))
                                THEN pending[p] \cup {s} ELSE pending[p]]

-----------------------------------------------------------------------------
(* Steps of all three.                                                     *)
signal(p) ==
  /\ Runs(p, "install") /\ installed[p] < Len(installs(p))
  /\ installed' = [installed EXCEPT ![p] = @ + 1]
  /\ UNCHANGED <<pc, pending, frames, alarm, keys, sent, said>>

pause(p) ==
  /\ Runs(p, "install") /\ installed[p] = Len(installs(p))
  /\ p = "parent" => alarm # "unset"
  /\ Goto(p, "pause")
  /\ UNCHANGED <<installed, pending, frames, alarm, keys, sent, said>>

AfterPause(p) == IF p = "parent" THEN "kill1" ELSE "print"

(* A signal reaches p: without a handler it ends p; inter_handler runs and *)
(* the pause it interrupts returns; waiting pauses in turn.                *)
deliver(p, s) ==
  /\ Alive(p) /\ s \in Deliverable(p) /\ \A t \in Deliverable(p) : s <= t
  /\ pending' = [pending EXCEPT ![p] = @ \ {s}]
  /\ \/ ~ Handled(p, s) /\ Goto(p, "zombie") /\ UNCHANGED frames
     \/ /\ Handled(p, s) /\ handler(p, s) = "inter_handler"
        /\ IF frames[p] # <<>>
             THEN /\ frames' = [frames EXCEPT ![p][Len(frames[p])].at =
                                  IF @ = "paused" THEN "return" ELSE @]
                  /\ UNCHANGED pc
             ELSE /\ Goto(p, IF pc[p] = "pause" THEN AfterPause(p) ELSE pc[p])
                  /\ UNCHANGED frames
     \/ /\ Handled(p, s) /\ handler(p, s) = "waiting"
        /\ frames' = [frames EXCEPT ![p] = Append(@, [sig |-> s, at |-> "enter"])]
        /\ UNCHANGED pc
  /\ UNCHANGED <<installed, alarm, keys, sent, said>>

waiting_again(p) ==                     \* mutant: while (1) pause();
  /\ frames[p] # <<>> /\ Alive(p)
  /\ Top(p).at \in {"enter", "return"}
  /\ frames' = [frames EXCEPT ![p][Len(frames[p])].at = "paused"]
  /\ UNCHANGED <<pc, installed, pending, alarm, keys, sent, said>>

(* waiting: calls pause, and returns once that has; then the pause that it *)
(* has interrupted returns as well.                                        *)
waiting(p) ==
  /\ frames[p] # <<>> /\ Alive(p)
  /\ \/ /\ Top(p).at = "enter"
        /\ frames' = [frames EXCEPT ![p][Len(frames[p])].at = "paused"]
        /\ UNCHANGED pc
     \/ /\ Top(p).at = "return"
        /\ LET rest == SubSeq(frames[p], 1, Len(frames[p]) - 1) IN
           IF rest # <<>>
             THEN /\ frames' = [frames EXCEPT ![p] =
                       [rest EXCEPT ![Len(rest)].at = IF @ = "paused" THEN "return" ELSE @]]
                  /\ UNCHANGED pc
             ELSE /\ frames' = [frames EXCEPT ![p] = <<>>]
                  /\ Goto(p, IF pc[p] = "pause" THEN AfterPause(p) ELSE pc[p])
  /\ UNCHANGED <<installed, pending, alarm, keys, sent, said>>

(* Its line, and its end.                                                  *)
print(p) ==
  /\ Runs(p, "print")
  /\ said' = said \cup {p} /\ Goto(p, "zombie")
  /\ UNCHANGED <<installed, pending, frames, alarm, keys, sent>>

(* Steps of the parent.                                                    *)
fork(c) ==
  /\ Runs("parent", IF c = "child1" THEN "fork1" ELSE "fork2")
  /\ pc' = [pc EXCEPT ![c] = "install", !["parent"] = IF c = "child1" THEN "fork2" ELSE "install"]
  /\ UNCHANGED <<installed, pending, frames, alarm, keys, sent, said>>

set_alarm ==
  /\ Runs("parent", "install") /\ installed["parent"] = 3 /\ alarm = "unset"
  /\ alarm' = "set"
  /\ UNCHANGED <<pc, installed, pending, frames, keys, sent, said>>

kill_first(c) ==                        \* mutant: both signals go to child1
  /\ Runs("parent", IF c = "child1" THEN "kill1" ELSE "kill2")
  /\ Send({"child1"}, Own(c)) /\ sent' = sent \cup {c}
  /\ Goto("parent", IF c = "child1" THEN "kill2" ELSE "wait")
  /\ UNCHANGED <<installed, frames, alarm, keys, said>>

kill(c) ==
  /\ Runs("parent", IF c = "child1" THEN "kill1" ELSE "kill2")
  /\ Send({c}, Own(c)) /\ sent' = sent \cup {c}
  /\ Goto("parent", IF c = "child1" THEN "kill2" ELSE "wait")
  /\ UNCHANGED <<installed, frames, alarm, keys, said>>

wait(c) ==
  /\ Runs("parent", "wait") /\ pc[c] = "zombie"
  /\ pc' = [pc EXCEPT ![c] = "reaped",
                      !["parent"] = IF \A d \in Children \ {c} : pc[d] = "reaped"
                                      THEN "print" ELSE "wait"]
  /\ UNCHANGED <<installed, pending, frames, alarm, keys, sent, said>>

(* External: the alarm rings, and keys reach the whole group while the     *)
(* parent lives.  Five seconds are longer than any steps: all are blocked. *)
ring ==
  /\ alarm = "set" /\ Alive("parent") /\ \A p \in Procs : Alive(p) => Blocked(p)
  /\ alarm' = "rung" /\ Send({"parent"}, SIGALRM)
  /\ UNCHANGED <<pc, installed, frames, keys, sent, said>>

key(s) ==
  /\ keys < MaxKeys /\ Alive("parent")
  /\ keys' = keys + 1 /\ Send(Procs, s)
  /\ UNCHANGED <<pc, installed, frames, alarm, sent, said>>

Process(p) ==
  \/ signal(p) \/ pause(p) \/ waiting(p) \/ print(p)
  \/ \E s \in pending[p] : deliver(p, s)
Parent == Process("parent") \/ set_alarm \/ \E c \in Children : fork(c) \/ kill(c) \/ wait(c)

Next == Parent \/ (\E c \in Children : Process(c)) \/ ring \/ \E s \in Keys : key(s)

Spec == Init /\ [][Next]_vars

(* The kernel runs each process that can go on, fork succeeds in the end   *)
(* and the alarm rings.                                                    *)
FairSpec == Spec /\ WF_vars(Parent) /\ (\A c \in Children : WF_vars(Process(c))) /\ WF_vars(ring)

-----------------------------------------------------------------------------
Gone(p) == pc[p] \in {"zombie", "reaped"}

(* A handler is never interrupted by its own signal.                       *)
TypeOK ==
  /\ pc \in [Procs -> {"unborn", "fork1", "fork2", "install", "pause", "kill1", "kill2", "wait",
                       "print", "zombie", "reaped"}]
  /\ \A p \in Procs : installed[p] \in 0 .. Len(installs(p)) /\ pending[p] \subseteq {2, 3, 14, 16, 17}
  /\ frames["parent"] = <<>>
  /\ \A c \in Children : \A k, l \in DOMAIN frames[c] :
       /\ frames[c][k].sig \in Keys \cup {SIGALRM} /\ frames[c][k].at \in {"enter", "paused", "return"}
       /\ frames[c][k].sig = frames[c][l].sig => k = l
  /\ alarm \in {"unset", "set", "rung"} /\ sent \subseteq Children /\ said \subseteq Procs

(* A child says that its parent has killed it only when that is so: no key *)
(* ends its pause (lab2/README.md:73).  The parent's line is the last: it  *)
(* has reaped both children before.                                        *)
LastWords ==
  /\ TypeOK
  /\ \A c \in said \ {"parent"} : c \in sent
  /\ "parent" \in said => \A c \in Children : pc[c] = "reaped"

(* lab2/README.md:71: when the parent signals a child, that has installed  *)
(* its handler (signal is the first thing it does), or a key that nothing  *)
(* handled yet has ended it or is about to: no signal of the parent is     *)
(* dropped or ends a child by itself.  And a child with its handlers in    *)
(* place ends with its line, by no key.                                    *)
SignalsHandled ==
  [][/\ \A c \in sent' \ sent : Handled(c, Own(c)) \/ Gone(c) \/ pending[c] \cap Keys # {}
     /\ \A c \in Children :
          ~ Gone(c) /\ Gone(c)' /\ installed[c] = Len(installs(c)) => c \in said']_vars

(* Without keys the alarm ends all three.                                  *)
Terminates == <>(keys > 0 \/ \A p \in Procs : Gone(p))

(* A child that waits, in its own pause or in the handler of a key or in   *)
(* one within another, goes on to its end once the parent's signal reaches *)
(* it, if no further key does.                                             *)
WaitingChildEnds ==
  \A c \in Children :
    /\ pc[c] = "pause" /\ pending[c] = {Own(c)} /\ keys = MaxKeys
    /\ \A k \in DOMAIN frames[c] : frames[c][k].at = "paused"
    ~> Gone(c)

(* lab2/README.md:174: the signal of the parent makes the child's pause    *)
(* return, so the child goes on to its end.                                *)
PauseReturns == \A c \in Children : c \in sent ~> Gone(c)
=============================================================================
