----------------------------- MODULE Signals_proofs -----------------------------
(* Theorems about Signals for any number of keys: a child's last words are true, *)
(* the parent's come last, and no signal of the parent comes too early.          *)
EXTENDS Signals, TLAPS

ChildLabels == {"unborn", "install", "pause", "print", "zombie", "reaped"}
ParentLabels == {"fork1", "fork2", "install", "pause", "kill1", "kill2", "wait", "print", "zombie"}
Frame == [sig : {2, 3, 14}, at : {"enter", "paused", "return"}]

(* TypeOK, with what differs between parent and children spelt out.        *)
Types ==
  /\ pc \in [Procs -> ChildLabels \cup ParentLabels]
  /\ pc["parent"] \in ParentLabels /\ \A c \in Children : pc[c] \in ChildLabels
  /\ installed \in [Procs -> Nat]
  /\ installed["parent"] <= 3 /\ \A c \in Children : installed[c] <= 4
  /\ pending \in [Procs -> SUBSET {2, 3, 14, 16, 17}]
  /\ pending["parent"] \subseteq {2, 3, 14}
  /\ \A c \in Children : pending[c] \subseteq {2, 3, Own(c)}
  /\ frames \in [Procs -> Seq(Frame)] /\ frames["parent"] = <<>>
  /\ alarm \in {"unset", "set", "rung"} /\ sent \subseteq Children /\ said \subseteq Procs

(* A handler is masked while it runs.                                      *)
Distinct == \A c \in Children : \A k, l \in DOMAIN frames[c] :
              frames[c][k].sig = frames[c][l].sig => k = l

(* The parent's signal is the only cause of a child's pause that returns.  *)
Returning(c) == pc[c] = "print" \/ \E k \in DOMAIN frames[c] : frames[c][k].at = "return"
OnlyParent == \A c \in Children :
                Own(c) \in pending[c] \/ Returning(c) \/ c \in said => c \in sent

ParentLast ==
  /\ pc["parent"] = "print" \/ "parent" \in said => \A c \in Children : pc[c] = "reaped"
  /\ "parent" \in said => pc["parent"] = "zombie"

(* How far a process has come with its signal calls, and the parent with   *)
(* its forks.                                                              *)
Installed ==
  /\ \A c \in Children : /\ pc[c] \in {"pause", "print"} => installed[c] = 4
                         /\ frames[c] # <<>> => installed[c] >= 2
  /\ alarm = "set" => installed["parent"] = 3
Born ==
  /\ pc["parent"] = "fork2" => pc["child1"] # "unborn"
  /\ pc["parent"] \in {"install", "pause", "kill1", "kill2", "wait", "print"}
       \/ installed["parent"] > 0 => \A c \in Children : pc[c] # "unborn"

(* Whatever makes the parent go on finds the children ready for its signal *)
(* or about to be ended by a key.                                          *)
Caught(c) == Handled(c, Own(c)) \/ Gone(c) \/ pending[c] \cap Keys # {}
ChildrenCaught ==
  pc["parent"] \in {"kill1", "kill2"} \/ (pending["parent"] # {} /\ installed["parent"] > 0)
    => \A c \in Children : Caught(c)

IInv == Types /\ Distinct /\ OnlyParent /\ ParentLast /\ Installed /\ Born /\ ChildrenCaught

-----------------------------------------------------------------------------
LEMMA ProcsDef == /\ "parent" \in Procs /\ Children \subseteq Procs
                  /\ "parent" \notin Children
                  /\ \A p \in Procs : p = "parent" \/ p \in Children
                  /\ "child1" \in Children /\ "child2" \in Children
                  /\ \A c \in Children : c = "child1" \/ c = "child2"
BY DEF Procs, Children

LEMMA OwnDef == \A c \in Children : Own(c) \in {16, 17}
BY DEF Own

LEMMA InstallsLen == Len(installs("parent")) = 3 /\ \A c \in Children : Len(installs(c)) = 4
BY ProcsDef DEF installs

(* A child installs its parent's signal first.                             *)
LEMMA HandledDef ==
  ASSUME Types
  PROVE  /\ \A c \in Children, s \in {2, 3, 14, 16, 17} :
              Handled(c, s) <=> \/ installed[c] >= 1 /\ s = Own(c)
                                \/ installed[c] >= 2 /\ s = 2
                                \/ installed[c] >= 3 /\ s = 3
                                \/ installed[c] >= 4 /\ s = 14
         /\ \A s \in {2, 3, 14} :
              Handled("parent", s) <=> \/ installed["parent"] >= 1 /\ s = 2
                                       \/ installed["parent"] >= 2 /\ s = 3
                                       \/ installed["parent"] >= 3 /\ s = 14
<1>1. ASSUME NEW c \in Children, NEW s \in {2, 3, 14, 16, 17}
      PROVE  Handled(c, s) <=> \/ installed[c] >= 1 /\ s = Own(c)
                               \/ installed[c] >= 2 /\ s = 2
                               \/ installed[c] >= 3 /\ s = 3
                               \/ installed[c] >= 4 /\ s = 14
  <2>1. installed[c] \in 0 .. 4 BY ProcsDef DEF Types
  <2>2. installs(c)[1] = Own(c) /\ installs(c)[2] = 2 /\ installs(c)[3] = 3 /\ installs(c)[4] = 14
    BY ProcsDef DEF installs, SIGINT, SIGQUIT, SIGALRM
  <2>3. \A k \in 1 .. installed[c] : k = 1 \/ k = 2 \/ k = 3 \/ k = 4 BY <2>1
  <2> QED BY <2>1, <2>2, <2>3 DEF Handled
<1>2. ASSUME NEW s \in {2, 3, 14}
      PROVE  Handled("parent", s) <=> \/ installed["parent"] >= 1 /\ s = 2
                                      \/ installed["parent"] >= 2 /\ s = 3
                                      \/ installed["parent"] >= 3 /\ s = 14
  <2>1. installed["parent"] \in 0 .. 3 BY ProcsDef DEF Types
  <2>2. installs("parent")[1] = 2 /\ installs("parent")[2] = 3 /\ installs("parent")[3] = 14
    BY DEF installs, SIGINT, SIGQUIT, SIGALRM
  <2>3. \A k \in 1 .. installed["parent"] : k = 1 \/ k = 2 \/ k = 3 BY <2>1
  <2> QED BY <2>1, <2>2, <2>3 DEF Handled
<1> QED BY <1>1, <1>2

LEMMA InitInv == Init => IInv
<1> SUFFICES ASSUME Init PROVE IInv OBVIOUS
<1>1. \A c \in Children : /\ pc[c] = "unborn" /\ installed[c] = 0 /\ pending[c] = {}
                          /\ frames[c] = <<>>
  BY ProcsDef DEF Init
<1>2. /\ pc["parent"] = "fork1" /\ installed["parent"] = 0 /\ pending["parent"] = {}
      /\ frames["parent"] = <<>>
  BY ProcsDef DEF Init
<1>3. Types
  <2>1. frames \in [Procs -> Seq(Frame)] BY DEF Init
  <2>2. pc \in [Procs -> ChildLabels \cup ParentLabels] BY DEF Init, ChildLabels, ParentLabels
  <2>3. installed \in [Procs -> Nat] /\ pending \in [Procs -> SUBSET {2, 3, 14, 16, 17}]
    BY DEF Init
  <2>4. pc["parent"] \in ParentLabels /\ \A c \in Children : pc[c] \in ChildLabels
    BY <1>1, <1>2 DEF ChildLabels, ParentLabels
  <2>5. installed["parent"] <= 3 /\ \A c \in Children : installed[c] <= 4
    BY <1>1, <1>2
  <2>6. alarm = "unset" /\ sent = {} /\ said = {} BY DEF Init
  <2> QED BY <1>1, <1>2, <2>1, <2>2, <2>3, <2>4, <2>5, <2>6 DEF Types
<1>4. Distinct BY <1>1 DEF Distinct
<1>5. OnlyParent
  <2>1. \A c \in Children : ~ Returning(c) BY <1>1 DEF Returning
  <2>2. said = {} BY DEF Init
  <2> QED BY <1>1, <2>1, <2>2 DEF OnlyParent
<1>6. ParentLast /\ Installed BY <1>1, <1>2 DEF Init, ParentLast, Installed
<1>7. Born /\ ChildrenCaught BY <1>2 DEF Born, ChildrenCaught
<1> QED BY <1>3, <1>4, <1>5, <1>6, <1>7 DEF IInv

-----------------------------------------------------------------------------
(* The steps that leave every handler alone.                               *)
LEMMA RunsDef ==
  ASSUME Types, NEW l, Runs("parent", l) PROVE pc["parent"] = l /\ pending["parent"] = {}
BY DEF Types, Runs, Deliverable, Masked

LEMMA CaughtStays ==
  ASSUME NEW c \in Children, installed[c] \in Nat, installed'[c] \in Nat,
         installed'[c] >= installed[c], Gone(c) => Gone(c)',
         pending[c] \cap Keys \subseteq pending'[c], Caught(c)
  PROVE  Caught(c)'
<1>1. Handled(c, Own(c)) => Handled(c, Own(c))' BY DEF Handled
<1> QED BY <1>1 DEF Caught

LEMMA SignalInv == ASSUME IInv, NEW p \in Procs, signal(p) PROVE IInv'
<1> USE DEF IInv
<1>1. /\ installed[p] < (IF p = "parent" THEN 3 ELSE 4) /\ pc[p] = "install"
      /\ installed' = [installed EXCEPT ![p] = @ + 1]
      /\ UNCHANGED <<pc, pending, frames, alarm, keys, sent, said>>
  BY InstallsLen, ProcsDef DEF signal, Runs
<1>2. p = "parent" => pending["parent"] = {} BY RunsDef DEF signal
<1>3. installed' \in [Procs -> Nat] BY <1>1, ProcsDef DEF Types
<1>4. \A q \in Procs : installed'[q] >= installed[q] /\ installed'[q] \in Nat
  BY <1>1, <1>3 DEF Types
<1>5. Types'
  <2>1. installed'["parent"] <= 3 /\ \A c \in Children : installed'[c] <= 4
    BY <1>1, ProcsDef DEF Types
  <2> QED BY <1>1, <1>3, <2>1 DEF Types
<1>6. Distinct' /\ OnlyParent' /\ ParentLast'
  BY <1>1 DEF Distinct, OnlyParent, Returning, ParentLast
<1>7. Installed' BY <1>1, <1>4, ProcsDef DEF Installed, Types
<1>8. Born' BY <1>1, ProcsDef DEF Born, Types
<1>9. ChildrenCaught'
  <2>1. \A c \in Children : Caught(c) => Caught(c)'
    BY <1>1, <1>4, CaughtStays, ProcsDef DEF Types, Gone
  <2> QED BY <1>1, <1>2, <2>1, ProcsDef DEF ChildrenCaught, Types
<1> QED BY <1>5, <1>6, <1>7, <1>8, <1>9

LEMMA PauseInv == ASSUME IInv, NEW p \in Procs, pause(p) PROVE IInv'
<1> USE DEF IInv
<1>1. /\ pc[p] = "install" /\ pc' = [pc EXCEPT ![p] = "pause"]
      /\ installed[p] = (IF p = "parent" THEN 3 ELSE 4)
      /\ UNCHANGED <<installed, pending, frames, alarm, keys, sent, said>>
  BY InstallsLen, ProcsDef DEF pause, Runs, Goto
<1>2. \A q \in Procs : pc'[q] = IF q = p THEN "pause" ELSE pc[q] BY <1>1 DEF Types
<1>3. Types' BY <1>1, <1>2, ProcsDef DEF Types, ChildLabels, ParentLabels
<1>4. Distinct' BY <1>1 DEF Distinct
<1>5. OnlyParent' BY <1>1, <1>2, ProcsDef DEF OnlyParent, Returning
<1>6. ParentLast' /\ Installed' /\ Born'
  BY <1>1, <1>2, ProcsDef DEF ParentLast, Installed, Born
<1>7. \A c \in Children : Caught(c) => Caught(c)'
  <2>1. \A c \in Children : Gone(c) => Gone(c)' BY <1>1, <1>2, ProcsDef DEF Gone
  <2> QED BY <1>1, <2>1, CaughtStays, ProcsDef DEF Types
<1>8. ChildrenCaught' BY <1>1, <1>2, <1>7, ProcsDef DEF ChildrenCaught
<1> QED BY <1>3, <1>4, <1>5, <1>6, <1>8

LEMMA PrintInv == ASSUME IInv, NEW p \in Procs, print(p) PROVE IInv'
<1> USE DEF IInv
<1>1. /\ pc[p] = "print" /\ pc' = [pc EXCEPT ![p] = "zombie"] /\ said' = said \cup {p}
      /\ UNCHANGED <<installed, pending, frames, alarm, keys, sent>>
  BY DEF print, Runs, Goto
<1>2. \A q \in Procs : pc'[q] = IF q = p THEN "zombie" ELSE pc[q] BY <1>1 DEF Types
<1>3. Types' BY <1>1, <1>2, ProcsDef DEF Types, ChildLabels, ParentLabels
<1>4. Distinct' BY <1>1 DEF Distinct
<1>5. OnlyParent' BY <1>1, <1>2, ProcsDef DEF OnlyParent, Returning
<1>6. ParentLast' /\ Installed' /\ Born'
  BY <1>1, <1>2, ProcsDef DEF ParentLast, Installed, Born
<1>7. \A c \in Children : Caught(c) => Caught(c)'
  BY <1>1, <1>2, CaughtStays, ProcsDef DEF Types, Gone
<1>8. ChildrenCaught' BY <1>1, <1>2, <1>7, ProcsDef DEF ChildrenCaught
<1> QED BY <1>3, <1>4, <1>5, <1>6, <1>8

LEMMA ForkInv == ASSUME IInv, NEW c \in Children, fork(c) PROVE IInv'
<1> USE DEF IInv
<1> DEFINE next == IF c = "child1" THEN "fork2" ELSE "install"
<1>1. /\ pc["parent"] = (IF c = "child1" THEN "fork1" ELSE "fork2")
      /\ pc' = [pc EXCEPT ![c] = "install", !["parent"] = next]
      /\ UNCHANGED <<installed, pending, frames, alarm, keys, sent, said>>
  BY DEF fork, Runs
<1>2. /\ pc'["parent"] = next /\ pc'[c] = "install"
      /\ \A d \in Children \ {c} : pc'[d] = pc[d]
  BY <1>1, ProcsDef DEF Types
<1>3. pending["parent"] = {} BY RunsDef DEF fork
<1>4. Types'
  <2>1. pc' \in [Procs -> ChildLabels \cup ParentLabels]
    BY <1>1, ProcsDef DEF Types, ChildLabels, ParentLabels
  <2>2. pc'["parent"] \in ParentLabels /\ \A d \in Children : pc'[d] \in ChildLabels
    BY <1>2, ProcsDef DEF Types, ChildLabels, ParentLabels
  <2> QED BY <1>1, <2>1, <2>2 DEF Types
<1>5. Distinct' BY <1>1 DEF Distinct
<1>6. OnlyParent' BY <1>1, <1>2, ProcsDef DEF OnlyParent, Returning
<1>7. ParentLast' /\ Installed' /\ Born'
  <2>1. ParentLast'
    <3>1. pc["parent"] \in {"fork1", "fork2"} /\ pc'["parent"] \in {"fork2", "install"} BY <1>1, <1>2
    <3> QED BY <1>1, <3>1 DEF ParentLast
  <2>2. Installed'
    <3>1. \A d \in Children : pc'[d] \in {"pause", "print"} => pc[d] = pc'[d] BY <1>2
    <3> QED BY <1>1, <3>1 DEF Installed
  <2>3. Born'
    <3>1. \A d \in Children : pc[d] # "unborn" => pc'[d] # "unborn" BY <1>2
    <3>2. CASE c = "child1"
      <4>1. pc'["parent"] = "fork2" /\ pc'["child1"] = "install" BY <1>2, <3>2
      <4>2. installed["parent"] > 0 => \A d \in Children : pc[d] # "unborn" BY DEF Born
      <4> QED BY <1>1, <3>1, <4>1, <4>2 DEF Born
    <3>3. CASE c = "child2" BY <1>1, <1>2, <3>1, <3>3, ProcsDef DEF Born
    <3> QED BY <3>2, <3>3, ProcsDef
  <2> QED BY <2>1, <2>2, <2>3
<1>8. ChildrenCaught' BY <1>1, <1>2, <1>3, ProcsDef DEF ChildrenCaught
<1> QED BY <1>4, <1>5, <1>6, <1>7, <1>8

LEMMA SetAlarmInv == ASSUME IInv, set_alarm PROVE IInv'
<1> USE DEF IInv
<1>1. /\ installed["parent"] = 3 /\ alarm' = "set"
      /\ UNCHANGED <<pc, installed, pending, frames, keys, sent, said>>
  BY DEF set_alarm
<1>2. Types' /\ Distinct' BY <1>1 DEF Types, Distinct
<1>3. OnlyParent' /\ ParentLast' BY <1>1 DEF OnlyParent, Returning, ParentLast
<1>4. Installed' /\ Born' BY <1>1 DEF Installed, Born
<1>5. ChildrenCaught' BY <1>1 DEF ChildrenCaught, Caught, Handled, Gone
<1> QED BY <1>2, <1>3, <1>4, <1>5

LEMMA WaitInv == ASSUME IInv, NEW c \in Children, wait(c) PROVE IInv'
<1> USE DEF IInv
<1> DEFINE next == IF \A d \in Children \ {c} : pc[d] = "reaped" THEN "print" ELSE "wait"
<1>1. /\ pc["parent"] = "wait" /\ pc[c] = "zombie"
      /\ pc' = [pc EXCEPT ![c] = "reaped", !["parent"] = next]
      /\ UNCHANGED <<installed, pending, frames, alarm, keys, sent, said>>
  BY DEF wait, Runs
<1>2. /\ pc'["parent"] = next /\ pc'[c] = "reaped"
      /\ \A d \in Children \ {c} : pc'[d] = pc[d]
  BY <1>1, ProcsDef DEF Types
<1>3. pending["parent"] = {} BY RunsDef DEF wait
<1>4. Types'
  <2>1. pc' \in [Procs -> ChildLabels \cup ParentLabels]
    BY <1>1, ProcsDef DEF Types, ChildLabels, ParentLabels
  <2>2. pc'["parent"] \in ParentLabels /\ \A d \in Children : pc'[d] \in ChildLabels
    BY <1>2, ProcsDef DEF Types, ChildLabels, ParentLabels
  <2> QED BY <1>1, <2>1, <2>2 DEF Types
<1>5. Distinct' BY <1>1 DEF Distinct
<1>6. OnlyParent' BY <1>1, <1>2, ProcsDef DEF OnlyParent, Returning
<1>7. ParentLast' BY <1>1, <1>2, ProcsDef DEF ParentLast
<1>8. Installed' /\ Born'
  <2>1. Installed'
    <3>1. \A d \in Children : pc'[d] \in {"pause", "print"} => pc[d] = pc'[d] BY <1>2
    <3> QED BY <1>1, <3>1 DEF Installed
  <2>2. Born'
    <3>1. \A d \in Children : pc'[d] # "unborn" BY <1>1, <1>2 DEF Born
    <3> QED BY <1>2, <3>1 DEF Born
  <2> QED BY <2>1, <2>2
<1>9. ChildrenCaught' BY <1>1, <1>2, <1>3, ProcsDef DEF ChildrenCaught
<1> QED BY <1>4, <1>5, <1>6, <1>7, <1>8, <1>9

-----------------------------------------------------------------------------
(* The steps that send a signal.                                           *)
LEMMA KillInv == ASSUME IInv, NEW c \in Children, kill(c) PROVE IInv'
<1> USE DEF IInv
<1> DEFINE next == IF c = "child1" THEN "kill2" ELSE "wait"
<1>1. /\ pc["parent"] \in {"kill1", "kill2"} /\ pc' = [pc EXCEPT !["parent"] = next]
      /\ sent' = sent \cup {c}
      /\ UNCHANGED <<installed, frames, alarm, keys, said>>
  BY DEF kill, Runs, Goto
<1>2. \A q \in Procs : pc'[q] = IF q = "parent" THEN next ELSE pc[q] BY <1>1 DEF Types
<1>3. /\ pending' \in [Procs -> SUBSET {2, 3, 14, 16, 17}]
      /\ \A q \in Procs : pending'[q] = pending[q] \/ (q = c /\ pending'[q] = pending[q] \cup {Own(c)})
  BY OwnDef DEF kill, Send, Types
<1>4. Types'
  <2>1. pc' \in [Procs -> ChildLabels \cup ParentLabels]
    BY <1>1, ProcsDef DEF Types, ChildLabels, ParentLabels
  <2>2. pc'["parent"] \in ParentLabels /\ \A d \in Children : pc'[d] \in ChildLabels
    BY <1>2, ProcsDef DEF Types, ParentLabels
  <2>3. pending'["parent"] \subseteq {2, 3, 14}
    BY <1>3, ProcsDef DEF Types
  <2>4. ASSUME NEW d \in Children PROVE pending'[d] \subseteq {2, 3, Own(d)}
    <3>1. pending'[d] = pending[d] \/ pending'[d] = pending[d] \cup {Own(d)} BY <1>3, ProcsDef
    <3> QED BY <3>1 DEF Types
  <2> QED BY <1>1, <1>3, <2>1, <2>2, <2>3, <2>4 DEF Types
<1>5. Distinct' BY <1>1 DEF Distinct
<1>6. OnlyParent'
  <2>1. \A d \in Children : Returning(d)' = Returning(d) BY <1>1, <1>2, ProcsDef DEF Returning
  <2> QED BY <1>1, <1>3, <2>1, ProcsDef DEF OnlyParent
<1>7. ParentLast' /\ Installed' /\ Born'
  BY <1>1, <1>2, ProcsDef DEF ParentLast, Installed, Born
<1>8. \A d \in Children : Caught(d) => Caught(d)'
  <2>1. \A d \in Children : Gone(d) => Gone(d)' BY <1>2, ProcsDef DEF Gone
  <2>2. \A d \in Children : pending[d] \subseteq pending'[d] BY <1>3, ProcsDef
  <2>3. \A d \in Children : installed[d] \in Nat /\ installed'[d] = installed[d]
    BY <1>1, ProcsDef DEF Types
  <2>4. ASSUME NEW d \in Children, Caught(d) PROVE Caught(d)'
    <3>1. pending[d] \cap Keys \subseteq pending'[d] BY <2>2
    <3>2. installed'[d] \in Nat /\ installed'[d] >= installed[d] BY <2>3
    <3> QED BY <2>1, <2>3, <2>4, <3>1, <3>2, CaughtStays
  <2> QED BY <2>4
<1>9. ChildrenCaught' BY <1>1, <1>8, ProcsDef DEF ChildrenCaught
<1> QED BY <1>4, <1>5, <1>6, <1>7, <1>9

(* The alarm rings when all that live are blocked: both children have      *)
(* their handlers by then.                                                 *)
LEMMA RingInv == ASSUME IInv, ring PROVE IInv'
<1> USE DEF IInv
<1>1. /\ alarm = "set" /\ alarm' = "rung"
      /\ UNCHANGED <<pc, installed, frames, keys, sent, said>>
  BY DEF ring
<1>2. /\ pending' \in [Procs -> SUBSET {2, 3, 14, 16, 17}]
      /\ pending'["parent"] \subseteq pending["parent"] \cup {14}
      /\ \A c \in Children : pending'[c] = pending[c]
  BY ProcsDef DEF ring, Send, Types, SIGALRM
<1>3. Types'
  <2>1. pending'["parent"] \subseteq {2, 3, 14} BY <1>2 DEF Types
  <2>2. \A c \in Children : pending'[c] \subseteq {2, 3, Own(c)} BY <1>2 DEF Types
  <2> QED BY <1>1, <1>2, <2>1, <2>2 DEF Types
<1>4. Distinct' /\ ParentLast' BY <1>1 DEF Distinct, ParentLast
<1>5. OnlyParent' BY <1>1, <1>2 DEF OnlyParent, Returning
<1>6. Installed' /\ Born' BY <1>1 DEF Installed, Born
<1>7. ChildrenCaught'
  <2> SUFFICES ASSUME NEW c \in Children PROVE Caught(c)'
    BY DEF ChildrenCaught
  <2>1. pc[c] # "unborn" BY <1>1 DEF Installed, Born
  <2>2. CASE Gone(c) BY <1>1, <2>2 DEF Caught, Gone
  <2>3. CASE ~ Gone(c)
    <3>1. Blocked(c) BY <2>1, <2>3, ProcsDef DEF ring, Alive, Gone
    <3>2. installed[c] >= 1
      <4>1. installed[c] \in Nat /\ pc[c] \in ChildLabels BY ProcsDef DEF Types
      <4>2. CASE frames[c] # <<>> BY <4>1, <4>2 DEF Installed
      <4>3. CASE frames[c] = <<>>
        <5>1. pc[c] = "pause" BY <3>1, <4>1, <4>3 DEF Blocked, ChildLabels
        <5> QED BY <4>1, <5>1 DEF Installed
      <4> QED BY <4>2, <4>3
    <3>3. Handled(c, Own(c)) BY <3>2, HandledDef, OwnDef
    <3> QED BY <1>1, <3>3 DEF Caught, Handled
  <2> QED BY <2>2, <2>3
<1> QED BY <1>3, <1>4, <1>5, <1>6, <1>7

(* A key that reaches the parent reaches the children at the same time.    *)
LEMMA KeyInv == ASSUME IInv, NEW s \in Keys, key(s) PROVE IInv'
<1> USE DEF IInv
<1>1. UNCHANGED <<pc, installed, frames, alarm, sent, said>> BY DEF key
<1>2. s \in {2, 3} BY DEF Keys, SIGINT, SIGQUIT
<1>3. /\ pending' \in [Procs -> SUBSET {2, 3, 14, 16, 17}]
      /\ \A p \in Procs : pending'[p] = IF Alive(p) THEN pending[p] \cup {s} ELSE pending[p]
  BY <1>2 DEF key, Send, Types
<1>4. Types'
  <2>1. pending'["parent"] \subseteq {2, 3, 14}
    <3>1. pending'["parent"] \subseteq pending["parent"] \cup {s} BY <1>3, ProcsDef
    <3> QED BY <1>2, <3>1 DEF Types
  <2>2. ASSUME NEW c \in Children PROVE pending'[c] \subseteq {2, 3, Own(c)}
    <3>1. pending'[c] \subseteq pending[c] \cup {s} BY <1>3, ProcsDef
    <3> QED BY <1>2, <3>1 DEF Types
  <2> QED BY <1>1, <1>3, <2>1, <2>2 DEF Types
<1>5. Distinct' /\ ParentLast' BY <1>1 DEF Distinct, ParentLast
<1>6. OnlyParent'
  <2>1. \A c \in Children : Own(c) \in pending'[c] => Own(c) \in pending[c]
    BY <1>2, <1>3, OwnDef, ProcsDef
  <2> QED BY <1>1, <2>1 DEF OnlyParent, Returning
<1>7. Installed' /\ Born' BY <1>1 DEF Installed, Born
<1>8. ChildrenCaught'
  <2> SUFFICES ASSUME NEW c \in Children,
                      pc["parent"] \in {"kill1", "kill2"} \/ installed["parent"] > 0
               PROVE  Caught(c)'
    BY <1>1 DEF ChildrenCaught
  <2>1. pc[c] # "unborn" BY DEF Born
  <2>2. CASE Gone(c) BY <1>1, <2>2 DEF Caught, Gone
  <2>3. CASE ~ Gone(c)
    <3>1. s \in pending'[c] BY <1>3, <2>1, <2>3, ProcsDef DEF Alive, Gone
    <3> QED BY <3>1 DEF Caught
  <2> QED BY <2>2, <2>3
<1> QED BY <1>4, <1>5, <1>6, <1>7, <1>8

-----------------------------------------------------------------------------
(* What the code does to the newest call of waiting.                       *)
LEMMA ChangeTop ==
  ASSUME NEW f \in Seq(Frame), f # <<>>, NEW at \in {"enter", "paused", "return"}
  PROVE  LET g == [f EXCEPT ![Len(f)].at = at]
         IN  /\ g \in Seq(Frame) /\ g # <<>> /\ DOMAIN g = DOMAIN f
             /\ \A k \in DOMAIN f : g[k].sig = f[k].sig
             /\ \A k \in DOMAIN f : g[k].at = "return" => f[k].at = "return" \/ at = "return"
<1> DEFINE g == [f EXCEPT ![Len(f)].at = at]
<1>1. Len(f) \in 1 .. Len(f) /\ DOMAIN f = 1 .. Len(f) OBVIOUS
<1>2. f[Len(f)] \in Frame BY <1>1
<1>3. g = [f EXCEPT ![Len(f)] = [f[Len(f)] EXCEPT !.at = at]] OBVIOUS
<1>4. [f[Len(f)] EXCEPT !.at = at] \in Frame BY <1>2 DEF Frame
<1>5. g \in Seq(Frame) /\ DOMAIN g = DOMAIN f BY <1>1, <1>3, <1>4
<1>6. \A k \in DOMAIN f : g[k] = IF k = Len(f) THEN [f[k] EXCEPT !.at = at] ELSE f[k] BY <1>3
<1>7. \A k \in DOMAIN f : f[k] \in Frame BY <1>1
<1>8. \A k \in DOMAIN f : g[k].sig = f[k].sig BY <1>6, <1>7 DEF Frame
<1>9. \A k \in DOMAIN f : g[k].at = "return" => f[k].at = "return" \/ at = "return"
  BY <1>6, <1>7 DEF Frame
<1>10. g # <<>> BY <1>1, <1>5
<1> QED BY <1>5, <1>8, <1>9, <1>10

LEMMA DropTop ==
  ASSUME NEW f \in Seq(Frame), f # <<>>
  PROVE  LET rest == SubSeq(f, 1, Len(f) - 1)
         IN  /\ rest \in Seq(Frame) /\ DOMAIN rest \subseteq DOMAIN f
             /\ \A k \in DOMAIN rest : rest[k] = f[k]
OBVIOUS

LEMMA PushFrame ==
  ASSUME NEW f \in Seq(Frame), NEW x \in Frame
  PROVE  LET g == Append(f, x)
         IN  /\ g \in Seq(Frame) /\ DOMAIN g = DOMAIN f \cup {Len(f) + 1}
             /\ g[Len(f) + 1] = x /\ \A k \in DOMAIN f : g[k] = f[k]
OBVIOUS

(* Each list of frames a step may leave is in order when it adds no signal *)
(* twice, and a child returns from a pause only if its parent has sent.    *)
LEMMA FramesInv ==
  ASSUME IInv, NEW c \in Children, NEW g \in Seq(Frame),
         frames' = [frames EXCEPT ![c] = g],
         \A k \in DOMAIN g : k \in DOMAIN frames[c] /\ g[k].sig = frames[c][k].sig
  PROVE  /\ frames' \in [Procs -> Seq(Frame)] /\ frames'["parent"] = <<>> /\ frames'[c] = g
         /\ \A d \in Children \ {c} : frames'[d] = frames[d]
         /\ Distinct'
<1>1. /\ frames' \in [Procs -> Seq(Frame)] /\ frames'["parent"] = <<>> /\ frames'[c] = g
      /\ \A d \in Children \ {c} : frames'[d] = frames[d]
  BY ProcsDef DEF IInv, Types
<1>2. \A k, l \in DOMAIN g : g[k].sig = g[l].sig => k = l BY DEF IInv, Distinct
<1> QED BY <1>1, <1>2 DEF IInv, Distinct

(* The call of waiting of one child that a step goes on with.              *)
LEMMA WaitingInv == ASSUME IInv, NEW p \in Procs, waiting(p) PROVE IInv'
<1> USE DEF IInv
<1>1. p \in Children /\ frames[p] # <<>> /\ frames[p] \in Seq(Frame)
  BY ProcsDef DEF waiting, Types
<1>2. UNCHANGED <<installed, pending, alarm, keys, sent, said>> BY DEF waiting
<1> DEFINE rest == SubSeq(frames[p], 1, Len(frames[p]) - 1)
<1>3. Alive(p) BY DEF waiting
<1>4. \A c \in Children : Caught(c) /\ (Gone(c) <=> Gone(c)') => Caught(c)'
  BY <1>2 DEF Caught, Handled
(* The step by what it does to the frames and to the child's next step.    *)
<1>5. ASSUME NEW g \in Seq(Frame), frames' = [frames EXCEPT ![p] = g],
             \A k \in DOMAIN g : k \in DOMAIN frames[p] /\ g[k].sig = frames[p][k].sig,
             \A k \in DOMAIN g : g[k].at = "return" => p \in sent,
             pc' = pc \/ (pc' = [pc EXCEPT ![p] = "print"] /\ pc[p] = "pause" /\ p \in sent)
      PROVE  IInv'
  <2>1. /\ frames' \in [Procs -> Seq(Frame)] /\ frames'["parent"] = <<>> /\ frames'[p] = g
        /\ \A d \in Children \ {p} : frames'[d] = frames[d]
        /\ Distinct'
    BY <1>1, <1>5, FramesInv
  <2>2. \A q \in Procs : pc'[q] = pc[q] \/ (q = p /\ pc[p] = "pause" /\ pc'[p] = "print" /\ p \in sent)
    BY <1>5 DEF Types
  <2>3. pc'["parent"] = pc["parent"] BY <1>1, <2>2, ProcsDef
  <2>4. Types'
    <3>1. pc' \in [Procs -> ChildLabels \cup ParentLabels]
      BY <1>5 DEF Types, ChildLabels
    <3>2. pc'["parent"] \in ParentLabels /\ \A c \in Children : pc'[c] \in ChildLabels
      BY <2>2, <2>3, ProcsDef DEF Types, ChildLabels
    <3> QED BY <1>2, <2>1, <3>1, <3>2 DEF Types
  <2>5. OnlyParent'
    <3>1. \A c \in Children \ {p} : Returning(c)' = Returning(c)
      BY <1>1, <2>1, <2>2, ProcsDef DEF Returning
    <3>2. Returning(p)' => p \in sent
      BY <1>1, <1>5, <2>1, <2>2 DEF Returning, OnlyParent
    <3> QED BY <1>2, <3>1, <3>2 DEF OnlyParent
  <2>6. ParentLast' BY <1>2, <2>2, <2>3, ProcsDef DEF ParentLast
  <2>7. Installed'
    <3>1. ASSUME NEW c \in Children
          PROVE  (pc'[c] \in {"pause", "print"} => installed[c] = 4)
                 /\ (frames'[c] # <<>> => installed[c] >= 2)
      <4>1. pc'[c] \in {"pause", "print"} => pc[c] \in {"pause", "print"} BY <2>2, ProcsDef
      <4>2. frames'[c] # <<>> => frames[c] # <<>> BY <1>1, <2>1
      <4> QED BY <4>1, <4>2 DEF Installed
    <3> QED BY <1>2, <3>1 DEF Installed
  <2>8. Born' BY <1>2, <2>2, <2>3, ProcsDef DEF Born
  <2>9. ChildrenCaught'
    <3>1. \A c \in Children : Gone(c) <=> Gone(c)' BY <2>2, ProcsDef DEF Gone
    <3> QED BY <1>2, <1>4, <2>3, <3>1 DEF ChildrenCaught
  <2> QED BY <2>1, <2>4, <2>5, <2>6, <2>7, <2>8, <2>9
<1>6. Len(frames[p]) \in DOMAIN frames[p] /\ Top(p) = frames[p][Len(frames[p])]
  BY <1>1 DEF Top
<1>7. CASE Top(p).at = "enter"
  <2> DEFINE g == [frames[p] EXCEPT ![Len(frames[p])].at = "paused"]
  <2>1. frames' = [frames EXCEPT ![p] = g] /\ pc' = pc BY <1>7 DEF waiting
  <2>2. /\ g \in Seq(Frame) /\ DOMAIN g = DOMAIN frames[p]
        /\ \A k \in DOMAIN frames[p] : g[k].sig = frames[p][k].sig
        /\ \A k \in DOMAIN frames[p] : g[k].at = "return" => frames[p][k].at = "return"
    BY <1>1, ChangeTop
  <2>3. \A k \in DOMAIN g : g[k].at = "return" => p \in sent
    BY <1>1, <2>2 DEF OnlyParent, Returning
  <2> QED BY <1>5, <2>1, <2>2, <2>3
<1>8. CASE Top(p).at = "return"
  <2>1. p \in sent BY <1>1, <1>6, <1>8 DEF OnlyParent, Returning
  <2>2. /\ rest \in Seq(Frame) /\ DOMAIN rest \subseteq DOMAIN frames[p]
        /\ \A k \in DOMAIN rest : rest[k] = frames[p][k]
    BY <1>1, DropTop
  <2>3. CASE rest # <<>>
    <3> DEFINE at == IF rest[Len(rest)].at = "paused" THEN "return" ELSE rest[Len(rest)].at
               g  == [rest EXCEPT ![Len(rest)].at = at]
    <3>1. frames' = [frames EXCEPT ![p] = g] /\ pc' = pc BY <1>8, <2>3 DEF waiting
    <3>2. at \in {"enter", "paused", "return"}
      <4>1. rest[Len(rest)] \in Frame BY <2>2, <2>3
      <4> QED BY <4>1 DEF Frame
    <3> HIDE DEF rest, at
    <3>3. /\ g \in Seq(Frame) /\ DOMAIN g = DOMAIN rest
          /\ \A k \in DOMAIN rest : g[k].sig = rest[k].sig
      BY <2>2, <2>3, <3>2, ChangeTop
    <3> HIDE DEF g
    <3>4. \A k \in DOMAIN g : k \in DOMAIN frames[p] /\ g[k].sig = frames[p][k].sig
      BY <2>2, <3>3
    <3>5. \A k \in DOMAIN g : g[k].at = "return" => p \in sent BY <2>1
    <3> QED BY <1>5, <3>1, <3>3, <3>4, <3>5
  <2>4. CASE rest = <<>>
    <3>1. frames' = [frames EXCEPT ![p] = <<>>] BY <1>8, <2>4 DEF waiting
    <3>2. pc' = pc \/ (pc' = [pc EXCEPT ![p] = "print"] /\ pc[p] = "pause")
      <4>1. pc' = [pc EXCEPT ![p] = IF pc[p] = "pause" THEN "print" ELSE pc[p]]
        BY <1>1, <1>8, <2>4, ProcsDef DEF waiting, Goto, AfterPause
      <4> QED BY <4>1 DEF Types
    <3>3. <<>> \in Seq(Frame) /\ \A k \in DOMAIN <<>> : FALSE OBVIOUS
    <3> QED BY <1>5, <2>1, <3>1, <3>2, <3>3
  <2> QED BY <2>3, <2>4
<1> QED BY <1>7, <1>8 DEF waiting

(* A signal is delivered: it ends its process, goes to inter_handler, or   *)
(* starts a call of waiting.                                               *)
LEMMA DeliverInv == ASSUME IInv, NEW p \in Procs, NEW s \in pending[p], deliver(p, s) PROVE IInv'
<1> USE DEF IInv
<1>1. /\ Alive(p) /\ pending' = [pending EXCEPT ![p] = @ \ {s}]
      /\ UNCHANGED <<installed, alarm, keys, sent, said>>
  BY DEF deliver
<1>2. pending' \in [Procs -> SUBSET {2, 3, 14, 16, 17}] BY <1>1 DEF Types
<1>3. \A q \in Procs : pending'[q] = IF q = p THEN pending[q] \ {s} ELSE pending[q]
  BY <1>1 DEF Types
<1>4. \A q \in Procs : pending'[q] \subseteq pending[q] BY <1>3
<1>5. /\ pending'["parent"] \subseteq {2, 3, 14}
      /\ \A c \in Children : pending'[c] \subseteq {2, 3, Own(c)}
  <2>1. pending'["parent"] \subseteq {2, 3, 14} BY <1>4, ProcsDef DEF Types
  <2>2. ASSUME NEW c \in Children PROVE pending'[c] \subseteq {2, 3, Own(c)}
    BY <1>4, ProcsDef DEF Types
  <2> QED BY <2>1, <2>2
(* A child is caught as long as it lives, as its own signal has been       *)
(* handled before any key is.                                              *)
<1>6. ASSUME NEW c \in Children, Caught(c), Gone(c) => Gone(c)',
             p = c /\ s \in Keys /\ ~ Handled(c, s) => Gone(c)'
      PROVE  Caught(c)'
  <2>1. Handled(c, Own(c)) => Handled(c, Own(c))' BY <1>1 DEF Handled
  <2>2. ASSUME p = c, s \in Keys, Handled(c, s) PROVE Handled(c, Own(c))
    <3>1. s \in {2, 3} BY <2>2 DEF Keys, SIGINT, SIGQUIT
    <3>2. installed[c] \in Nat BY ProcsDef DEF Types
    <3>3. installed[c] >= 1 BY <2>2, <3>1, <3>2, HandledDef, OwnDef
    <3> QED BY <3>3, HandledDef, OwnDef
  <2>3. CASE p = c /\ s \in Keys BY <1>6, <2>1, <2>2, <2>3 DEF Caught
  <2>4. CASE p # c \/ s \notin Keys
    <3>1. pending[c] \cap Keys = pending'[c] \cap Keys BY <1>3, <2>4, ProcsDef
    <3> QED BY <1>6, <2>1, <3>1 DEF Caught
  <2> QED BY <2>3, <2>4
(* The end of a process by a signal.                                       *)
<1>7. CASE ~ Handled(p, s) /\ Goto(p, "zombie") /\ UNCHANGED frames
  <2>1. \A q \in Procs : pc'[q] = IF q = p THEN "zombie" ELSE pc[q]
    BY <1>7 DEF Goto, Types
  <2>2. Types'
    <3>1. pc' \in [Procs -> ChildLabels \cup ParentLabels]
      BY <1>7 DEF Goto, Types, ChildLabels
    <3>2. pc'["parent"] \in ParentLabels /\ \A c \in Children : pc'[c] \in ChildLabels
      BY <2>1, ProcsDef DEF Types, ChildLabels, ParentLabels
    <3> QED BY <1>1, <1>2, <1>5, <1>7, <3>1, <3>2 DEF Types
  <2>3. Distinct' BY <1>7 DEF Distinct
  <2>4. OnlyParent'
    <3>1. \A c \in Children : Returning(c)' => Returning(c)
      BY <1>7, <2>1, ProcsDef DEF Returning
    <3> QED BY <1>1, <1>4, <3>1, ProcsDef DEF OnlyParent
  <2>5. ParentLast'
    <3>1. p \in Children => pc[p] # "reaped" BY <1>1 DEF Alive
    <3> QED BY <1>1, <2>1, <3>1, ProcsDef DEF ParentLast
  <2>6. Installed' BY <1>1, <1>7, <2>1, ProcsDef DEF Installed
  <2>7. Born' BY <1>1, <2>1, ProcsDef DEF Born
  <2>8. ChildrenCaught'
    <3>1. \A c \in Children : Caught(c) => Caught(c)'
      <4>1. \A c \in Children : (Gone(c) => Gone(c)') /\ (p = c => Gone(c)')
        BY <2>1, ProcsDef DEF Gone
      <4> QED BY <1>6, <4>1
    <3>2. pc'["parent"] \in {"kill1", "kill2"} => pc["parent"] = pc'["parent"]
      BY <2>1, ProcsDef
    <3>3. pending'["parent"] # {} => pending["parent"] # {} BY <1>4, ProcsDef
    <3> QED BY <1>1, <3>1, <3>2, <3>3 DEF ChildrenCaught
  <2> QED BY <2>2, <2>3, <2>4, <2>5, <2>6, <2>7, <2>8
(* A handled signal, by what it does to the frames and to the next step.   *)
<1>8. ASSUME Handled(p, s), NEW g \in Seq(Frame), frames' = [frames EXCEPT ![p] = g],
             p = "parent" => g = <<>>, Distinct',
             \A k \in DOMAIN g : g[k].at = "return" => p \in sent,
             p \in Children /\ g # <<>> => installed[p] >= 2,
             \/ pc' = pc
             \/ pc[p] = "pause" /\ pc' = [pc EXCEPT ![p] = AfterPause(p)] /\ (p \in Children => p \in sent)
      PROVE  IInv'
  <2>1. /\ frames' \in [Procs -> Seq(Frame)] /\ frames'["parent"] = <<>>
        /\ \A q \in Procs : frames'[q] = IF q = p THEN g ELSE frames[q]
    BY <1>8, ProcsDef DEF Types
  <2>2. \A c \in Children :
          pc'[c] = pc[c] \/ (c = p /\ pc[c] = "pause" /\ pc'[c] = "print" /\ c \in sent)
    BY <1>8, ProcsDef DEF Types, AfterPause
  <2>3. pc'["parent"] = pc["parent"] \/ (p = "parent" /\ pc'["parent"] = "kill1" /\ pc["parent"] = "pause")
    BY <1>8, ProcsDef DEF Types, AfterPause
  <2>4. Types'
    <3>1. pc' \in [Procs -> ChildLabels \cup ParentLabels]
      BY <1>8 DEF Types, ChildLabels, ParentLabels, AfterPause
    <3>2. pc'["parent"] \in ParentLabels /\ \A c \in Children : pc'[c] \in ChildLabels
      BY <2>2, <2>3 DEF Types, ChildLabels, ParentLabels
    <3> QED BY <1>1, <1>2, <1>5, <2>1, <3>1, <3>2 DEF Types
  <2>5. OnlyParent'
    <3>1. \A c \in Children : Returning(c)' => c \in sent
      BY <1>8, <2>1, <2>2, ProcsDef DEF Returning, OnlyParent
    <3> QED BY <1>1, <1>4, <3>1, ProcsDef DEF OnlyParent
  <2>6. ParentLast' BY <1>1, <2>2, <2>3 DEF ParentLast
  <2>7. Installed'
    <3>1. ASSUME NEW c \in Children
          PROVE  (pc'[c] \in {"pause", "print"} => installed[c] = 4)
                 /\ (frames'[c] # <<>> => installed[c] >= 2)
      <4>1. pc'[c] \in {"pause", "print"} => pc[c] \in {"pause", "print"} BY <2>2
      <4> QED BY <1>8, <2>1, <4>1, ProcsDef DEF Installed
    <3> QED BY <1>1, <3>1 DEF Installed
  <2>8. Born'
    <3>1. \A c \in Children : pc[c] # "unborn" => pc'[c] # "unborn" BY <2>2
    <3>2. CASE pc'["parent"] = pc["parent"] BY <1>1, <3>1, <3>2, ProcsDef DEF Born
    <3>3. CASE pc["parent"] = "pause" /\ pc'["parent"] = "kill1"
      BY <1>1, <3>1, <3>3 DEF Born
    <3> QED BY <2>3, <3>2, <3>3
  <2>9. ChildrenCaught'
    <3>1. ASSUME pc["parent"] \in {"kill1", "kill2"} \/ (pending["parent"] # {} /\ installed["parent"] > 0)
          PROVE  \A c \in Children : Caught(c)'
      <4>1. \A c \in Children : Gone(c) => Gone(c)' BY <2>2 DEF Gone
      <4> QED BY <1>6, <1>8, <3>1, <4>1 DEF ChildrenCaught
    <3>2. p = "parent" => pending["parent"] # {} /\ installed["parent"] > 0
      <4> SUFFICES ASSUME p = "parent" PROVE installed["parent"] > 0 OBVIOUS
      <4>1. s \in {2, 3, 14} /\ installed["parent"] \in Nat BY ProcsDef DEF Types
      <4> QED BY <1>8, <4>1, HandledDef
    <3>3. pending'["parent"] # {} => pending["parent"] # {} BY <1>4, ProcsDef
    <3> QED BY <1>1, <2>3, <3>1, <3>2, <3>3 DEF ChildrenCaught
  <2> QED BY <1>8, <2>4, <2>5, <2>6, <2>7, <2>8, <2>9
<1>9. frames[p] \in Seq(Frame) BY DEF Types
<1>10. CASE /\ Handled(p, s) /\ handler(p, s) = "inter_handler" /\ frames[p] # <<>>
            /\ frames' = [frames EXCEPT ![p][Len(frames[p])].at = IF @ = "paused" THEN "return" ELSE @]
            /\ UNCHANGED pc
  <2> DEFINE at == IF frames[p][Len(frames[p])].at = "paused" THEN "return"
                   ELSE frames[p][Len(frames[p])].at
             g  == [frames[p] EXCEPT ![Len(frames[p])].at = at]
  <2>1. p \in Children BY <1>10, ProcsDef DEF Types
  <2>2. s = Own(p) /\ p \in sent BY <1>10, <2>1, ProcsDef DEF handler, OnlyParent
  <2>3. frames' = [frames EXCEPT ![p] = g] BY <1>10
  <2>4. at \in {"enter", "paused", "return"}
    <3>1. frames[p][Len(frames[p])] \in Frame BY <1>9, <1>10
    <3> QED BY <3>1 DEF Frame
  <2> HIDE DEF at
  <2>5. /\ g \in Seq(Frame) /\ DOMAIN g = DOMAIN frames[p]
        /\ \A k \in DOMAIN frames[p] : g[k].sig = frames[p][k].sig
    BY <1>9, <1>10, <2>4, ChangeTop
  <2> HIDE DEF g
  <2>6. Distinct' BY <2>1, <2>3, <2>5, FramesInv
  <2>7. installed[p] >= 2 BY <1>10, <2>1 DEF Installed
  <2> QED BY <1>8, <1>10, <2>1, <2>2, <2>3, <2>5, <2>6, <2>7, ProcsDef
<1>11. CASE /\ Handled(p, s) /\ handler(p, s) = "inter_handler" /\ frames[p] = <<>>
            /\ Goto(p, IF pc[p] = "pause" THEN AfterPause(p) ELSE pc[p]) /\ UNCHANGED frames
  <2>1. p \in Children => p \in sent BY <1>11, ProcsDef DEF handler, OnlyParent
  <2>2. frames' = [frames EXCEPT ![p] = <<>>] BY <1>11 DEF Types
  <2>3. \/ pc' = pc
        \/ pc[p] = "pause" /\ pc' = [pc EXCEPT ![p] = AfterPause(p)]
    BY <1>11 DEF Goto, Types
  <2>4. Distinct' BY <1>11 DEF Distinct
  <2>5. <<>> \in Seq(Frame) /\ \A k \in DOMAIN <<>> : FALSE OBVIOUS
  <2> QED BY <1>8, <1>11, <2>1, <2>2, <2>3, <2>4, <2>5
<1>12. CASE /\ Handled(p, s) /\ handler(p, s) = "waiting"
            /\ frames' = [frames EXCEPT ![p] = Append(@, [sig |-> s, at |-> "enter"])]
            /\ UNCHANGED pc
  <2> DEFINE x == [sig |-> s, at |-> "enter"]
             g == Append(frames[p], x)
  <2>1. p \in Children /\ s # Own(p) BY <1>12, ProcsDef DEF handler
  <2>2. s \in {2, 3} BY <2>1 DEF Types
  <2>3. installed[p] \in Nat /\ installed[p] >= 2
    <3>1. installed[p] \in Nat BY DEF Types
    <3>2. s # Own(p) /\ s \in {2, 3, 14, 16, 17} /\ p \in Children /\ Handled(p, s) /\ Types
      BY <1>12, <2>1, <2>2
    <3> HIDE DEF IInv
    <3>3. Handled(p, s) <=> \/ installed[p] >= 1 /\ s = Own(p)
                            \/ installed[p] >= 2 /\ s = 2
                            \/ installed[p] >= 3 /\ s = 3
                            \/ installed[p] >= 4 /\ s = 14
      BY <3>2, HandledDef
    <3> QED BY <3>1, <3>2, <3>3
  <2>4. x \in Frame BY <2>2 DEF Frame
  <2>5. frames' = [frames EXCEPT ![p] = g] BY <1>12
  <2>6. s \notin Masked(p) BY DEF deliver, Deliverable
  <2>7. /\ g \in Seq(Frame) /\ DOMAIN g = DOMAIN frames[p] \cup {Len(frames[p]) + 1}
        /\ g[Len(frames[p]) + 1] = x /\ \A k \in DOMAIN frames[p] : g[k] = frames[p][k]
    BY <1>9, <2>4, PushFrame
  <2> HIDE DEF g
  <2>8. \A k, l \in DOMAIN g : g[k].sig = g[l].sig => k = l
    BY <2>1, <2>6, <2>7 DEF Distinct, Masked
  <2>9. Distinct'
    <3>1. \A c \in Children : frames'[c] = IF c = p THEN g ELSE frames[c]
      BY <2>5, ProcsDef DEF Types
    <3> QED BY <2>8, <3>1 DEF Distinct
  <2>10. \A k \in DOMAIN g : g[k].at = "return" => p \in sent
    BY <2>1, <2>7 DEF OnlyParent, Returning
  <2> QED BY <1>8, <1>12, <2>1, <2>3, <2>5, <2>7, <2>9, <2>10, ProcsDef
<1> QED BY <1>7, <1>10, <1>11, <1>12 DEF deliver

-----------------------------------------------------------------------------
LEMMA NextInv == IInv /\ [Next]_vars => IInv'
<1> SUFFICES ASSUME IInv, [Next]_vars PROVE IInv' OBVIOUS
<1>1. CASE UNCHANGED vars
  BY <1>1 DEF vars, IInv, Types, Distinct, OnlyParent, Returning, ParentLast, Installed, Born,
              ChildrenCaught, Caught, Gone, Handled
<1>2. ASSUME NEW p \in Procs, Process(p) PROVE IInv'
  BY <1>2, SignalInv, PauseInv, WaitingInv, PrintInv, DeliverInv DEF Process
<1>3. CASE Parent
  BY <1>2, <1>3, ProcsDef, SetAlarmInv, ForkInv, KillInv, WaitInv DEF Parent
<1> QED BY <1>1, <1>2, <1>3, ProcsDef, RingInv, KeyInv DEF Next

LEMMA Inductive == Spec => []IInv
BY InitInv, NextInv, PTL DEF Spec

LEMMA TypesImply == IInv => TypeOK
<1> SUFFICES ASSUME IInv PROVE TypeOK OBVIOUS
<1> USE DEF IInv
<1>1. pc \in [Procs -> {"unborn", "fork1", "fork2", "install", "pause", "kill1", "kill2", "wait",
                        "print", "zombie", "reaped"}]
  BY DEF Types, ChildLabels, ParentLabels
<1>2. ASSUME NEW p \in Procs
      PROVE  installed[p] \in 0 .. Len(installs(p)) /\ pending[p] \subseteq {2, 3, 14, 16, 17}
  <2>1. pending[p] \in SUBSET {2, 3, 14, 16, 17} /\ installed[p] \in Nat BY DEF Types
  <2>2. installed[p] <= Len(installs(p)) BY InstallsLen, ProcsDef DEF Types
  <2>3. Len(installs(p)) \in Nat BY InstallsLen, ProcsDef
  <2> QED BY <2>1, <2>2, <2>3
<1>3. ASSUME NEW c \in Children, NEW k \in DOMAIN frames[c], NEW l \in DOMAIN frames[c]
      PROVE  /\ frames[c][k].sig \in Keys \cup {SIGALRM} /\ frames[c][k].at \in {"enter", "paused", "return"}
             /\ frames[c][k].sig = frames[c][l].sig => k = l
  <2>1. frames[c] \in Seq(Frame) BY ProcsDef DEF Types
  <2>2. frames[c][k] \in Frame BY <2>1
  <2> QED BY <2>2 DEF Frame, Distinct, Keys, SIGINT, SIGQUIT, SIGALRM
<1> QED BY <1>1, <1>2, <1>3 DEF TypeOK, Types

(* Whatever keys are pressed and when: a child that says its parent has    *)
(* killed it tells the truth, and the parent's line is the last (2-1.c).   *)
THEOREM LastWordsTrue == Spec => []LastWords
<1>1. IInv => LastWords
  <2> SUFFICES ASSUME IInv PROVE LastWords OBVIOUS
  <2>1. TypeOK BY TypesImply
  <2>2. \A c \in said \ {"parent"} : c \in sent
    BY ProcsDef DEF IInv, Types, OnlyParent
  <2>3. "parent" \in said => \A c \in Children : pc[c] = "reaped" BY DEF IInv, ParentLast
  <2> QED BY <2>1, <2>2, <2>3 DEF LastWords
<1> QED BY <1>1, Inductive, PTL

-----------------------------------------------------------------------------
(* Who ends, and who sends.                                                *)
LEMMA OnlyKillSends ==
  ASSUME IInv, Next, NEW c \in sent', c \notin sent PROVE c \in Children /\ Caught(c)
<1>1. ASSUME NEW p \in Procs, Process(p) PROVE sent' = sent
  BY <1>1 DEF Process, signal, pause, waiting, print, deliver
<1>2. ASSUME NEW d \in Children, kill(d) PROVE c \in Children /\ Caught(c)
  <2>1. c = d BY <1>2 DEF kill
  <2>2. pc["parent"] \in {"kill1", "kill2"} BY <1>2 DEF kill, Runs
  <2> QED BY <2>1, <2>2 DEF IInv, ChildrenCaught
<1>3. ASSUME Parent PROVE c \in Children /\ Caught(c)
  BY <1>1, <1>2, <1>3, ProcsDef DEF Parent, set_alarm, fork, wait
<1> QED BY <1>1, <1>3, ProcsDef DEF Next, ring, key

LEMMA EndsByItsLine ==
  ASSUME IInv, Next, NEW c \in Children, ~ Gone(c), Gone(c)', installed[c] = Len(installs(c))
  PROVE  c \in said'
<1> USE DEF IInv
<1>1. installed[c] = 4 /\ pc[c] \notin {"zombie", "reaped"} /\ pc'[c] \in {"zombie", "reaped"}
  BY InstallsLen DEF Gone
<1>2. c \in Procs /\ c # "parent" BY ProcsDef
<1>3. ASSUME NEW p \in Procs, signal(p) \/ pause(p) \/ waiting(p) \/ print(p) PROVE c \in said'
  <2>1. CASE signal(p) BY <1>1, <2>1 DEF signal
  <2>2. CASE pause(p) BY <1>1, <1>2, <2>2 DEF pause, Goto, Types
  <2>3. CASE print(p) BY <1>1, <1>2, <2>3 DEF print, Goto, Types
  <2>4. CASE waiting(p)
    <3>1. pc' = pc \/ pc' = [pc EXCEPT ![p] = IF pc[p] = "pause" THEN AfterPause(p) ELSE pc[p]]
      BY <2>4 DEF waiting, Goto
    <3> QED BY <1>1, <1>2, <3>1 DEF Types, AfterPause
  <2> QED BY <1>3, <2>1, <2>2, <2>3, <2>4
<1>4. ASSUME NEW p \in Procs, NEW s \in pending[p], deliver(p, s) PROVE c \in said'
  <2>1. CASE ~ Handled(p, s)
    <3>1. p = c BY <1>1, <1>2, <1>4, <2>1 DEF deliver, Goto, Types
    <3>2. s \in {2, 3, Own(c)} BY <3>1 DEF Types
    <3> QED BY <1>1, <2>1, <3>1, <3>2, HandledDef, OwnDef
  <2>2. CASE Handled(p, s)
    <3>1. pc' = pc \/ pc' = [pc EXCEPT ![p] = IF pc[p] = "pause" THEN AfterPause(p) ELSE pc[p]]
      BY <1>4, <2>2 DEF deliver, Goto
    <3> QED BY <1>1, <1>2, <3>1 DEF Types, AfterPause
  <2> QED BY <2>1, <2>2
<1>5. ASSUME NEW p \in Procs, Process(p) PROVE c \in said'
  BY <1>3, <1>4, <1>5 DEF Process
<1>6. ASSUME Parent PROVE c \in said'
  <2>1. CASE set_alarm BY <1>1, <2>1 DEF set_alarm
  <2>2. ASSUME NEW d \in Children, fork(d) PROVE FALSE
    BY <1>1, <1>2, <2>2 DEF fork, Types
  <2>3. ASSUME NEW d \in Children, kill(d) PROVE FALSE
    BY <1>1, <1>2, <2>3 DEF kill, Goto, Types
  <2>4. ASSUME NEW d \in Children, wait(d) PROVE FALSE
    BY <1>1, <1>2, <2>4 DEF wait, Types
  <2> QED BY <1>5, <1>6, <2>1, <2>2, <2>3, <2>4, ProcsDef DEF Parent
<1> QED BY <1>1, <1>5, <1>6, ProcsDef DEF Next, ring, key

(* The parent's signal never comes before its handler to a child that no   *)
(* key has ended or is about to, and a child with its handlers in place    *)
(* ends with its line only (2-1.c).                                        *)
THEOREM SignalsAreHandled == Spec => SignalsHandled
<1> DEFINE A == /\ \A c \in sent' \ sent :
                     Handled(c, Own(c)) \/ Gone(c) \/ pending[c] \cap Keys # {}
                /\ \A c \in Children :
                     ~ Gone(c) /\ Gone(c)' /\ installed[c] = Len(installs(c)) => c \in said'
<1>1. IInv /\ [Next]_vars => [A]_vars
  BY OnlyKillSends, EndsByItsLine DEF Caught
<1> QED BY <1>1, Inductive, PTL DEF Spec, SignalsHandled
=============================================================================
