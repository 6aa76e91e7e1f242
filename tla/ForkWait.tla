-------------------------------- MODULE ForkWait --------------------------------
(***************************************************************************)
(* The five programs of lab1-1, 1-1*.c: a process forks one child, both    *)
(* print, and the parent (but in 1-1_nowait) waits.  In 1-1_global and     *)
(* 1-1_return both change a global variable, in 1-1_systemcall the child   *)
(* runs ./system_call twice, by system and by execl.  stdout is a          *)
(* terminal: a line shows as soon as it is printed; the lines a process    *)
(* prints one after the other of the same data count as one.               *)
(***************************************************************************)
EXTENDS Integers, Sequences

Programs == {"1-1", "1-1_nowait", "1-1_global", "1-1_return", "1-1_systemcall"}
Procs == {"parent", "child", "command"}   \* command: what system runs

VARIABLES
  program,      \* the one of Programs that runs
  pc,           \* each process: its next step, "unborn", "zombie" or "reaped"
  ppid,         \* the parent of each: "shell", "parent", "child" or "init"
  global_int,   \* each process's copy
  screen        \* the lines on the terminal

vars == <<program, pc, ppid, global_int, screen>>

Waits == program # "1-1_nowait"
Counts == program \in {"1-1_global", "1-1_return"}
Tail10000 == program = "1-1_return"
Systems == program = "1-1_systemcall"

Line(p, text) == [who |-> p, text |-> text, value |-> global_int[p]]
Born(p) == pc[p] # "unborn"
Gone(p) == pc[p] \in {"zombie", "reaped"}

Init ==
  /\ program \in Programs
  /\ pc = [p \in Procs |-> IF p = "parent" THEN "fork" ELSE "unborn"]
  /\ ppid = [p \in Procs |-> CASE p = "parent" -> "shell" [] p = "child" -> "parent"
                               [] p = "command" -> "child"]
  /\ global_int = [p \in Procs |-> 0]
  /\ screen = <<>>

Goto(p, label) == pc' = [pc EXCEPT ![p] = label]
Show(p, text) == screen' = Append(screen, Line(p, text))

(* A process that ends is a zombie, and its children become init's.        *)
Exit(p) ==
  /\ Goto(p, "zombie")
  /\ ppid' = [q \in Procs |-> IF ppid[q] = p /\ pc[q] \notin {"unborn", "reaped"}
                               THEN "init" ELSE ppid[q]]

-----------------------------------------------------------------------------
(* The child's copy is the parent's at the fork.                           *)
fork ==
  /\ pc["parent"] = "fork"
  /\ \/ /\ pc' = [pc EXCEPT !["parent"] = "print", !["child"] = "print"]
        /\ global_int' = [global_int EXCEPT !["child"] = global_int["parent"]]
        /\ UNCHANGED <<ppid, screen>>
     \/ Exit("parent") /\ Show("parent", "Fork Failed") /\ UNCHANGED global_int
  /\ UNCHANGED program

AfterPrint(p) == IF Counts THEN "count"
                 ELSE IF p = "parent" THEN "wait"
                 ELSE IF Systems THEN "system" ELSE "tail"

print(p) ==
  /\ pc[p] = "print"
  /\ Show(p, "pid") /\ Goto(p, AfterPrint(p))
  /\ UNCHANGED <<program, ppid, global_int>>

Add(p, n) == [global_int EXCEPT ![p] = @ + n]

count(p) ==
  /\ pc[p] = "count"
  /\ global_int' = Add(p, IF p = "child" THEN 1 ELSE -1)
  /\ screen' = Append(screen, [Line(p, "global_int") EXCEPT !.value = global_int'[p]])
  /\ Goto(p, IF p = "child" THEN "tail" ELSE "wait")
  /\ UNCHANGED <<program, ppid>>

wait_any ==                             \* mutant: a wait that does not block
  /\ pc["parent"] = "wait"
  /\ pc' = [pc EXCEPT !["parent"] = "tail",
                      !["child"] = IF @ = "zombie" THEN "reaped" ELSE @]
  /\ UNCHANGED <<program, ppid, global_int, screen>>

wait ==
  /\ pc["parent"] = "wait"
  /\ IF Waits
       THEN /\ pc["child"] = "zombie"
            /\ pc' = [pc EXCEPT !["parent"] = "tail", !["child"] = "reaped"]
       ELSE Goto("parent", "tail")
  /\ UNCHANGED <<program, ppid, global_int, screen>>

tail(p) ==
  /\ pc[p] = "tail"
  /\ IF Tail10000
       THEN /\ global_int' = Add(p, 10000)
            /\ screen' = Append(screen, [Line(p, "before return") EXCEPT
                                           !.value = global_int'[p]])
       ELSE UNCHANGED <<global_int, screen>>
  /\ Goto(p, "return")
  /\ UNCHANGED <<program, ppid>>

return(p) ==
  /\ pc[p] = "return"
  /\ Exit(p)
  /\ UNCHANGED <<program, global_int, screen>>

-----------------------------------------------------------------------------
(* 1-1_systemcall: system forks a shell for ./system_call and waits for    *)
(* it; it returns -1 only if that fork fails, not if the program is not    *)
(* found (found).  execl makes the child itself run it.                    *)

system ==
  /\ pc["child"] = "system"
  /\ \/ /\ pc' = [pc EXCEPT !["child"] = "syswait", !["command"] = "system_call"]
        /\ global_int' = [global_int EXCEPT !["command"] = global_int["child"]]
        /\ UNCHANGED <<screen, ppid>>
     \/ Exit("child") /\ Show("child", "system Failed") /\ UNCHANGED global_int
  /\ UNCHANGED program

system_returns ==
  /\ pc["child"] = "syswait" /\ pc["command"] = "zombie"
  /\ pc' = [pc EXCEPT !["child"] = "execl", !["command"] = "reaped"]
  /\ UNCHANGED <<program, ppid, global_int, screen>>

execl ==
  /\ pc["child"] = "execl"
  /\ \/ Goto("child", "system_call") /\ UNCHANGED <<ppid, screen>>
     \/ Exit("child") /\ Show("child", "execl Failed")
  /\ UNCHANGED <<program, global_int>>

system_call(p) ==
  /\ pc[p] = "system_call"
  /\ Exit(p)
  /\ \/ Show(p, "system_call")
     \/ p = "command" /\ Show(p, "not found")   \* by the shell
  /\ UNCHANGED <<program, global_int>>

-----------------------------------------------------------------------------
(* External: the shell takes its process when that has ended and prompts,  *)
(* init takes its children.                                                *)
Prompted == \E k \in DOMAIN screen : screen[k].text = "prompt"

shell ==
  /\ pc["parent"] = "zombie"
  /\ Goto("parent", "reaped") /\ screen' = Append(screen, [who |-> "shell", text |-> "prompt",
                                                           value |-> 0])
  /\ UNCHANGED <<program, ppid, global_int>>

init(p) ==
  /\ pc[p] = "zombie" /\ ppid[p] = "init"
  /\ Goto(p, "reaped")
  /\ UNCHANGED <<program, ppid, global_int, screen>>

Process(p) == print(p) \/ count(p) \/ tail(p) \/ return(p) \/ system_call(p)
Parent == fork \/ wait \/ Process("parent")
Child == system \/ system_returns \/ execl \/ Process("child")
Kernel == shell \/ \E p \in Procs : init(p)

Next == Parent \/ Child \/ Process("command") \/ Kernel

Spec == Init /\ [][Next]_vars

(* The kernel runs each process that can go on; shell and init wait for    *)
(* their children all the time.                                            *)
FairSpec ==
  Spec /\ WF_vars(Parent) /\ WF_vars(Child) /\ WF_vars(Process("command"))
       /\ WF_vars(shell) /\ \A p \in Procs : WF_vars(init(p))

-----------------------------------------------------------------------------
(* Nothing but the three processes, and a process has a parent that is     *)
(* alive (or the shell, or init) until it is reaped.                       *)
TypeOK ==
  /\ pc \in [Procs -> {"unborn", "fork", "print", "count", "wait", "tail", "return", "system",
                       "syswait", "execl", "system_call", "zombie", "reaped"}]
  /\ program \in Programs /\ global_int \in [Procs -> Int]
  /\ \A p \in Procs : Born(p) /\ ppid[p] \in Procs => ~ Gone(ppid[p]) \/ pc[p] = "reaped"

(* The programs that wait (lab1-1/README.md:163): the shell's prompt comes *)
(* last, and init gets nobody.  Without wait the child may print after it. *)
PromptLast ==
  Waits /\ Prompted =>
    /\ screen[Len(screen)].text = "prompt"
    /\ \A p \in Procs : Born(p) => pc[p] = "reaped" /\ ppid[p] # "init"

(* lab1-1/README.md:233, 294: whatever the order, the child prints 1 and   *)
(* 10001, the parent -1 and 9999, as each changes a copy of its own.       *)
OwnCopies ==
  \A k \in DOMAIN screen :
    /\ screen[k].text = "global_int" =>
         screen[k].value = (IF screen[k].who = "child" THEN 1 ELSE -1)
    /\ screen[k].text = "before return" =>
         screen[k].value = (IF screen[k].who = "child" THEN 10001 ELSE 9999)

(* lab1-1/README.md:297: the child goes on only when system's command has  *)
(* ended, so of the two lines of system_call the command's is the first.   *)
SystemFirst ==
  pc["child"] \in {"execl", "system_call"} =>
    \E k \in DOMAIN screen : screen[k].who = "command"

(* lab1-1/README.md:172: with or without wait, every run ends in a prompt  *)
(* and nobody stays a zombie or waits for ever.                            *)
AllOver == Prompted /\ \A p \in Procs : Born(p) => pc[p] = "reaped"
Terminates == <>AllOver
=============================================================================
