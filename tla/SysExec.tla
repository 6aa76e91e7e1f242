-------------------------------- MODULE SysExec --------------------------------
(***************************************************************************)
(* lab1-2/1-2_sys.c: one thread runs ./system_call by system, another      *)
(* replaces the whole process by it with execl, "ordered" by a semaphore   *)
(* that starts at 1.  stdout is a terminal.                                *)
(***************************************************************************)
EXTENDS Integers, Sequences

VARIABLES
  signal,       \* the semaphore
  main, system_thread, exec_thread,     \* the next step of each thread
  image,        \* what the process is: "1-2_sys", "system_call", "zombie", "reaped"
  command,      \* system's process: "unborn", "running", "zombie", "reaped"
  ppid,         \* its parent, "process" or "init"
  screen        \* who has printed a line, in order

vars == <<signal, main, system_thread, exec_thread, image, command, ppid, screen>>
threads == <<main, system_thread, exec_thread>>

Init ==
  /\ signal = 0
  /\ main = "sem_init" /\ system_thread = "new" /\ exec_thread = "new"
  /\ image = "1-2_sys" /\ command = "unborn" /\ ppid = "process"
  /\ screen = <<>>

Show(who) == screen' = Append(screen, who)

(* The process ends: its threads stop with it and init takes its child.    *)
Exit_orphans ==                         \* mutant: the child keeps a dead parent
  /\ image' = "zombie"
  /\ UNCHANGED ppid

Exit ==
  /\ image' = "zombie"
  /\ ppid' = "init"

-----------------------------------------------------------------------------
(* main: whatever fails to be made, the process ends with 1.               *)

sem_init ==
  /\ image = "1-2_sys" /\ main = "sem_init"
  /\ \/ signal' = 1 /\ main' = "create1" /\ UNCHANGED <<image, ppid, screen>>
     \/ Exit /\ Show("error") /\ UNCHANGED <<signal, main>>
  /\ UNCHANGED <<system_thread, exec_thread, command>>

pthread_create ==
  /\ image = "1-2_sys"
  /\ \/ /\ main = "create1"
        /\ main' = "create2" /\ system_thread' = "system" /\ UNCHANGED exec_thread
        /\ UNCHANGED <<image, ppid, screen>>
     \/ /\ main = "create2"
        /\ main' = "join1" /\ exec_thread' = "wait" /\ UNCHANGED system_thread
        /\ UNCHANGED <<image, ppid, screen>>
     \/ main \in {"create1", "create2"} /\ Exit /\ Show("error") /\ UNCHANGED threads
  /\ UNCHANGED <<signal, command>>

pthread_join ==
  /\ image = "1-2_sys"
  /\ \/ main = "join1" /\ system_thread = "done" /\ main' = "join2"
     \/ main = "join2" /\ exec_thread = "done" /\ main' = "destroy"
  /\ UNCHANGED <<signal, system_thread, exec_thread, image, command, ppid, screen>>

return_0 ==
  /\ image = "1-2_sys" /\ main = "destroy"
  /\ main' = "returned" /\ Exit
  /\ UNCHANGED <<signal, system_thread, exec_thread, command, screen>>

-----------------------------------------------------------------------------
(* system_func: prints, then system forks the command and waits for it; a  *)
(* failed fork returns at once.                                            *)

print1 ==
  /\ image = "1-2_sys" /\ system_thread = "system"
  /\ system_thread' = "fork" /\ Show("thread1")
  /\ UNCHANGED <<signal, main, exec_thread, image, command, ppid>>

system_fork ==
  /\ image = "1-2_sys" /\ system_thread = "fork"
  /\ \/ system_thread' = "waitpid" /\ command' = "running"
     \/ system_thread' = "post" /\ UNCHANGED command
  /\ UNCHANGED <<signal, main, exec_thread, image, ppid, screen>>

system_waitpid ==
  /\ image = "1-2_sys" /\ system_thread = "waitpid" /\ command = "zombie"
  /\ system_thread' = "post" /\ command' = "reaped"
  /\ UNCHANGED <<signal, main, exec_thread, image, ppid, screen>>

sem_post ==
  /\ image = "1-2_sys" /\ system_thread = "post"
  /\ signal' = signal + 1 /\ system_thread' = "done"
  /\ UNCHANGED <<main, exec_thread, image, command, ppid, screen>>

(* exec_func: a successful execl is the end of every thread, but not of    *)
(* the process system has forked.                                          *)

sem_wait ==
  /\ image = "1-2_sys" /\ exec_thread = "wait" /\ signal > 0
  /\ signal' = signal - 1 /\ exec_thread' = "execl"
  /\ UNCHANGED <<main, system_thread, image, command, ppid, screen>>


execl ==
  /\ image = "1-2_sys" /\ exec_thread = "execl"
  /\ \/ image' = "system_call" /\ UNCHANGED exec_thread
     \/ exec_thread' = "done" /\ UNCHANGED image
  /\ UNCHANGED <<signal, main, system_thread, command, ppid, screen>>

-----------------------------------------------------------------------------
(* ./system_call, run by the command's process (whose shell may not find   *)
(* it) and by the process itself.                                          *)

system_call_command ==
  /\ command = "running"
  /\ command' = "zombie" /\ Show("command")
  /\ UNCHANGED <<signal, threads, image, ppid>>

system_call ==
  /\ image = "system_call"
  /\ Exit /\ Show("process")
  /\ UNCHANGED <<signal, threads, command>>

(* External: the shell takes the process and prompts, init takes orphans.  *)
shell ==
  /\ image = "zombie"
  /\ image' = "reaped" /\ Show("prompt")
  /\ UNCHANGED <<signal, threads, command, ppid>>

init ==
  /\ command = "zombie" /\ ppid = "init"
  /\ command' = "reaped"
  /\ UNCHANGED <<signal, threads, image, ppid, screen>>

Main == sem_init \/ pthread_create \/ pthread_join \/ return_0
System == print1 \/ system_fork \/ system_waitpid \/ sem_post
Exec == sem_wait \/ execl

Next == Main \/ System \/ Exec \/ system_call_command \/ system_call \/ shell \/ init

Spec == Init /\ [][Next]_vars

(* The kernel runs every thread and process that can go on; the shell and  *)
(* init wait for their children all the time.                              *)
FairSpec ==
  Spec /\ WF_vars(Main) /\ WF_vars(System) /\ WF_vars(Exec) /\ WF_vars(system_call_command)
       /\ WF_vars(system_call) /\ WF_vars(shell) /\ WF_vars(init)

-----------------------------------------------------------------------------
Prints(who) == \E k \in DOMAIN screen : screen[k] = who

(* The semaphore counts the start and the post that exec has not taken.    *)
TypeOK ==
  /\ signal \in 0 .. 2 /\ ppid \in {"process", "init"}
  /\ main \in {"sem_init", "create1", "create2", "join1", "join2", "destroy", "returned"}
  /\ system_thread \in {"new", "system", "fork", "waitpid", "post", "done"}
  /\ exec_thread \in {"new", "wait", "execl", "done"}
  /\ image \in {"1-2_sys", "system_call", "zombie", "reaped"}
  /\ command \in {"unborn", "running", "zombie", "reaped"}
  /\ screen \in Seq({"thread1", "command", "process", "prompt", "error"})

(* If the program itself comes to its end (execl has failed), it has       *)
(* waited for the command: the prompt is the last line, whatever the order *)
(* of the threads, and init gets nobody.                                   *)
ReturnsLast ==
  main = "returned" =>
    /\ command \in {"unborn", "reaped"} /\ (command = "reaped") = Prints("command")
    /\ \A k \in DOMAIN screen : screen[k] = "prompt" => k = Len(screen)

(* Every run ends, with the process and the command gone.                  *)
AllOver == image = "reaped" /\ command \in {"unborn", "reaped"} /\ Prints("prompt")
Terminates == <>AllOver

=============================================================================
