--------------------------------- MODULE MCLab1 ---------------------------------
(* One state space for TLC: a behaviour is one of ForkWait's five programs or   *)
(* 1-2_sys.c (SysExec); the variables of the other module are idle.             *)
EXTENDS Integers, Sequences

VARIABLES program, ppid, screen,
          pc, global_int,
          signal, main, system_thread, exec_thread, image, command

forkvars == <<pc, global_int>>
sysvars == <<signal, main, system_thread, exec_thread, image, command>>
allvars == <<program, ppid, screen, forkvars, sysvars>>

Fork == INSTANCE ForkWait
Sys == INSTANCE SysExec

IsSys == program = "1-2_sys"

Init ==
  \/ /\ Fork!Init
     /\ signal = 0 /\ main = "" /\ system_thread = "" /\ exec_thread = "" /\ image = "" /\ command = ""
  \/ /\ IsSys /\ Sys!Init
     /\ pc = <<>> /\ global_int = <<>>

ForkStep(A) == ~ IsSys /\ A /\ UNCHANGED sysvars
SysStep(A) == IsSys /\ A /\ UNCHANGED <<program, forkvars>>

Next == ForkStep(Fork!Next) \/ SysStep(Sys!Next)

(* The fairness of either module.                                               *)
FairSpec ==
  /\ Init /\ [][Next]_allvars
  /\ WF_allvars(ForkStep(Fork!Parent)) /\ WF_allvars(ForkStep(Fork!Child))
  /\ WF_allvars(ForkStep(Fork!Process("command"))) /\ WF_allvars(ForkStep(Fork!shell))
  /\ \A p \in Fork!Procs : WF_allvars(ForkStep(Fork!init(p)))
  /\ WF_allvars(SysStep(Sys!Main)) /\ WF_allvars(SysStep(Sys!System))
  /\ WF_allvars(SysStep(Sys!Exec)) /\ WF_allvars(SysStep(Sys!system_call_command))
  /\ WF_allvars(SysStep(Sys!system_call)) /\ WF_allvars(SysStep(Sys!shell))
  /\ WF_allvars(SysStep(Sys!init))

-----------------------------------------------------------------------------
(* The properties of the two modules, of the behaviours they are about.         *)

(* Who waits ends last: with wait the shell's prompt is the last line and  *)
(* init gets nobody, the child goes on only when system's command has      *)
(* ended, and 1-2_sys.c, coming to its own end, has waited for its command.*)
(* Nobody has a dead parent, and parent and child change their own copies. *)
WaitersLast ==
  IF IsSys THEN Sys!TypeOK /\ Sys!ReturnsLast
           ELSE Fork!TypeOK /\ Fork!PromptLast /\ Fork!SystemFirst /\ Fork!OwnCopies


(* Every run of every program ends in a prompt, and nobody stays a zombie. *)
Terminates == <>(IF IsSys THEN Sys!AllOver ELSE Fork!AllOver)
=============================================================================
