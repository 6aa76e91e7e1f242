--------------------------------- MODULE FSTree ---------------------------------
(***************************************************************************)
(* What the shell of lab3/3.c promises of names, without an image: a set   *)
(* of named objects, each in a directory, the user's place among them and  *)
(* the open files.  A command changes just the one object it is about.     *)
(***************************************************************************)
EXTENDS Naturals, FiniteSets

CONSTANTS Inodes, root, Names, FT_DIR, FT_REG_FILE, FOPEN_TABLE_MAX

VARIABLES
  objects,    \* the directories and files, but for the root
  cwd,        \* the user's directory
  opened      \* the open files

vars == <<objects, cwd, opened>>

Object == [inode : Inodes \ {root}, parent : Inodes, name : Names, type : {FT_DIR, FT_REG_FILE}]

In(dir) == {o \in objects : o.parent = dir}

Init == objects = {} /\ cwd = root /\ opened = {}

(* A file and a directory may share a name, two of a kind may not.         *)
Make(o) ==
  /\ o.parent = cwd
  /\ \A p \in objects : p.inode # o.inode
  /\ \A p \in In(cwd) : p.name = o.name => p.type # o.type
  /\ objects' = objects \cup {o}
  /\ UNCHANGED <<cwd, opened>>

Remove(o) ==
  /\ IF o.type = FT_DIR THEN In(o.inode) = {} ELSE o.inode \notin opened
  /\ objects' = objects \ {o}
  /\ UNCHANGED <<cwd, opened>>

Enter(o) == o.type = FT_DIR /\ cwd' = o.inode /\ UNCHANGED <<objects, opened>>
Leave(o) == o.inode = cwd /\ cwd' = o.parent /\ UNCHANGED <<objects, opened>>

Open(o) ==
  /\ o.type = FT_REG_FILE /\ o.inode \notin opened
  /\ Cardinality(opened) < FOPEN_TABLE_MAX
  /\ opened' = opened \cup {o.inode}
  /\ UNCHANGED <<objects, cwd>>

Close(o) == o.inode \in opened /\ opened' = opened \ {o.inode} /\ UNCHANGED <<objects, cwd>>

(* Whatever ends the program, the names are still there at the next start. *)
Restart == cwd' = root /\ opened' = {} /\ UNCHANGED objects

Format == objects' = {} /\ cwd' = root /\ opened' = {}

Next ==
  \/ \E o \in Object : Make(o)
  \/ \E o \in In(cwd) : Remove(o) \/ Enter(o) \/ Open(o) \/ Close(o)
  \/ \E o \in objects : Leave(o)
  \/ Restart \/ Format

Spec == Init /\ [][Next]_vars

-----------------------------------------------------------------------------
(* So every object lies in the root or in a directory there is, the user   *)
(* stands in one, and the open files are there.                            *)
IsDirectory(i) == i = root \/ \E o \in objects : o.inode = i /\ o.type = FT_DIR
NamesSound ==
  /\ \A o \in objects : IsDirectory(o.parent)
  /\ \A o, p \in objects :
       o.inode = p.inode \/ (o.parent = p.parent /\ o.name = p.name /\ o.type = p.type) => o = p
  /\ IsDirectory(cwd)
  /\ \A i \in opened : \E o \in objects : o.inode = i /\ o.type = FT_REG_FILE
=============================================================================
