------------------------------- MODULE MCFSCrash -------------------------------
(* Three small images of FSCrash in one run of TLC.  In "cut" every command may   *)
(* be cut short, twice in a behaviour; "room" has a block more and one crash; in  *)
(* "grown" nothing is cut, and the directories grow into a second block.          *)
EXTENDS Integers, Sequences, TLC

VARIABLES world, disk, fopen_table, current_dir, current_path, status,
          image, trail, before, doing, crashes, harmed
vars == <<world, disk, fopen_table, current_dir, current_path, status,
          image, trail, before, doing, crashes, harmed>>

Dot    == "."
DotDot == ".."
DIRECT == 2
FOPEN_TABLE_MAX == 1
PATH_SIZE == 64
INODE_COUNT == 3
BLOCK_SIZE == 64
DIRENTRY_SIZE == 30
EmptyPassword == ""
Passwords == {EmptyPassword}
PartLen == (Dot :> 1) @@ (DotDot :> 2) @@ ("a" :> 1) @@ ("long" :> 20)
MaxLetters == 0
MaxFileSize == 80

A == {Dot, DotDot, "a"}
Cut == INSTANCE FSCrash WITH
  Names <- A, NameLen <- [nm \in A |-> PartLen[nm]], Parts <- [nm \in A |-> <<nm>>],
  Executable <- {"a"}, Made <- {"a"}, DATA_BLOCK_COUNT <- 3, UINT16 <- 8, UINT32 <- 1024,
  WriteSizes <- {70}, MaxDirSize <- 33, MaxCrashes <- 2

Room == INSTANCE FSCrash WITH
  Names <- A, NameLen <- [nm \in A |-> PartLen[nm]], Parts <- [nm \in A |-> <<nm>>],
  Executable <- {"a"}, Made <- {"a"}, DATA_BLOCK_COUNT <- 4, UINT16 <- 8, UINT32 <- 1024,
  WriteSizes <- {70}, MaxDirSize <- 33, MaxCrashes <- 1

(* UINT32 is a multiple of the 27 bytes of an entry: sizes wrap to few values. *)
B == {Dot, DotDot, "long"}
Grown == INSTANCE FSCrash WITH
  Names <- B, NameLen <- [nm \in B |-> PartLen[nm]], Parts <- [nm \in B |-> <<nm>>],
  Executable <- {"long"}, Made <- {"long"}, DATA_BLOCK_COUNT <- 3, UINT16 <- 5, UINT32 <- 108,
  WriteSizes <- {}, MaxDirSize <- 80, MaxCrashes <- 0

Init == \/ world = "cut"   /\ Cut!InitCrash
        \/ world = "room"  /\ Room!InitCrash
        \/ world = "grown" /\ Grown!InitCrash

Next == /\ \/ world = "cut"   /\ Cut!NextCrash
           \/ world = "room"  /\ Room!NextCrash
           \/ world = "grown" /\ Grown!NextCrash
        /\ UNCHANGED world

Spec == Init /\ [][Next]_vars

-----------------------------------------------------------------------------
(* The writes of a command add up to what FileSystem's command does, and   *)
(* every image between them is well typed.                                 *)
WritesAddUp == /\ world = "cut"   => Cut!ImageTyped /\ Cut!WritesAddUp
               /\ world = "room"  => Room!ImageTyped /\ Room!WritesAddUp
               /\ world = "grown" => Grown!WritesAddUp

(* Until its last write a command changes nothing to be seen but the inode *)
(* it is about (mkdir, create, rmdir, delete, write).                      *)
CrashIsLocal == /\ world = "cut"   => Cut!CrashIsLocal
                /\ world = "room"  => Room!CrashIsLocal
                /\ world = "grown" => Grown!CrashIsLocal

(* Wherever a crash hits, no block that new_block would hand out holds old *)
(* data; crashes in mkdir, create and write never let two inodes share a   *)
(* block, and leave the counters too high by one each at most.             *)
CrashKeepsBlocks ==
  /\ world = "cut"  => Cut!FreeBlocksStayClean /\ Cut!OwnershipSurvives /\ Cut!CountersDrift
  /\ world = "room" => Room!FreeBlocksStayClean /\ Room!OwnershipSurvives /\ Room!CountersDrift
=============================================================================
