------------------------------ MODULE MCFileSystem ------------------------------
(* A small instance of FileSystem for TLC whose directories and files outgrow     *)
(* their direct blocks; MCFileWorlds has those that do not.                       *)
EXTENDS FileSystem

NameLengths == (Dot :> 1) @@ (DotDot :> 2) @@ ("long" :> 20)
NameParts   == [nm \in Names |-> <<nm>>]
=============================================================================
