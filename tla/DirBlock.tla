------------------------------- MODULE DirBlock -------------------------------
(***************************************************************************)
(* One data block of a directory of lab3/3.c: a chain of DirEntry records, *)
(* each reaching to the next by its rec_len.  The chain ends at the first  *)
(* position whose inode field is zero, so a block is modelled by the       *)
(* sequence of the entries a scan of it visits.  The 6 bytes of header and *)
(* the terminating NUL make an entry of 7 + strlen(name) bytes.            *)
(***************************************************************************)
EXTENDS Integers, SequencesExt

CONSTANTS
  Names,          \* the names typed at the prompt, "." and ".." among them
  NameLen,        \* strlen of each name
  INODE_COUNT,    \* entries of the inode table
  BLOCK_SIZE,     \* bytes of a block
  DIRENTRY_SIZE   \* sizeof(DirEntry), what a struct assignment copies

ASSUME NameLenAssumption == NameLen \in [Names -> Nat]
ASSUME SizeAssumption ==
  /\ INODE_COUNT \in Nat \ {0}
  /\ BLOCK_SIZE \in Nat
  /\ DIRENTRY_SIZE \in Nat
  /\ \A nm \in Names : 7 + NameLen[nm] + 1 < BLOCK_SIZE

Inodes == 1 .. INODE_COUNT      \* 0 in an entry or in a result means none

FT_UNKNOWN  == 0
FT_REG_FILE == 1
FT_DIR      == 2

DirEntry == [inode : Inodes, rec_len : Nat, name : Names,
             file_type : {FT_REG_FILE, FT_DIR}]

RecLen(name) == 7 + NameLen[name]

(* The entry built by init_dir_entry and init_dir_entry_with_inode. *)
NewEntry(name, type, i) ==
  [inode |-> i, rec_len |-> RecLen(name), name |-> name, file_type |-> type]

(* Bytes of an entry behind its name, up to the next entry. *)
Slack(e) == e.rec_len - RecLen(e.name)

(* Where the scan stops: the chain's length in bytes. *)
ChainEnd(c) ==
  LET upto[k \in 0 .. Len(c)] == IF k = 0 THEN 0 ELSE upto[k - 1] + c[k].rec_len
  IN  upto[Len(c)]

-----------------------------------------------------------------------------
(* append_dir_entry: the first entry with enough slack is cut to its name  *)
(* and the new one takes all of that slack; else it goes behind the chain. *)

Splittable_tight(c, e) ==                 \* mutant: off by one
  SelectInSeq(c, LAMBDA x : Slack(x) >= e.rec_len - 1)

Splittable(c, e) == SelectInSeq(c, LAMBDA x : Slack(x) >= e.rec_len)

HasRoom(c, e) == \/ Splittable(c, e) > 0
                 \/ BLOCK_SIZE - ChainEnd(c) > e.rec_len

(* A struct assignment at the end of the chain that reaches past the       *)
(* 512-byte heap copy of the block writes outside that copy.               *)
Overruns(c, e) == /\ Splittable(c, e) = 0
                  /\ ChainEnd(c) + DIRENTRY_SIZE > BLOCK_SIZE

(* A chain of BLOCK_SIZE - 1 bytes: the inode field a later scan reads     *)
(* behind it lies half outside the copy.                                   *)
ScanOverruns(c, e) == /\ Splittable(c, e) = 0
                      /\ ChainEnd(c) + e.rec_len = BLOCK_SIZE - 1

append_dir_entry(c, e) ==
  LET k == Splittable(c, e)
  IN  IF k > 0
      THEN InsertAt([c EXCEPT ![k].rec_len = RecLen(c[k].name)], k + 1,
                    [e EXCEPT !.rec_len = Slack(c[k])])
      ELSE Append(c, e)

-----------------------------------------------------------------------------
(* delete_dir_entry looks only at the entry after the current one, so the  *)
(* first entry of a block is never a candidate.                            *)
DeletableAt_anytype(c, name, type) ==     \* mutant: file_type not compared
  SelectInSubSeq(c, 2, Len(c), LAMBDA e : e.name = name)

DeletableAt(c, name, type) ==
  SelectInSubSeq(c, 2, Len(c), LAMBDA e : e.name = name /\ e.file_type = type)

delete_dir_entry(c, name, type) ==
  LET k == DeletableAt(c, name, type)
  IN  IF k = 0
      THEN c
      ELSE RemoveAt([c EXCEPT ![k-1].rec_len = @ + c[k].rec_len], k)

(* search_file_name: the inode of the first entry of that name and type.   *)
search_file_name(c, name, type) ==
  LET k == SelectInSeq(c, LAMBDA e : e.name = name /\ e.file_type = type)
  IN  IF k = 0 THEN 0 ELSE c[k].inode

(* The entries tile the front of the block and each holds its own name.    *)
ChainOK(c) == /\ ChainEnd(c) < BLOCK_SIZE
              /\ \A k \in DOMAIN c : Slack(c[k]) >= 0
=============================================================================
