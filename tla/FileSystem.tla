------------------------------ MODULE FileSystem ------------------------------
(***************************************************************************)
(* The EXT2-like file system and shell of lab3/3.c.  One process owns the  *)
(* disk image FS.txt and serves one command line at a time, so every shell *)
(* command is one action.  The helpers of the C program are operators from *)
(* disk image to disk image under their C names, and a command composes    *)
(* them in the order the code calls them.  Every helper writes the image   *)
(* through, so disk is what a restarted program finds.                     *)
(*                                                                         *)
(* The index block i_block[6] is only ever reached through its inode; the  *)
(* blocks its first record names are kept beside the inode, in sub.        *)
(* Time stamps are left out, and with them ls and read, which change       *)
(* nothing else.                                                           *)
(***************************************************************************)
EXTENDS DirBlock, FiniteSets

CONSTANTS
  DATA_BLOCK_COUNT,  \* data blocks of the image
  DIRECT,            \* direct blocks of an inode (6 in the code)
  FOPEN_TABLE_MAX,   \* slots of the open file table
  PATH_SIZE,         \* bytes of current_path
  UINT16, UINT32,    \* 2^16 and 2^32, the moduli of the counters and sizes
  Dot, DotDot,       \* the names "." and ".."
  Executable,        \* names without extension or with .exe, .bin or .com
  Parts,             \* the '/'-separated parts of each name
  PartLen,           \* strlen of each part
  Made,              \* bound: the names given to mkdir and create
  Passwords,         \* what may be typed at a password prompt
  WriteSizes,        \* how many characters a write may be given
  MaxFileSize,       \* bound: no write takes i_size beyond it
  MaxDirSize,        \* bound: no entry takes i_size of its directory beyond it
  MaxLetters         \* bound: repetitions of r, w, x in a chmod

VARIABLES
  disk,          \* the image FS.txt
  fopen_table,   \* the slots of the open file table, 0 if unused
  current_dir,   \* the inode of the working directory
  current_path,  \* the parts of the printed path behind "root"
  status         \* "off", "login", "shell"; "dead" after a signal killed it;
                 \* "undefined" once the code's behaviour is undefined

vars == <<disk, fopen_table, current_dir, current_path, status>>
memory == <<fopen_table, current_dir, current_path>>

Blocks == 0 .. DATA_BLOCK_COUNT - 1
CAP    == BLOCK_SIZE - 1           \* text bytes a block holds: strlen is its fill
Bits   == {1, 2, 4, 8, 16, 32, 64, 128}
AllParts == DOMAIN PartLen

ASSUME ConstAssumption ==
  /\ DATA_BLOCK_COUNT \in Nat \ {0}
  /\ DIRECT \in Nat \ {0}
  /\ FOPEN_TABLE_MAX \in Nat \ {0}
  /\ PATH_SIZE \in Nat
  /\ UINT16 \in Nat /\ DATA_BLOCK_COUNT < UINT16 /\ INODE_COUNT < UINT16
  /\ UINT32 \in Nat /\ 17 < UINT32
  /\ Dot \in Names /\ DotDot \in Names /\ Dot # DotDot
  /\ NameLen[Dot] = 1 /\ NameLen[DotDot] = 2 /\ 17 < BLOCK_SIZE   \* both in one block
  /\ Executable \subseteq Names /\ Made \subseteq Names
  /\ PartLen \in [AllParts -> Nat]
  /\ Parts \in [Names -> Seq(AllParts)]
  /\ WriteSizes \subseteq Nat
  /\ MaxFileSize \in Nat
  /\ MaxDirSize \in Nat
  /\ MaxLetters \in Nat /\ 7 * MaxLetters < 256   \* within the low byte

-----------------------------------------------------------------------------
(* The disk image.  i_mode is split into its high byte (type) and the bits *)
(* of its low byte (perm); i_blocks is Len(block).                         *)

Inode == [type : {FT_UNKNOWN, FT_REG_FILE, FT_DIR}, perm : SUBSET Bits,
          size : 0 .. UINT32 - 1, block : Seq(Blocks), sub : Seq(Blocks)]

NoInode == [type |-> FT_UNKNOWN, perm |-> {}, size |-> 0,
            block |-> <<>>, sub |-> <<>>]

init_inode == [NoInode EXCEPT !.perm = {4, 2}]

Disk == [free_blocks : 0 .. UINT16 - 1, free_inodes : 0 .. UINT16 - 1,
         used_dirs : 0 .. UINT16 - 1, password : Passwords,
         block_bitmap : SUBSET Blocks, inode_bitmap : SUBSET Inodes,
         inode_table : [Inodes -> Inode],
         dirents : [Blocks -> Seq(DirEntry)],   \* a directory block's chain
         text : [Blocks -> 0 .. CAP]]           \* a file block's fill

(* The data blocks of an inode in the order the handlers walk them.        *)
Direct(n) == SubSeq(n.block, 1, Min({DIRECT, Len(n.block)}))
DataBlocks(n) == Direct(n) \o n.sub

(* new_block and new_inode take the lowest clear bit; with the counter     *)
(* positive and no bit clear they scan beyond the bitmap.                  *)
FreeBlocks(d) == Blocks \ d.block_bitmap
FreeInodes(d) == Inodes \ d.inode_bitmap
CanNewBlock(d) == d.free_blocks > 0 /\ FreeBlocks(d) # {}
CanNewInode(d) == d.free_inodes > 0 /\ FreeInodes(d) # {}
NextBlock(d) == Min(FreeBlocks(d))
NextInode(d) == Min(FreeInodes(d))

new_block(d) == [d EXCEPT !.block_bitmap = @ \cup {NextBlock(d)},
                          !.free_blocks = @ - 1]

new_inode(d) == [d EXCEPT !.inode_bitmap = @ \cup {NextInode(d)},
                          !.inode_table[NextInode(d)] = init_inode,
                          !.free_inodes = @ - 1]

reset_block_keeps_data(d, bs) == [d EXCEPT !.block_bitmap = @ \ bs]  \* mutant


(* reset_block_entry on every data block of an inode.                      *)
reset_block_entry(d, bs) ==
  [d EXCEPT !.block_bitmap = @ \ bs,
            !.dirents = [b \in Blocks |-> IF b \in bs THEN <<>> ELSE @[b]],
            !.text    = [b \in Blocks |-> IF b \in bs THEN 0 ELSE @[b]]]

reset_inode_keeps_table(d, i) == [d EXCEPT !.inode_bitmap = @ \ {i}]       \* mutant

reset_inode_table(d, i) == [d EXCEPT !.inode_table[i] = NoInode,
                                     !.inode_bitmap = @ \ {i}]

(* The inode a name of that type has in directory p, 0 if none.            *)
handle_search_inode(d, p, name, type) ==
  LET bs == DataBlocks(d.inode_table[p])
      k  == SelectInSeq(bs, LAMBDA b : search_file_name(d.dirents[b], name, type) # 0)
  IN  IF k = 0 THEN 0 ELSE search_file_name(d.dirents[bs[k]], name, type)

(* Removes the first deletable entry of that name and type from p.         *)
DeleteEntry(d, p, name, type) ==
  LET bs == DataBlocks(d.inode_table[p])
      k  == SelectInSeq(bs, LAMBDA b : DeletableAt(d.dirents[b], name, type) # 0)
  IN  IF k = 0 THEN d
      ELSE [d EXCEPT !.dirents[bs[k]] = delete_dir_entry(@, name, type)]

AddSize_signed(d, i, n) == [d EXCEPT !.inode_table[i].size = @ + n]     \* mutant
AddSize_lost(d, i, n) == IF n > 0 THEN d                \* mutant: not saved
                         ELSE [d EXCEPT !.inode_table[i].size = (@ + n) % UINT32]

AddSize(d, i, n) == [d EXCEPT !.inode_table[i].size = (@ + n) % UINT32]

AppendEntry(d, b, e) == [d EXCEPT !.dirents[b] = append_dir_entry(@, e)]

(* i_block[i_blocks++] = new_block() and the same for the index block.     *)
AddBlock(d, i) == [new_block(d) EXCEPT !.inode_table[i].block = Append(@, NextBlock(d))]
AddSub(d, i)   == [new_block(d) EXCEPT !.inode_table[i].sub = Append(@, NextBlock(d))]

-----------------------------------------------------------------------------
(* initialize_memory and initialize_disk: a zeroed image whose root is     *)
(* inode 1 with its entries "." and ".." in block 0.                       *)

EmptyDisk(pw) ==
  [free_blocks |-> DATA_BLOCK_COUNT, free_inodes |-> INODE_COUNT,
   used_dirs |-> 0, password |-> pw,
   block_bitmap |-> {}, inode_bitmap |-> {},
   inode_table |-> [i \in Inodes |-> NoInode],
   dirents |-> [b \in Blocks |-> <<>>], text |-> [b \in Blocks |-> 0]]

AppendDots(d, b, i, parent) ==
  AppendEntry(AppendEntry(d, b, NewEntry(Dot, FT_DIR, i)),
              b, NewEntry(DotDot, FT_DIR, parent))

(* new_dir_entry's work for a directory whose block can be allocated.      *)
NewDirectory(d, i, parent) ==
  LET b == NextBlock(d)
  IN  AppendDots([new_block(d) EXCEPT
                    !.inode_table[i].type = FT_DIR,
                    !.inode_table[i].block = <<b>>,
                    !.inode_table[i].size = RecLen(Dot) + RecLen(DotDot)],
                 b, i, parent)

CountDir(d) == [d EXCEPT !.used_dirs = (@ + 1) % UINT16]

initialize_disk(pw) ==
  NewDirectory(CountDir(new_inode(EmptyDisk(pw))), 1, 1)

NoOpenFiles == [s \in 1 .. FOPEN_TABLE_MAX |-> 0]

Init ==
  /\ \E pw \in Passwords : disk = initialize_disk(pw)
  /\ fopen_table = NoOpenFiles
  /\ current_dir = 1
  /\ current_path = <<>>
  /\ status = "login"

initialize_memory ==
  /\ fopen_table' = NoOpenFiles
  /\ current_dir' = 1
  /\ current_path' = <<>>

-----------------------------------------------------------------------------
(* main: the program starts on the image, asks for the password, serves    *)
(* commands and ends by quit or by a signal.                               *)

Start ==
  /\ status \in {"off", "dead"}
  /\ initialize_memory
  /\ status' = "login"
  /\ UNCHANGED disk

login(pw) ==
  /\ status = "login"
  /\ pw = disk.password
  /\ status' = "shell"
  /\ UNCHANGED <<disk, memory>>

(* A process that ends takes its memory along: any value stands for it.    *)
quit ==
  /\ status = "shell"
  /\ status' = "off"
  /\ initialize_memory
  /\ UNCHANGED disk

pwd(pw) ==
  /\ status = "shell"
  /\ disk' = [disk EXCEPT !.password = pw]
  /\ UNCHANGED <<memory, status>>

format(pw) ==
  /\ status = "shell"
  /\ initialize_memory
  /\ disk' = initialize_disk(pw)
  /\ UNCHANGED status

(* The outcomes of a command: the program goes on, is killed by a signal   *)
(* (a NULL dereference, an abort), or leaves defined behaviour.            *)
Saves(d, st) == /\ disk' = d
                /\ status' = st
                /\ IF st = "dead" THEN initialize_memory ELSE UNCHANGED memory
Undefined    == status' = "undefined" /\ UNCHANGED <<disk, memory>>

-----------------------------------------------------------------------------
(* mkdir and create.                                                       *)

(* handle_append_directory, the last step of both: the entry goes into the *)
(* first block with room, else into a new one.  With all direct blocks     *)
(* full the index block is allocated, but the loop that should fill it     *)
(* never runs (its memcmp test is inverted) and the entry is not stored;   *)
(* whether the index block's first record is set up, with a block of its   *)
(* own, depends on what malloc left behind the 8 zeroed bytes of allZero.  *)

FirstWithRoom(d, p, e) ==
  SelectInSeq(Direct(d.inode_table[p]), LAMBDA b : HasRoom(d.dirents[b], e))

StoreEntry(d, b, e) ==
  \/ ~ ScanOverruns(d.dirents[b], e) /\ Saves(AppendEntry(d, b, e), "shell")
  \/ Overruns(d.dirents[b], e) /\ Undefined

IndexBlock(d, i) == IF Len(d.inode_table[i].block) = DIRECT THEN AddBlock(d, i) ELSE d

(* What is left of the image when the direct blocks of i are exhausted.    *)
ReachIndex(d, i, st) ==
  LET grows == Len(d.inode_table[i].block) = DIRECT
      d1    == IndexBlock(d, i)
  IN  IF grows /\ ~ CanNewBlock(d)
      THEN Undefined
      ELSE \/ Saves(d1, st)
           \/ /\ d1.inode_table[i].sub = <<>>
              /\ IF CanNewBlock(d1) THEN Saves(AddSub(d1, i), st) ELSE Undefined

handle_append_directory(d, p, e) ==
  LET n == d.inode_table[p]
      k == FirstWithRoom(d, p, e)
  IN  \/ k > 0 /\ StoreEntry(d, n.block[k], e)
      \/ /\ k = 0 /\ Len(n.block) < DIRECT
         /\ IF CanNewBlock(d) THEN StoreEntry(AddBlock(d, p), NextBlock(d), e)
                              ELSE Undefined
      \/ k = 0 /\ Len(n.block) >= DIRECT /\ ReachIndex(d, p, "shell")

(* new_dir_entry, once new_inode has returned i.  Without a free block a   *)
(* directory gets neither block nor type; a file's inode is only saved     *)
(* again when the name makes it executable.                                *)
NewFile(d, i, name) ==
  IF name \in Executable
  THEN [d EXCEPT !.inode_table[i].type = FT_REG_FILE, !.inode_table[i].perm = {4, 2, 1}]
  ELSE d

NewObject(d, i, name, type) ==
  IF type = FT_DIR
  THEN LET d1 == CountDir(d)
       IN  IF d1.free_blocks = 0 THEN d1 ELSE NewDirectory(d1, i, current_dir)
  ELSE NewFile(d, i, name)

BlocksRunOut(d, type) == type = FT_DIR /\ d.free_blocks > 0 /\ FreeBlocks(d) = {}

(* Without a free inode the parent's size is still saved before the NULL   *)
(* entry is dereferenced.                                                  *)
MakeEntry(name, type) ==
  LET grown(d) == AddSize(d, current_dir, RecLen(name))
      i  == NextInode(disk)
      d1 == NewObject(new_inode(disk), i, name, type)
  IN  /\ status = "shell"
      /\ handle_search_inode(disk, current_dir, name, type) = 0
      /\ disk.inode_table[current_dir].size + RecLen(name) <= MaxDirSize
      /\ \/ disk.free_inodes = 0 /\ Saves(grown(disk), "dead")
         \/ /\ disk.free_inodes > 0
            /\ IF FreeInodes(disk) = {} \/ BlocksRunOut(disk, type)
               THEN Undefined
               ELSE handle_append_directory(grown(d1), current_dir, NewEntry(name, type, i))

mkdir(name)  == MakeEntry(name, FT_DIR)
create(name) == MakeEntry(name, FT_REG_FILE)

-----------------------------------------------------------------------------
(* rmdir and delete.                                                       *)

never_open(i) == FALSE               \* mutant

is_open(i) == \E s \in DOMAIN fopen_table : fopen_table[s] = i

(* Both free the data blocks and the inode, count i_blocks blocks as free, *)
(* shrink the working directory and remove the entry.                      *)
FreeObject(d, i) ==
  LET n  == d.inode_table[i]
      d1 == reset_inode_table(reset_block_entry(d, Range(DataBlocks(n))), i)
  IN  [d1 EXCEPT !.free_blocks = (@ + Len(n.block)) % UINT16,
                 !.free_inodes = (@ + 1) % UINT16]


RemoveObject(d, i, name, type) ==
  DeleteEntry(AddSize(FreeObject(d, i), current_dir, - RecLen(name)),
              current_dir, name, type)

UncountDir(d) == [d EXCEPT !.used_dirs = (@ - 1) % UINT16]

EmptySize == 17      \* i_size of a directory with only "." and ".."

rmdir_any(name) ==                           \* mutant: emptiness not tested
  LET i == handle_search_inode(disk, current_dir, name, FT_DIR)
  IN  /\ status = "shell"
      /\ name \notin {Dot, DotDot}
      /\ i # 0
      /\ Saves(RemoveObject(UncountDir(disk), i, name, FT_DIR), "shell")

rmdir(name) ==
  LET i == handle_search_inode(disk, current_dir, name, FT_DIR)
  IN  /\ status = "shell"
      /\ name \notin {Dot, DotDot}
      /\ i # 0
      /\ disk.inode_table[i].size = EmptySize
      /\ Saves(RemoveObject(UncountDir(disk), i, name, FT_DIR), "shell")

delete(name) ==
  LET i == handle_search_inode(disk, current_dir, name, FT_REG_FILE)
  IN  /\ status = "shell"
      /\ i # 0
      /\ ~ is_open(i)
      /\ Saves(RemoveObject(disk, i, name, FT_REG_FILE), "shell")

-----------------------------------------------------------------------------
(* cd: ".." cuts the printed path at its last '/'; any other name is       *)
(* appended to it, '/' and all.  The buffer holds PATH_SIZE bytes.         *)

PathLen(path) == FoldLeft(LAMBDA n, part : n + 1 + PartLen[part], 4, path)

PathAfter_uncut(name) ==                     \* mutant: ".." keeps the path
  IF name \in {Dot, DotDot} THEN current_path ELSE current_path \o Parts[name]

PathAfter(name) ==
  IF name = Dot THEN current_path
  ELSE IF name # DotDot THEN current_path \o Parts[name]
  ELSE IF current_path = <<>> THEN <<>>
  ELSE SubSeq(current_path, 1, Len(current_path) - 1)

cd(name) ==
  LET i == handle_search_inode(disk, current_dir, name, FT_DIR)
  IN  /\ status = "shell"
      /\ i # 0
      /\ disk.inode_table[i].type = FT_DIR
      /\ IF PathLen(PathAfter(name)) >= PATH_SIZE
         THEN Undefined
         ELSE /\ current_dir' = IF name = Dot THEN current_dir ELSE i
              /\ current_path' = PathAfter(name)
              /\ UNCHANGED <<disk, fopen_table, status>>

-----------------------------------------------------------------------------
(* open, close, write and chmod.  The low byte of i_mode is compared with  *)
(* the listed values as a whole.                                           *)

Named(name) == handle_search_inode(disk, current_dir, name, FT_REG_FILE)

Perm(d, i) == d.inode_table[i].perm
Readable == {{4}, {4, 2}, {4, 2, 1}}          \* what open accepts: 4, 6, 7
Writable_as_open == Readable                  \* mutant: the list of open
Writable == {{2}, {2, 1}, {4, 2}, {4, 2, 1}}  \* what write accepts: 2, 3, 6, 7

FreeSlots == {s \in DOMAIN fopen_table : fopen_table[s] = 0}

open(name) ==
  LET i == Named(name)
  IN  /\ status = "shell"
      /\ i # 0
      /\ ~ is_open(i)
      /\ Perm(disk, i) \in Readable
      /\ FreeSlots # {}
      /\ fopen_table' = [fopen_table EXCEPT ![Min(FreeSlots)] = i]
      /\ UNCHANGED <<disk, current_dir, current_path, status>>

close(name) ==
  LET i == Named(name)
  IN  /\ status = "shell"
      /\ i # 0
      /\ is_open(i)
      /\ fopen_table' = [fopen_table EXCEPT
                           ![Min({s \in DOMAIN fopen_table : fopen_table[s] = i})] = 0]
      /\ UNCHANGED <<disk, current_dir, current_path, status>>

(* handle_write_inode.  Block k of the file (a new one behind the last)    *)
(* takes what the blocks before it had no room for; the loop stops at the  *)
(* first block that holds the rest.                                        *)

RoomIn(d, n, k) == IF k <= Len(n.block) THEN CAP - d.text[n.block[k]] ELSE CAP
RoomBefore(d, n, k) ==
  LET room[j \in 0 .. k - 1] == IF j = 0 THEN 0 ELSE room[j - 1] + RoomIn(d, n, j)
  IN  room[k - 1]

(* The blocks a write of g new ones allocates: the g lowest free ones.     *)
NewBlocks(d, g) ==
  {nb \in [1 .. g -> FreeBlocks(d)] :
     /\ \A j, k \in 1 .. g : j < k => nb[j] < nb[k]
     /\ \A j \in 1 .. g, b \in FreeBlocks(d) : b < nb[j] => b \in Range(nb)}

CanNewBlocks(d, g) == d.free_blocks >= g /\ Cardinality(FreeBlocks(d)) >= g

AddBlocks(d, i, nb, size) ==
  AddSize([d EXCEPT !.block_bitmap = @ \cup Range(nb),
                    !.free_blocks = @ - Len(nb),
                    !.inode_table[i].block = @ \o nb], i, size)

(* Full below block k of the file, rest more characters in block k.        *)
FillBlocks_short(d, bs, k, rest) ==          \* mutant: the spilled rest is lost
  [d EXCEPT !.text = [b \in Blocks |->
     IF \E j \in 1 .. k - 1 : bs[j] = b THEN CAP ELSE @[b]]]
FillBlocks(d, bs, k, rest) ==
  [d EXCEPT !.text = [b \in Blocks |->
     IF \E j \in 1 .. k - 1 : bs[j] = b THEN CAP
     ELSE IF k <= Len(bs) /\ bs[k] = b THEN @[b] + rest ELSE @[b]]]

(* The write freed its buffer's start only if it never moved on from it.   *)
AfterWrite(moved) == IF moved > 0 THEN "dead" ELSE "shell"

(* The characters fit: they end in block k of the file.                    *)
WriteFits(i, n, k) ==
  LET ino == disk.inode_table[i]
      g   == IF k > Len(ino.block) THEN k - Len(ino.block) ELSE 0
      before == RoomBefore(disk, ino, k)
  IN  /\ n <= before + RoomIn(disk, ino, k)
      /\ k > 1 => n > before
      /\ IF ~ CanNewBlocks(disk, g)
         THEN Undefined
         ELSE \E rest \in 0 .. RoomIn(disk, ino, k), nb \in NewBlocks(disk, g) :
                /\ rest = n - before
                /\ Saves(FillBlocks(AddBlocks(disk, i, nb, n + 1), ino.block \o nb, k, rest),
                         AfterWrite(before))

(* They do not: the direct blocks are filled, the index block is reached   *)
(* and the rest is dropped there, as for a directory entry.                *)
WriteOverflows(i, n) ==
  LET ino == disk.inode_table[i]
      g   == IF DIRECT > Len(ino.block) THEN DIRECT - Len(ino.block) ELSE 0
      before == RoomBefore(disk, ino, DIRECT + 1)
  IN  /\ n > before
      /\ IF ~ CanNewBlocks(disk, g)
         THEN Undefined
         ELSE \E nb \in NewBlocks(disk, g) :
                ReachIndex(FillBlocks(AddBlocks(disk, i, nb, n + 1),
                                      Direct(ino) \o nb, DIRECT + 1, 0),
                           i, AfterWrite(before))

(* Text written over a directory block is beyond what is modelled.         *)
HoldsEntries(n) == \E k \in DOMAIN n.block : disk.dirents[n.block[k]] # <<>>

write(name, n) ==
  LET i == Named(name)
  IN  /\ status = "shell"
      /\ i # 0
      /\ is_open(i)
      /\ Perm(disk, i) \in Writable
      /\ disk.inode_table[i].size + n + 1 <= MaxFileSize
      /\ IF HoldsEntries(disk.inode_table[i])
         THEN Undefined
         ELSE \/ \E k \in 1 .. DIRECT : WriteFits(i, n, k)
              \/ WriteOverflows(i, n)

(* chmod adds up the letters it is given, so a repeated letter carries     *)
(* into the next bit.                                                      *)
PermBits(r, w, x) == {b \in Bits : ((4*r + 2*w + x) \div b) % 2 = 1}

chmod(sign, r, w, x, name) ==
  LET i == Named(name)
  IN  /\ status = "shell"
      /\ i # 0
      /\ disk' = [disk EXCEPT !.inode_table[i].perm =
                    IF sign = "+" THEN @ \cup PermBits(r, w, x)
                                  ELSE @ \ PermBits(r, w, x)]
      /\ UNCHANGED <<memory, status>>

-----------------------------------------------------------------------------
Next ==
  \/ Start \/ quit
  \/ \E pw \in Passwords : login(pw) \/ pwd(pw) \/ format(pw)
  \/ \E name \in Names :
       \/ name \in Made /\ (mkdir(name) \/ create(name))
       \/ rmdir(name) \/ delete(name)
       \/ cd(name) \/ open(name) \/ close(name)
       \/ \E n \in WriteSizes : write(name, n)
       \/ \E sign \in {"+", "-"}, r, w, x \in 0 .. MaxLetters : chmod(sign, r, w, x, name)

Spec == Init /\ [][Next]_vars

-----------------------------------------------------------------------------
(* Properties.                                                             *)

LiveDirs(d)  == {i \in d.inode_bitmap : d.inode_table[i].type = FT_DIR}
LiveFiles(d) == {i \in d.inode_bitmap : d.inode_table[i].type # FT_DIR}
Owned(n)     == Range(n.block) \cup Range(n.sub)

(* The places of a directory that hold an entry other than its "." and "..". *)
EntryAt(d, at) == d.dirents[at[1]][at[2]]
IsDots(e) == e.name \in {Dot, DotDot} /\ e.file_type = FT_DIR
ChildPlaces(d, p) ==
  {at \in UNION {{b} \X DOMAIN d.dirents[b] : b \in Range(DataBlocks(d.inode_table[p]))} :
     ~ IsDots(EntryAt(d, at))}
Children(d, p) == {EntryAt(d, at) : at \in ChildPlaces(d, p)}

(* What the entries of the live directories name, as FSTree has it.        *)
Objects(d) == UNION {{[inode |-> e.inode, parent |-> p, name |-> e.name, type |-> e.file_type] :
                        e \in Children(d, p)} : p \in LiveDirs(d)}

(* Every variable stays in its type: the counters within 16 bits, every    *)
(* block number inside the image, every chain made of well-typed entries.  *)
TypeOK ==
  /\ disk \in Disk
  /\ fopen_table \in [1 .. FOPEN_TABLE_MAX -> 0 .. INODE_COUNT]
  /\ current_dir \in Inodes
  /\ current_path \in Seq(AllParts)
  /\ status \in {"off", "login", "shell", "dead", "undefined"}

OwnsBlocks(d) ==
  LET table == d.inode_table
  IN  /\ \A i \in Inodes : Owned(table[i]) \subseteq d.block_bitmap
      /\ \A i, j \in Inodes : i # j => Owned(table[i]) \cap Owned(table[j]) = {}
      /\ \A i \in Inodes : /\ IsInjective(table[i].block)
                           /\ IsInjective(table[i].sub)
                           /\ Range(table[i].block) \cap Range(table[i].sub) = {}

(* No block belongs to two inodes or twice to one, and every block an      *)
(* inode refers to is marked in the bitmap, so new_block never hands out a *)
(* block that is in use (new_block, reset_block_entry, their callers).     *)
BlockOwnership == OwnsBlocks(disk)

(* A free block is all zeros: nothing of a removed file or directory shows *)
(* up in a new one, which append_dir_entry and try_write rely on, as       *)
(* new_block does not clear what it hands out.                             *)
IsClean(d) == \A b \in FreeBlocks(d) : d.dirents[b] = <<>> /\ d.text[b] = 0
FreeBlocksClean == IsClean(disk)

(* Every chain ends inside its block and every entry has room for its name *)
(* through any sequence of splits and merges.                              *)
ChainsFit == \A b \in Blocks : ChainOK(disk.dirents[b])

(* Every inode in use, except the root, is named by exactly one entry of   *)
(* the directories: what create and mkdir make can be found again.         *)
EveryInodeNamed ==
  \A i \in disk.inode_bitmap \ {1} :
    \E p \in LiveDirs(disk) : \E at \in ChildPlaces(disk, p) :
      /\ EntryAt(disk, at).inode = i
      /\ \A q \in LiveDirs(disk) : \A to \in ChildPlaces(disk, q) :
           EntryAt(disk, to).inode = i => to = at

(* No entry is left behind for an inode that rmdir or delete has freed.    *)
NoDanglingEntry ==
  \A p \in LiveDirs(disk) : \A e \in Children(disk, p) : e.inode \in disk.inode_bitmap

(* The directories form a tree: "." is the directory itself and ".." is a  *)
(* live directory that has an entry for it (the root is its own parent).   *)
DotsFormTree ==
  \A p \in LiveDirs(disk) :
    LET parent == handle_search_inode(disk, p, DotDot, FT_DIR)
    IN  /\ handle_search_inode(disk, p, Dot, FT_DIR) = p
        /\ parent \in LiveDirs(disk)
        /\ IF p = 1 THEN parent = 1
                    ELSE \E e \in Children(disk, parent) : e.inode = p /\ e.file_type = FT_DIR

(* i_size of a directory never falls below the bytes of its entries, so    *)
(* the size test of rmdir cannot take a directory in use for empty.        *)
DirSizeCovers ==
  \A p \in LiveDirs(disk) :
    disk.inode_table[p].size >=
      EmptySize + MapThenSumSet(LAMBDA at : RecLen(EntryAt(disk, at).name), ChildPlaces(disk, p))

(* The group descriptor counts what the bitmaps and directories say.       *)
CountersMatch ==
  /\ disk.free_blocks = Cardinality(FreeBlocks(disk))
  /\ disk.free_inodes = Cardinality(FreeInodes(disk))
  /\ disk.used_dirs = 1 + Cardinality(UNION {
       {at \in ChildPlaces(disk, p) : EntryAt(disk, at).file_type = FT_DIR} : p \in LiveDirs(disk)})

(* Every marked block belongs to an inode: none is lost to the system.     *)
NoLeakedBlock ==
  disk.block_bitmap \subseteq UNION {Owned(disk.inode_table[i]) : i \in Inodes}

(* No slot of the open file table outlives its file: each open inode is a  *)
(* live file, in one slot only (is_open guards delete and open).           *)
OpenFilesLive ==
  \A s \in DOMAIN fopen_table :
    fopen_table[s] # 0 =>
      /\ fopen_table[s] \in LiveFiles(disk)
      /\ \A t \in DOMAIN fopen_table : fopen_table[t] = fopen_table[s] => t = s

(* The names met on the way up from current_dir by "..".                   *)
NameIn(p, i) == (CHOOSE e \in Children(disk, p) : e.inode = i /\ e.file_type = FT_DIR).name
Climb ==
  LET up[k \in 0 .. INODE_COUNT] ==
        IF k = 0 THEN <<current_dir, <<>>>>
        ELSE LET i == up[k-1][1]
                 p == handle_search_inode(disk, i, DotDot, FT_DIR)
             IN  IF i = 1 THEN up[k-1] ELSE <<p, Parts[NameIn(p, i)] \o up[k-1][2]>>
  IN  up[INODE_COUNT]

(* The prompt tells the truth: the working directory is a live directory   *)
(* and current_path is the path that leads to it from the root (cd).       *)
PathNamesDir == current_dir \in LiveDirs(disk) /\ Climb = <<1, current_path>>

(* Every block of a file but its last is full, and what the file stores is *)
(* never more than i_size says.                                            *)
Stored(d, i) ==
  LET bs == d.inode_table[i].block
      upto[k \in 0 .. Len(bs)] == IF k = 0 THEN 0 ELSE upto[k - 1] + d.text[bs[k]]
  IN  upto[Len(bs)]
FilesPacked ==
  \A i \in LiveFiles(disk) :
    LET n == disk.inode_table[i]
    IN  /\ \A k \in 1 .. Len(n.block) - 1 : disk.text[n.block[k]] = CAP
        /\ Stored(disk, i) <= n.size

Reformatted == disk' = initialize_disk(disk'.password)

(* A write stores every character i_size is raised by (it counts one more  *)
(* for the NUL) as far as the direct blocks have room; the rest is dropped *)
(* at the index block.                                                     *)
StoresWhatFits ==
  \A i \in (LiveFiles(disk) \cap LiveFiles(disk')) \ {current_dir} :
    LET n == disk'.inode_table[i].size - disk.inode_table[i].size - 1
    IN  n >= 0 => Stored(disk', i) - Stored(disk, i) =
                    Min({n, RoomBefore(disk, disk.inode_table[i], DIRECT + 1)})

(* A command changes the stored text of no file but the one whose size it  *)
(* changes: commands on other names never reach into a file's blocks.      *)
Contents(d, i) == [k \in DOMAIN d.inode_table[i].block |-> d.text[d.inode_table[i].block[k]]]
KeepsOtherFiles ==
  \A i \in LiveFiles(disk) \cap LiveFiles(disk') :
    disk'.inode_table[i].size = disk.inode_table[i].size => Contents(disk', i) = Contents(disk, i)

(* No split or merge loses bytes of a directory block: its chain shrinks   *)
(* only when the block is reset.                                           *)
KeepsChains ==
  \A b \in Blocks : ChainEnd(disk'.dirents[b]) < ChainEnd(disk.dirents[b]) =>
                      disk'.dirents[b] = <<>> \/ Reformatted

(* Permissions hold at the moment of use: a slot is only filled for a file *)
(* with r, and text is only stored in a file with w, whatever chmod did    *)
(* between open and write.                                                 *)
RespectsMode ==
  /\ \A s \in DOMAIN fopen_table :
       fopen_table'[s] \notin {0, fopen_table[s]} => 4 \in Perm(disk, fopen_table'[s])
  /\ \A i \in LiveFiles(disk) \cap LiveFiles(disk') :
       Contents(disk', i) # Contents(disk, i) => 2 \in Perm(disk, i)

(* An inode mkdir or create has taken is named in the working directory,   *)
(* unless all its direct blocks are there and none has room.               *)
NamedIn(d, p, i) == \E b \in Range(DataBlocks(d.inode_table[p])) :
                      \E k \in DOMAIN d.dirents[b] : d.dirents[b][k].inode = i
NamesUpToDirect ==
  \A i \in disk'.inode_bitmap \ disk.inode_bitmap :
    \/ Reformatted
    \/ NamedIn(disk', current_dir, i)
    \/ /\ Len(disk.inode_table[current_dir].block) >= DIRECT
       /\ \E name \in Made : \A b \in Range(Direct(disk.inode_table[current_dir])) :
            ~ HasRoom(disk.dirents[b], NewEntry(name, FT_DIR, i))

(* Entries and text are lost only where the direct blocks end: what mkdir, *)
(* create and write report is stored as long as these have room.           *)
LostOnlyAtIndex == [][NamesUpToDirect /\ StoresWhatFits]_vars

(* rmdir and delete leave an entry for the inode they free only if one of  *)
(* its entries was the first of a block: that one delete_dir_entry never   *)
(* looks at, and an inode taken again has it beside its own.               *)
DanglesOnlyFirst ==
  \A i \in disk.inode_bitmap \ disk'.inode_bitmap :
    \/ Reformatted
    \/ \A e \in Children(disk', current_dir) : e.inode # i
    \/ \E at \in ChildPlaces(disk, current_dir) :
         EntryAt(disk, at).inode = i /\ at[2] = 1

(* A block that loses its owner but not its mark has been an index block:  *)
(* every block of data that a removal releases can be handed out again.    *)
Leaked(d) == d.block_bitmap \ UNION {Owned(d.inode_table[i]) : i \in Inodes}
=============================================================================
