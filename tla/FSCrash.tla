-------------------------------- MODULE FSCrash --------------------------------
(***************************************************************************)
(* FileSystem with every write of the image a step of its own and a crash  *)
(* possible between any two.  A command of lab3/3.c changes its image by   *)
(* several writes, each flushed; the operators ..Writes list the images    *)
(* they leave, in the code's order.  disk is what the image will be once   *)
(* the command is done, image is what the file holds.  A crash is any end  *)
(* of the process in between (a typed Ctrl-C during write's input, say);   *)
(* the next start finds image and has no repair.                           *)
(***************************************************************************)
EXTENDS FileSystem

CONSTANTS EmptyPassword,   \* of a zeroed group descriptor, one of Passwords
          MaxCrashes       \* bound: crashes of a behaviour

VARIABLES
  image,     \* the file as it is now
  trail,     \* the images the writes to come will leave
  before,    \* the image the running command started on
  doing,     \* <<command, inode it is about>>
  crashes,   \* how many there were
  harmed     \* whether one has cut a removal or a format

progress == <<image, trail, before, doing, crashes, harmed>>
crashvars == <<vars, progress>>

Idle == <<"none", 0>>
Removing == {"rmdir", "delete", "format"}

InitCrash ==
  /\ Init
  /\ image = disk /\ before = disk /\ trail = <<>> /\ doing = Idle
  /\ crashes = 0 /\ harmed = FALSE

-----------------------------------------------------------------------------
(* The writes of the helpers.                                              *)
Then(s, W(_)) == s \o W(Last(s))

MarkBlock(d, b) == [d EXCEPT !.block_bitmap = @ \cup {b}]
MarkInode(d, i) == [d EXCEPT !.inode_bitmap = @ \cup {i}]

new_block_writes(d) == <<MarkBlock(d, NextBlock(d)), new_block(d)>>

new_inode_writes(d) ==
  LET i == NextInode(d)
  IN  <<MarkInode(d, i), [MarkInode(d, i) EXCEPT !.inode_table[i] = init_inode], new_inode(d)>>

reset_block_writes_bit(d, b) ==            \* mutant: the bit first
  <<[d EXCEPT !.block_bitmap = @ \ {b}], reset_block_entry(d, {b})>>

reset_block_writes(d, b) == <<MarkBlock(reset_block_entry(d, {b}), b), reset_block_entry(d, {b})>>

reset_inode_writes(d, i) == <<MarkInode(reset_inode_table(d, i), i), reset_inode_table(d, i)>>

(* A directory's block, its "." and "..", then the inode that names it.    *)
NewDirectoryWrites(d, i, parent) ==
  LET b  == NextBlock(d)
      s  == new_block_writes(d)
      d1 == AppendEntry(Last(s), b, NewEntry(Dot, FT_DIR, i))
  IN  s \o <<d1, AppendEntry(d1, b, NewEntry(DotDot, FT_DIR, parent)), NewDirectory(d, i, parent)>>

-----------------------------------------------------------------------------
(* The writes of the commands.  The entry goes where there is room, or     *)
(* into a new block that the directory's inode names in the last write.    *)
AppendWrites(d, p, e) ==
  LET k == FirstWithRoom(d, p, e)
      b == NextBlock(d)
      s == new_block_writes(d)
  IN  IF k > 0
      THEN <<AppendEntry(d, d.inode_table[p].block[k], e)>>
      ELSE s \o <<AppendEntry(Last(s), b, e), AppendEntry(AddBlock(d, p), b, e)>>

ObjectWrites(d, i, name, type, parent) ==
  IF type # FT_DIR THEN <<NewFile(d, i, name)>>
  ELSE IF d.free_blocks = 0 THEN <<CountDir(d)>>
  ELSE <<CountDir(d)>> \o NewDirectoryWrites(CountDir(d), i, parent)

MakeWrites_entryfirst(name, type) ==       \* mutant: the entry before its inode
  LET i == NextInode(disk)
      e == NewEntry(name, type, i)
      grown(d) == <<AddSize(d, current_dir, RecLen(name))>>
  IN  IF disk.free_inodes = 0 THEN grown(disk)
      ELSE LET s1 == AppendWrites(disk, current_dir, e)
               s2 == Then(s1, new_inode_writes)
               s3 == Then(s2, LAMBDA d : ObjectWrites(d, i, name, type, current_dir))
           IN  Then(s3, grown)

MakeWrites(name, type) ==
  LET i == NextInode(disk)
      grown(d) == <<AddSize(d, current_dir, RecLen(name))>>
  IN  IF disk.free_inodes = 0 THEN grown(disk)
      ELSE LET s1 == new_inode_writes(disk)
               s2 == Then(s1, LAMBDA d : ObjectWrites(d, i, name, type, current_dir))
               s3 == Then(s2, grown)
           IN  Then(s3, LAMBDA d : AppendWrites(d, current_dir, NewEntry(name, type, i)))

(* A removal: the blocks one by one, the inode, the size of the working    *)
(* directory, the counters, and the entry last.                            *)
FreeWrites(i) ==
  LET bs == DataBlocks(disk.inode_table[i])
      after[k \in 0 .. Len(bs)] ==
        IF k = 0 THEN <<disk>> ELSE Then(after[k - 1], LAMBDA d : reset_block_writes(d, bs[k]))
  IN  Then(after[Len(bs)], LAMBDA d : reset_inode_writes(d, i))

CountFreed(d, n, type) ==
  [d EXCEPT !.free_blocks = (@ + Len(n.block)) % UINT16,
            !.free_inodes = (@ + 1) % UINT16,
            !.used_dirs   = IF type = FT_DIR THEN (@ - 1) % UINT16 ELSE @]

RemoveWrites_named(i, name, type) ==       \* mutant: the entry stays
  Then(Then(FreeWrites(i), LAMBDA d : <<AddSize(d, current_dir, - RecLen(name))>>),
       LAMBDA d : <<CountFreed(d, disk.inode_table[i], type)>>)

RemoveWrites(i, name, type) ==
  LET s1 == Then(FreeWrites(i), LAMBDA d : <<AddSize(d, current_dir, - RecLen(name))>>)
      s2 == Then(s1, LAMBDA d : <<CountFreed(d, disk.inode_table[i], type)>>)
  IN  Then(s2, LAMBDA d : <<DeleteEntry(d, current_dir, name, type)>>)

(* A write of n characters, the last of them into block k of the blocks bs *)
(* the file will have: a first block is allocated before they are typed,   *)
(* each further one once the block before it is full, and the inode is     *)
(* saved last.                                                             *)
FillWrites(i, n, k, bs) ==
  LET ino == disk.inode_table[i]
      upto(j) == IF j < k THEN RoomIn(disk, ino, j) ELSE n - RoomBefore(disk, ino, k)
      fill(d, j) == <<[d EXCEPT !.text[bs[j]] = @ + upto(j)]>>
      after[j \in 0 .. k] ==
        IF j = 0 THEN <<disk>>
        ELSE IF j > Len(ino.block)
             THEN Then(Then(after[j - 1], new_block_writes), LAMBDA d : fill(d, j))
             ELSE Then(after[j - 1], LAMBDA d : fill(d, j))
  IN  Then(Tail(after[k]), LAMBDA d : <<AddSize([d EXCEPT !.inode_table[i].block = bs], i, n + 1)>>)

WriteWrites(i, n) ==
  LET ino == disk.inode_table[i]
      k   == CHOOSE k \in 1 .. DIRECT : /\ n <= RoomBefore(disk, ino, k) + RoomIn(disk, ino, k)
                                        /\ k > 1 => n > RoomBefore(disk, ino, k)
      g   == IF k > Len(ino.block) THEN k - Len(ino.block) ELSE 0
  IN  FillWrites(i, n, k, ino.block \o CHOOSE nb \in NewBlocks(disk, g) : TRUE)

(* format zeroes the image block by block, asks for the password, saves a  *)
(* new group descriptor and makes the root.                                *)
FormatWrites(pw) ==
  LET z1 == [disk EXCEPT !.free_blocks = 0, !.free_inodes = 0, !.used_dirs = 0,
                         !.password = EmptyPassword]
      z2 == [z1 EXCEPT !.block_bitmap = {}]
      z3 == [z2 EXCEPT !.inode_bitmap = {}]
      z4 == [z3 EXCEPT !.inode_table = EmptyDisk(pw).inode_table]
      zeroed[b \in 0 .. DATA_BLOCK_COUNT] ==
        IF b = 0 THEN <<z1, z2, z3, z4>>
        ELSE Then(zeroed[b - 1], LAMBDA d : <<[d EXCEPT !.dirents[b - 1] = <<>>, !.text[b - 1] = 0]>>)
      s1 == Then(Append(zeroed[DATA_BLOCK_COUNT], EmptyDisk(pw)), new_inode_writes)
  IN  Then(s1, LAMBDA d : ObjectWrites(d, 1, Dot, FT_DIR, 1))

-----------------------------------------------------------------------------
(* A command begins: FileSystem says what it decides and what it will have *)
(* done.  Commands that reach the index block, or that leave defined       *)
(* behaviour, are not broken into writes; and nothing is begun on an image *)
(* on which a removal or a format was cut: nothing is promised of it.      *)
NoIndex(i) == Len(disk'.inode_table[i].block) <= DIRECT /\ disk'.inode_table[i].sub = <<>>

Ready == trail = <<>> /\ ~ harmed

Begin(what, i, writes) ==
  /\ Ready /\ status' # "undefined"
  /\ trail' = writes /\ before' = disk /\ doing' = <<what, i>>
  /\ UNCHANGED <<image, crashes, harmed>>

NewInode == IF disk.free_inodes = 0 THEN 0 ELSE NextInode(disk)

Make(name) ==
  \/ mkdir(name) /\ NoIndex(current_dir)
     /\ Begin("mkdir", NewInode, MakeWrites(name, FT_DIR))
  \/ create(name) /\ NoIndex(current_dir)
     /\ Begin("create", NewInode, MakeWrites(name, FT_REG_FILE))

Unlink(name) ==
  \/ LET i == handle_search_inode(disk, current_dir, name, FT_DIR)
     IN  rmdir(name) /\ Begin("rmdir", i, RemoveWrites(i, name, FT_DIR))
  \/ delete(name) /\ Begin("delete", Named(name), RemoveWrites(Named(name), name, FT_REG_FILE))

Store(name, n) ==
  /\ n > 0 /\ write(name, n) /\ NoIndex(Named(name))
  /\ Begin("write", Named(name), WriteWrites(Named(name), n))

Format(pw) == format(pw) /\ Begin("format", 1, FormatWrites(pw))

(* Commands of at most one write, and those that write nothing.            *)
Short ==
  /\ Ready
  /\ \/ Start \/ quit
     \/ \E pw \in Passwords : login(pw) \/ pwd(pw)
     \/ \E name \in Names :
          \/ cd(name) \/ open(name) \/ close(name)
          \/ \E sign \in {"+", "-"}, r, w, x \in 0 .. MaxLetters : chmod(sign, r, w, x, name)
  /\ status' # "undefined"
  /\ image' = disk' /\ before' = disk'
  /\ UNCHANGED <<trail, doing, crashes, harmed>>

fflush ==
  /\ trail # <<>>
  /\ image' = Head(trail) /\ trail' = Tail(trail)
  /\ IF trail' # <<>> THEN UNCHANGED <<before, doing>>
                      ELSE before' = image' /\ doing' = Idle
  /\ UNCHANGED <<vars, crashes, harmed>>

Crash ==
  /\ trail # <<>> /\ crashes < MaxCrashes
  /\ crashes' = crashes + 1 /\ harmed' = (harmed \/ doing[1] \in Removing)
  /\ disk' = image /\ status' = "off" /\ initialize_memory
  /\ trail' = <<>> /\ before' = image /\ doing' = Idle
  /\ UNCHANGED image

NextCrash ==
  \/ Short \/ fflush \/ Crash
  \/ \E pw \in Passwords : Format(pw)
  \/ \E name \in Names :
       \/ name \in Made /\ Make(name)
       \/ Unlink(name)
       \/ \E n \in WriteSizes : Store(name, n)

SpecCrash == InitCrash /\ [][NextCrash]_crashvars

-----------------------------------------------------------------------------
(* The image holds a possible image, whatever was cut short.               *)
ImageTyped == image \in Disk

(* The writes of a command add up to what FileSystem's command does.       *)
WritesAddUp == disk = IF trail = <<>> THEN image ELSE Last(trail)

(* A removal zeroes each block before it clears its bit, and a format has  *)
(* zeroed the counters first: wherever a crash hits, no block that         *)
(* new_block would hand out holds old data.                                *)
FreeBlocksStayClean == image.free_blocks > 0 => IsClean(image)

Intact == ~ harmed /\ doing[1] \notin Removing

(* mkdir, create and write mark a block before an inode names it: crashes  *)
(* in them, however many, never let two inodes share a block.  (A removal  *)
(* clears the bits first and may be cut with its inode still in place.)    *)
OwnershipSurvives == Intact => OwnsBlocks(image)

(* What is seen of an inode: the entries of a directory, a file's text.    *)
Shown(d, i) == IF d.inode_table[i].type = FT_DIR
               THEN {<<e.name, e.file_type, e.inode>> : e \in Children(d, i)}
               ELSE Contents(d, i)
Entries(d) == UNION {Children(d, p) : p \in LiveDirs(d)}
NamedBy(d) == {1} \cup {e.inode : e \in Entries(d)}

(* Until its last write a command changes nothing to be seen but the inode *)
(* it is about.  So mkdir and create are atomic up to leaked inodes and    *)
(* blocks, as the entry is stored last, and a removal that is cut leaves   *)
(* the name for another try and every other object whole.                  *)
CrashIsLocal ==
  trail # <<>> /\ doing[1] # "format" =>
    \A i \in NamedBy(before) \ {doing[2]} : Shown(image, i) = Shown(before, i)

(* The counters are saved after the bitmaps and before the entry: crashes  *)
(* in mkdir, create and write leave them too high, by one each at most.    *)
(* (With the counter positive and no bit clear new_block scans too far.)   *)
Drift == 0 .. crashes + IF trail = <<>> THEN 0 ELSE 1
CountersDrift ==
  Intact =>
    /\ image.free_blocks - Cardinality(FreeBlocks(image)) \in Drift
    /\ image.free_inodes - Cardinality(FreeInodes(image)) \in Drift
    /\ image.used_dirs - 1 - Cardinality({e \in Entries(image) : e.file_type = FT_DIR}) \in Drift
=============================================================================
