-------------------------------- MODULE MemAlloc --------------------------------
(***************************************************************************)
(* lab2/2-3.c: a simulated memory handed out to processes by first, best   *)
(* or worst fit.  One process serves one menu choice at a time, so every   *)
(* choice is one action.  A linked list is the sequence of its nodes'      *)
(* data; the pointer pre that outlives memory_compaction is kept as what   *)
(* it is: a pointer to a node already freed.                               *)
(***************************************************************************)
EXTENDS Integers, SequencesExt

CONSTANTS
  MIN_SLICE,          \* a remainder below this is not split off (10 in the code)
  DEFAULT_MEM_SIZE,   \* 1024 in the code
  Typed,              \* the numbers typed for a size
  Garbage,            \* what malloc may have left in ab->size
  MaxPid              \* bound: processes created

ASSUME MemAllocAssumption ==
  /\ MIN_SLICE \in Nat /\ DEFAULT_MEM_SIZE \in Nat \ {0}
  /\ Typed \subseteq Int /\ MaxPid \in Nat
  /\ Garbage \subseteq Nat    \* with glibc: fresh memory or half a pointer

MA_FF == 1
MA_BF == 2
MA_WF == 3

VARIABLES
  free_block,            \* the free list: [size, start_addr] each
  allocated_block_head,  \* the processes, newest first: [pid, size, start_addr]
  mem_size, ma_algorithm, pid, flag,
  status                 \* "menu", "exited"; "undefined" once a freed node is used

vars == <<free_block, allocated_block_head, mem_size, ma_algorithm, pid, flag, status>>

Init ==
  /\ free_block = <<[size |-> DEFAULT_MEM_SIZE, start_addr |-> 0]>>   \* init_free_block
  /\ allocated_block_head = <<>>
  /\ mem_size = DEFAULT_MEM_SIZE /\ ma_algorithm = MA_FF
  /\ pid = 0 /\ flag = 0 /\ status = "menu"

-----------------------------------------------------------------------------
(* The three sorts exchange the data of two nodes whenever the later one   *)
(* belongs strictly before the earlier one.                                *)

Before(algorithm, a, b) ==
  CASE algorithm = MA_FF -> a.start_addr < b.start_addr
    [] algorithm = MA_BF -> a.size < b.size
    [] algorithm = MA_WF -> a.size > b.size

Exchange(algorithm, bs, i, j) ==
  IF Before(algorithm, bs[j], bs[i]) THEN [bs EXCEPT ![i] = bs[j], ![j] = bs[i]] ELSE bs

(* One turn of the outer loop: the node i against each later one.          *)
Settle(algorithm, blocks, i) ==
  LET upto[j \in i .. Len(blocks)] ==
        IF j = i THEN blocks ELSE Exchange(algorithm, upto[j - 1], i, j)
  IN  upto[Len(blocks)]

rearrange(algorithm, blocks) ==
  LET settled[i \in 0 .. Len(blocks)] ==
        IF i = 0 THEN blocks ELSE Settle(algorithm, settled[i - 1], i)
  IN  settled[Len(blocks)]

memory_sort(blocks) == rearrange(MA_FF, blocks)

End(b) == b.start_addr + b.size

memory_merge_once(blocks) ==      \* mutant: what was merged is not looked at again
  LET k == SelectInSubSeq([j \in DOMAIN blocks |-> j], 1, Len(blocks) - 1,
                          LAMBDA j : End(blocks[j]) = blocks[j + 1].start_addr)
  IN  IF k = 0 THEN blocks
      ELSE RemoveAt([blocks EXCEPT ![k].size = @ + blocks[k + 1].size], k + 1)

(* Each block is merged into the one before while they touch.              *)
Join(done, b) ==
  IF done # <<>> /\ End(Last(done)) = b.start_addr
  THEN [done EXCEPT ![Len(done)].size = @ + b.size]
  ELSE Append(done, b)

memory_merge(blocks) ==
  LET merged[k \in 0 .. Len(blocks)] ==
        IF k = 0 THEN <<>> ELSE Join(merged[k - 1], blocks[k])
  IN  merged[Len(blocks)]

-----------------------------------------------------------------------------
(* allocate_mem grants the node at position k of the list: the whole of it *)
(* when less than MIN_SLICE would remain, else its front.                  *)

TakesAll(b, request) == b.size - request < MIN_SLICE

Granted(b, request) == [pid |-> pid + 1, start_addr |-> b.start_addr,
                        size |-> IF TakesAll(b, request) THEN b.size ELSE request]

Remaining_unmoved(blocks, k, request) ==         \* mutant: start_addr not advanced
  IF TakesAll(blocks[k], request) THEN RemoveAt(blocks, k)
  ELSE [blocks EXCEPT ![k].size = @ - request]

Remaining(blocks, k, request) ==
  IF TakesAll(blocks[k], request) THEN RemoveAt(blocks, k)
  ELSE [blocks EXCEPT ![k] = [start_addr |-> @.start_addr + request,
                              size |-> @.size - request]]

FirstFit(request) == SelectInSeq(free_block, LAMBDA b : b.size >= request)

Grant(blocks, processes, k, request) ==
  /\ allocated_block_head' = <<Granted(blocks[k], request)>> \o processes
  /\ free_block' = rearrange(ma_algorithm, Remaining(blocks, k, request))
  /\ UNCHANGED status

(* memory_compaction: the processes slide together in the order of their   *)
(* list and one block, perhaps of no size, remains.                        *)
Total(blocks) ==
  LET sum[k \in 0 .. Len(blocks)] == IF k = 0 THEN 0 ELSE sum[k - 1] + blocks[k].size
  IN  sum[Len(blocks)]
SizeBefore(k) == Total(SubSeq(allocated_block_head, 1, k - 1))

CompactedProcesses ==
  [k \in DOMAIN allocated_block_head |->
     [allocated_block_head[k] EXCEPT !.start_addr = SizeBefore(k)]]
CompactedFree ==
  LET used == SizeBefore(Len(allocated_block_head) + 1)
  IN  <<[size |-> mem_size - used, start_addr |-> used]>>

allocate_mem_firsttry(request) ==      \* mutant: fails without compaction
  LET k == FirstFit(request)
  IN  IF k > 0 THEN Grant(free_block, allocated_block_head, k, request)
      ELSE UNCHANGED <<free_block, allocated_block_head, status>>

allocate_mem_eager(request) ==         \* mutant: compaction before every grant
  LET b == CompactedFree[1]
  IN  IF b.size >= request THEN Grant(CompactedFree, CompactedProcesses, 1, request)
      ELSE UNCHANGED <<free_block, allocated_block_head, status>>

(* Once compaction has freed the old list, a whole block is unlinked       *)
(* through pre, its last node, unless that list was empty: the new block   *)
(* is freed while free_block still points to it, and rearrange follows it. *)
allocate_mem(request) ==
  LET k == FirstFit(request)
      b == CompactedFree[1]
  IN  \/ k > 0 /\ Grant(free_block, allocated_block_head, k, request)
      \/ /\ k = 0 /\ b.size >= request
         /\ IF TakesAll(b, request) /\ free_block # <<>>
            THEN status' = "undefined" /\ UNCHANGED <<free_block, allocated_block_head>>
            ELSE Grant(CompactedFree, CompactedProcesses, 1, request)
      \/ /\ k = 0 /\ b.size < request
         /\ free_block' = CompactedFree
         /\ allocated_block_head' = CompactedProcesses
         /\ UNCHANGED status

-----------------------------------------------------------------------------
(* The menu.                                                               *)

set_mem_size(size) ==
  /\ status = "menu" /\ flag = 0
  /\ mem_size' = IF size > 0 THEN size ELSE mem_size
  /\ free_block' = IF size > 0 THEN [free_block EXCEPT ![1].size = size] ELSE free_block
  /\ flag' = 1
  /\ UNCHANGED <<allocated_block_head, ma_algorithm, pid, status>>

set_algorithm_only(algorithm) ==                  \* mutant: the list is not rearranged
  /\ status = "menu"
  /\ ma_algorithm' = IF algorithm \in 1 .. 3 THEN algorithm ELSE ma_algorithm
  /\ flag' = 1
  /\ UNCHANGED <<free_block, allocated_block_head, mem_size, pid, status>>

set_algorithm(algorithm) ==
  /\ status = "menu"
  /\ ma_algorithm' = IF algorithm \in 1 .. 3 THEN algorithm ELSE ma_algorithm
  /\ free_block' = rearrange(ma_algorithm', free_block)
  /\ flag' = 1
  /\ UNCHANGED <<allocated_block_head, mem_size, pid, status>>

(* A size that is not positive leaves ab->size as malloc returned it.      *)
new_process(size) ==
  /\ status = "menu" /\ pid < MaxPid
  /\ pid' = pid + 1
  /\ flag' = 1
  /\ \E request \in IF size > 0 THEN {size} ELSE Garbage : allocate_mem(request)
  /\ UNCHANGED <<mem_size, ma_algorithm>>

(* kill_process, free_mem and dispose.                                     *)
find_process(p) == SelectInSeq(allocated_block_head, LAMBDA ab : ab.pid = p)

kill_process(p) ==
  LET k == find_process(p)
      b == [size |-> allocated_block_head[k].size,
            start_addr |-> allocated_block_head[k].start_addr]
  IN  /\ status = "menu"
      /\ flag' = 1
      /\ IF k = 0 THEN UNCHANGED <<free_block, allocated_block_head>>
         ELSE /\ free_block' = rearrange(ma_algorithm,
                                         memory_merge(memory_sort(<<b>> \o free_block)))
              /\ allocated_block_head' = RemoveAt(allocated_block_head, k)
      /\ UNCHANGED <<mem_size, ma_algorithm, pid, status>>

(* display_mem_usage prints the lists (nothing if there is no free block). *)
Display ==
  /\ status = "menu"
  /\ flag' = 1
  /\ UNCHANGED <<free_block, allocated_block_head, mem_size, ma_algorithm, pid, status>>

do_exit ==
  /\ status = "menu"
  /\ status' = "exited"
  /\ free_block' = <<>> /\ allocated_block_head' = <<>>
  /\ UNCHANGED <<mem_size, ma_algorithm, pid, flag>>

Next ==
  \/ \E n \in Typed : set_mem_size(n) \/ new_process(n)
  \/ \E algorithm \in 0 .. 3 : set_algorithm(algorithm)
  \/ \E p \in 1 .. MaxPid : kill_process(p)
  \/ Display \/ do_exit

Spec == Init /\ [][Next]_vars

-----------------------------------------------------------------------------
Processes == Range(allocated_block_head)
FreeMemory == Total(free_block)
BlockAt(at) == (free_block \o allocated_block_head)[at]
Covers(b, a) == b.start_addr <= a /\ a < End(b)

TypeOK ==
  /\ \A b \in Range(free_block) : b.size \in Nat /\ b.start_addr \in Nat
  /\ \A p \in Processes : p.pid \in 1 .. pid /\ p.size \in Nat /\ p.start_addr \in Nat
  /\ IsInjective([k \in DOMAIN allocated_block_head |-> allocated_block_head[k].pid])
  /\ mem_size \in Nat \ {0} /\ ma_algorithm \in 1 .. 3
  /\ pid \in 0 .. MaxPid /\ flag \in {0, 1}
  /\ status \in {"menu", "exited", "undefined"}

(* Free blocks and processes tile the memory: every address belongs to     *)
(* exactly one of them and none reaches outside, through splits, merges,   *)
(* whole-block grants and compactions (allocate_mem, free_mem).            *)
BlocksTile ==
  TypeOK /\ (status # "exited" =>
    LET places == DOMAIN (free_block \o allocated_block_head)
    IN  /\ \A at \in places : BlockAt(at).start_addr >= 0 /\ End(BlockAt(at)) <= mem_size
        /\ \A a \in 0 .. mem_size - 1 :
             \E at \in places : /\ Covers(BlockAt(at), a)
                                /\ \A to \in places : Covers(BlockAt(to), a) => to = at)

(* No two free blocks touch once a process has ended, and none begin to    *)
(* touch in between: memory_merge finds every neighbour although rearrange *)
(* puts the list out of address order each time (free_mem).  A process of  *)
(* no bytes (its size was never set) spoils it: at equal addresses its     *)
(* block may come second, and part the two that touch.                     *)
Merged(blocks) == \A a, b \in Range(blocks) : a # b => End(a) # b.start_addr
NoneEmpty == \A at \in DOMAIN (free_block \o allocated_block_head) : BlockAt(at).size > 0
Ended == Len(allocated_block_head') < Len(allocated_block_head)
FreeBlocksMerged ==
  [][NoneEmpty /\ (Merged(free_block) \/ Ended) => Merged(free_block')]_vars

Created == Len(allocated_block_head') > Len(allocated_block_head)

Fits(request) == {b \in Range(free_block) : b.size >= request}
AsPolicySays(request, hole) ==
  \A b \in Fits(request) : CASE ma_algorithm = MA_FF -> hole.start_addr <= b.start_addr
                            [] ma_algorithm = MA_BF -> hole.size <= b.size
                            [] ma_algorithm = MA_WF -> hole.size >= b.size

(* A new process lies where the policy says: in the adequate hole that is  *)
(* lowest (first fit), smallest (best fit) or largest (worst fit); a       *)
(* request served after compaction has had no adequate hole.               *)
FitChosen ==
  [][\A s \in Typed : s > 0 /\ new_process(s) /\ Created /\ Fits(s) # {} =>
       \E hole \in Fits(s) : /\ hole.start_addr = allocated_block_head'[1].start_addr
                             /\ AsPolicySays(s, hole)]_vars

(* A request is refused only when all free memory together is too little,  *)
(* however it is scattered (memory_compaction); a process gets at least    *)
(* what it asked for, and less than MIN_SLICE beyond it is wasted.         *)
ServedUnlessFull ==
  [][\A s \in Typed : s > 0 /\ new_process(s) =>
       IF Created
       THEN allocated_block_head'[1].size \in s .. s + (IF MIN_SLICE > 0 THEN MIN_SLICE - 1 ELSE 0)
       ELSE status' = "menu" => FreeMemory < s]_vars

KeptOrKilled(ab) ==
  \/ \E other \in Range(allocated_block_head') :
       /\ other.pid = ab.pid /\ other.size = ab.size
       /\ other.start_addr # ab.start_addr =>
            /\ \E s \in Typed : new_process(s)
            /\ Created => \A b \in Range(free_block) : b.size < allocated_block_head'[1].size
  \/ kill_process(ab.pid)

(* A process keeps its size from its creation to its end, no other process *)
(* disappears, and it is moved only when no hole could take the request.   *)
ProcessesKept == [][status' = "menu" => \A ab \in Processes : KeptOrKilled(ab)]_vars

(* 2-3.c:307: when no block is large enough the free memory is compacted   *)
(* and then allocated; the program goes on after every request.            *)
CompactionServes == status # "undefined"
=============================================================================
