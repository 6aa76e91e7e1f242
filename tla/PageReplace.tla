------------------------------- MODULE PageReplace -------------------------------
(***************************************************************************)
(* lab2/2-4.c over the queue of lab2/queue.h: FIFO and LRU replacement on  *)
(* a sequence of page references.  The queue is the linked list of the     *)
(* code: a heap of nodes with their next pointers, the dummy node that     *)
(* head points to, tail and length.  Serving one reference is one action;  *)
(* the pointer assignments keep their order inside it.                     *)
(***************************************************************************)
EXTENDS Integers, SequencesExt

CONSTANTS
  Page,         \* the page numbers referenced
  FrameCounts,  \* the frame counts typed
  MaxPages      \* bound: references in a sequence

ASSUME PageReplaceAssumption ==
  Page \subseteq Int /\ FrameCounts \subseteq Int /\ MaxPages \in Nat

VARIABLES
  pages, frameCount, algorithm,   \* what main has read
  i, faults,                      \* simulateFIFO's and simulateLRU's
  heap,                           \* the allocated nodes: [id, data, next] each
  tail, length,                   \* the queue's; maxLength is frameCount
  printed,                        \* the last row printQueue wrote
  status                          \* "running", "done"; "dead" by a NULL pointer

input == <<pages, frameCount, algorithm>>
queue == <<heap, tail, length>>
vars == <<input, i, faults, queue, printed, status>>

FIFO == 1
LRU  == 2
NULL == -1
head == 0                         \* q->head, the dummy node

Nodes == DOMAIN heap \ {head}
malloc == CHOOSE n \in 1 .. Cardinality(Nodes) + 1 : n \notin Nodes
allocate(h, n, node) == [m \in DOMAIN h \cup {n} |-> IF m = n THEN node ELSE h[m]]
free(h, n) == [m \in DOMAIN h \ {n} |-> h[m]]
SetNext(h, n, next) == [h EXCEPT ![n].next = next]       \* n->next = next

newQueue(maxLength) ==
  /\ heap = IF maxLength <= 0 THEN <<>>
            ELSE allocate(<<>>, head, [id |-> 0, data |-> 0, next |-> NULL])
  /\ tail = head /\ length = 0

Init ==
  /\ pages \in SeqOf(Page, MaxPages) /\ frameCount \in FrameCounts /\ algorithm \in {FIFO, LRU}
  /\ i = 0 /\ faults = 0 /\ printed = <<>> /\ status = "running"
  /\ newQueue(frameCount)

-----------------------------------------------------------------------------
isQueueEmpty == heap = <<>> \/ tail = head

(* The nodes met by following next, the dummy node first: as many as there *)
(* are nodes, unless the walk ends earlier or meets one of them again.     *)
List ==
  LET n == Cardinality(DOMAIN heap)
      walk[k \in 1 .. n] ==
        IF k = 1 THEN head ELSE IF walk[k-1] = NULL THEN NULL ELSE heap[walk[k-1]].next
  IN  [k \in {j \in 1 .. n : walk[j] # NULL} |-> walk[k]]

Position(page) == SelectInSubSeq(List, 2, Len(List), LAMBDA n : heap[n].data = page)
inQueue(page) == ~ isQueueEmpty /\ Position(page) > 0

Unchanged == [heap |-> heap, tail |-> tail, length |-> length]

(* popQueue: what the queue is without its first node.                     *)
popQueue ==
  LET node == heap[head].next
  IN  [heap |-> SetNext(SetNext(heap, head, heap[node].next), node, NULL),
       tail |-> IF tail = node THEN head ELSE tail,
       length |-> length - 1]

Linked(q, n, node) ==                   \* q->tail->next = node; q->tail = node
  [heap |-> SetNext(allocate(q.heap, n, node), q.tail, n),
   tail |-> n, length |-> q.length + 1]

NewNode(page) ==
  [data |-> page, next |-> NULL,
   id |-> IF length = frameCount THEN heap[heap[head].next].id ELSE length + 1]

Pushed(page) ==
  IF length = frameCount
  THEN LET victim == heap[head].next
           q == popQueue
       IN  Linked([q EXCEPT !.heap = free(@, victim)], malloc, NewNode(page))
  ELSE Linked(Unchanged, malloc, NewNode(page))

Becomes(q) == heap' = q.heap /\ tail' = q.tail /\ length' = q.length

(* printQueue prints a copy that sortQueue has put in the order of the     *)
(* frames, by insertion, and frees it.                                     *)
copyQueue(q) == LET n == Cardinality(DOMAIN q.heap) - 1
                    at[k \in 0 .. n] == IF k = 0 THEN head ELSE q.heap[at[k-1]].next
                IN  [k \in 1 .. n |-> q.heap[at[k]]]

Insert(sorted, node) ==
  LET k == SelectInSubSeq(sorted, 2, Len(sorted), LAMBDA x : x.id >= node.id)
  IN  IF sorted = <<>> \/ sorted[1].id >= node.id THEN <<node>> \o sorted
      ELSE InsertAt(sorted, IF k = 0 THEN Len(sorted) + 1 ELSE k, node)
sortQueue(q) ==
  LET copy == copyQueue(q)
      sorted[k \in 0 .. Len(copy)] == IF k = 0 THEN <<>> ELSE Insert(sorted[k-1], copy[k])
  IN  sorted[Len(copy)]
Row(q) == LET sorted == sortQueue(q) IN [k \in DOMAIN sorted |-> sorted[k].data]

switchQueue_never(page) == Unchanged     \* mutant: a use does not rejuvenate

(* switchQueue unlinks the node of the page and links it behind the tail.  *)
switchQueue_early(page) ==               \* mutant: the tail is not moved back
  LET k == Position(page)
      node == List[k]
      unlinked == SetNext(heap, List[k-1], heap[node].next)
  IN  [heap |-> SetNext(SetNext(unlinked, node, NULL), tail, node),
       tail |-> node, length |-> length]

switchQueue(page) ==
  LET k == Position(page)
      node == List[k]
      last == IF tail = node THEN List[k-1] ELSE tail
      unlinked == SetNext(heap, List[k-1], heap[node].next)
  IN  [heap |-> SetNext(SetNext(unlinked, node, NULL), last, node),
       tail |-> node, length |-> length]

-----------------------------------------------------------------------------
(* One turn of the loop.  Without a queue, or with an empty one that is    *)
(* full, pushQueue follows a NULL pointer.                                 *)

Served(page) ==
  /\ inQueue(page)
  /\ Becomes(IF algorithm = LRU THEN switchQueue(page) ELSE Unchanged)
  /\ UNCHANGED <<faults, printed, status>>

Fault(page) ==
  /\ ~ inQueue(page)
  /\ faults' = faults + 1
  /\ IF heap = <<>> \/ (length = frameCount /\ isQueueEmpty)
     THEN status' = "dead" /\ UNCHANGED <<queue, printed>>
     ELSE Becomes(Pushed(page)) /\ printed' = Row(Pushed(page)) /\ UNCHANGED status

simulate ==
  /\ status = "running" /\ i < Len(pages)
  /\ i' = i + 1
  /\ Served(pages[i + 1]) \/ Fault(pages[i + 1])
  /\ UNCHANGED input

(* freeQueue pops and frees every node, then the dummy and the queue.      *)
freeQueue == [n \in DOMAIN heap \ Range(List) |-> heap[n]]

Finish ==
  /\ status = "running" /\ i = Len(pages)
  /\ status' = "done"
  /\ heap' = freeQueue /\ tail' = head /\ length' = 0
  /\ UNCHANGED <<input, i, faults, printed>>

Next == simulate \/ Finish

Spec == Init /\ [][Next]_vars

-----------------------------------------------------------------------------
Frame(p) == LET holding == {n \in Nodes : heap[n].data = p}
            IN  IF holding = {} THEN 0 ELSE heap[CHOOSE n \in holding : TRUE].id
Resident == {p \in Page : Frame(p) # 0}
Live == status = "running" /\ frameCount > 0

TypeOK ==
  /\ i \in 0 .. Len(pages) /\ faults \in 0 .. i
  /\ \A n \in DOMAIN heap : /\ heap[n].id \in 0 .. frameCount
                            /\ heap[n].next \in (DOMAIN heap \cup {NULL}) \ {head}
  /\ length \in Nat /\ status \in {"running", "done", "dead"}

(* The list is what the queue claims: from the dummy node it reaches every *)
(* allocated node once and ends at tail, after length of them; the nodes   *)
(* hold different pages and share the frames 1 .. length among them.  So   *)
(* switchQueue and popQueue lose no node, whatever node was the tail.      *)
QueueWellFormed ==
  Live => /\ Len(List) = Cardinality(DOMAIN heap) /\ Range(List) = DOMAIN heap
          /\ Last(List) = tail /\ heap[tail].next = NULL /\ length = Cardinality(Nodes)
          /\ length <= frameCount
          /\ {heap[n].id : n \in Nodes} = 1 .. length
          /\ Cardinality({heap[n].data : n \in Nodes}) = length

(* Every node ever allocated is freed at the end (freeQueue), and the      *)
(* program dies only for want of any frame.                                *)
NothingLeaks == /\ status = "done" => heap = <<>>
                /\ status = "dead" => frameCount <= 0 /\ pages # <<>>

(* The queue is sound as long as it lives, and freed at the end.           *)
QueueSound == TypeOK /\ QueueWellFormed /\ NothingLeaks

(* The row printed after a fault shows each frame's page at its place,     *)
(* though the queue is in the order of age, and a hit moves no page.       *)
PrintedByFrame ==
  Live => Len(printed) = length /\ \A p \in Resident : printed[Frame(p)] = p

(* LRU holds exactly the pages most recently used, as many as there are    *)
(* frames: a set that only grows with the frames, so that LRU cannot show  *)
(* the anomaly the README demonstrates for FIFO.                           *)
LastUse(p) == SelectLastInSubSeq(pages, 1, i, LAMBDA x : x = p)
LruKeepsRecent ==
  Live /\ algorithm = LRU =>
    \A p \in Page :
      p \in Resident <=>
        /\ LastUse(p) # 0
        /\ Cardinality({q \in Page : LastUse(q) > LastUse(p)}) < frameCount

(* The pages in memory are those they should be, where they should be.     *)
PagesKept == PrintedByFrame /\ LruKeepsRecent

(* The queue implements the policy: which page goes and which frame the    *)
(* new one takes are those of Paging.                                      *)
frame == [p \in Page |-> Frame(p)]
older == {pq \in Page \X Page :
            \E j, k \in 2 .. Len(List) :
              j < k /\ pq = <<heap[List[j]].data, heap[List[k]].data>>}
Policy == INSTANCE Paging
ImplementsPaging == Policy!Spec
=============================================================================
