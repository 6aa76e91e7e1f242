---------------------------- MODULE PageReplace_proofs ----------------------------
(* What the queue of queue.h keeps for 2-4.c, for any pages, any number of  *)
(* frames and any sequence of references.                                   *)
EXTENDS PageReplace, FiniteSetTheorems, SequenceTheorems, WellFoundedInduction, TLAPS

-----------------------------------------------------------------------------
(* Induction and the like.  The theorems of the library take an operator;  *)
(* these take sets and functions.                                          *)

(* A non-empty set of naturals has a least element: the lowest free frame, the *)
(* first place of the queue.                                                   *)
LEMMA LeastNat ==
  ASSUME NEW S, S \subseteq Nat, S # {}
  PROVE  \E x \in S : \A y \in S : x <= y
<1>. DEFINE R == OpToRel(<, Nat)
<1>1. IsWellFoundedOn(R, Nat)
  BY NatLessThanWellFounded
<1>2. \E x \in S : \A y \in S : ~ (<<y, x>> \in R)
  <2>. HIDE DEF R
  <2>. QED BY <1>1, WFMin
<1>3. \A x \in S, y \in S : y < x => <<y, x>> \in R
  BY DEF OpToRel
<1>. HIDE DEF R
<1>4. PICK x \in S : \A y \in S : ~ (<<y, x>> \in R)
  BY <1>2
<1>5. \A y \in S : ~ (y < x)
  BY <1>3, <1>4
<1>. QED BY <1>5

(* Min returns that least element.                                             *)
LEMMA MinOfNats ==
  ASSUME NEW S, S \subseteq Nat, S # {}
  PROVE  /\ Min(S) \in S
         /\ \A y \in S : Min(S) <= y
BY LeastNat DEF Min

(* Induction over an interval, for the set of the numbers that have a property. *)
LEMMA Induction ==
  ASSUME NEW a \in Int, NEW n \in Int, NEW T, a \in T,
         \A k \in a .. n - 1 : k \in T => k + 1 \in T
  PROVE  a .. n \subseteq T
<1> DEFINE missing == {d \in Nat : a + d \in a .. n /\ a + d \notin T}
<1> SUFFICES ASSUME missing # {} PROVE FALSE
  <2> SUFFICES ASSUME NEW k \in a .. n, k \notin T, missing = {} PROVE FALSE OBVIOUS
  <2>1. k - a \in Nat /\ a + (k - a) = k OBVIOUS
  <2>2. k - a \in missing BY <2>1
  <2> QED BY <2>2
<1>1. missing \subseteq Nat OBVIOUS
<1> HIDE DEF missing
<1>2. PICK d \in missing : \A e \in missing : d <= e BY <1>1, LeastNat
<1>3. d \in Nat /\ a + d \in a .. n /\ a + d \notin T BY <1>2 DEF missing
<1>4. d # 0 /\ d - 1 \in Nat /\ a + (d - 1) \in a .. n - 1 BY <1>3
<1>5. d - 1 \in missing \/ a + (d - 1) \in T BY <1>3, <1>4 DEF missing
<1>6. a + (d - 1) \notin T BY <1>3, <1>4
<1> QED BY <1>2, <1>3, <1>4, <1>5, <1>6

(* A recursive definition over an interval has a solution: the step from each  *)
(* value to the next is given as a function.                                   *)
Solvable(a, n, S, base, step) ==
  \E f \in [a .. n -> S] : f[a] = base /\ \A k \in a + 1 .. n : f[k] = step[k][f[k - 1]]

LEMMA Recursion ==
  ASSUME NEW a \in Int, NEW n \in Int, a <= n, NEW S, NEW base \in S,
         NEW step, step \in [a + 1 .. n -> [S -> S]]
  PROVE  Solvable(a, n, S, base, step)
<1> DEFINE Solves(f, m) == f[a] = base /\ \A k \in a + 1 .. m : f[k] = step[k][f[k - 1]]
           T == {m \in a .. n : \E f \in [a .. m -> S] : Solves(f, m)}
<1>1. a \in T
  <2> DEFINE g == [k \in a .. a |-> base]
  <2>1. g \in [a .. a -> S] /\ Solves(g, a) OBVIOUS
  <2>2. a \in a .. n OBVIOUS
  <2> HIDE DEF g, Solves
  <2> QED BY <2>1, <2>2
<1>2. ASSUME NEW m \in a .. n - 1, m \in T PROVE m + 1 \in T
  <2>1. PICK f \in [a .. m -> S] : Solves(f, m) BY <1>2
  <2> DEFINE g == [k \in a .. m + 1 |-> IF k = m + 1 THEN step[m + 1][f[m]] ELSE f[k]]
  <2>2. m + 1 \in a + 1 .. n /\ f[m] \in S /\ step[m + 1][f[m]] \in S BY <1>2
  <2>3. g \in [a .. m + 1 -> S] BY <2>2
  <2>4. g[a] = base BY <2>1
  <2>5. ASSUME NEW k \in a + 1 .. m + 1 PROVE g[k] = step[k][g[k - 1]]
    <3>1. CASE k = m + 1 BY <3>1
    <3>2. CASE k # m + 1
      <4>1. k \in a + 1 .. m /\ k - 1 \in a .. m BY <3>2
      <4> QED BY <2>1, <4>1
    <3> QED BY <3>1, <3>2
  <2> HIDE DEF g
  <2>6. Solves(g, m + 1) BY <2>4, <2>5
  <2> QED BY <2>2, <2>3, <2>6, SMTT(30)
<1> HIDE DEF T
<1>3. a .. n \subseteq T BY <1>1, <1>2, Induction
<1>4. n \in T BY <1>3
<1> QED BY <1>4 DEF T, Solvable

-----------------------------------------------------------------------------

Node == [id : Int, data : Int, next : Int]

(* L is the way from the dummy node along next to tail, over every node of  *)
(* the heap h once.                                                         *)
Chain(h, t, L) ==
  /\ L \in Seq(Nat) /\ Len(L) >= 1 /\ L[1] = head
  /\ h \in [{L[k] : k \in 1 .. Len(L)} -> Node]
  /\ \A j, k \in 1 .. Len(L) : j # k => L[j] # L[k]
  /\ \A k \in 1 .. Len(L) - 1 : h[L[k]].next = L[k + 1]
  /\ h[L[Len(L)]].next = NULL /\ t = L[Len(L)]

LEMMA CountDistinct ==
  ASSUME NEW n \in Nat, NEW f, \A j, k \in 1 .. n : j # k => f[j] # f[k]
  PROVE  IsFiniteSet({f[k] : k \in 1 .. n}) /\ Cardinality({f[k] : k \in 1 .. n}) = n
<1> DEFINE D == {f[k] : k \in 1 .. n}
           g == [k \in 1 .. n |-> f[k]]
<1>1. g \in Bijection(1 .. n, D)
  <2>1. g \in [1 .. n -> D] OBVIOUS
  <2>2. \A j, k \in 1 .. n : g[j] = g[k] => j = k OBVIOUS
  <2>3. \A d \in D : \E k \in 1 .. n : g[k] = d OBVIOUS
  <2> HIDE DEF g, D
  <2> QED BY <2>1, <2>2, <2>3, Zenon DEF Bijection, Injection, Surjection, IsInjective
<1>2. ExistsBijection(1 .. n, D) BY <1>1 DEF ExistsBijection
<1>3. IsFiniteSet(1 .. n) BY FS_Interval
<1> HIDE DEF g, D
<1>4. IsFiniteSet(D) /\ Cardinality(D) = n BY <1>2, <1>3, FS_Bijection, FS_CountingElements
<1> QED BY <1>4 DEF D

Counted(h, L) ==
  /\ DOMAIN h = {L[k] : k \in 1 .. Len(L)}
  /\ IsFiniteSet(DOMAIN h) /\ Cardinality(DOMAIN h) = Len(L)
  /\ IsFiniteSet(DOMAIN h \ {head}) /\ Cardinality(DOMAIN h \ {head}) = Len(L) - 1
  /\ h # <<>>

LEMMA ChainCounts ==
  ASSUME NEW h, NEW t, NEW L, Chain(h, t, L)
  PROVE  Counted(h, L)
<1> DEFINE n == Len(L)
           D == {L[k] : k \in 1 .. n}
<1>1. n \in Nat /\ 1 \in 1 .. n /\ DOMAIN h = D /\ L[1] = head BY DEF Chain
<1>2. \A j, k \in 1 .. n : j # k => L[j] # L[k] BY DEF Chain
<1>3. IsFiniteSet(D) /\ Cardinality(D) = n
  <2> HIDE DEF n
  <2> QED BY <1>1, <1>2, CountDistinct
<1> HIDE DEF D
<1>4. head \in D BY <1>1 DEF D
<1>5. IsFiniteSet(D \ {head}) /\ Cardinality(D \ {head}) = n - 1
  BY <1>3, <1>4, FS_RemoveElement
<1>6. h # <<>>
  <2>1. DOMAIN h # {} BY <1>1, <1>4
  <2> QED BY <2>1
<1> QED BY <1>1, <1>3, <1>5, <1>6 DEF D, Counted

LEMMA ListIs ==
  ASSUME NEW L, Chain(heap, tail, L)
  PROVE  List = L
<1> DEFINE n == Cardinality(DOMAIN heap)
           walk[k \in 1 .. n] ==
             IF k = 1 THEN head ELSE IF walk[k-1] = NULL THEN NULL ELSE heap[walk[k-1]].next
<1>1. n = Len(L) BY ChainCounts DEF Counted
<1> HIDE DEF n
<1>2. /\ n \in Nat /\ 1 \in 1 .. n /\ L[1] = head /\ L \in Seq(Nat)
      /\ \A k \in 1 .. n : L[k] \in Nat
      /\ \A k \in 1 .. n - 1 : heap[L[k]].next = L[k + 1]
  BY <1>1 DEF Chain
<1>3. \A k \in 1 .. n : L[k] # NULL /\ (k # 1 => L[k] = heap[L[k - 1]].next)
  <2> SUFFICES ASSUME NEW k \in 1 .. n PROVE L[k] # NULL /\ (k # 1 => L[k] = heap[L[k - 1]].next)
    OBVIOUS
  <2>1. L[k] # NULL BY <1>2 DEF NULL
  <2>2. ASSUME k # 1 PROVE L[k] = heap[L[k - 1]].next
    <3>1. k - 1 \in 1 .. n - 1 /\ k - 1 + 1 = k BY <1>2, <2>2
    <3> QED BY <1>2, <3>1
  <2> QED BY <2>1, <2>2
<1> DEFINE f == [k \in 1 .. n |-> L[k]]
<1>4. f = [k \in 1 .. n |->
             IF k = 1 THEN head ELSE IF f[k-1] = NULL THEN NULL ELSE heap[f[k-1]].next]
  <2>1. \A k \in 1 .. n : k # 1 => k - 1 \in 1 .. n BY <1>2
  <2> QED BY <1>2, <1>3, <2>1
<1>5. walk = [k \in 1 .. n |->
             IF k = 1 THEN head ELSE IF walk[k-1] = NULL THEN NULL ELSE heap[walk[k-1]].next]
  <2> HIDE DEF f
  <2> QED BY <1>4 DEF walk
<1>6. List = [k \in {j \in 1 .. n : walk[j] # NULL} |-> walk[k]] BY DEF List, n
<1> HIDE DEF walk, f
<1>7. \A k \in 1 .. n : walk[k] = L[k]
  <2> DEFINE T == {k \in 1 .. n : walk[k] = L[k]}
  <2>1. 1 \in T BY <1>2, <1>5
  <2>2. ASSUME NEW k \in 1 .. n - 1, k \in T PROVE k + 1 \in T
    <3>1. k + 1 \in 1 .. n /\ k + 1 - 1 = k /\ k + 1 # 1 /\ k \in 1 .. n BY <1>2
    <3>2. walk[k + 1] = IF walk[k] = NULL THEN NULL ELSE heap[walk[k]].next BY <1>5, <3>1
    <3>3. walk[k] = L[k] /\ L[k] # NULL /\ L[k + 1] = heap[L[k]].next BY <1>3, <2>2, <3>1
    <3> QED BY <3>1, <3>2, <3>3
  <2>3. 1 \in Int /\ n \in Int BY <1>2
  <2> HIDE DEF T
  <2>4. 1 .. n \subseteq T BY <2>1, <2>2, <2>3, Induction
  <2> QED BY <2>4 DEF T
<1>8. {j \in 1 .. n : walk[j] # NULL} = 1 .. n BY <1>3, <1>7
<1>9. List = [k \in 1 .. n |-> L[k]] BY <1>6, <1>7, <1>8
<1> QED BY <1>1, <1>2, <1>9

-----------------------------------------------------------------------------
(* One pointer assignment.                                                 *)
NextSet(D, h, n, v, g) ==
  /\ g \in [D -> Node]
  /\ \A m \in D : /\ g[m].id = h[m].id /\ g[m].data = h[m].data
                  /\ g[m].next = IF m = n THEN v ELSE h[m].next

LEMMA SetNextIs ==
  ASSUME NEW D, NEW h \in [D -> Node], NEW n \in D, NEW v \in Int
  PROVE  NextSet(D, h, n, v, SetNext(h, n, v))
<1> DEFINE g == SetNext(h, n, v)
<1>1. \A r \in Node : /\ [r EXCEPT !.next = v] \in Node
                      /\ [r EXCEPT !.next = v].id = r.id
                      /\ [r EXCEPT !.next = v].data = r.data
                      /\ [r EXCEPT !.next = v].next = v
  BY DEF Node
<1>2. h[n] \in Node OBVIOUS
<1>3. g = [h EXCEPT ![n] = [h[n] EXCEPT !.next = v]] BY DEF SetNext
<1> HIDE DEF Node, g
<1>4. /\ g \in [D -> Node]
      /\ \A m \in D : /\ g[m].id = h[m].id /\ g[m].data = h[m].data
                      /\ g[m].next = IF m = n THEN v ELSE h[m].next
  BY <1>1, <1>2, <1>3
<1> QED BY <1>4 DEF NextSet, g

(* The node k of the list is taken out and x, the same or a new one, is    *)
(* linked behind the last.                                                 *)
Moved(L, k, x) ==
  [j \in 1 .. Len(L) |-> IF j < k THEN L[j] ELSE IF j < Len(L) THEN L[j + 1] ELSE x]

LastWithout(t, L, k) == IF t = L[k] THEN L[k - 1] ELSE t

MovesTo(h, t, L, k, x, g) ==
  /\ g \in [(DOMAIN h \ {L[k]}) \cup {x} -> Node]
  /\ g[x].next = NULL
  /\ g[LastWithout(t, L, k)].next = x
  /\ \A m \in DOMAIN h \ {L[k], x, LastWithout(t, L, k)} :
       g[m].next = IF m = L[k - 1] THEN h[L[k]].next ELSE h[m].next

MovedAs(h, t, L, k, x, M) ==
  /\ M \in Seq(Nat) /\ Len(M) = Len(L) /\ M[1] = head /\ M[Len(L)] = x
  /\ \A j \in 1 .. Len(L) - 1 : M[j] = IF j < k THEN L[j] ELSE L[j + 1]
  /\ \A m, j \in 1 .. Len(L) : m # j => M[m] # M[j]
  /\ {M[j] : j \in 1 .. Len(L)} = (DOMAIN h \ {L[k]}) \cup {x}
  /\ M[Len(L) - 1] = LastWithout(t, L, k)

LEMMA MovedIs ==
  ASSUME NEW h, NEW t, NEW L, Chain(h, t, L), NEW k \in 2 .. Len(L),
         NEW x \in Nat, x = L[k] \/ x \notin DOMAIN h
  PROVE  MovedAs(h, t, L, k, x, Moved(L, k, x))
<1> DEFINE n == Len(L)
           M == Moved(L, k, x)
           src(j) == IF j < k THEN j ELSE j + 1
<1>1. /\ n \in Nat /\ n >= 2 /\ L[1] = head /\ t = L[n]
      /\ \A j \in 1 .. n : L[j] \in Nat
      /\ DOMAIN h = {L[j] : j \in 1 .. n}
      /\ \A a, j \in 1 .. n : a # j => L[a] # L[j]
  BY DEF Chain
<1> HIDE DEF n
<1>2. /\ M = [j \in 1 .. n |-> IF j < k THEN L[j] ELSE IF j < n THEN L[j + 1] ELSE x]
      /\ k \in 2 .. n
  BY DEF Moved, n
<1> HIDE DEF M
<1>3. \A j \in 1 .. n - 1 : /\ src(j) \in 1 .. n /\ src(j) # k /\ j \in 1 .. n
                            /\ M[j] = L[src(j)]
  BY <1>1, <1>2
<1>4. M[n] = x BY <1>1, <1>2
<1>5. \A a, j \in 1 .. n - 1 : a # j => src(a) # src(j) BY <1>1, <1>2
<1>6. \A j \in 1 .. n : j # k => \E a \in 1 .. n - 1 : src(a) = j
  <2> SUFFICES ASSUME NEW j \in 1 .. n, j # k PROVE \E a \in 1 .. n - 1 : src(a) = j OBVIOUS
  <2>1. CASE j < k
    <3>1. j \in 1 .. n - 1 /\ src(j) = j BY <1>1, <1>2, <2>1
    <3> QED BY <3>1
  <2>2. CASE j > k
    <3>1. j - 1 \in 1 .. n - 1 /\ src(j - 1) = j BY <1>1, <1>2, <2>2
    <3> QED BY <3>1
  <2> QED BY <1>2, <2>1, <2>2
<1> HIDE DEF src
<1>7. \A j \in 1 .. n : j \in 1 .. n - 1 \/ j = n BY <1>1
<1>8. \A j \in 1 .. n : M[j] \in Nat BY <1>1, <1>3, <1>4, <1>7
<1>9. M \in Seq(Nat) /\ Len(M) = n
  <2>1. M = [j \in 1 .. n |-> M[j]] BY <1>2
  <2> QED BY <1>1, <1>8, <2>1, SMTT(30)
<1>10. M[1] = head BY <1>1, <1>2
<1>11. \A a, j \in 1 .. n : a # j => M[a] # M[j]
  <2>1. \A j \in 1 .. n - 1 : M[j] # x
    <3> SUFFICES ASSUME NEW j \in 1 .. n - 1 PROVE M[j] # x OBVIOUS
    <3>1. M[j] = L[src(j)] /\ src(j) \in 1 .. n /\ src(j) # k BY <1>3
    <3>2. M[j] \in DOMAIN h /\ M[j] # L[k] BY <1>1, <1>2, <3>1
    <3> QED BY <3>2
  <2>2. \A a, j \in 1 .. n - 1 : a # j => M[a] # M[j] BY <1>1, <1>3, <1>5
  <2> QED BY <1>4, <1>7, <2>1, <2>2
<1>12. {M[j] : j \in 1 .. n} = (DOMAIN h \ {L[k]}) \cup {x}
  <2>1. ASSUME NEW j \in 1 .. n PROVE M[j] \in (DOMAIN h \ {L[k]}) \cup {x}
    <3>1. CASE j = n BY <1>4, <3>1
    <3>2. CASE j \in 1 .. n - 1
      <4>1. M[j] = L[src(j)] /\ src(j) \in 1 .. n /\ src(j) # k BY <1>3, <3>2
      <4> QED BY <1>1, <1>2, <4>1
    <3> QED BY <1>7, <3>1, <3>2
  <2>2. ASSUME NEW m \in DOMAIN h \ {L[k]} PROVE \E j \in 1 .. n : M[j] = m
    <3>1. PICK j \in 1 .. n : L[j] = m BY <1>1
    <3>2. PICK a \in 1 .. n - 1 : src(a) = j BY <1>6, <3>1
    <3> QED BY <1>3, <3>1, <3>2
  <2>3. n \in 1 .. n BY <1>1
  <2> QED BY <1>4, <2>1, <2>2, <2>3
<1>13. M[n - 1] = LastWithout(t, L, k)
  <2>1. n - 1 \in 1 .. n /\ n \in 1 .. n /\ n - 1 + 1 = n /\ k - 1 \in 1 .. n BY <1>1, <1>2
  <2>2. CASE k = n
    <3>1. t = L[k] BY <1>1, <2>2
    <3>2. M[n - 1] = L[n - 1] BY <1>1, <1>2, <2>1, <2>2
    <3> QED BY <2>2, <3>1, <3>2 DEF LastWithout
  <2>3. CASE k # n
    <3>1. t # L[k] BY <1>1, <1>2, <2>1, <2>3
    <3>2. M[n - 1] = L[n] BY <1>1, <1>2, <2>1, <2>3
    <3> QED BY <1>1, <3>1, <3>2 DEF LastWithout
  <2> QED BY <2>2, <2>3
<1>14. \A j \in 1 .. n - 1 : M[j] = IF j < k THEN L[j] ELSE L[j + 1] BY <1>3 DEF src
<1>15. MovedAs(h, t, L, k, x, M)
  BY <1>4, <1>9, <1>10, <1>11, <1>12, <1>13, <1>14 DEF n, MovedAs
<1> QED BY <1>15 DEF M

LEMMA MovedChain ==
  ASSUME NEW h, NEW t, NEW L, Chain(h, t, L), NEW k \in 2 .. Len(L),
         NEW x \in Nat, x = L[k] \/ x \notin DOMAIN h, NEW g, MovesTo(h, t, L, k, x, g)
  PROVE  Chain(g, x, Moved(L, k, x))
<1> DEFINE n == Len(L)
           M == Moved(L, k, x)
           last == LastWithout(t, L, k)
<1>1. /\ n \in Nat /\ n >= 2 /\ k \in 2 .. n
      /\ DOMAIN h = {L[j] : j \in 1 .. n}
      /\ \A j \in 1 .. n - 1 : h[L[j]].next = L[j + 1]
      /\ \A a, j \in 1 .. n : a # j => L[a] # L[j]
  BY SMTT(30) DEF Chain
<1>2. /\ M \in Seq(Nat) /\ Len(M) = n /\ M[1] = head /\ M[n] = x
      /\ \A j \in 1 .. n - 1 : M[j] = IF j < k THEN L[j] ELSE L[j + 1]
      /\ \A a, j \in 1 .. n : a # j => M[a] # M[j]
      /\ {M[j] : j \in 1 .. n} = (DOMAIN h \ {L[k]}) \cup {x}
      /\ M[n - 1] = last
  <2>1. MovedAs(h, t, L, k, x, M) BY MovedIs
  <2> QED BY <2>1 DEF MovedAs
<1>3. /\ g \in [{M[j] : j \in 1 .. n} -> Node] /\ g[x].next = NULL /\ g[last].next = x
      /\ \A m \in DOMAIN h \ {L[k], x, last} :
           g[m].next = IF m = L[k - 1] THEN h[L[k]].next ELSE h[m].next
  BY <1>2 DEF MovesTo
<1> HIDE DEF n, M, last
<1>4. ASSUME NEW j \in 1 .. n - 1 PROVE g[M[j]].next = M[j + 1]
  <2>1. CASE j = n - 1
    <3>1. j + 1 = n BY <1>1, <2>1
    <3> QED BY <1>2, <1>3, <2>1, <3>1
  <2>2. CASE j # n - 1
    <3>1. /\ j \in 1 .. n /\ n - 1 \in 1 .. n /\ n \in 1 .. n /\ j # n /\ j + 1 \in 1 .. n - 1
      BY <1>1, <2>2
    <3>2. M[j] # last /\ M[j] # x BY <1>2, <2>2, <3>1
    <3>3. M[j] \in {M[a] : a \in 1 .. n} BY <3>1
    <3>4. M[j] \in DOMAIN h \ {L[k], x, last} BY <1>2, <3>2, <3>3
    <3>5. g[M[j]].next = IF M[j] = L[k - 1] THEN h[L[k]].next ELSE h[M[j]].next
      BY <1>3, <3>4
    <3>6. CASE j < k - 1
      <4>1. /\ M[j] = L[j] /\ M[j + 1] = L[j + 1] /\ k - 1 \in 1 .. n /\ j # k - 1
        BY <1>1, <1>2, <3>1, <3>6, SMTT(30)
      <4> QED BY <1>1, <3>1, <3>5, <4>1
    <3>7. CASE j = k - 1
      <4>1. /\ M[j] = L[k - 1] /\ M[j + 1] = L[k + 1] /\ k \in 1 .. n - 1
        BY <1>1, <1>2, <3>1, <3>7
      <4> QED BY <1>1, <3>5, <4>1
    <3>8. CASE j > k - 1
      <4>0. ~ (j < k) /\ ~ (j + 1 < k) /\ k - 1 \in 1 .. n /\ j + 1 # k - 1 /\ j + 1 \in 1 .. n
        BY <1>1, <3>1, <3>8
      <4>1. /\ M[j] = L[j + 1] /\ M[j + 1] = L[j + 1 + 1] /\ k - 1 \in 1 .. n
            /\ j + 1 # k - 1 /\ j + 1 \in 1 .. n
        BY <1>2, <3>1, <4>0
      <4> QED BY <1>1, <3>1, <3>5, <4>1
    <3> QED BY <1>1, <3>6, <3>7, <3>8
  <2> QED BY <2>1, <2>2
<1>5. \A j \in 1 .. n - 1 : g[M[j]].next = M[j + 1] BY <1>4
<1>6. Chain(g, x, M)
  <2>1. /\ M \in Seq(Nat) /\ Len(M) >= 1 /\ M[1] = head /\ x = M[Len(M)]
        /\ g[M[Len(M)]].next = NULL
    BY <1>1, <1>2, <1>3
  <2>2. \A j \in 1 .. Len(M) - 1 : g[M[j]].next = M[j + 1] BY <1>2, <1>5
  <2>3. \A j, m \in 1 .. Len(M) : j # m => M[j] # M[m] BY <1>2
  <2>4. g \in [{M[j] : j \in 1 .. Len(M)} -> Node] BY <1>2, <1>3
  <2> QED BY <2>1, <2>2, <2>3, <2>4 DEF Chain
<1> QED BY <1>6 DEF M

-----------------------------------------------------------------------------
(* The queue as the entries C that its list L holds, oldest first.         *)
Entry == [id : Nat, data : Page]

IsQueue(h, t, l, L, C) ==
  /\ Chain(h, t, L) /\ C \in Seq(Entry)
  /\ l = Len(C) /\ Len(L) = Len(C) + 1 /\ h[head].id = 0
  /\ \A k \in 1 .. Len(C) : h[L[k + 1]].id = C[k].id /\ h[L[k + 1]].data = C[k].data

LEMMA QueueNodes ==
  ASSUME NEW h, NEW t, NEW l, NEW L, NEW C, IsQueue(h, t, l, L, C)
  PROVE  /\ Len(C) \in Nat /\ Len(L) \in Nat /\ l = Len(C) /\ Len(L) = Len(C) + 1
         /\ h \in [DOMAIN h -> Node]
         /\ \A k \in 1 .. Len(C) : /\ C[k] \in Entry /\ C[k].id \in Nat /\ C[k].data \in Page
                                   /\ k + 1 \in 2 .. Len(L)
         /\ \A k \in 1 .. Len(L) : L[k] \in Nat /\ L[k] \in DOMAIN h
         /\ L[1] = head /\ t = L[Len(L)] /\ 1 \in 1 .. Len(L) /\ Len(L) \in 1 .. Len(L)
         /\ \A j, k \in 1 .. Len(L) : j # k => L[j] # L[k]
         /\ \A m \in DOMAIN h : /\ h[m] \in Node /\ h[m].next \in Int /\ m \in Nat
                                /\ m # head => \E k \in 1 .. Len(C) : m = L[k + 1]
<1>1. /\ C \in Seq(Entry) /\ l = Len(C) /\ Len(L) = Len(C) + 1 /\ L \in Seq(Nat)
      /\ h \in [{L[k] : k \in 1 .. Len(L)} -> Node] /\ L[1] = head /\ t = L[Len(L)]
      /\ \A j, k \in 1 .. Len(L) : j # k => L[j] # L[k]
  BY DEF IsQueue, Chain
<1>2. Len(C) \in Nat /\ Len(L) \in Nat /\ 1 \in 1 .. Len(L) /\ Len(L) \in 1 .. Len(L) BY <1>1
<1>3. ASSUME NEW k \in 1 .. Len(C)
      PROVE  C[k] \in Entry /\ C[k].id \in Nat /\ C[k].data \in Page /\ k + 1 \in 2 .. Len(L)
  <2>1. C[k] \in Entry BY <1>1
  <2> QED BY <1>1, <1>2, <2>1, SMTT(30) DEF Entry
<1>4. \A k \in 1 .. Len(L) : L[k] \in Nat /\ L[k] \in DOMAIN h BY <1>1
<1>5. ASSUME NEW m \in DOMAIN h
      PROVE  /\ h[m] \in Node /\ h[m].next \in Int /\ m \in Nat
             /\ m # head => \E k \in 1 .. Len(C) : m = L[k + 1]
  <2>1. PICK j \in 1 .. Len(L) : m = L[j] BY <1>1
  <2>2. h[m] \in Node BY <1>1
  <2>3. m # head => j - 1 \in 1 .. Len(C) /\ j - 1 + 1 = j BY <1>1, <1>2, <2>1
  <2> QED BY <1>4, <2>1, <2>2, <2>3 DEF Node
<1>6. h \in [DOMAIN h -> Node] BY <1>1
<1> QED BY <1>1, <1>2, <1>3, <1>4, <1>5, <1>6

LEMMA CountUpTo ==
  ASSUME NEW n \in Nat
  PROVE  IsFiniteSet(1 .. n) /\ Cardinality(1 .. n) = n
<1>1. IsFiniteSet(1 .. n) /\ Cardinality(1 .. n) = IF 1 > n THEN 0 ELSE n - 1 + 1
  <2>1. 1 \in Int /\ n \in Int OBVIOUS
  <2> QED BY <2>1, FS_Interval, Zenon
<1> QED BY <1>1

(* malloc finds a node that is not in use.                                 *)
LEMMA MallocIs ==
  ASSUME NEW L, NEW C, IsQueue(heap, tail, length, L, C)
  PROVE  malloc \in Nat /\ malloc \notin DOMAIN heap
<1> DEFINE c == Cardinality(Nodes)
<1>1. IsFiniteSet(Nodes) /\ c \in Nat
  <2>1. IsFiniteSet(Nodes) BY ChainCounts DEF IsQueue, Nodes, Counted
  <2> QED BY <2>1, FS_CardinalityType
<1>2. \E n \in 1 .. c + 1 : n \notin Nodes
  <2> SUFFICES ASSUME 1 .. c + 1 \subseteq Nodes PROVE FALSE OBVIOUS
  <2>1. Cardinality(1 .. c + 1) <= c BY <1>1, FS_Subset
  <2> HIDE DEF c
  <2>2. Cardinality(1 .. c + 1) = c + 1
    <3>1. c + 1 \in Nat BY <1>1
    <3> QED BY <3>1, CountUpTo
  <2> QED BY <1>1, <2>1, <2>2
<1>3. malloc \in 1 .. c + 1 /\ malloc \notin Nodes BY <1>2 DEF malloc
<1> HIDE DEF c
<1>4. malloc \in Nat /\ malloc # 0 BY <1>1, <1>3
<1> QED BY <1>3, <1>4 DEF Nodes, head

LEMMA PositionIs ==
  ASSUME NEW L, NEW C, IsQueue(heap, tail, length, L, C), NEW page
  PROVE  LET k == Position(page) - 1
         IN  \/ /\ Position(page) = 0 /\ \A j \in 1 .. Len(C) : C[j].data # page
             \/ Position(page) \in 2 .. Len(L) /\ k \in 1 .. Len(C) /\ C[k].data = page
<1> DEFINE I == {j \in 2 .. Len(L) : heap[L[j]].data = page}
<1>1. List = L BY ListIs DEF IsQueue
<1>2. Position(page) = IF I # {} THEN Min(I) ELSE 0
  BY <1>1 DEF Position, SelectInSubSeq
<1>3. /\ Len(C) \in Nat /\ Len(L) = Len(C) + 1
      /\ \A k \in 1 .. Len(C) : heap[L[k + 1]].data = C[k].data
  BY QueueNodes DEF IsQueue
<1>4. CASE I = {}
  <2>1. ASSUME NEW j \in 1 .. Len(C) PROVE C[j].data # page
    <3>1. j + 1 \in 2 .. Len(L) BY <1>3
    <3> QED BY <1>3, <1>4, <3>1
  <2> QED BY <1>2, <1>4, <2>1
<1>5. CASE I # {}
  <2>1. I \subseteq Nat BY <1>3
  <2>2. Min(I) \in I
    <3> HIDE DEF I
    <3> QED BY <1>5, <2>1, MinOfNats
  <2>3. Position(page) \in 2 .. Len(L) /\ heap[L[Position(page)]].data = page
    BY <1>2, <1>5, <2>2
  <2>4. /\ Position(page) - 1 \in 1 .. Len(C)
        /\ Position(page) - 1 + 1 = Position(page)
    BY <1>3, <2>3
  <2> QED BY <1>3, <2>3, <2>4
<1> QED BY <1>4, <1>5

(* What the node behind the tail holds after the move, and the others keep. *)
LEMMA MovedQueue ==
  ASSUME NEW h, NEW t, NEW l, NEW L, NEW C, IsQueue(h, t, l, L, C), NEW k \in 1 .. Len(C),
         NEW x \in Nat, x = L[k + 1] \/ x \notin DOMAIN h, x # head,
         NEW g, MovesTo(h, t, L, k + 1, x, g), NEW e \in Entry,
         g[x].id = e.id, g[x].data = e.data,
         \A m \in DOMAIN h \ {L[k + 1], x} : g[m].id = h[m].id /\ g[m].data = h[m].data
  PROVE  IsQueue(g, x, l, Moved(L, k + 1, x), Moved(C, k, e))
<1> DEFINE n == Len(C)
           M == Moved(L, k + 1, x)
           D == Moved(C, k, e)
<1>0. /\ n \in Nat /\ Len(L) = n + 1 /\ L[1] = head
      /\ \A j \in 1 .. n : C[j] \in Entry
      /\ \A j \in 1 .. Len(L) : L[j] \in DOMAIN h
      /\ \A a, j \in 1 .. Len(L) : a # j => L[a] # L[j]
  <2> HIDE DEF n
  <2> QED BY QueueNodes DEF n
<1>1. /\ Chain(h, t, L) /\ n \in Nat /\ Len(L) = n + 1 /\ l = n /\ h[head].id = 0
      /\ \A j \in 1 .. n : /\ h[L[j + 1]].id = C[j].id /\ h[L[j + 1]].data = C[j].data
                           /\ C[j] \in Entry
      /\ \A j \in 1 .. n + 1 : L[j] \in DOMAIN h
      /\ \A a, j \in 1 .. n + 1 : a # j => L[a] # L[j]
      /\ L[1] = head
  BY <1>0 DEF IsQueue
<1>2. k \in 1 .. n /\ k + 1 \in 2 .. Len(L) BY <1>1
<1>3. Chain(g, x, M) BY <1>1, <1>2, MovedChain
<1>4. MovedAs(h, t, L, k + 1, x, M) BY <1>1, <1>2, MovedIs
<1> HIDE DEF n, M
<1>5. /\ Len(M) = n + 1 /\ M[n + 1] = x
      /\ \A j \in 1 .. n : M[j] = IF j < k + 1 THEN L[j] ELSE L[j + 1]
      /\ \A a, j \in 1 .. n + 1 : a # j => M[a] # M[j]
  BY <1>1, <1>4 DEF MovedAs
<1>6. D = [j \in 1 .. n |-> IF j < k THEN C[j] ELSE IF j < n THEN C[j + 1] ELSE e]
  BY DEF Moved, n
<1>7. \A j \in 1 .. n : D[j] \in Entry BY <1>1, <1>2, <1>6
<1>8. D \in Seq(Entry) /\ Len(D) = n
  <2> HIDE DEF D
  <2>1. D = [j \in 1 .. n |-> D[j]] BY <1>6
  <2> QED BY <1>1, <1>7, <2>1
<1> HIDE DEF D
<1>9. g[head].id = 0
  <2>1. 1 \in 1 .. n + 1 /\ k + 1 \in 1 .. n + 1 /\ 1 # k + 1 BY <1>1, <1>2
  <2>2. head \in DOMAIN h \ {L[k + 1], x} BY <1>1, <2>1
  <2> QED BY <1>1, <2>2
<1>10. ASSUME NEW j \in 1 .. n PROVE g[M[j + 1]].id = D[j].id /\ g[M[j + 1]].data = D[j].data
  <2>1. CASE j = n
    <3>1. D[j] = e /\ M[j + 1] = x BY <1>2, <1>5, <1>6, <2>1
    <3> QED BY <3>1
  <2>2. CASE j # n
    <3>1. /\ j + 1 \in 1 .. n /\ j + 1 + 1 \in 1 .. n + 1 /\ n + 1 \in 1 .. n + 1
          /\ j + 1 # n + 1 /\ k + 1 \in 1 .. n + 1 /\ j + 1 \in 1 .. n + 1
      BY <1>1, <1>2, <2>2
    <3>2. M[j + 1] # x BY <1>5, <3>1
    <3>3. CASE j < k
      <4>1. D[j] = C[j] /\ M[j + 1] = L[j + 1] /\ j + 1 # k + 1 BY <1>2, <1>5, <1>6, <3>1, <3>3
      <4>2. L[j + 1] \in DOMAIN h \ {L[k + 1], x} BY <1>1, <3>1, <3>2, <4>1
      <4>3. g[L[j + 1]].id = h[L[j + 1]].id /\ g[L[j + 1]].data = h[L[j + 1]].data BY <4>2
      <4>4. h[L[j + 1]].id = C[j].id /\ h[L[j + 1]].data = C[j].data BY <1>1
      <4> QED BY <4>1, <4>3, <4>4
    <3>4. CASE ~ (j < k)
      <4>0. j < n /\ ~ (j + 1 < k + 1) /\ j + 1 + 1 # k + 1 BY <1>1, <1>2, <3>1, <3>4
      <4>1. D[j] = C[j + 1] /\ M[j + 1] = L[j + 1 + 1]
        BY <1>5, <1>6, <3>1, <3>4, <4>0
      <4>2. L[j + 1 + 1] \in DOMAIN h \ {L[k + 1], x} BY <1>1, <3>1, <3>2, <4>0, <4>1
      <4>3. /\ g[L[j + 1 + 1]].id = h[L[j + 1 + 1]].id
            /\ g[L[j + 1 + 1]].data = h[L[j + 1 + 1]].data
        BY <4>2
      <4>4. h[L[j + 1 + 1]].id = C[j + 1].id /\ h[L[j + 1 + 1]].data = C[j + 1].data
        BY <1>1, <3>1
      <4> QED BY <4>1, <4>3, <4>4
    <3> QED BY <3>3, <3>4
  <2> QED BY <2>1, <2>2
<1>11. IsQueue(g, x, l, M, D) BY <1>1, <1>3, <1>5, <1>8, <1>9, <1>10 DEF IsQueue
<1> QED BY <1>11 DEF M, D

-----------------------------------------------------------------------------
(* switchQueue: the node of the page becomes the last.                     *)
LEMMA SwitchQueueIs ==
  ASSUME NEW L, NEW C, IsQueue(heap, tail, length, L, C), NEW page,
         NEW k \in 1 .. Len(C), Position(page) = k + 1
  PROVE  LET q == switchQueue(page)
         IN  IsQueue(q.heap, q.tail, q.length, Moved(L, k + 1, L[k + 1]), Moved(C, k, C[k]))
<1> DEFINE node == L[k + 1]
           last == LastWithout(tail, L, k + 1)
           u == SetNext(heap, L[k], heap[node].next)
           v == SetNext(u, node, NULL)
           w == SetNext(v, last, node)
           D == DOMAIN heap
<1>1. /\ Len(C) \in Nat /\ Len(L) = Len(C) + 1 /\ heap \in [D -> Node] /\ tail \in D
      /\ \A j \in 1 .. Len(L) : L[j] \in D /\ L[j] \in Nat
      /\ \A m \in D : heap[m] \in Node /\ heap[m].next \in Int
      /\ \A a, j \in 1 .. Len(L) : a # j => L[a] # L[j]
      /\ length = Len(C) /\ L[1] = head /\ tail = L[Len(L)]
      /\ C[k] \in Entry
  BY QueueNodes
<1>2. /\ k \in 1 .. Len(L) /\ k + 1 \in 1 .. Len(L) /\ k + 1 \in 2 .. Len(L) /\ k + 1 - 1 = k
      /\ k # k + 1 /\ k + 1 # 1 /\ 1 \in 1 .. Len(L)
  BY <1>1
<1>3. node \in D /\ L[k] \in D /\ node # L[k] /\ node \in Nat /\ node # head BY <1>1, <1>2
<1>4. last = (IF tail = node THEN L[k] ELSE tail) /\ last \in D /\ last # node
  BY <1>1, <1>2, <1>3 DEF LastWithout
<1>5. List = L BY ListIs DEF IsQueue
<1>6. LET q == switchQueue(page) IN q.heap = w /\ q.tail = node /\ q.length = length
  BY <1>2, <1>4, <1>5 DEF switchQueue
<1> HIDE DEF node, last, D
<1>7. heap[node].next \in Int /\ NULL \in Int /\ node \in Int BY <1>1, <1>3 DEF NULL
<1>8. /\ u \in [D -> Node]
      /\ \A m \in D : /\ u[m].id = heap[m].id /\ u[m].data = heap[m].data
                      /\ u[m].next = IF m = L[k] THEN heap[node].next ELSE heap[m].next
  <2>1. NextSet(D, heap, L[k], heap[node].next, u) BY <1>1, <1>3, <1>7, SetNextIs
  <2> QED BY <2>1 DEF NextSet
<1> HIDE DEF u
<1>9. /\ v \in [D -> Node]
      /\ \A m \in D : /\ v[m].id = u[m].id /\ v[m].data = u[m].data
                      /\ v[m].next = IF m = node THEN NULL ELSE u[m].next
  <2>1. NextSet(D, u, node, NULL, v) BY <1>3, <1>7, <1>8, SetNextIs
  <2> QED BY <2>1 DEF NextSet
<1> HIDE DEF v
<1>10. /\ w \in [D -> Node]
       /\ \A m \in D : /\ w[m].id = v[m].id /\ w[m].data = v[m].data
                       /\ w[m].next = IF m = last THEN node ELSE v[m].next
  <2>1. NextSet(D, v, last, node, w) BY <1>4, <1>7, <1>9, SetNextIs
  <2> QED BY <2>1 DEF NextSet
<1> HIDE DEF w
<1>11. \A m \in D : w[m].id = heap[m].id /\ w[m].data = heap[m].data
  BY <1>8, <1>9, <1>10
<1>12. MovesTo(heap, tail, L, k + 1, node, w)
  <2>1. (D \ {node}) \cup {node} = D BY <1>3
  <2>2. w[node].next = NULL /\ w[last].next = node BY <1>3, <1>4, <1>9, <1>10
  <2>3. \A m \in D \ {node, last} :
          w[m].next = IF m = L[k] THEN heap[node].next ELSE heap[m].next
    BY <1>8, <1>9, <1>10
  <2> QED BY <1>2, <1>10, <2>1, <2>2, <2>3 DEF MovesTo, node, last, D
<1>13. w[node].id = C[k].id /\ w[node].data = C[k].data
  BY <1>3, <1>11 DEF node, IsQueue
<1>14. \A m \in D \ {L[k + 1], node} : w[m].id = heap[m].id /\ w[m].data = heap[m].data
  BY <1>11
<1>15. IsQueue(w, node, length, Moved(L, k + 1, node), Moved(C, k, C[k]))
  <2>1. node = L[k + 1] BY DEF node
  <2> QED BY <1>1, <1>3, <1>12, <1>13, <1>14, <2>1, MovedQueue DEF D
<1> QED BY <1>6, <1>15 DEF node

(* A new node behind the tail, over what is left of the heap.              *)
LinkedAs(D, f, x, t, nw, g) ==
  /\ g \in [D \cup {x} -> Node]
  /\ g[x].id = nw.id /\ g[x].data = nw.data /\ g[x].next = nw.next
  /\ \A m \in D : /\ g[m].id = f[m].id /\ g[m].data = f[m].data
                  /\ g[m].next = IF m = t THEN x ELSE f[m].next

LEMMA LinkedIs ==
  ASSUME NEW D, NEW f \in [D -> Node], NEW x \in Nat, x \notin D, NEW t \in D,
         NEW nw \in Node
  PROVE  LinkedAs(D, f, x, t, nw, SetNext(allocate(f, x, nw), t, x))
<1> DEFINE e == allocate(f, x, nw)
           g == SetNext(e, t, x)
<1>1. e \in [D \cup {x} -> Node] /\ e[x] = nw /\ \A m \in D : e[m] = f[m] BY DEF allocate
<1> HIDE DEF e
<1>2. t \in D \cup {x} /\ x \in Int /\ t # x /\ x \in D \cup {x} OBVIOUS
<1>3. NextSet(D \cup {x}, e, t, x, g) BY <1>1, <1>2, SetNextIs
<1> HIDE DEF g
<1>4. /\ g \in [D \cup {x} -> Node]
      /\ \A m \in D \cup {x} : /\ g[m].id = e[m].id /\ g[m].data = e[m].data
                               /\ g[m].next = IF m = t THEN x ELSE e[m].next
  BY <1>3 DEF NextSet
<1>5. g[x].id = nw.id /\ g[x].data = nw.data /\ g[x].next = nw.next BY <1>1, <1>2, <1>4
<1>6. \A m \in D : /\ g[m].id = f[m].id /\ g[m].data = f[m].data
                   /\ g[m].next = IF m = t THEN x ELSE f[m].next
  BY <1>1, <1>4
<1> QED BY <1>4, <1>5, <1>6 DEF g, e, LinkedAs

(* pushQueue on a full queue: a new node behind the tail has the frame of   *)
(* the first, which goes.                                                   *)
LEMMA PushFullIs ==
  ASSUME NEW L, NEW C, IsQueue(heap, tail, length, L, C), NEW page \in Page, Page \subseteq Int,
         length = frameCount, length >= 1
  PROVE  LET q == Pushed(page)
         IN  IsQueue(q.heap, q.tail, q.length, Moved(L, 2, malloc),
                     Moved(C, 1, [id |-> C[1].id, data |-> page]))
<1> DEFINE node == L[2]
           x == malloc
           e == [id |-> C[1].id, data |-> page]
           nw == [data |-> page, next |-> NULL, id |-> C[1].id]
           last == LastWithout(tail, L, 2)
           u == SetNext(heap, head, heap[node].next)
           v == SetNext(u, node, NULL)
           f == free(v, node)
           g == SetNext(allocate(f, x, nw), last, x)
           D == DOMAIN heap
<1>1. /\ Len(C) \in Nat /\ Len(L) = Len(C) + 1 /\ heap \in [D -> Node] /\ tail \in D
      /\ \A j \in 1 .. Len(L) : L[j] \in D /\ L[j] \in Nat
      /\ \A m \in D : heap[m] \in Node /\ heap[m].next \in Int
      /\ \A a, j \in 1 .. Len(L) : a # j => L[a] # L[j]
      /\ length = Len(C) /\ L[1] = head /\ tail = L[Len(L)]
      /\ \A k \in 1 .. Len(C) : C[k] \in Entry /\ C[k].id \in Nat
  BY QueueNodes
<1>2. /\ 1 \in 1 .. Len(C) /\ 1 \in 1 .. Len(L) /\ 2 \in 1 .. Len(L) /\ 2 \in 2 .. Len(L)
      /\ 1 \in 1 .. Len(L) - 1 /\ 1 + 1 = 2 /\ 2 - 1 = 1
  BY <1>1
<1>3. node \in D /\ head \in D /\ node # head /\ node \in Nat
  <2>1. L[1] # L[2] BY <1>1, <1>2
  <2> QED BY <1>1, <1>2, <2>1
<1>4. heap[head].next = node /\ heap[node].id = C[1].id BY <1>1, <1>2 DEF IsQueue, Chain
<1>5. x \in Nat /\ x \notin D BY MallocIs
<1>6. last = (IF tail = node THEN head ELSE tail) /\ last \in D /\ last # node
  BY <1>1, <1>2, <1>3 DEF LastWithout
<1>7. NewNode(page) = nw BY <1>4 DEF NewNode
<1>8. popQueue.heap = v /\ popQueue.tail = last /\ popQueue.length = length - 1
  BY <1>4, <1>6 DEF popQueue
<1>9. LET q == Pushed(page) IN q.heap = g /\ q.tail = x /\ q.length = length
  <2> DEFINE p == [popQueue EXCEPT !.heap = free(@, node)]
  <2>1. p.heap = f /\ p.tail = last /\ p.length = length - 1
    <3>1. popQueue = [heap |-> v, tail |-> last, length |-> length - 1]
      BY <1>4, <1>6 DEF popQueue
    <3> HIDE DEF v, last
    <3> QED BY <3>1
  <2>2. Pushed(page) = Linked(p, x, nw) BY <1>4, <1>7 DEF Pushed
  <2> HIDE DEF p, f, x, nw
  <2> QED BY <1>1, <2>1, <2>2 DEF Linked
<1> HIDE DEF node, last, D, nw, x
<1>10. heap[node].next \in Int /\ NULL \in Int BY <1>1, <1>3 DEF NULL
<1>11. /\ u \in [D -> Node]
       /\ \A m \in D : /\ u[m].id = heap[m].id /\ u[m].data = heap[m].data
                       /\ u[m].next = IF m = head THEN heap[node].next ELSE heap[m].next
  <2>1. NextSet(D, heap, head, heap[node].next, u) BY <1>1, <1>3, <1>10, SetNextIs
  <2> QED BY <2>1 DEF NextSet
<1> HIDE DEF u
<1>12. /\ v \in [D -> Node]
       /\ \A m \in D : /\ v[m].id = u[m].id /\ v[m].data = u[m].data
                       /\ v[m].next = IF m = node THEN NULL ELSE u[m].next
  <2>1. NextSet(D, u, node, NULL, v) BY <1>3, <1>10, <1>11, SetNextIs
  <2> QED BY <2>1 DEF NextSet
<1> HIDE DEF v
<1>13. f \in [D \ {node} -> Node] /\ \A m \in D \ {node} : f[m] = v[m] BY <1>12 DEF free
<1> HIDE DEF f
<1>14. nw \in Node /\ nw.id = C[1].id /\ nw.data = page /\ nw.next = NULL
  BY <1>1, <1>2, <1>10, SMTT(30) DEF nw, Node
<1>15. /\ g \in [(D \ {node}) \cup {x} -> Node]
       /\ g[x].id = C[1].id /\ g[x].data = page /\ g[x].next = NULL
       /\ \A m \in D \ {node} : /\ g[m].id = f[m].id /\ g[m].data = f[m].data
                                /\ g[m].next = IF m = last THEN x ELSE f[m].next
  <2>1. x \notin D \ {node} /\ last \in D \ {node} BY <1>5, <1>6
  <2>2. LinkedAs(D \ {node}, f, x, last, nw, g) BY <1>5, <1>13, <1>14, <2>1, LinkedIs
  <2> QED BY <1>14, <2>2 DEF LinkedAs
<1> HIDE DEF g
<1>16. \A m \in D \ {node} : g[m].id = heap[m].id /\ g[m].data = heap[m].data
  BY <1>11, <1>12, <1>13, <1>15
<1>17. MovesTo(heap, tail, L, 2, x, g)
  <2>1. g[last].next = x BY <1>6, <1>15
  <2>2. \A m \in D \ {node, x, last} :
          g[m].next = IF m = head THEN heap[node].next ELSE heap[m].next
    BY <1>11, <1>12, <1>13, <1>15
  <2> QED BY <1>1, <1>2, <1>15, <2>1, <2>2 DEF MovesTo, node, last, D
<1>18. e \in Entry /\ g[x].id = e.id /\ g[x].data = e.data
  BY <1>1, <1>2, <1>15 DEF Entry
<1> HIDE DEF e
<1>19. IsQueue(g, x, length, Moved(L, 2, x), Moved(C, 1, e))
  <2>1. \A m \in D \ {L[2], x} : g[m].id = heap[m].id /\ g[m].data = heap[m].data
    BY <1>16 DEF node
  <2>2. x # head BY <1>3, <1>5
  <2> QED BY <1>2, <1>5, <1>17, <1>18, <2>1, <2>2, MovedQueue DEF D
<1> QED BY <1>9, <1>19 DEF x, e

(* pushQueue on one that is not full: the new node gets the next frame.     *)
LEMMA PushFreeIs ==
  ASSUME NEW L, NEW C, IsQueue(heap, tail, length, L, C), NEW page \in Page, Page \subseteq Int,
         length # frameCount
  PROVE  LET q == Pushed(page)
         IN  IsQueue(q.heap, q.tail, q.length, Append(L, malloc),
                     Append(C, [id |-> length + 1, data |-> page]))
<1> DEFINE x == malloc
           e == [id |-> length + 1, data |-> page]
           nw == [data |-> page, next |-> NULL, id |-> length + 1]
           g == SetNext(allocate(heap, x, nw), tail, x)
           D == DOMAIN heap
           n == Len(C)
           M == Append(L, x)
           E == Append(C, e)
<1>1. /\ n \in Nat /\ Len(L) = n + 1 /\ heap \in [D -> Node] /\ tail \in D
      /\ \A j \in 1 .. n + 1 : L[j] \in D /\ L[j] \in Nat
      /\ \A a, j \in 1 .. n + 1 : a # j => L[a] # L[j]
      /\ length = n /\ L[1] = head /\ tail = L[n + 1]
      /\ \A k \in 1 .. n : C[k] \in Entry
  <2> HIDE DEF n
  <2> QED BY QueueNodes DEF n
<1>2. /\ L \in Seq(Nat) /\ D = {L[j] : j \in 1 .. n + 1} /\ C \in Seq(Entry)
      /\ \A k \in 1 .. n : heap[L[k]].next = L[k + 1]
      /\ heap[head].id = 0
      /\ \A k \in 1 .. n : heap[L[k + 1]].id = C[k].id /\ heap[L[k + 1]].data = C[k].data
  BY <1>1 DEF IsQueue, Chain
<1>3. x \in Nat /\ x \notin D BY MallocIs
<1>4. NewNode(page) = nw BY DEF NewNode
<1>5. LET q == Pushed(page) IN q.heap = g /\ q.tail = x /\ q.length = n + 1
  <2> HIDE DEF x, nw
  <2> QED BY <1>1, <1>4 DEF Pushed, Linked, Unchanged, x, nw
<1>6. nw \in Node /\ nw.id = n + 1 /\ nw.data = page /\ nw.next = NULL
  BY <1>1 DEF Node, NULL
<1>7. e \in Entry /\ e.id = n + 1 /\ e.data = page BY <1>1 DEF Entry
<1> HIDE DEF x, nw, e, g
<1>8. /\ g \in [D \cup {x} -> Node]
      /\ g[x].id = n + 1 /\ g[x].data = page /\ g[x].next = NULL
      /\ \A m \in D : /\ g[m].id = heap[m].id /\ g[m].data = heap[m].data
                      /\ g[m].next = IF m = tail THEN x ELSE heap[m].next
  <2>1. LinkedAs(D, heap, x, tail, nw, g)
    <3> HIDE DEF D
    <3> QED BY <1>1, <1>3, <1>6, LinkedIs DEF g
  <2> QED BY <1>6, <2>1 DEF LinkedAs
<1> HIDE DEF D, n
<1>9. /\ M \in Seq(Nat) /\ Len(M) = n + 2 /\ M[n + 2] = x
      /\ \A j \in 1 .. n + 1 : M[j] = L[j]
      /\ E \in Seq(Entry) /\ Len(E) = n + 1 /\ E[n + 1] = e
      /\ \A k \in 1 .. n : E[k] = C[k]
  BY <1>1, <1>2, <1>3, <1>7 DEF n
<1> HIDE DEF M, E
<1>10. \A j \in 1 .. n + 2 : j \in 1 .. n + 1 \/ j = n + 2 BY <1>1
<1>11. Chain(g, x, M)
  <2>1. {M[j] : j \in 1 .. n + 2} = D \cup {x}
    <3>1. n + 2 \in 1 .. n + 2 /\ \A j \in 1 .. n + 1 : j \in 1 .. n + 2 BY <1>1
    <3>2. \A j \in 1 .. n + 2 : M[j] \in D \cup {x} BY <1>1, <1>9, <1>10
    <3>3. ASSUME NEW m \in D PROVE \E j \in 1 .. n + 1 : m = M[j]
      <4>1. PICK j \in 1 .. n + 1 : m = L[j] BY <1>2
      <4>2. m = M[j] BY <1>9, <4>1
      <4> QED BY <4>2
    <3>4. x = M[n + 2] BY <1>9
    <3> QED BY <3>1, <3>2, <3>3, <3>4
  <2>2. \A a, j \in 1 .. n + 2 : a # j => M[a] # M[j] BY <1>1, <1>3, <1>9, <1>10
  <2>3. ASSUME NEW k \in 1 .. n + 1 PROVE g[M[k]].next = M[k + 1]
    <3>1. CASE k = n + 1
      <4>1. M[k] = tail /\ M[k + 1] = x BY <1>1, <1>9, <3>1
      <4> QED BY <1>1, <1>8, <4>1
    <3>2. CASE k # n + 1
      <4>1. k \in 1 .. n /\ k + 1 \in 1 .. n + 1 /\ n + 1 \in 1 .. n + 1 BY <1>1, <3>2
      <4>2. M[k] = L[k] /\ M[k + 1] = L[k + 1] /\ L[k] # tail BY <1>1, <1>9, <3>2, <4>1
      <4>3. L[k] \in D BY <1>1
      <4>4. g[L[k]].next = heap[L[k]].next BY <1>8, <4>2, <4>3
      <4>5. heap[L[k]].next = L[k + 1] BY <1>2, <4>1
      <4> QED BY <4>2, <4>4, <4>5
    <3> QED BY <3>1, <3>2
  <2>4. M[1] = head /\ n + 2 >= 1 /\ n + 2 - 1 = n + 1
    <3>1. 1 \in 1 .. n + 1 /\ n + 2 >= 1 /\ n + 2 - 1 = n + 1 BY <1>1
    <3>2. M[1] = L[1] BY <1>9, <3>1
    <3> QED BY <1>1, <3>1, <3>2
  <2>5. M \in Seq(Nat) /\ Len(M) = n + 2 /\ Len(M) >= 1 BY <1>9, <2>4
  <2>6. g \in [{M[j] : j \in 1 .. Len(M)} -> Node]
    <3>1. {M[j] : j \in 1 .. Len(M)} = D \cup {x} BY <2>1, <2>5
    <3> QED BY <1>8, <3>1
  <2>7. g[M[Len(M)]].next = NULL /\ x = M[Len(M)] BY <1>8, <1>9
  <2>8. \A k \in 1 .. Len(M) - 1 : g[M[k]].next = M[k + 1]
    <3>1. Len(M) - 1 = n + 1 BY <1>1, <2>5
    <3> QED BY <2>3, <3>1
  <2>9. \A a, j \in 1 .. Len(M) : a # j => M[a] # M[j] BY <2>2, <2>5
  <2>10. M[1] = head BY <2>4
  <2> QED BY <2>5, <2>6, <2>7, <2>8, <2>9, <2>10 DEF Chain
<1>12. g[head].id = 0
  <2>1. 1 \in 1 .. n + 1 BY <1>1
  <2> QED BY <1>1, <1>2, <1>8, <2>1
<1>13. ASSUME NEW k \in 1 .. n + 1 PROVE g[M[k + 1]].id = E[k].id /\ g[M[k + 1]].data = E[k].data
  <2>1. CASE k = n + 1 
    <3>1. k + 1 = n + 2 BY <1>1, <2>1
    <3> QED BY <1>7, <1>8, <1>9, <2>1, <3>1
  <2>2. CASE k # n + 1
    <3>1. k \in 1 .. n /\ k + 1 \in 1 .. n + 1 BY <1>1, <2>2
    <3>2. M[k + 1] = L[k + 1] /\ E[k] = C[k] /\ L[k + 1] \in D BY <1>1, <1>9, <3>1
    <3>3. g[L[k + 1]].id = heap[L[k + 1]].id /\ g[L[k + 1]].data = heap[L[k + 1]].data
      BY <1>8, <3>2
    <3>4. heap[L[k + 1]].id = C[k].id /\ heap[L[k + 1]].data = C[k].data BY <1>2, <3>1
    <3> QED BY <3>2, <3>3, <3>4
  <2> QED BY <2>1, <2>2
<1>14. IsQueue(g, x, n + 1, M, E)
  <2>1. Len(M) = Len(E) + 1 BY <1>1, <1>9
  <2> QED BY <1>9, <1>11, <1>12, <1>13, <2>1 DEF IsQueue
<1> QED BY <1>5, <1>14 DEF M, E, x, e

-----------------------------------------------------------------------------
(* The entries hold different pages and share the frames 1 .. Len(C).       *)
Framed(C) ==
  /\ \A k \in 1 .. Len(C) : C[k].id \in 1 .. Len(C)
  /\ \A j, k \in 1 .. Len(C) : j # k => C[j].id # C[k].id /\ C[j].data # C[k].data

LEMMA MovedEntries ==
  ASSUME NEW C \in Seq(Entry), NEW k \in 1 .. Len(C), NEW e \in Entry
  PROVE  /\ Moved(C, k, e) \in Seq(Entry) /\ Len(Moved(C, k, e)) = Len(C)
         /\ \A j \in 1 .. Len(C) :
              \/ j < k /\ j # Len(C) /\ Moved(C, k, e)[j] = C[j]
              \/ ~ (j < k) /\ j # Len(C) /\ j + 1 \in 1 .. Len(C) /\ Moved(C, k, e)[j] = C[j + 1]
              \/ j = Len(C) /\ Moved(C, k, e)[j] = e
<1> DEFINE n == Len(C)
           D == Moved(C, k, e)
<1>1. n \in Nat /\ k \in 1 .. n /\ \A j \in 1 .. n : C[j] \in Entry OBVIOUS
<1>2. D = [j \in 1 .. n |-> IF j < k THEN C[j] ELSE IF j < n THEN C[j + 1] ELSE e] BY DEF Moved
<1> HIDE DEF n, D
<1>3. \A j \in 1 .. n : \/ j < k /\ j # n /\ D[j] = C[j]
                        \/ ~ (j < k) /\ j # n /\ j + 1 \in 1 .. n /\ D[j] = C[j + 1]
                        \/ j = n /\ D[j] = e
  BY <1>1, <1>2
<1>4. \A j \in 1 .. n : D[j] \in Entry BY <1>1, <1>3
<1>5. D \in Seq(Entry) /\ Len(D) = n
  <2>1. D = [j \in 1 .. n |-> D[j]] BY <1>2
  <2> QED BY <1>1, <1>4, <2>1
<1> QED BY <1>3, <1>5 DEF n, D

LEMMA MovedFramed ==
  ASSUME NEW C \in Seq(Entry), Framed(C), NEW k \in 1 .. Len(C), NEW e \in Entry,
         e.id = C[k].id, \A j \in 1 .. Len(C) : j # k => C[j].data # e.data
  PROVE  Framed(Moved(C, k, e))
<1> DEFINE n == Len(C)
           D == Moved(C, k, e)
           src(j) == IF j = n THEN k ELSE IF j < k THEN j ELSE j + 1
<1>1. /\ n \in Nat /\ Len(D) = n
      /\ \A j \in 1 .. n : \/ j < k /\ j # n /\ D[j] = C[j]
                           \/ ~ (j < k) /\ j # n /\ j + 1 \in 1 .. n /\ D[j] = C[j + 1]
                           \/ j = n /\ D[j] = e
  BY MovedEntries
<1>2. /\ \A j \in 1 .. n : C[j].id \in 1 .. n
      /\ \A a, j \in 1 .. n : a # j => C[a].id # C[j].id /\ C[a].data # C[j].data
      /\ k \in 1 .. n /\ \A j \in 1 .. n : j # k => C[j].data # e.data
  BY DEF Framed
<1> HIDE DEF n, D
<1>3. \A j \in 1 .. n : src(j) \in 1 .. n /\ (j # n => src(j) # k) BY <1>1, <1>2
<1>4. \A a, j \in 1 .. n : a # j => src(a) # src(j) BY <1>1, <1>2
<1>5. \A j \in 1 .. n : /\ D[j].id = C[src(j)].id
                        /\ D[j].data = IF j = n THEN e.data ELSE C[src(j)].data
  BY <1>1, <1>2
<1> HIDE DEF src
<1>6. \A j \in 1 .. n : D[j].id \in 1 .. n BY <1>2, <1>3, <1>5
<1>7. ASSUME NEW a \in 1 .. n, NEW j \in 1 .. n, a # j
      PROVE  D[a].id # D[j].id /\ D[a].data # D[j].data
  <2>1. src(a) \in 1 .. n /\ src(j) \in 1 .. n /\ src(a) # src(j) BY <1>3, <1>4, <1>7
  <2>2. C[src(a)].id # C[src(j)].id /\ C[src(a)].data # C[src(j)].data BY <1>2, <2>1
  <2>3. D[a].id # D[j].id BY <1>5, <2>2
  <2>4. a # n => C[src(a)].data # e.data BY <1>2, <1>3
  <2>5. j # n => C[src(j)].data # e.data BY <1>2, <1>3
  <2>6. D[a].data # D[j].data BY <1>5, <1>7, <2>2, <2>4, <2>5
  <2> QED BY <2>3, <2>6
<1>8. Framed(D) BY <1>1, <1>6, <1>7 DEF Framed
<1> QED BY <1>8 DEF D

LEMMA AppendedFramed ==
  ASSUME NEW C \in Seq(Entry), Framed(C), NEW e \in Entry, e.id = Len(C) + 1,
         \A j \in 1 .. Len(C) : C[j].data # e.data
  PROVE  Framed(Append(C, e))
<1> DEFINE n == Len(C)
           D == Append(C, e)
<1>1. /\ n \in Nat /\ Len(D) = n + 1 /\ D[n + 1] = e /\ \A j \in 1 .. n : D[j] = C[j]
      /\ \A j \in 1 .. n : C[j].data # e.data
  OBVIOUS
<1>2. /\ \A j \in 1 .. n : C[j].id \in 1 .. n
      /\ \A a, j \in 1 .. n : a # j => C[a].id # C[j].id /\ C[a].data # C[j].data
  BY DEF Framed
<1> HIDE DEF n, D
<1>3. \A j \in 1 .. n + 1 : j \in 1 .. n \/ j = n + 1 BY <1>1
<1>4. \A j \in 1 .. n : D[j].id \in 1 .. n /\ D[j].id # n + 1 /\ D[j].data # e.data
  BY <1>1, <1>2
<1>5. e.id = n + 1 BY DEF n
<1>6. \A j \in 1 .. n + 1 : D[j].id \in 1 .. n + 1
  <2>1. n + 1 \in 1 .. n + 1 /\ \A x \in 1 .. n : x \in 1 .. n + 1 BY <1>1
  <2> QED BY <1>1, <1>3, <1>4, <1>5, <2>1
<1>7. \A a, j \in 1 .. n + 1 : a # j => D[a].id # D[j].id /\ D[a].data # D[j].data
  BY <1>1, <1>2, <1>3, <1>4, <1>5
<1>8. Framed(D) BY <1>1, <1>6, <1>7 DEF Framed
<1> QED BY <1>8 DEF D

(* What the model's operators say of a queue that holds C.                  *)
FramesAs(C) ==
  /\ \A k \in 1 .. Len(C) : Frame(C[k].data) = C[k].id
  /\ \A p \in Page : (\A k \in 1 .. Len(C) : C[k].data # p) => Frame(p) = 0

LEMMA FrameIs ==
  ASSUME NEW L, NEW C, IsQueue(heap, tail, length, L, C), Framed(C)
  PROVE  FramesAs(C)
<1> DEFINE holding(p) == {n \in Nodes : heap[n].data = p}
<1>1. /\ \A k \in 1 .. Len(C) : /\ L[k + 1] \in Nodes
                                /\ heap[L[k + 1]].id = C[k].id /\ heap[L[k + 1]].data = C[k].data
      /\ \A m \in Nodes : \E k \in 1 .. Len(C) : m = L[k + 1]
  <2>1. /\ \A k \in 1 .. Len(C) : k + 1 \in 2 .. Len(L)
        /\ \A k \in 1 .. Len(L) : L[k] \in DOMAIN heap
        /\ L[1] = head /\ 1 \in 1 .. Len(L) /\ Len(L) \in Nat
        /\ \A j, k \in 1 .. Len(L) : j # k => L[j] # L[k]
        /\ \A m \in DOMAIN heap : m # head => \E k \in 1 .. Len(C) : m = L[k + 1]
    BY QueueNodes
  <2>2. \A k \in 1 .. Len(C) : heap[L[k + 1]].id = C[k].id /\ heap[L[k + 1]].data = C[k].data
    BY DEF IsQueue
  <2>3. ASSUME NEW k \in 1 .. Len(C) PROVE L[k + 1] \in Nodes
    <3>1. k + 1 \in 1 .. Len(L) /\ k + 1 # 1 BY <2>1
    <3>2. L[k + 1] \in DOMAIN heap /\ L[k + 1] # L[1] BY <2>1, <3>1
    <3> QED BY <2>1, <3>2 DEF Nodes
  <2>4. \A m \in Nodes : \E k \in 1 .. Len(C) : m = L[k + 1] BY <2>1 DEF Nodes
  <2> QED BY <2>2, <2>3, <2>4
<1>2. \A j, k \in 1 .. Len(C) : j # k => C[j].data # C[k].data BY DEF Framed
<1>3. \A p : Frame(p) = IF holding(p) = {} THEN 0 ELSE heap[CHOOSE n \in holding(p) : TRUE].id
  BY DEF Frame
<1>4. ASSUME NEW k \in 1 .. Len(C) PROVE Frame(C[k].data) = C[k].id
  <2> DEFINE p == C[k].data
             m == CHOOSE n \in holding(p) : TRUE
  <2>1. L[k + 1] \in holding(p) BY <1>1
  <2> HIDE DEF holding
  <2>2. m \in holding(p) BY <2>1
  <2>3. Frame(p) = heap[m].id BY <1>3, <2>1
  <2> HIDE DEF m
  <2>4. m \in Nodes /\ heap[m].data = p BY <2>2 DEF holding
  <2>5. PICK j \in 1 .. Len(C) : m = L[j + 1] BY <1>1, <2>4
  <2>6. C[j].data = C[k].data BY <1>1, <2>4, <2>5
  <2>7. j = k BY <1>2, <2>6
  <2> QED BY <1>1, <2>3, <2>5, <2>7
<1>5. ASSUME NEW p \in Page, \A k \in 1 .. Len(C) : C[k].data # p PROVE Frame(p) = 0
  <2>1. holding(p) = {} BY <1>1, <1>5
  <2> HIDE DEF holding
  <2> QED BY <1>3, <2>1
<1> QED BY <1>4, <1>5 DEF FramesAs

DataOf(C) == {C[k].data : k \in 1 .. Len(C)}

LEMMA ResidentIs ==
  ASSUME NEW L, NEW C, IsQueue(heap, tail, length, L, C), Framed(C)
  PROVE  /\ Resident = DataOf(C) /\ IsFiniteSet(DataOf(C)) /\ Cardinality(DataOf(C)) = Len(C)
<1>1. /\ C \in Seq(Entry) /\ Len(C) \in Nat
      /\ \A k \in 1 .. Len(C) : C[k].data \in Page /\ C[k].id # 0
      /\ \A j, k \in 1 .. Len(C) : j # k => C[j].data # C[k].data
  <2>1. Len(C) \in Nat /\ \A k \in 1 .. Len(C) : C[k].data \in Page BY QueueNodes
  <2> QED BY <2>1 DEF IsQueue, Framed
<1>2. FramesAs(C) BY FrameIs
<1>3. Resident = DataOf(C)
  <2>1. ASSUME NEW p \in DataOf(C) PROVE p \in Resident
    <3>1. PICK k \in 1 .. Len(C) : p = C[k].data BY DEF DataOf
    <3> QED BY <1>1, <1>2, <3>1 DEF FramesAs, Resident
  <2>2. ASSUME NEW p \in Page, p \notin DataOf(C) PROVE p \notin Resident
    <3>1. \A k \in 1 .. Len(C) : C[k].data # p BY <2>2 DEF DataOf
    <3> QED BY <1>2, <3>1 DEF FramesAs, Resident
  <2> QED BY <2>1, <2>2 DEF Resident
<1>4. IsFiniteSet(DataOf(C)) /\ Cardinality(DataOf(C)) = Len(C)
  <2> DEFINE f == [k \in 1 .. Len(C) |-> C[k].data]
  <2>1. \A j, k \in 1 .. Len(C) : j # k => f[j] # f[k] BY <1>1
  <2>2. DataOf(C) = {f[k] : k \in 1 .. Len(C)} BY DEF DataOf
  <2> HIDE DEF f
  <2>3. IsFiniteSet({f[k] : k \in 1 .. Len(C)}) /\ Cardinality({f[k] : k \in 1 .. Len(C)}) = Len(C)
    <3> DEFINE n == Len(C)
    <3>1. n \in Nat /\ \A j, k \in 1 .. n : j # k => f[j] # f[k] BY <1>1, <2>1
    <3> HIDE DEF n
    <3>2. IsFiniteSet({f[k] : k \in 1 .. n}) /\ Cardinality({f[k] : k \in 1 .. n}) = n
      BY <3>1, CountDistinct
    <3> QED BY <3>2 DEF n
  <2> QED BY <2>2, <2>3, Zenon
<1> QED BY <1>3, <1>4

AgeOf(C) == {pq \in Page \X Page :
               \E j, k \in 1 .. Len(C) : j < k /\ pq = <<C[j].data, C[k].data>>}

LEMMA OlderIs ==
  ASSUME NEW L, NEW C, IsQueue(heap, tail, length, L, C)
  PROVE  older = AgeOf(C)
<1>1. List = L BY ListIs DEF IsQueue
<1>2. /\ Len(C) \in Nat /\ Len(L) = Len(C) + 1
      /\ \A k \in 1 .. Len(C) : heap[L[k + 1]].data = C[k].data
  BY QueueNodes DEF IsQueue
<1>3. \A j \in 2 .. Len(L) : j - 1 \in 1 .. Len(C) /\ heap[L[j]].data = C[j - 1].data
  <2> SUFFICES ASSUME NEW j \in 2 .. Len(L)
               PROVE  j - 1 \in 1 .. Len(C) /\ heap[L[j]].data = C[j - 1].data
    OBVIOUS
  <2>1. j - 1 \in 1 .. Len(C) /\ j - 1 + 1 = j BY <1>2
  <2> QED BY <1>2, <2>1
<1>4. ASSUME NEW pq \in Page \X Page
      PROVE  (\E j, k \in 2 .. Len(L) : j < k /\ pq = <<heap[L[j]].data, heap[L[k]].data>>)
               <=> (\E j, k \in 1 .. Len(C) : j < k /\ pq = <<C[j].data, C[k].data>>)
  <2>1. ASSUME NEW j \in 2 .. Len(L), NEW k \in 2 .. Len(L), j < k,
               pq = <<heap[L[j]].data, heap[L[k]].data>>
        PROVE  \E a, b \in 1 .. Len(C) : a < b /\ pq = <<C[a].data, C[b].data>>
    <3>1. j - 1 < k - 1 /\ j - 1 \in 1 .. Len(C) /\ k - 1 \in 1 .. Len(C) BY <1>2, <2>1
    <3>2. pq = <<C[j - 1].data, C[k - 1].data>> BY <1>3, <2>1
    <3> QED BY <3>1, <3>2
  <2>2. ASSUME NEW j \in 1 .. Len(C), NEW k \in 1 .. Len(C), j < k,
               pq = <<C[j].data, C[k].data>>
        PROVE  \E a, b \in 2 .. Len(L) : a < b /\ pq = <<heap[L[a]].data, heap[L[b]].data>>
    <3>1. j + 1 < k + 1 /\ j + 1 \in 2 .. Len(L) /\ k + 1 \in 2 .. Len(L) BY <1>2, <2>2
    <3>2. pq = <<heap[L[j + 1]].data, heap[L[k + 1]].data>> BY <1>2, <2>2
    <3> QED BY <3>1, <3>2
  <2> QED BY <2>1, <2>2
<1> QED BY <1>1, <1>4 DEF older, AgeOf

(* The list is as sound as QueueSound wants it.                             *)
LEMMA WellFormedIs ==
  ASSUME NEW L, NEW C, IsQueue(heap, tail, length, L, C), Framed(C),
         frameCount \in Int, length <= frameCount
  PROVE  /\ QueueWellFormed /\ length \in Nat
         /\ \A n \in DOMAIN heap : /\ heap[n].id \in 0 .. frameCount
                                   /\ heap[n].next \in (DOMAIN heap \cup {NULL}) \ {head}
<1> DEFINE n == Len(C)
<1>0. /\ Len(C) \in Nat /\ Len(L) = Len(C) + 1 /\ length = Len(C)
      /\ \A k \in 1 .. Len(C) : k + 1 \in 2 .. Len(L)
      /\ \A k \in 1 .. Len(L) : L[k] \in DOMAIN heap
      /\ L[1] = head /\ tail = L[Len(L)]
      /\ \A j, k \in 1 .. Len(L) : j # k => L[j] # L[k]
  BY QueueNodes
<1>1. /\ n \in Nat /\ Len(L) = n + 1 /\ length = n
      /\ \A k \in 1 .. n + 1 : L[k] \in DOMAIN heap
      /\ L[1] = head /\ tail = L[n + 1]
      /\ \A j, k \in 1 .. n + 1 : j # k => L[j] # L[k]
  BY <1>0
<1>2. /\ DOMAIN heap = {L[k] : k \in 1 .. n + 1} /\ Cardinality(DOMAIN heap) = n + 1
      /\ Cardinality(Nodes) = n
  <2>1. /\ DOMAIN heap = {L[k] : k \in 1 .. Len(L)}
        /\ Cardinality(DOMAIN heap) = Len(L) /\ Cardinality(DOMAIN heap \ {head}) = Len(L) - 1
    <3>1. Chain(heap, tail, L) BY DEF IsQueue
    <3>2. Counted(heap, L) BY <3>1, ChainCounts
    <3> QED BY <3>2 DEF Counted
  <2>2. Len(L) - 1 = n BY <1>1
  <2> QED BY <1>1, <2>1, <2>2 DEF Nodes
<1>3. /\ L \in Seq(Nat) /\ heap[tail].next = NULL /\ heap[head].id = 0
      /\ \A k \in 1 .. n : heap[L[k]].next = L[k + 1]
      /\ \A k \in 1 .. n : heap[L[k + 1]].id = C[k].id /\ heap[L[k + 1]].data = C[k].data
      /\ \A k \in 1 .. n : C[k].id \in 1 .. n
      /\ \A j, k \in 1 .. n : j # k => C[j].id # C[k].id
  <2>1. Len(L) - 1 = n BY <1>1
  <2> QED BY <1>1, <2>1 DEF IsQueue, Chain, Framed
<1>4. List = L BY ListIs DEF IsQueue
<1>5. Resident = DataOf(C) /\ Cardinality(DataOf(C)) = n BY ResidentIs
<1> HIDE DEF n
<1>6. \A k \in 1 .. n : k + 1 \in 1 .. n + 1 /\ k + 1 # 1 /\ k \in 1 .. n + 1 BY <1>1
<1>7. \A k \in 1 .. n + 1 : k = 1 \/ (k - 1 \in 1 .. n /\ k - 1 + 1 = k) BY <1>1
<1>8. 1 \in 1 .. n + 1 /\ n + 1 \in 1 .. n + 1 BY <1>1
<1>9. Nodes = {L[k + 1] : k \in 1 .. n}
  <2>1. \A k \in 1 .. n : L[k + 1] \in Nodes BY <1>1, <1>6, <1>8 DEF Nodes
  <2>2. ASSUME NEW m \in Nodes PROVE \E k \in 1 .. n : m = L[k + 1]
    <3>1. PICK k \in 1 .. n + 1 : m = L[k] BY <1>2 DEF Nodes
    <3>2. k # 1 BY <1>1, <3>1 DEF Nodes
    <3> QED BY <1>7, <3>1, <3>2
  <2> QED BY <2>1, <2>2
<1>10. {heap[m].data : m \in Nodes} = DataOf(C)
  <2>1. DataOf(C) = {C[k].data : k \in 1 .. n} BY DEF DataOf, n
  <2> QED BY <1>3, <1>9, <2>1
<1>11. {heap[m].id : m \in Nodes} = 1 .. n
  <2> DEFINE f == [k \in 1 .. n |-> C[k].id]
             I == {f[k] : k \in 1 .. n}
  <2>1. {heap[m].id : m \in Nodes} = I
    <3>1. \A m \in Nodes : heap[m].id \in I BY <1>3, <1>9
    <3>2. \A k \in 1 .. n : \E m \in Nodes : f[k] = heap[m].id BY <1>3, <1>9
    <3> QED BY <3>1, <3>2
  <2>2. \A j, k \in 1 .. n : j # k => f[j] # f[k] BY <1>3
  <2>3. I \subseteq 1 .. n BY <1>3
  <2> HIDE DEF f
  <2>4. IsFiniteSet(I) /\ Cardinality(I) = n BY <1>1, <2>2, CountDistinct
  <2> HIDE DEF I
  <2>5. IsFiniteSet(1 .. n) /\ Cardinality(1 .. n) = n BY <1>1, CountUpTo
  <2>6. I = 1 .. n BY <2>3, <2>4, <2>5, FS_Subset
  <2> QED BY <2>1, <2>6
<1>12. Range(List) = DOMAIN heap /\ Len(List) = n + 1 /\ Last(List) = tail
  <2>1. DOMAIN L = 1 .. n + 1 BY <1>1, <1>3
  <2> QED BY <1>1, <1>2, <1>4, <2>1 DEF Range, Last
<1>13. QueueWellFormed
  BY <1>1, <1>2, <1>3, <1>5, <1>10, <1>11, <1>12 DEF QueueWellFormed
<1>14. ASSUME NEW m \in DOMAIN heap
       PROVE  /\ heap[m].id \in 0 .. frameCount
              /\ heap[m].next \in (DOMAIN heap \cup {NULL}) \ {head}
  <2>1. PICK k \in 1 .. n + 1 : m = L[k] BY <1>2
  <2>2. heap[m].id \in 0 .. frameCount
    <3>1. CASE k = 1 BY <1>1, <1>3, <2>1, <3>1
    <3>2. CASE k # 1
      <4>1. heap[m].id = C[k - 1].id /\ C[k - 1].id \in 1 .. n BY <1>3, <1>7, <2>1, <3>2
      <4> QED BY <1>1, <4>1
    <3> QED BY <3>1, <3>2
  <2>3. heap[m].next \in (DOMAIN heap \cup {NULL}) \ {head}
    <3>1. CASE k = n + 1 BY <1>1, <1>3, <2>1, <3>1 DEF NULL, head
    <3>2. CASE k # n + 1
      <4>1. k \in 1 .. n BY <1>1, <3>2
      <4>2. heap[m].next = L[k + 1] /\ L[k + 1] # L[1] BY <1>1, <1>3, <1>6, <1>8, <2>1, <4>1
      <4> QED BY <1>1, <1>6, <4>1, <4>2
    <3> QED BY <3>1, <3>2
  <2> QED BY <2>2, <2>3
<1> QED BY <1>1, <1>13, <1>14

-----------------------------------------------------------------------------
(* The copy has the entries of the queue, and inserting each by its id puts *)
(* them in the order of the frames.                                         *)
CopyOf(C, s) ==
  /\ s \in Seq(Node) /\ Len(s) = Len(C)
  /\ \A k \in 1 .. Len(C) : s[k].id = C[k].id /\ s[k].data = C[k].data

LEMMA CopyIs ==
  ASSUME NEW q, NEW L, NEW C, IsQueue(q.heap, q.tail, q.length, L, C)
  PROVE  CopyOf(C, copyQueue(q))
<1> DEFINE n == Len(C)
           h == q.heap
           m == Cardinality(DOMAIN h) - 1
           at[k \in 0 .. m] == IF k = 0 THEN head ELSE h[at[k-1]].next
           f == [k \in 0 .. n |-> L[k + 1]]
<1>1. /\ Len(C) \in Nat /\ Len(L) = Len(C) + 1 /\ L[1] = head
      /\ \A k \in DOMAIN h : h[k] \in Node
      /\ \A k \in 1 .. Len(L) : L[k] \in DOMAIN h
  BY QueueNodes
<1>2. m = n
  <2>1. Chain(h, q.tail, L) BY DEF IsQueue
  <2>2. Counted(h, L) BY <2>1, ChainCounts
  <2> QED BY <1>1, <2>2 DEF Counted
<1>3. /\ \A k \in 1 .. n : h[L[k]].next = L[k + 1]
      /\ \A k \in 1 .. n : h[L[k + 1]].id = C[k].id /\ h[L[k + 1]].data = C[k].data
  <2>1. Len(L) - 1 = n BY <1>1
  <2> QED BY <2>1 DEF IsQueue, Chain
<1>4. n \in Nat /\ \A k \in 1 .. n : h[L[k + 1]] \in Node
  <2>1. \A k \in 1 .. n : k + 1 \in 1 .. Len(L) BY <1>1
  <2> QED BY <1>1, <2>1
<1>5. copyQueue(q) = [k \in 1 .. m |-> h[at[k]]] BY DEF copyQueue
<1> HIDE DEF n, h, m
<1>6. f = [k \in 0 .. m |-> IF k = 0 THEN head ELSE h[f[k-1]].next]
  <2>1. \A k \in 0 .. n : k # 0 => k \in 1 .. n /\ k - 1 \in 0 .. n /\ k - 1 + 1 = k BY <1>4
  <2>2. \A k \in 0 .. n : f[k] = IF k = 0 THEN head ELSE h[f[k-1]].next
    BY <1>1, <1>3, <2>1
  <2> QED BY <1>2, <2>2
<1>7. at = [k \in 0 .. m |-> IF k = 0 THEN head ELSE h[at[k-1]].next]
  <2> HIDE DEF f
  <2> QED BY <1>6 DEF at
<1> HIDE DEF at, f
<1>8. \A k \in 0 .. n : at[k] = L[k + 1]
  <2> DEFINE T == {k \in 0 .. n : at[k] = L[k + 1]}
  <2>1. 0 \in T BY <1>1, <1>2, <1>4, <1>7
  <2>2. ASSUME NEW k \in 0 .. n - 1, k \in T PROVE k + 1 \in T
    <3>1. k + 1 \in 1 .. n /\ k + 1 \in 0 .. n /\ k + 1 - 1 = k /\ k + 1 # 0 BY <1>4
    <3>2. \A j \in 0 .. n : at[j] = IF j = 0 THEN head ELSE h[at[j - 1]].next
      BY <1>2, <1>7
    <3>3. at[k + 1] = h[at[k]].next /\ at[k] = L[k + 1] BY <2>2, <3>1, <3>2
    <3> QED BY <1>3, <3>1, <3>3
  <2>3. 0 \in Int /\ n \in Int BY <1>4
  <2> HIDE DEF T
  <2>4. 0 .. n \subseteq T BY <2>1, <2>2, <2>3, Induction
  <2> QED BY <2>4 DEF T
<1>9. copyQueue(q) = [k \in 1 .. n |-> h[L[k + 1]]]
  <2>1. \A k \in 1 .. n : at[k] = L[k + 1]
    <3>1. \A k \in 1 .. n : k \in 0 .. n BY <1>4
    <3> QED BY <1>8, <3>1
  <2> QED BY <1>2, <1>5, <2>1
<1>10. /\ copyQueue(q) \in Seq(Node) /\ Len(copyQueue(q)) = n
       /\ \A k \in 1 .. n : copyQueue(q)[k] = h[L[k + 1]]
  BY <1>4, <1>9
<1> QED BY <1>3, <1>10 DEF CopyOf, n

(* node goes before place p of s.                                          *)
PutAt(s, p, node, r) ==
  /\ r \in Seq(Node) /\ Len(r) = Len(s) + 1 /\ r[p] = node
  /\ \A j \in 1 .. p - 1 : r[j] = s[j]
  /\ \A j \in p .. Len(s) : r[j + 1] = s[j]

LEMMA InsertAtIs ==
  ASSUME NEW s \in Seq(Node), NEW node \in Node, NEW p \in 1 .. Len(s) + 1
  PROVE  PutAt(s, p, node, InsertAt(s, p, node))
<1> DEFINE a == SubSeq(s, 1, p - 1)
           b == SubSeq(s, p, Len(s))
           c == a \o <<node>>
           r == c \o b
<1>1. Len(s) \in Nat /\ p \in Int /\ \A j \in 1 .. Len(s) : s[j] \in Node OBVIOUS
<1>2. a \in Seq(Node) /\ Len(a) = p - 1 /\ \A j \in 1 .. p - 1 : a[j] = s[j]
  <2>1. \A j \in 1 .. p - 1 : s[j] \in Node BY <1>1
  <2>2. 1 \in Int /\ p - 1 \in Int BY <1>1
  <2>3. /\ a \in Seq(Node) /\ Len(a) = IF 1 <= p - 1 THEN p - 1 - 1 + 1 ELSE 0
        /\ \A j \in 1 .. p - 1 - 1 + 1 : a[j] = s[1 + j - 1]
    BY <2>1, <2>2, SubSeqProperties
  <2> HIDE DEF a
  <2>4. p - 1 - 1 + 1 = p - 1 /\ \A j \in 1 .. p - 1 : 1 + j - 1 = j BY <1>1
  <2> QED BY <1>1, <2>3, <2>4
<1>3. /\ b \in Seq(Node) /\ Len(b) = Len(s) - p + 1
      /\ \A j \in 1 .. Len(s) - p + 1 : b[j] = s[p + j - 1]
  <2>1. \A j \in p .. Len(s) : s[j] \in Node BY <1>1
  <2>2. /\ b \in Seq(Node) /\ Len(b) = IF p <= Len(s) THEN Len(s) - p + 1 ELSE 0
        /\ \A j \in 1 .. Len(s) - p + 1 : b[j] = s[p + j - 1]
    BY <1>1, <2>1, SubSeqProperties
  <2> HIDE DEF b
  <2> QED BY <1>1, <2>2
<1>4. InsertAt(s, p, node) = r BY DEF InsertAt
<1> HIDE DEF a, b
<1>5. c \in Seq(Node) /\ Len(c) = p /\ c[p] = node /\ \A j \in 1 .. p - 1 : c[j] = s[j]
  BY <1>1, <1>2
<1> HIDE DEF c
<1>6. /\ r \in Seq(Node) /\ Len(r) = Len(s) + 1
      /\ \A j \in 1 .. Len(s) + 1 : r[j] = IF j <= p THEN c[j] ELSE b[j - p]
  BY <1>1, <1>3, <1>5
<1> HIDE DEF r
<1>7. r[p] = node /\ \A j \in 1 .. p - 1 : r[j] = s[j] BY <1>1, <1>5, <1>6
<1>8. ASSUME NEW j \in p .. Len(s) PROVE r[j + 1] = s[j]
  <2>1. /\ j + 1 \in 1 .. Len(s) + 1 /\ ~ (j + 1 <= p) /\ j + 1 - p \in 1 .. Len(s) - p + 1
        /\ p + (j + 1 - p) - 1 = j
    BY <1>1
  <2>2. r[j + 1] = b[j + 1 - p] BY <1>6, <2>1
  <2>3. b[j + 1 - p] = s[p + (j + 1 - p) - 1] BY <1>3, <2>1
  <2> QED BY <2>1, <2>2, <2>3
<1> QED BY <1>4, <1>6, <1>7, <1>8 DEF PutAt

PlaceFor(s, p, node) ==
  /\ p \in 1 .. Len(s) + 1
  /\ \A j \in 1 .. p - 1 : s[j].id < node.id
  /\ p <= Len(s) => s[p].id >= node.id

LEMMA InsertIs ==
  ASSUME NEW s \in Seq(Node), NEW node \in Node
  PROVE  \E p : PlaceFor(s, p, node) /\ PutAt(s, p, node, Insert(s, node))
<1> DEFINE I == {j \in 2 .. Len(s) : s[j].id >= node.id}
           k == IF I # {} THEN Min(I) ELSE 0
           p == IF k = 0 THEN Len(s) + 1 ELSE k
<1>1. /\ Len(s) \in Nat /\ node.id \in Int /\ \A j \in 1 .. Len(s) : s[j] \in Node /\ s[j].id \in Int
      /\ s # <<>> => Len(s) >= 1
  <2>1. \A x \in Node : x.id \in Int BY DEF Node
  <2>2. Len(s) \in Nat /\ \A j \in 1 .. Len(s) : s[j] \in Node OBVIOUS
  <2>3. s # <<>> => Len(s) >= 1 OBVIOUS
  <2> QED BY <2>1, <2>2, <2>3
<1>2. k = SelectInSubSeq(s, 2, Len(s), LAMBDA x : x.id >= node.id) BY DEF SelectInSubSeq
<1>3. Insert(s, node) = IF s = <<>> \/ s[1].id >= node.id THEN <<node>> \o s
                        ELSE InsertAt(s, p, node)
  BY <1>2 DEF Insert
<1>4. k = 0 \/ k \in I
  <2>1. I \subseteq Nat OBVIOUS
  <2> HIDE DEF I
  <2> QED BY <2>1, MinOfNats
<1>5. \A j \in I : k # 0 /\ k <= j
  <2>1. I \subseteq Nat /\ \A j \in I : j >= 2 OBVIOUS
  <2>2. I # {} => Min(I) \in I /\ \A j \in I : Min(I) <= j
    <3> HIDE DEF I
    <3> QED BY <2>1, MinOfNats
  <2> HIDE DEF I
  <2>3. ASSUME NEW j \in I PROVE k # 0 /\ k <= j
    <3>1. k = Min(I) /\ Min(I) \in I /\ Min(I) <= j BY <2>2
    <3>2. Min(I) >= 2 /\ Min(I) \in Nat BY <2>1, <3>1
    <3> QED BY <3>1, <3>2
  <2> QED BY <2>3
<1> HIDE DEF k
<1>6. CASE s = <<>> \/ s[1].id >= node.id
  <2> DEFINE r == <<node>> \o s
  <2>1. /\ r \in Seq(Node) /\ Len(r) = Len(s) + 1 /\ r[1] = node
        /\ \A j \in 1 .. Len(s) : r[j + 1] = s[j]
    BY <1>1
  <2> HIDE DEF r
  <2>2. PutAt(s, 1, node, r) BY <2>1 DEF PutAt
  <2>3. PlaceFor(s, 1, node)
    <3>1. 1 \in 1 .. Len(s) + 1 /\ \A j \in 1 .. 1 - 1 : FALSE BY <1>1
    <3>2. 1 <= Len(s) => s[1].id >= node.id BY <1>6
    <3> QED BY <3>1, <3>2 DEF PlaceFor
  <2> QED BY <1>3, <1>6, <2>2, <2>3 DEF r
<1>7. CASE ~ (s = <<>> \/ s[1].id >= node.id)
  <2>1. p \in 1 .. Len(s) + 1 /\ p >= 2 BY <1>1, <1>4, <1>7
  <2>2. Insert(s, node) = InsertAt(s, p, node) BY <1>3, <1>7
  <2>3. p <= Len(s) => s[p].id >= node.id BY <1>1, <1>4
  <2>4. ASSUME NEW j \in 1 .. p - 1 PROVE s[j].id < node.id
    <3>1. CASE j = 1 BY <1>1, <1>7, <3>1
    <3>2. CASE j # 1
      <4>0. I \subseteq Int OBVIOUS
      <4>1. j \in 2 .. Len(s) /\ j < p BY <1>1, <2>1, <3>2
      <4>2. j \notin I
        <5> HIDE DEF I
        <5>1. j \in I => k # 0 /\ k <= j BY <1>5
        <5>2. k # 0 => p = k OBVIOUS
        <5>3. k # 0 => k \in Int BY <1>4, <4>0
        <5> HIDE DEF p
        <5> QED BY <2>1, <4>1, <5>1, <5>2, <5>3
      <4> QED BY <1>1, <4>1, <4>2
    <3> QED BY <3>1, <3>2
  <2> HIDE DEF p
  <2>5. PlaceFor(s, p, node) BY <2>1, <2>3, <2>4 DEF PlaceFor
  <2>6. PutAt(s, p, node, InsertAt(s, p, node)) BY <2>1, InsertAtIs
  <2> QED BY <2>2, <2>5, <2>6
<1> QED BY <1>6, <1>7

InFrameOrder(s) == \A j, k \in 1 .. Len(s) : j < k => s[j].id < s[k].id

LEMMA InsertKeepsOrder ==
  ASSUME NEW s \in Seq(Node), InFrameOrder(s), NEW node \in Node,
         \A j \in 1 .. Len(s) : s[j].id # node.id,
         NEW r, r = Insert(s, node)
  PROVE  /\ r \in Seq(Node) /\ Len(r) = Len(s) + 1 /\ InFrameOrder(r)
         /\ \A k \in 1 .. Len(r) : r[k] = node \/ \E j \in 1 .. Len(s) : r[k] = s[j]
<1>1. PICK p : PlaceFor(s, p, node) /\ PutAt(s, p, node, r) BY InsertIs
<1> DEFINE n == Len(s)
<1>2. /\ n \in Nat /\ p \in 1 .. n + 1 /\ r \in Seq(Node) /\ Len(r) = n + 1 /\ r[p] = node
      /\ \A j \in 1 .. p - 1 : r[j] = s[j] /\ s[j].id < node.id
      /\ \A j \in p .. n : r[j + 1] = s[j]
      /\ p <= n => s[p].id >= node.id
      /\ \A j \in 1 .. n : s[j].id \in Int /\ s[j].id # node.id
      /\ \A j, k \in 1 .. n : j < k => s[j].id < s[k].id
      /\ node.id \in Int
  <2>1. \A x \in Node : x.id \in Int BY DEF Node
  <2>2. n \in Nat /\ \A j \in 1 .. n : s[j] \in Node OBVIOUS
  <2>3. /\ r \in Seq(Node) /\ Len(r) = n + 1 /\ r[p] = node
        /\ \A j \in 1 .. p - 1 : r[j] = s[j]
        /\ \A j \in p .. n : r[j + 1] = s[j]
    BY <1>1 DEF PutAt
  <2>4. /\ p \in 1 .. n + 1
        /\ \A j \in 1 .. p - 1 : s[j].id < node.id
        /\ p <= n => s[p].id >= node.id
    BY <1>1 DEF PlaceFor
  <2>5. /\ \A j \in 1 .. n : s[j].id # node.id
        /\ \A j, k \in 1 .. n : j < k => s[j].id < s[k].id
    BY DEF InFrameOrder
  <2> HIDE DEF n
  <2> QED BY <2>1, <2>2, <2>3, <2>4, <2>5
<1> HIDE DEF n
<1>3. \A k \in p .. n : s[k].id > node.id
  <2> SUFFICES ASSUME NEW k \in p .. n PROVE s[k].id > node.id OBVIOUS
  <2>1. p \in 1 .. n /\ k \in 1 .. n /\ p <= n /\ (p = k \/ p < k) BY <1>2
  <2>2. s[p].id > node.id BY <1>2, <2>1
  <2>3. p < k => s[p].id < s[k].id BY <1>2, <2>1
  <2> QED BY <1>2, <2>1, <2>2, <2>3
<1>4. \A k \in 1 .. n + 1 : \/ k \in 1 .. p - 1 /\ k \in 1 .. n
                            \/ k = p
                            \/ k > p /\ k - 1 \in p .. n /\ k - 1 \in 1 .. n /\ k - 1 + 1 = k
  BY <1>2
<1>5. \A k \in 1 .. n + 1 : \/ k \in 1 .. p - 1 /\ r[k] = s[k] /\ s[k].id < node.id
                            \/ k = p /\ r[k] = node
                            \/ k > p /\ r[k] = s[k - 1] /\ s[k - 1].id > node.id
  <2> SUFFICES ASSUME NEW k \in 1 .. n + 1
               PROVE  \/ k \in 1 .. p - 1 /\ r[k] = s[k] /\ s[k].id < node.id
                      \/ k = p /\ r[k] = node
                      \/ k > p /\ r[k] = s[k - 1] /\ s[k - 1].id > node.id
    OBVIOUS
  <2>1. CASE k \in 1 .. p - 1 BY <1>2, <2>1
  <2>2. CASE k = p BY <1>2, <2>2
  <2>3. CASE k > p /\ k - 1 \in p .. n /\ k - 1 + 1 = k
    <3>1. r[k - 1 + 1] = s[k - 1] BY <1>2, <2>3
    <3> QED BY <1>3, <2>3, <3>1
  <2> QED BY <1>4, <2>1, <2>2, <2>3
<1>6. ASSUME NEW a \in 1 .. n + 1, NEW b \in 1 .. n + 1, a < b PROVE r[a].id < r[b].id
  <2>1. CASE a \in 1 .. p - 1
    <3>1. r[a] = s[a] /\ a \in 1 .. n /\ s[a].id < node.id BY <1>2, <1>5, <2>1
    <3>2. CASE b \in 1 .. p - 1
      <4>1. r[b] = s[b] /\ b \in 1 .. n BY <1>2, <1>5, <3>2
      <4> QED BY <1>2, <1>6, <3>1, <4>1
    <3>3. CASE b = p BY <1>2, <3>1, <3>3
    <3>4. CASE b > p /\ b - 1 \in 1 .. n
      <4>1. r[b] = s[b - 1] /\ s[b - 1].id > node.id BY <1>2, <1>5, <3>4
      <4> QED BY <1>2, <3>1, <3>4, <4>1
    <3> QED BY <1>4, <3>2, <3>3, <3>4
  <2>2. CASE a = p
    <3>1. b > p /\ b - 1 \in 1 .. n BY <1>2, <1>4, <1>6, <2>2
    <3>2. r[b] = s[b - 1] /\ s[b - 1].id > node.id BY <1>2, <1>5, <3>1
    <3> QED BY <1>2, <2>2, <3>1, <3>2
  <2>3. CASE a > p /\ a - 1 \in 1 .. n
    <3>1. b > p /\ b - 1 \in 1 .. n /\ a - 1 < b - 1 BY <1>2, <1>4, <1>6, <2>3
    <3>2. r[b] = s[b - 1] /\ r[a] = s[a - 1] BY <1>2, <1>5, <2>3, <3>1
    <3> QED BY <1>2, <2>3, <3>1, <3>2
  <2> QED BY <1>4, <2>1, <2>2, <2>3
<1>7. InFrameOrder(r) BY <1>2, <1>6 DEF InFrameOrder
<1>8. ASSUME NEW k \in 1 .. n + 1 PROVE r[k] = node \/ \E j \in 1 .. n : r[k] = s[j]
  BY <1>2, <1>4, <1>5, SMTT(30)
<1> QED BY <1>2, <1>7, <1>8 DEF n

Sorting(cp, sorted) ==
  sorted = CHOOSE g : g = [k \in 0 .. Len(cp) |-> IF k = 0 THEN <<>> ELSE Insert(g[k-1], cp[k])]

InsertsEach(cp, sorted) ==
  sorted[0] = <<>> /\ \A k \in 1 .. Len(cp) : sorted[k] = Insert(sorted[k-1], cp[k])

LEMMA SortSolved ==
  ASSUME NEW cp \in Seq(Node), NEW sorted, Sorting(cp, sorted)
  PROVE  InsertsEach(cp, sorted)
<1> DEFINE n == Len(cp)
           S == Seq(Node)
           step == [k \in 1 .. n |-> [s \in S |-> Insert(s, cp[k])]]
<1>1. n \in Nat /\ <<>> \in S /\ \A k \in 1 .. n : cp[k] \in Node OBVIOUS
<1>2. \A k \in 1 .. n : \A s \in S : Insert(s, cp[k]) \in S
  <2> SUFFICES ASSUME NEW k \in 1 .. n, NEW s \in S PROVE Insert(s, cp[k]) \in S OBVIOUS
  <2>1. \E p : PlaceFor(s, p, cp[k]) /\ PutAt(s, p, cp[k], Insert(s, cp[k])) BY <1>1, InsertIs
  <2> QED BY <2>1 DEF PutAt
<1> HIDE DEF n, S
<1>3. step \in [0 + 1 .. n -> [S -> S]] BY <1>2
<1>4. \A k \in 1 .. n : \A s \in S : step[k][s] = Insert(s, cp[k]) OBVIOUS
<1> HIDE DEF step
<1>5. Solvable(0, n, S, <<>>, step)
  <2>1. 0 \in Int /\ n \in Int /\ 0 <= n BY <1>1
  <2> QED BY <1>1, <1>3, <2>1, Recursion
<1>6. PICK f \in [0 .. n -> S] : f[0] = <<>> /\ \A k \in 1 .. n : f[k] = step[k][f[k-1]]
  <2>1. 0 + 1 = 1 OBVIOUS
  <2> QED BY <1>5, <2>1 DEF Solvable
<1>7. \A k \in 1 .. n : f[k] = Insert(f[k-1], cp[k])
  <2> SUFFICES ASSUME NEW k \in 1 .. n PROVE f[k] = Insert(f[k-1], cp[k]) OBVIOUS
  <2>1. k - 1 \in 0 .. n BY <1>1
  <2>2. f[k-1] \in S BY <2>1
  <2> QED BY <1>4, <1>6, <2>2
<1>8. f = [k \in 0 .. n |-> IF k = 0 THEN <<>> ELSE Insert(f[k-1], cp[k])]
  <2>1. \A k \in 0 .. n : k # 0 => k \in 1 .. n BY <1>1
  <2> QED BY <1>6, <1>7, <2>1
<1>9. sorted = [k \in 0 .. n |-> IF k = 0 THEN <<>> ELSE Insert(sorted[k-1], cp[k])]
  <2>1. sorted = CHOOSE g : g = [k \in 0 .. n |-> IF k = 0 THEN <<>> ELSE Insert(g[k-1], cp[k])]
    BY DEF n, Sorting
  <2> QED BY <1>8, <2>1
<1>10. \A k \in 0 .. n : sorted[k] = IF k = 0 THEN <<>> ELSE Insert(sorted[k-1], cp[k])
  BY <1>9
<1>11. sorted[0] = <<>>
  <2>1. 0 \in 0 .. n BY <1>1
  <2> QED BY <1>10, <2>1
<1>12. \A k \in 1 .. n : sorted[k] = Insert(sorted[k-1], cp[k])
  <2>1. \A k \in 1 .. n : k \in 0 .. n /\ k # 0 BY <1>1
  <2> QED BY <1>10, <2>1
<1> QED BY <1>11, <1>12 DEF n, InsertsEach

(* n different numbers of 1 .. n in ascending order are 1 .. n.             *)
LEMMA AscendingIsIdentity ==
  ASSUME NEW n \in Nat, NEW f \in [1 .. n -> 1 .. n],
         \A j, k \in 1 .. n : j < k => f[j] < f[k]
  PROVE  \A j \in 1 .. n : f[j] = j
<1> SUFFICES ASSUME NEW j0 \in 1 .. n PROVE f[j0] = j0 OBVIOUS
<1>0. n >= 1 OBVIOUS
<1> DEFINE T == {j \in 1 .. n : f[j] >= j}
           U == {d \in 0 .. n - 1 : f[n - d] <= n - d}
<1>1. 1 .. n \subseteq T
  <2>1. 1 \in T BY <1>0
  <2>2. ASSUME NEW k \in 1 .. n - 1, k \in T PROVE k + 1 \in T
    <3>1. k \in 1 .. n /\ k + 1 \in 1 .. n /\ k < k + 1 OBVIOUS
    <3>2. f[k] < f[k + 1] /\ f[k] >= k /\ f[k] \in Int /\ f[k + 1] \in Int BY <2>2, <3>1
    <3> QED BY <3>1, <3>2
  <2>3. 1 \in Int /\ n \in Int OBVIOUS
  <2> HIDE DEF T
  <2>4. \A k \in 1 .. n - 1 : k \in T => k + 1 \in T BY <2>2
  <2> QED BY <2>1, <2>3, <2>4, Induction
<1>2. 0 .. n - 1 \subseteq U
  <2>1. 0 \in U
    <3>1. n - 0 \in 1 .. n /\ 0 \in 0 .. n - 1 BY <1>0
    <3> QED BY <3>1
  <2>2. ASSUME NEW d \in 0 .. n - 1 - 1, d \in U PROVE d + 1 \in U
    <3>1. n - d \in 1 .. n /\ n - (d + 1) \in 1 .. n /\ n - (d + 1) < n - d OBVIOUS
    <3>2. /\ f[n - (d + 1)] < f[n - d] /\ f[n - d] <= n - d
          /\ f[n - d] \in Int /\ f[n - (d + 1)] \in Int
      BY <2>2, <3>1
    <3>3. f[n - (d + 1)] <= n - (d + 1) BY <3>1, <3>2
    <3> QED BY <3>3
  <2> DEFINE m == n - 1
  <2>3. 0 \in Int /\ m \in Int OBVIOUS
  <2> HIDE DEF U
  <2>4. \A d \in 0 .. m - 1 : d \in U => d + 1 \in U BY <2>2
  <2> HIDE DEF m
  <2>5. 0 .. m \subseteq U BY <2>1, <2>3, <2>4, Induction
  <2> QED BY <2>5 DEF m
<1>3. f[j0] >= j0 BY <1>1
<1>4. f[j0] <= j0
  <2>1. n - j0 \in 0 .. n - 1 /\ n - (n - j0) = j0 OBVIOUS
  <2>2. n - j0 \in U BY <1>2, <2>1
  <2>3. f[n - (n - j0)] <= n - (n - j0) BY <2>2
  <2> QED BY <2>1, <2>3
<1>5. f[j0] \in Int OBVIOUS
<1> QED BY <1>3, <1>4, <1>5

(* s has the first k of the copy, in the order of the frames.               *)
SortedSoFar(cp, s, k) ==
  /\ s \in Seq(Node) /\ Len(s) = k /\ InFrameOrder(s)
  /\ \A j \in 1 .. k : \E m \in 1 .. k : s[j] = cp[m]

LEMMA SortIs ==
  ASSUME NEW C, C \in Seq(Entry), Framed(C), NEW cp, CopyOf(C, cp), NEW q, copyQueue(q) = cp
  PROVE  SortedSoFar(cp, sortQueue(q), Len(C))
<1> DEFINE n == Len(C)
           sorted[k \in 0 .. Len(cp)] == IF k = 0 THEN <<>> ELSE Insert(sorted[k-1], cp[k])
<1>1. /\ n \in Nat /\ Len(cp) = n /\ cp \in Seq(Node)
      /\ \A k \in 1 .. n : cp[k] \in Node
      /\ \A k \in 1 .. n : cp[k].id = C[k].id
      /\ \A j, k \in 1 .. n : j # k => C[j].id # C[k].id
  BY DEF CopyOf, Framed
<1>2. sortQueue(q) = sorted[n] BY <1>1 DEF sortQueue
<1>3. Sorting(cp, sorted) BY DEF sorted, Sorting
<1> HIDE DEF n, sorted
<1>4. sorted[0] = <<>> /\ \A k \in 1 .. n : sorted[k] = Insert(sorted[k-1], cp[k])
  <2>1. InsertsEach(cp, sorted) BY <1>1, <1>3, SortSolved
  <2> QED BY <1>1, <2>1 DEF InsertsEach
<1> DEFINE T == {k \in 0 .. n : SortedSoFar(cp, sorted[k], k)}
<1>5. 0 \in T
  <2>1. 0 \in 0 .. n BY <1>1
  <2>2. <<>> \in Seq(Node) /\ Len(<<>>) = 0 OBVIOUS
  <2>3. \A j \in 1 .. 0 : FALSE OBVIOUS
  <2>4. InFrameOrder(<<>>) BY <2>2, <2>3 DEF InFrameOrder
  <2>5. SortedSoFar(cp, <<>>, 0) BY <2>2, <2>3, <2>4 DEF SortedSoFar
  <2> QED BY <1>4, <2>1, <2>5
<1>6. ASSUME NEW k \in 0 .. n - 1, k \in T PROVE k + 1 \in T
  <2> DEFINE s == sorted[k]
             node == cp[k + 1]
             r == sorted[k + 1]
  <2>1. /\ k \in Nat /\ k + 1 \in 1 .. n /\ k + 1 \in 0 .. n /\ k + 1 - 1 = k
        /\ \A j \in 1 .. k : j \in 1 .. n /\ j \in 1 .. k + 1 /\ j # k + 1
        /\ k + 1 \in 1 .. k + 1
    BY <1>1
  <2>2. r = Insert(s, node) BY <1>4, <2>1
  <2>3. /\ s \in Seq(Node) /\ Len(s) = k /\ InFrameOrder(s)
        /\ \A j \in 1 .. k : \E m \in 1 .. k : s[j] = cp[m]
    BY <1>6 DEF SortedSoFar
  <2> HIDE DEF s, r
  <2>4. \A j \in 1 .. k : s[j].id # node.id
    <3> SUFFICES ASSUME NEW j \in 1 .. k PROVE s[j].id # node.id OBVIOUS
    <3>1. PICK m \in 1 .. k : s[j] = cp[m] BY <2>3
    <3>2. m \in 1 .. n /\ m # k + 1 BY <2>1
    <3> QED BY <1>1, <2>1, <3>1, <3>2
  <2>5. node \in Node BY <1>1, <2>1
  <2> HIDE DEF node
  <2>6. /\ r \in Seq(Node) /\ Len(r) = Len(s) + 1 /\ InFrameOrder(r)
        /\ \A a \in 1 .. Len(r) : r[a] = node \/ \E j \in 1 .. Len(s) : r[a] = s[j]
    BY <2>2, <2>3, <2>4, <2>5, InsertKeepsOrder
  <2>7. ASSUME NEW a \in 1 .. k + 1 PROVE \E m \in 1 .. k + 1 : r[a] = cp[m]
    <3>1. r[a] = node \/ \E j \in 1 .. k : r[a] = s[j] BY <2>3, <2>6
    <3>2. CASE r[a] = node BY <2>1, <3>2 DEF node
    <3>3. CASE \E j \in 1 .. k : r[a] = s[j]
      <4>1. PICK j \in 1 .. k : r[a] = s[j] BY <3>3
      <4>2. PICK m \in 1 .. k : s[j] = cp[m] BY <2>3
      <4> QED BY <2>1, <4>1, <4>2
    <3> QED BY <3>1, <3>2, <3>3
  <2>8. SortedSoFar(cp, r, k + 1) BY <2>3, <2>6, <2>7 DEF SortedSoFar
  <2> QED BY <2>1, <2>8 DEF r
<1>7. 0 .. n \subseteq T
  <2>1. 0 \in Int /\ n \in Int BY <1>1
  <2> HIDE DEF T
  <2> QED BY <1>5, <1>6, <2>1, Induction
<1>8. n \in T
  <2>1. n \in 0 .. n BY <1>1
  <2> QED BY <1>7, <2>1
<1> QED BY <1>2, <1>8 DEF n

(* printQueue shows each page at the place of its frame.                    *)
Shows(row, C) == Len(row) = Len(C) /\ \A k \in 1 .. Len(C) : row[C[k].id] = C[k].data

LEMMA RowIs ==
  ASSUME NEW q, NEW L, NEW C, IsQueue(q.heap, q.tail, q.length, L, C), Framed(C)
  PROVE  Shows(Row(q), C)
<1> DEFINE n == Len(C)
           cp == copyQueue(q)
           s == sortQueue(q)
<1>1. CopyOf(C, cp) BY CopyIs
<1>2. C \in Seq(Entry) /\ n \in Nat BY QueueNodes DEF IsQueue
<1>3. SortedSoFar(cp, s, n) BY <1>1, <1>2, SortIs
<1>4. Row(q) = [k \in DOMAIN s |-> s[k].data] BY DEF Row
<1> HIDE DEF cp, s, n
<1>5. /\ s \in Seq(Node) /\ Len(s) = n /\ \A j, k \in 1 .. n : j < k => s[j].id < s[k].id
      /\ \A j \in 1 .. n : \E m \in 1 .. n : s[j] = cp[m]
  BY <1>3 DEF SortedSoFar, InFrameOrder
<1>6. /\ \A k \in 1 .. n : cp[k].id = C[k].id /\ cp[k].data = C[k].data
      /\ \A k \in 1 .. n : C[k].id \in 1 .. n
      /\ \A j, k \in 1 .. n : j # k => C[j].id # C[k].id
  BY <1>1 DEF CopyOf, Framed, n
<1>7. \A j \in 1 .. n : s[j].id = j
  <2> DEFINE f == [j \in 1 .. n |-> s[j].id]
  <2>1. \A j \in 1 .. n : s[j].id \in 1 .. n
    <3> SUFFICES ASSUME NEW j \in 1 .. n PROVE s[j].id \in 1 .. n OBVIOUS
    <3>1. PICK m \in 1 .. n : s[j] = cp[m] BY <1>5
    <3> QED BY <1>6, <3>1
  <2>2. f \in [1 .. n -> 1 .. n] BY <2>1
  <2>3. \A j, k \in 1 .. n : j < k => f[j] < f[k] BY <1>5
  <2>4. \A j \in 1 .. n : f[j] = s[j].id OBVIOUS
  <2> HIDE DEF f
  <2>5. \A j \in 1 .. n : f[j] = j BY <1>2, <2>2, <2>3, AscendingIsIdentity
  <2> QED BY <2>4, <2>5
<1>8. DOMAIN s = 1 .. n BY <1>2, <1>5
<1>9. Len(Row(q)) = n /\ \A j \in 1 .. n : Row(q)[j] = s[j].data BY <1>2, <1>4, <1>8
<1>10. ASSUME NEW k \in 1 .. n PROVE Row(q)[C[k].id] = C[k].data
  <2> DEFINE j == C[k].id
  <2>1. j \in 1 .. n BY <1>6
  <2>2. PICK m \in 1 .. n : s[j] = cp[m] BY <1>5, <2>1
  <2>3. C[m].id = C[k].id BY <1>6, <1>7, <2>1, <2>2
  <2>4. m = k BY <1>6, <2>3
  <2> QED BY <1>6, <1>9, <2>1, <2>2, <2>4
<1> QED BY <1>9, <1>10 DEF Shows, n

-----------------------------------------------------------------------------
(* When each page was last used among the first n references of s, 0 never; *)
(* and a queue that holds the m most recently used, oldest use first.       *)
LastUses(s, u, n) ==
  /\ u \in [Page -> 0 .. n]
  /\ \A p \in Page : /\ u[p] # 0 => s[u[p]] = p
                     /\ \A j \in 1 .. n : s[j] = p => j <= u[p]

Recent(C, u, m) ==
  /\ \A k \in 1 .. Len(C) : u[C[k].data] # 0
  /\ \A j, k \in 1 .. Len(C) : j < k => u[C[j].data] < u[C[k].data]
  /\ \A p \in Page \ DataOf(C) :
       u[p] # 0 => Len(C) = m /\ \A k \in 1 .. Len(C) : u[p] < u[C[k].data]

LEMMA UsedAgain ==
  ASSUME NEW s \in Seq(Page), NEW n \in 0 .. Len(s) - 1, NEW u, LastUses(s, u, n),
         NEW page, page = s[n + 1]
  PROVE  LastUses(s, [u EXCEPT ![page] = n + 1], n + 1)
<1> DEFINE v == [u EXCEPT ![page] = n + 1]
<1>1. n \in Nat /\ n + 1 \in 1 .. Len(s) /\ page \in Page OBVIOUS
<1>2. /\ u \in [Page -> 0 .. n]
      /\ \A p \in Page : /\ u[p] # 0 => s[u[p]] = p
                         /\ \A j \in 1 .. n : s[j] = p => j <= u[p]
  BY DEF LastUses
<1>3. v[page] = n + 1 /\ DOMAIN v = Page /\ \A p \in Page \ {page} : v[p] = u[p]
  BY <1>1, <1>2
<1>4. v \in [Page -> 0 .. n + 1]
  <2>1. \A x \in 0 .. n : x \in 0 .. n + 1 BY <1>1
  <2>2. n + 1 \in 0 .. n + 1 BY <1>1
  <2> QED BY <1>2, <2>1, <2>2
<1> HIDE DEF v
<1>5. ASSUME NEW p \in Page
      PROVE  /\ v[p] # 0 => s[v[p]] = p
             /\ \A j \in 1 .. n + 1 : s[j] = p => j <= v[p]
  <2>1. CASE p = page BY <1>1, <1>3, <2>1
  <2>2. CASE p # page
    <3>1. v[p] = u[p] /\ s[n + 1] # p BY <1>3, <2>2
    <3>2. \A j \in 1 .. n + 1 : j \in 1 .. n \/ j = n + 1 BY <1>1
    <3> QED BY <1>2, <3>1, <3>2
  <2> QED BY <2>1, <2>2
<1>6. LastUses(s, v, n + 1) BY <1>4, <1>5 DEF LastUses
<1> QED BY <1>6 DEF v

LEMMA LastUseIs ==
  ASSUME NEW u, LastUses(pages, u, i), i \in Nat, NEW p \in Page
  PROVE  LastUse(p) = u[p] /\ u[p] \in Nat
<1> DEFINE J == {j \in 1 .. i : pages[j] = p}
<1>1. /\ u[p] \in 0 .. i /\ (u[p] # 0 => pages[u[p]] = p)
      /\ \A j \in 1 .. i : pages[j] = p => j <= u[p]
  BY DEF LastUses
<1>2. LastUse(p) = IF J # {} THEN Max(J) ELSE 0 BY DEF LastUse, SelectLastInSubSeq
<1>3. CASE u[p] = 0
  <2>1. J = {} BY <1>1, <1>3
  <2> QED BY <1>1, <1>2, <1>3, <2>1
<1>4. CASE u[p] # 0
  <2>1. u[p] \in J /\ \A j \in J : j <= u[p] /\ j \in Int BY <1>1, <1>4
  <2> HIDE DEF J
  <2>2. Max(J) = u[p]
    <3>1. u[p] \in J /\ \A j \in J : u[p] >= j BY <1>1, <2>1
    <3>2. \A x \in J : (\A j \in J : x >= j) => x = u[p] BY <1>1, <2>1
    <3>3. Max(J) = CHOOSE x \in J : \A j \in J : x >= j BY DEF Max
    <3> QED BY <3>1, <3>2, <3>3
  <2> QED BY <1>1, <1>2, <2>1, <2>2
<1> QED BY <1>3, <1>4

LEMMA RecentMoved ==
  ASSUME NEW C \in Seq(Entry), NEW n \in Nat, NEW u \in [Page -> 0 .. n], NEW m,
         Recent(C, u, m), NEW k \in 1 .. Len(C), NEW e \in Entry,
         \A j \in 1 .. Len(C) : j # k => C[j].data # e.data,
         e.data = C[k].data \/ (k = 1 /\ Len(C) = m)
  PROVE  Recent(Moved(C, k, e), [u EXCEPT ![e.data] = n + 1], m)
<1> DEFINE v == [u EXCEPT ![e.data] = n + 1]
           D == Moved(C, k, e)
           l == Len(C)
<1>1. l \in Nat /\ \A j \in 1 .. l : C[j].data \in Page /\ u[C[j].data] \in 0 .. n
  <2>1. \A x \in Entry : x.data \in Page BY DEF Entry
  <2>2. \A j \in 1 .. l : C[j] \in Entry OBVIOUS
  <2> QED BY <2>1, <2>2
<1>2. e.data \in Page BY DEF Entry
<1>3. /\ Len(D) = l
      /\ \A j \in 1 .. l : \/ j < k /\ j # l /\ D[j] = C[j]
                           \/ ~ (j < k) /\ j # l /\ j + 1 \in 1 .. l /\ D[j] = C[j + 1]
                           \/ j = l /\ D[j] = e
  BY MovedEntries
<1>4. /\ \A j \in 1 .. l : u[C[j].data] # 0
      /\ \A a, b \in 1 .. l : a < b => u[C[a].data] < u[C[b].data]
      /\ \A p \in Page \ DataOf(C) : u[p] # 0 => l = m /\ \A j \in 1 .. l : u[p] < u[C[j].data]
  BY DEF Recent
<1>5. /\ v[e.data] = n + 1 /\ \A p \in Page \ {e.data} : v[p] = u[p]
      /\ \A p \in Page : u[p] \in 0 .. n
  BY <1>2
<1>6. /\ k \in 1 .. l /\ \A j \in 1 .. l : j # k => C[j].data # e.data
      /\ e.data = C[k].data \/ (k = 1 /\ l = m)
  OBVIOUS
<1> HIDE DEF v, D, l
<1>7. \A j \in 1 .. l : j # k => v[C[j].data] = u[C[j].data] BY <1>1, <1>5, <1>6
<1>8. \A j \in 1 .. l : \/ j < k /\ j # l /\ D[j] = C[j] /\ v[D[j].data] = u[C[j].data]
                        \/ /\ ~ (j < k) /\ j # l /\ j + 1 \in 1 .. l /\ j + 1 # k
                           /\ D[j] = C[j + 1] /\ v[D[j].data] = u[C[j + 1].data]
                        \/ j = l /\ D[j] = e /\ v[D[j].data] = n + 1
  <2> SUFFICES ASSUME NEW j \in 1 .. l
               PROVE  \/ j < k /\ j # l /\ D[j] = C[j] /\ v[D[j].data] = u[C[j].data]
                      \/ /\ ~ (j < k) /\ j # l /\ j + 1 \in 1 .. l /\ j + 1 # k
                         /\ D[j] = C[j + 1] /\ v[D[j].data] = u[C[j + 1].data]
                      \/ j = l /\ D[j] = e /\ v[D[j].data] = n + 1
    OBVIOUS
  <2>1. CASE j < k /\ j # l /\ D[j] = C[j]
    <3>1. j # k BY <1>6, <2>1
    <3> QED BY <1>7, <2>1, <3>1
  <2>2. CASE ~ (j < k) /\ j # l /\ j + 1 \in 1 .. l /\ D[j] = C[j + 1]
    <3>1. j + 1 # k BY <1>6, <2>2
    <3> QED BY <1>7, <2>2, <3>1
  <2>3. CASE j = l /\ D[j] = e BY <1>5, <2>3
  <2> QED BY <1>3, <2>1, <2>2, <2>3
<1>9. \A j \in 1 .. l : v[D[j].data] # 0
  <2> SUFFICES ASSUME NEW j \in 1 .. l PROVE v[D[j].data] # 0 OBVIOUS
  <2> QED BY <1>4, <1>8
<1>10. ASSUME NEW a \in 1 .. l, NEW b \in 1 .. l, a < b PROVE v[D[a].data] < v[D[b].data]
  <2>1. CASE b = l
    <3>1. a # l /\ v[D[b].data] = n + 1 BY <1>1, <1>8, <1>10, <2>1
    <3>2. v[D[a].data] = u[C[a].data] \/ (a + 1 \in 1 .. l /\ v[D[a].data] = u[C[a + 1].data])
      BY <1>8, <3>1
    <3> QED BY <1>1, <3>1, <3>2
  <2>2. CASE b # l
    <3>1. a # l BY <1>1, <1>10, <2>2
    <3>2. CASE a < k
      <4>1. v[D[a].data] = u[C[a].data] BY <1>8, <3>1, <3>2
      <4>2. CASE b < k
        <5>1. v[D[b].data] = u[C[b].data] BY <1>8, <2>2, <4>2
        <5> QED BY <1>4, <1>10, <4>1, <5>1
      <4>3. CASE ~ (b < k)
        <5>1. v[D[b].data] = u[C[b + 1].data] /\ b + 1 \in 1 .. l /\ a < b + 1
          BY <1>8, <1>10, <2>2, <4>3
        <5> QED BY <1>4, <4>1, <5>1
      <4> QED BY <4>2, <4>3
    <3>3. CASE ~ (a < k)
      <4>1. v[D[a].data] = u[C[a + 1].data] /\ a + 1 \in 1 .. l BY <1>8, <3>1, <3>3
      <4>2. ~ (b < k) BY <1>6, <1>10, <3>3
      <4>3. v[D[b].data] = u[C[b + 1].data] /\ b + 1 \in 1 .. l /\ a + 1 < b + 1
        BY <1>8, <1>10, <2>2, <4>2
      <4> QED BY <1>4, <4>1, <4>3
    <3> QED BY <3>2, <3>3
  <2> QED BY <2>1, <2>2
<1>11. ASSUME NEW p \in Page \ DataOf(D), v[p] # 0
       PROVE  l = m /\ \A j \in 1 .. l : v[p] < v[D[j].data]
  <2>1. e.data \in DataOf(D)
    <3>1. l \in 1 .. l BY <1>1, <1>6
    <3>2. D[l] = e BY <1>8, <3>1
    <3> QED BY <1>3, <3>1, <3>2 DEF DataOf
  <2>2. p # e.data /\ v[p] = u[p] /\ u[p] # 0 /\ u[p] \in 0 .. n BY <1>5, <1>11, <2>1
  <2>3. l = m /\ \A j \in 1 .. l : j # k => u[p] < u[C[j].data]
    <3>1. CASE p \notin DataOf(C) BY <1>4, <2>2, <3>1
    <3>2. CASE p \in DataOf(C)
      <4>1. PICK a \in 1 .. l : p = C[a].data BY <3>2 DEF DataOf, l
      <4>2. a = k
        <5> SUFFICES ASSUME a # k PROVE FALSE OBVIOUS
        <5>1. CASE a < k
          <6>1. a # l /\ D[a] = C[a] BY <1>6, <1>8, <5>1
          <6> QED BY <1>3, <4>1, <6>1 DEF DataOf
        <5>2. CASE a > k
          <6>1. a - 1 \in 1 .. l /\ ~ (a - 1 < k) /\ a - 1 # l /\ a - 1 + 1 = a
            BY <1>1, <1>6, <5>2
          <6>2. D[a - 1] = C[a] BY <1>8, <6>1
          <6> QED BY <1>3, <4>1, <6>1, <6>2 DEF DataOf
        <5> QED BY <1>6, <5>1, <5>2
      <4>3. k = 1 /\ l = m BY <1>6, <2>2, <4>1, <4>2
      <4>4. \A j \in 1 .. l : j # k => k < j BY <4>3
      <4> QED BY <1>4, <1>6, <4>1, <4>2, <4>3, <4>4
    <3> QED BY <3>1, <3>2
  <2>4. ASSUME NEW j \in 1 .. l PROVE u[p] < v[D[j].data]
    <3>1. CASE j < k /\ j # l /\ v[D[j].data] = u[C[j].data]
      <4>1. j # k BY <1>6, <3>1
      <4> QED BY <2>3, <3>1, <4>1
    <3>2. CASE j + 1 \in 1 .. l /\ j + 1 # k /\ v[D[j].data] = u[C[j + 1].data]
      BY <2>3, <3>2
    <3>3. CASE v[D[j].data] = n + 1 BY <2>2, <3>3
    <3> QED BY <1>8, <3>1, <3>2, <3>3
  <2> QED BY <2>2, <2>3, <2>4
<1>12. Recent(D, v, m) BY <1>3, <1>9, <1>10, <1>11 DEF Recent
<1> QED BY <1>12 DEF D, v

LEMMA RecentAppended ==
  ASSUME NEW C \in Seq(Entry), NEW n \in Nat, NEW u \in [Page -> 0 .. n], NEW m,
         Recent(C, u, m), Len(C) # m, NEW e \in Entry,
         \A j \in 1 .. Len(C) : C[j].data # e.data
  PROVE  Recent(Append(C, e), [u EXCEPT ![e.data] = n + 1], m)
<1> DEFINE v == [u EXCEPT ![e.data] = n + 1]
           D == Append(C, e)
           l == Len(C)
<1>1. l \in Nat /\ \A j \in 1 .. l : C[j].data \in Page /\ u[C[j].data] \in 0 .. n
  <2>1. \A x \in Entry : x.data \in Page BY DEF Entry
  <2>2. \A j \in 1 .. l : C[j] \in Entry OBVIOUS
  <2> QED BY <2>1, <2>2
<1>2. e.data \in Page BY DEF Entry
<1>3. /\ \A j \in 1 .. l : u[C[j].data] # 0
      /\ \A a, b \in 1 .. l : a < b => u[C[a].data] < u[C[b].data]
      /\ \A p \in Page \ DataOf(C) : u[p] = 0
  BY DEF Recent
<1>4. v[e.data] = n + 1 /\ \A p \in Page \ {e.data} : v[p] = u[p] BY <1>2
<1>5. \A j \in 1 .. l : C[j].data # e.data OBVIOUS
<1>6. Len(D) = l + 1 /\ D[l + 1] = e /\ \A j \in 1 .. l : D[j] = C[j] OBVIOUS
<1> HIDE DEF v, D, l
<1>7. \A j \in 1 .. l + 1 : \/ j \in 1 .. l /\ v[D[j].data] = u[C[j].data]
                            \/ j = l + 1 /\ v[D[j].data] = n + 1
  <2> SUFFICES ASSUME NEW j \in 1 .. l + 1
               PROVE  \/ j \in 1 .. l /\ v[D[j].data] = u[C[j].data]
                      \/ j = l + 1 /\ v[D[j].data] = n + 1
    OBVIOUS
  <2>1. CASE j = l + 1 BY <1>4, <1>6, <2>1
  <2>2. CASE j # l + 1
    <3>1. j \in 1 .. l BY <1>1, <2>2
    <3> QED BY <1>1, <1>4, <1>5, <1>6, <3>1
  <2> QED BY <2>1, <2>2
<1>8. \A j \in 1 .. l + 1 : v[D[j].data] # 0 BY <1>3, <1>7
<1>9. ASSUME NEW a \in 1 .. l + 1, NEW b \in 1 .. l + 1, a < b
      PROVE  v[D[a].data] < v[D[b].data]
  <2>1. a \in 1 .. l BY <1>1, <1>9
  <2>2. v[D[a].data] = u[C[a].data] BY <1>1, <1>7, <2>1
  <2> QED BY <1>1, <1>3, <1>7, <1>9, <2>1, <2>2
<1>10. ASSUME NEW p \in Page \ DataOf(D) PROVE v[p] = 0
  <2>1. p # e.data
    <3>1. l + 1 \in 1 .. l + 1 BY <1>1
    <3> QED BY <1>6, <3>1 DEF DataOf
  <2>2. p \notin DataOf(C)
    <3> SUFFICES ASSUME NEW j \in 1 .. l, p = C[j].data PROVE FALSE BY DEF DataOf, l
    <3>1. j \in 1 .. l + 1 BY <1>1
    <3> QED BY <1>6, <3>1 DEF DataOf
  <2> QED BY <1>3, <1>4, <2>1, <2>2
<1>11. Recent(D, v, m) BY <1>6, <1>8, <1>9, <1>10 DEF Recent
<1> QED BY <1>11 DEF D, v

(* With as many entries as frames, the pages used later than one of them are *)
(* fewer; those used later than another page are all of them at least.       *)
LEMMA LruIs ==
  ASSUME NEW L, NEW C, IsQueue(heap, tail, length, L, C), Framed(C),
         NEW u, LastUses(pages, u, i), i \in Nat, frameCount \in Int, length <= frameCount,
         frameCount > 0, Recent(C, u, frameCount)
  PROVE  \A p \in Page :
           p \in Resident <=>
             /\ LastUse(p) # 0
             /\ Cardinality({q \in Page : LastUse(q) > LastUse(p)}) < frameCount
<1> DEFINE n == Len(C)
           R == DataOf(C)
           Later(p) == {q \in Page : u[q] > u[p]}
<1>1. \A p \in Page : LastUse(p) = u[p] /\ u[p] \in Nat BY LastUseIs
<1>2. \A p \in Page : {q \in Page : LastUse(q) > LastUse(p)} = Later(p) BY <1>1
<1>3. Resident = R /\ IsFiniteSet(R) /\ Cardinality(R) = n BY ResidentIs
<1>4. n \in Nat /\ length = n /\ \A k \in 1 .. n : C[k].data \in Page BY QueueNodes
<1>5. /\ \A k \in 1 .. n : u[C[k].data] # 0
      /\ \A j, k \in 1 .. n : j < k => u[C[j].data] < u[C[k].data]
      /\ \A p \in Page \ R : u[p] # 0 => n = frameCount /\ \A k \in 1 .. n : u[p] < u[C[k].data]
  BY DEF Recent
<1>6. \A p \in R : p \in Page /\ \E k \in 1 .. n : p = C[k].data BY <1>4 DEF DataOf
<1>7. \A k \in 1 .. n : C[k].data \in R BY DEF DataOf
<1> HIDE DEF n, R
<1>8. ASSUME NEW p \in Page, p \in R PROVE u[p] # 0 /\ Cardinality(Later(p)) < frameCount
  <2>1. PICK k \in 1 .. n : p = C[k].data BY <1>6, <1>8
  <2>2. Later(p) \subseteq R \ {p}
    <3> SUFFICES ASSUME NEW q \in Page, u[q] > u[p], q \notin R PROVE FALSE BY <1>1
    <3>1. u[q] # 0 BY <1>1
    <3>2. u[q] < u[p] BY <1>5, <2>1, <3>1
    <3> QED BY <1>1, <3>2
  <2>3. IsFiniteSet(R \ {p}) /\ Cardinality(R \ {p}) = n - 1
    BY <1>3, <1>8, FS_RemoveElement
  <2>4. Cardinality(Later(p)) <= n - 1 /\ Cardinality(Later(p)) \in Nat
    <3> HIDE DEF Later
    <3> QED BY <2>2, <2>3, FS_Subset, FS_CardinalityType
  <2> HIDE DEF Later
  <2> QED BY <1>4, <1>5, <2>1, <2>4
<1>9. ASSUME NEW p \in Page, p \notin R, u[p] # 0 PROVE ~ (Cardinality(Later(p)) < frameCount)
  <2>1. n = frameCount /\ \A k \in 1 .. n : u[p] < u[C[k].data] BY <1>5, <1>9
  <2>2. R \subseteq Later(p)
    <3> SUFFICES ASSUME NEW q \in R PROVE q \in Page /\ u[q] > u[p] OBVIOUS
    <3> QED BY <1>1, <1>6, <2>1
  <2>3. IsFiniteSet(Later(p))
    <3> DEFINE U == {pages[j] : j \in 1 .. i}
    <3>1. IsFiniteSet(1 .. i) BY CountUpTo
    <3>2. IsFiniteSet(U)
      <4> DEFINE f == [j \in 1 .. i |-> pages[j]]
      <4>1. f \in [1 .. i -> U] /\ \A t \in U : \E j \in 1 .. i : f[j] = t OBVIOUS
      <4> HIDE DEF f, U
      <4>2. f \in Surjection(1 .. i, U) BY <4>1 DEF Surjection
      <4> QED BY <3>1, <4>2, FS_Surjection
    <3>3. Later(p) \subseteq U
      <4> SUFFICES ASSUME NEW q \in Page, u[q] > u[p] PROVE q \in U OBVIOUS
      <4>1. u[q] # 0 /\ u[q] \in 1 .. i /\ pages[u[q]] = q
        <5>1. u[q] \in 0 .. i /\ (u[q] # 0 => pages[u[q]] = q) BY DEF LastUses
        <5> QED BY <1>1, <5>1
      <4> QED BY <4>1
    <3> HIDE DEF U, Later
    <3> QED BY <3>2, <3>3, FS_Subset
  <2> HIDE DEF Later
  <2>4. Cardinality(R) <= Cardinality(Later(p)) /\ Cardinality(Later(p)) \in Nat
    BY <2>2, <2>3, FS_Subset, FS_CardinalityType
  <2> QED BY <1>3, <1>4, <2>1, <2>4
<1> HIDE DEF Later
<1>10. ASSUME NEW p \in Page
       PROVE  p \in Resident <=>
                /\ LastUse(p) # 0
                /\ Cardinality({q \in Page : LastUse(q) > LastUse(p)}) < frameCount
  <2>1. LastUse(p) = u[p] /\ {q \in Page : LastUse(q) > LastUse(p)} = Later(p) BY <1>1, <1>2
  <2>2. p \in Resident <=> p \in R BY <1>3
  <2> QED BY <1>8, <1>9, <2>1, <2>2
<1> QED BY <1>10

-----------------------------------------------------------------------------
(* The queue h, t, l holds C and row shows it, n references being served.   *)
Holds(h, t, l, row, n, L, C) ==
  /\ IsQueue(h, t, l, L, C) /\ Framed(C) /\ l <= frameCount
  /\ Shows(row, C)
  /\ algorithm = LRU => \E u : LastUses(pages, u, n) /\ Recent(C, u, frameCount)

Inputs ==
  /\ pages \in Seq(Page) /\ frameCount \in Int /\ algorithm \in {FIFO, LRU}
  /\ i \in 0 .. Len(pages) /\ faults \in 0 .. i
  /\ status \in {"running", "done", "dead"}

LEMMA InQueueIs ==
  ASSUME NEW L, NEW C, IsQueue(heap, tail, length, L, C), NEW page
  PROVE  /\ isQueueEmpty <=> Len(C) = 0
         /\ inQueue(page) => \E k \in 1 .. Len(C) : Position(page) = k + 1 /\ C[k].data = page
         /\ ~ inQueue(page) => \A k \in 1 .. Len(C) : C[k].data # page
<1>1. /\ Len(C) \in Nat /\ Len(L) = Len(C) + 1 /\ L[1] = head /\ tail = L[Len(L)]
      /\ \A j, k \in 1 .. Len(L) : j # k => L[j] # L[k]
      /\ 1 \in 1 .. Len(L) /\ Len(L) \in 1 .. Len(L)
  BY QueueNodes
<1>2. heap # <<>>
  <2>1. Counted(heap, L) BY ChainCounts DEF IsQueue
  <2> QED BY <2>1 DEF Counted
<1>3. isQueueEmpty <=> Len(C) = 0
  <2>1. Len(C) = 0 => Len(L) = 1 BY <1>1
  <2>2. Len(C) # 0 => Len(L) # 1 BY <1>1
  <2> QED BY <1>1, <1>2, <2>1, <2>2 DEF isQueueEmpty
<1> DEFINE k == Position(page) - 1
<1>4. \/ Position(page) = 0 /\ \A j \in 1 .. Len(C) : C[j].data # page
      \/ Position(page) \in 2 .. Len(L) /\ k \in 1 .. Len(C) /\ C[k].data = page
  BY PositionIs
<1>5. CASE Position(page) = 0 /\ \A j \in 1 .. Len(C) : C[j].data # page
  <2>1. ~ inQueue(page) BY <1>5 DEF inQueue
  <2> QED BY <1>3, <1>5, <2>1
<1>6. CASE Position(page) \in 2 .. Len(L) /\ k \in 1 .. Len(C) /\ C[k].data = page
  <2>1. Len(C) # 0 /\ Position(page) > 0 /\ Position(page) = k + 1 BY <1>1, <1>6
  <2>2. inQueue(page) BY <1>3, <2>1 DEF inQueue
  <2> HIDE DEF k
  <2> QED BY <1>3, <1>6, <2>1, <2>2
<1> QED BY <1>4, <1>5, <1>6

LEMMA MovedShows ==
  ASSUME NEW C \in Seq(Entry), NEW k \in 1 .. Len(C), NEW row, Shows(row, C)
  PROVE  Shows(row, Moved(C, k, C[k]))
<1> DEFINE n == Len(C)
           D == Moved(C, k, C[k])
<1>1. C[k] \in Entry OBVIOUS
<1>2. /\ Len(D) = n
      /\ \A j \in 1 .. n : \/ j < k /\ j # n /\ D[j] = C[j]
                           \/ ~ (j < k) /\ j # n /\ j + 1 \in 1 .. n /\ D[j] = C[j + 1]
                           \/ j = n /\ D[j] = C[k]
  BY <1>1, MovedEntries, ZenonT(30)
<1>3. k \in 1 .. n OBVIOUS
<1> HIDE DEF n, D
<1>4. \A j \in 1 .. n : \E a \in 1 .. n : D[j] = C[a] BY <1>2, <1>3
<1>5. Len(row) = n /\ \A a \in 1 .. n : row[C[a].id] = C[a].data BY DEF Shows, n
<1>6. \A j \in 1 .. n : row[D[j].id] = D[j].data
  <2> SUFFICES ASSUME NEW j \in 1 .. n PROVE row[D[j].id] = D[j].data OBVIOUS
  <2>1. PICK a \in 1 .. n : D[j] = C[a] BY <1>4
  <2> QED BY <1>5, <2>1
<1> QED BY <1>2, <1>5, <1>6 DEF Shows, D

(* A hit under LRU.                                                         *)
LEMMA ServedHolds ==
  ASSUME Inputs, i < Len(pages), NEW L, NEW C, Holds(heap, tail, length, printed, i, L, C),
         algorithm = LRU, NEW k \in 1 .. Len(C), Position(pages[i + 1]) = k + 1,
         C[k].data = pages[i + 1], NEW q, q = switchQueue(pages[i + 1])
  PROVE  Holds(q.heap, q.tail, q.length, printed, i + 1,
               Moved(L, k + 1, L[k + 1]), Moved(C, k, C[k]))
<1> DEFINE page == pages[i + 1]
           M == Moved(L, k + 1, L[k + 1])
           D == Moved(C, k, C[k])
<1>1. /\ IsQueue(heap, tail, length, L, C) /\ Framed(C) /\ length <= frameCount
      /\ Shows(printed, C)
  BY DEF Holds
<1>2. PICK u : LastUses(pages, u, i) /\ Recent(C, u, frameCount) BY DEF Holds
<1>3. C \in Seq(Entry) /\ C[k] \in Entry /\ length = Len(C) /\ Len(C) \in Nat
  BY <1>1 DEF IsQueue
<1>4. i \in Nat /\ i \in 0 .. Len(pages) - 1 /\ pages \in Seq(Page) BY DEF Inputs
<1>5. \A j \in 1 .. Len(C) : j # k => C[j].data # C[k].data BY <1>1 DEF Framed
<1>6. IsQueue(q.heap, q.tail, q.length, M, D) BY <1>1, SwitchQueueIs
<1>7. Framed(D) BY <1>1, <1>3, <1>5, MovedFramed
<1>8. Shows(printed, D) BY <1>1, <1>3, MovedShows
<1>9. q.length = length BY DEF switchQueue
<1>10. u \in [Page -> 0 .. i] BY <1>2 DEF LastUses
<1> DEFINE v == [u EXCEPT ![C[k].data] = i + 1]
<1>11. Recent(D, v, frameCount)
  <2> DEFINE e == C[k]
  <2>1. e \in Entry /\ e.data = C[k].data /\ \A j \in 1 .. Len(C) : j # k => C[j].data # e.data
    BY <1>3, <1>5
  <2> HIDE DEF e
  <2>3. e.data = C[k].data \/ (k = 1 /\ Len(C) = frameCount) BY <2>1
  <2>4. C \in Seq(Entry) /\ i \in Nat /\ Recent(C, u, frameCount) BY <1>2, <1>3, <1>4
  <2>2. Recent(Moved(C, k, e), [u EXCEPT ![e.data] = i + 1], frameCount)
    BY <1>10, <2>1, <2>3, <2>4, RecentMoved, Zenon
  <2> QED BY <2>2 DEF e
<1>12. LastUses(pages, v, i + 1) BY <1>2, <1>4, UsedAgain
<1> HIDE DEF D, M, v
<1>13. Holds(q.heap, q.tail, q.length, printed, i + 1, M, D)
  BY <1>1, <1>6, <1>7, <1>8, <1>9, <1>11, <1>12 DEF Holds
<1> QED BY <1>13 DEF D, M

(* A fault of a queue that is full.                                         *)
LEMMA ReplacedHolds ==
  ASSUME Inputs, i < Len(pages), NEW L, NEW C, Holds(heap, tail, length, printed, i, L, C),
         length = frameCount, frameCount > 0, Page \subseteq Int,
         \A k \in 1 .. Len(C) : C[k].data # pages[i + 1],
         NEW q, q = Pushed(pages[i + 1])
  PROVE  Holds(q.heap, q.tail, q.length, Row(q), i + 1, Moved(L, 2, malloc),
               Moved(C, 1, [id |-> C[1].id, data |-> pages[i + 1]]))
<1> DEFINE page == pages[i + 1]
           e == [id |-> C[1].id, data |-> page]
           M == Moved(L, 2, malloc)
           D == Moved(C, 1, e)
<1>1. /\ IsQueue(heap, tail, length, L, C) /\ Framed(C) /\ length <= frameCount
  BY DEF Holds
<1>2. i \in Nat /\ i \in 0 .. Len(pages) - 1 /\ pages \in Seq(Page) /\ page \in Page
  BY DEF Inputs
<1>3. C \in Seq(Entry) /\ length = Len(C) /\ Len(C) \in Nat BY <1>1 DEF IsQueue
<1>4. 1 \in 1 .. Len(C) /\ length >= 1 BY <1>3 DEF Inputs
<1>5. e \in Entry /\ e.id = C[1].id /\ e.data = page
  <2>1. C[1] \in Entry BY <1>3, <1>4
  <2>2. C[1].id \in Nat BY <2>1 DEF Entry
  <2> QED BY <1>2, <2>2 DEF Entry
<1>6. IsQueue(q.heap, q.tail, q.length, M, D) BY <1>1, <1>2, <1>4, PushFullIs
<1> HIDE DEF e
<1>7. Framed(D) BY <1>1, <1>3, <1>4, <1>5, MovedFramed
<1>8. Shows(Row(q), D) BY <1>6, <1>7, RowIs
<1>9. q.length <= frameCount
  <2>1. q.length = Len(D) BY <1>6 DEF IsQueue
  <2>2. Len(D) = Len(C) BY <1>3, <1>4, <1>5, MovedEntries
  <2> QED BY <1>1, <1>3, <2>1, <2>2
<1>10. ASSUME algorithm = LRU
       PROVE  \E v : LastUses(pages, v, i + 1) /\ Recent(D, v, frameCount)
  <2>1. PICK u : LastUses(pages, u, i) /\ Recent(C, u, frameCount) BY <1>10 DEF Holds
  <2>2. u \in [Page -> 0 .. i] BY <2>1 DEF LastUses
  <2> DEFINE v == [u EXCEPT ![e.data] = i + 1]
  <2>3. Len(C) = frameCount BY <1>3
  <2>4. Recent(D, v, frameCount)
    BY <1>2, <1>3, <1>4, <1>5, <2>1, <2>2, <2>3, RecentMoved
  <2>5. LastUses(pages, v, i + 1) BY <1>2, <1>5, <2>1, UsedAgain
  <2> HIDE DEF v, D
  <2> QED BY <2>4, <2>5
<1> HIDE DEF D, M
<1>11. Holds(q.heap, q.tail, q.length, Row(q), i + 1, M, D)
  BY <1>6, <1>7, <1>8, <1>9, <1>10 DEF Holds
<1> QED BY <1>11 DEF D, M, e

(* A fault of one that is not.                                              *)
LEMMA LoadedHolds ==
  ASSUME Inputs, i < Len(pages), NEW L, NEW C, Holds(heap, tail, length, printed, i, L, C),
         length # frameCount, Page \subseteq Int,
         \A k \in 1 .. Len(C) : C[k].data # pages[i + 1],
         NEW q, q = Pushed(pages[i + 1])
  PROVE  Holds(q.heap, q.tail, q.length, Row(q), i + 1, Append(L, malloc),
               Append(C, [id |-> length + 1, data |-> pages[i + 1]]))
<1> DEFINE page == pages[i + 1]
           e == [id |-> length + 1, data |-> page]
           M == Append(L, malloc)
           D == Append(C, e)
<1>1. /\ IsQueue(heap, tail, length, L, C) /\ Framed(C) /\ length <= frameCount
  BY DEF Holds
<1>2. /\ i \in Nat /\ i \in 0 .. Len(pages) - 1 /\ pages \in Seq(Page) /\ page \in Page
      /\ frameCount \in Int
  BY DEF Inputs
<1>3. C \in Seq(Entry) /\ length = Len(C) /\ Len(C) \in Nat BY <1>1 DEF IsQueue
<1>4. e \in Entry /\ e.id = Len(C) + 1 /\ e.data = page BY <1>2, <1>3 DEF Entry
<1>5. IsQueue(q.heap, q.tail, q.length, M, D) BY <1>1, <1>2, PushFreeIs
<1> HIDE DEF e
<1>6. Framed(D) BY <1>1, <1>3, <1>4, AppendedFramed
<1>7. Shows(Row(q), D) BY <1>5, <1>6, RowIs
<1>8. q.length <= frameCount
  <2>1. q.length = Len(D) BY <1>5 DEF IsQueue
  <2>2. Len(D) = Len(C) + 1 BY <1>3, <1>4
  <2> QED BY <1>1, <1>2, <1>3, <2>1, <2>2
<1>9. ASSUME algorithm = LRU
      PROVE  \E v : LastUses(pages, v, i + 1) /\ Recent(D, v, frameCount)
  <2>1. PICK u : LastUses(pages, u, i) /\ Recent(C, u, frameCount) BY <1>9 DEF Holds
  <2>2. u \in [Page -> 0 .. i] BY <2>1 DEF LastUses
  <2> DEFINE v == [u EXCEPT ![e.data] = i + 1]
  <2>3. Len(C) # frameCount BY <1>3
  <2>4. Recent(D, v, frameCount)
    BY <1>2, <1>3, <1>4, <2>1, <2>2, <2>3, RecentAppended
  <2>5. LastUses(pages, v, i + 1) BY <1>2, <1>4, <2>1, UsedAgain
  <2> HIDE DEF v, D
  <2> QED BY <2>4, <2>5
<1> HIDE DEF D, M
<1>10. Holds(q.heap, q.tail, q.length, Row(q), i + 1, M, D)
  BY <1>5, <1>6, <1>7, <1>8, <1>9 DEF Holds
<1> QED BY <1>10 DEF D, M, e

-----------------------------------------------------------------------------
(* The inductive invariant: while there are frames to serve, some entries   *)
(* and a way over the nodes are what the queue holds; without, there is no  *)
(* node.                                                                    *)
Held == \E L, C : Holds(heap, tail, length, printed, i, L, C)

IInv ==
  /\ Inputs
  /\ Live => Held
  /\ ~ Live => heap = <<>> /\ length = 0
  /\ status = "dead" => frameCount <= 0 /\ pages # <<>>

LEMMA EmptyQueueIs ==
  ASSUME NEW h, NEW node \in Node, node.id = 0, node.next = NULL,
         h = allocate(<<>>, head, node)
  PROVE  IsQueue(h, head, 0, <<head>>, <<>>)
<1> DEFINE L == <<head>>
<1>1. h = [m \in {head} |-> node]
  <2>1. DOMAIN <<>> = {} OBVIOUS
  <2>2. DOMAIN <<>> \cup {head} = {head} BY <2>1
  <2> QED BY <2>2 DEF allocate
<1>2. h \in [{head} -> Node] /\ h[head].id = 0 /\ h[head].next = NULL BY <1>1
<1>3. L \in Seq(Nat) /\ Len(L) = 1 /\ L[1] = head BY DEF head
<1> HIDE DEF L
<1>4. \A k \in 1 .. Len(L) : k = 1 BY <1>3
<1>5. {L[k] : k \in 1 .. Len(L)} = {head}
  <2>1. 1 \in 1 .. Len(L) BY <1>3
  <2> QED BY <1>3, <1>4, <2>1
<1>6. Chain(h, head, L)
  <2>1. \A k \in 1 .. Len(L) - 1 : FALSE BY <1>3
  <2>2. \A j, k \in 1 .. Len(L) : j # k => L[j] # L[k] BY <1>4
  <2>3. h \in [{L[k] : k \in 1 .. Len(L)} -> Node] BY <1>2, <1>5
  <2>4. h[L[Len(L)]].next = NULL /\ head = L[Len(L)] /\ Len(L) >= 1 BY <1>2, <1>3
  <2> QED BY <1>3, <2>1, <2>2, <2>3, <2>4 DEF Chain
<1>7. <<>> \in Seq(Entry) /\ Len(<<>>) = 0 /\ \A k \in 1 .. 0 : FALSE OBVIOUS
<1>8. IsQueue(h, head, 0, L, <<>>) BY <1>2, <1>3, <1>6, <1>7 DEF IsQueue
<1> QED BY <1>8 DEF L

LEMMA InitHeld ==
  ASSUME Init
  PROVE  IInv /\ (Live => Holds(heap, tail, length, printed, i, <<head>>, <<>>))
<1>1. pages \in Seq(Page)
  <2>1. pages \in SeqOf(Page, MaxPages) BY DEF Init
  <2>2. PICK m \in 0 .. MaxPages : pages \in [1 .. m -> Page] BY <2>1 DEF SeqOf
  <2>3. m \in Nat BY PageReplaceAssumption
  <2> QED BY <2>2, <2>3
<1>2. Inputs BY <1>1, PageReplaceAssumption DEF Init, Inputs, FIFO, LRU
<1>3. status = "running" /\ i = 0 /\ printed = <<>> /\ length = 0 /\ tail = head
  BY DEF Init, newQueue
<1>4. CASE frameCount > 0
  <2> DEFINE node == [id |-> 0, data |-> 0, next |-> NULL]
             u == [p \in Page |-> 0]
  <2>1. node \in Node /\ node.id = 0 /\ node.next = NULL BY DEF Node, NULL
  <2>2. heap = allocate(<<>>, head, node)
    <3>1. ~ (frameCount <= 0) BY <1>2, <1>4 DEF Inputs
    <3> QED BY <3>1 DEF Init, newQueue
  <2> HIDE DEF node
  <2>3. IsQueue(heap, tail, length, <<head>>, <<>>) BY <1>3, <2>1, <2>2, EmptyQueueIs
  <2>4. Len(<<>>) = 0 /\ \A k \in 1 .. 0 : FALSE OBVIOUS
  <2>5. Framed(<<>>) /\ Shows(<<>>, <<>>) BY <2>4 DEF Framed, Shows
  <2>6. LastUses(pages, u, 0) BY DEF LastUses
  <2>7. Recent(<<>>, u, frameCount) BY <2>4 DEF Recent
  <2> HIDE DEF u
  <2>8. length <= frameCount BY <1>2, <1>3, <1>4 DEF Inputs
  <2>9. Holds(heap, tail, length, printed, i, <<head>>, <<>>)
    BY <1>3, <2>3, <2>5, <2>6, <2>7, <2>8 DEF Holds
  <2>10. Live BY <1>3, <1>4 DEF Live
  <2> QED BY <1>2, <1>3, <2>9, <2>10 DEF IInv, Held
<1>5. CASE ~ (frameCount > 0)
  <2>1. frameCount <= 0 BY <1>2, <1>5 DEF Inputs
  <2>2. heap = <<>> BY <2>1 DEF Init, newQueue
  <2>3. ~ Live BY <1>5 DEF Live
  <2> QED BY <1>2, <1>3, <2>2, <2>3 DEF IInv
<1> QED BY <1>4, <1>5

(* What one turn of the loop does to the entries.                           *)
HitsOne(C, k) ==
  /\ C[k].data = pages[i + 1] /\ faults' = faults
  /\ algorithm = FIFO => UNCHANGED queue
  /\ algorithm = LRU => \E L : Holds(heap', tail', length', printed', i + 1, L, Moved(C, k, C[k]))

ReplacesFirst(C) ==
  /\ Len(C) = frameCount /\ faults' = faults + 1
  /\ \A k \in 1 .. Len(C) : C[k].data # pages[i + 1]
  /\ \E L : Holds(heap', tail', length', printed', i + 1, L,
                  Moved(C, 1, [id |-> C[1].id, data |-> pages[i + 1]]))

LoadsNext(C) ==
  /\ Len(C) < frameCount /\ faults' = faults + 1
  /\ \A k \in 1 .. Len(C) : C[k].data # pages[i + 1]
  /\ \E L : Holds(heap', tail', length', printed', i + 1, L,
                  Append(C, [id |-> Len(C) + 1, data |-> pages[i + 1]]))

LEMMA TurnOf ==
  ASSUME Inputs, Live, simulate, NEW L, NEW C, Holds(heap, tail, length, printed, i, L, C)
  PROVE  /\ status' = "running"
         /\ \/ \E k \in 1 .. Len(C) : HitsOne(C, k)
            \/ ReplacesFirst(C)
            \/ LoadsNext(C)
<1> DEFINE page == pages[i + 1]
<1>1. /\ i < Len(pages) /\ i' = i + 1 /\ UNCHANGED input /\ status = "running"
      /\ Served(page) \/ Fault(page)
  BY DEF simulate
<1>2. Page \subseteq Int BY PageReplaceAssumption
<1>3. IsQueue(heap, tail, length, L, C) /\ length <= frameCount BY DEF Holds
<1>4. /\ isQueueEmpty <=> Len(C) = 0
      /\ inQueue(page) => \E k \in 1 .. Len(C) : Position(page) = k + 1 /\ C[k].data = page
      /\ ~ inQueue(page) => \A k \in 1 .. Len(C) : C[k].data # page
  BY <1>3, InQueueIs
<1>5. length = Len(C) /\ Len(C) \in Nat BY <1>3 DEF IsQueue
<1>6. heap # <<>>
  <2>1. Counted(heap, L) BY <1>3, ChainCounts DEF IsQueue
  <2> QED BY <2>1 DEF Counted
<1>7. frameCount > 0 /\ frameCount \in Int /\ algorithm \in {FIFO, LRU} BY DEF Live, Inputs
<1>8. CASE Served(page)
  <2>1. PICK k \in 1 .. Len(C) : Position(page) = k + 1 /\ C[k].data = page
    BY <1>4, <1>8 DEF Served
  <2>2. faults' = faults /\ printed' = printed /\ status' = status BY <1>8 DEF Served
  <2>3. ASSUME algorithm = FIFO PROVE UNCHANGED queue
    BY <1>8, <2>3 DEF Served, Becomes, Unchanged, queue, FIFO, LRU
  <2>4. ASSUME algorithm = LRU
        PROVE  \E M : Holds(heap', tail', length', printed', i + 1, M, Moved(C, k, C[k]))
    <3> DEFINE q == switchQueue(page)
               M == Moved(L, k + 1, L[k + 1])
    <3>1. heap' = q.heap /\ tail' = q.tail /\ length' = q.length
      BY <1>8, <2>4 DEF Served, Becomes
    <3>2. Holds(q.heap, q.tail, q.length, printed, i + 1, M, Moved(C, k, C[k]))
      BY <1>1, <2>1, <2>4, ServedHolds
    <3> HIDE DEF q, M
    <3>3. Holds(heap', tail', length', printed', i + 1, M, Moved(C, k, C[k]))
      BY <2>2, <3>1, <3>2
    <3> QED BY <3>3
  <2>5. HitsOne(C, k) BY <2>1, <2>2, <2>3, <2>4 DEF HitsOne
  <2> QED BY <1>1, <2>2, <2>5
<1>9. CASE Fault(page)
  <2> DEFINE q == Pushed(page)
  <2>1. ~ inQueue(page) /\ faults' = faults + 1 BY <1>9 DEF Fault
  <2>2. ~ (heap = <<>> \/ (length = frameCount /\ isQueueEmpty)) BY <1>4, <1>5, <1>6, <1>7
  <2>3. Becomes(q) /\ printed' = Row(q) /\ status' = status BY <1>9, <2>2 DEF Fault
  <2>4. heap' = q.heap /\ tail' = q.tail /\ length' = q.length BY <2>3 DEF Becomes
  <2>5. \A k \in 1 .. Len(C) : C[k].data # page BY <1>4, <2>1
  <2>6. CASE length = frameCount
    <3> DEFINE M == Moved(L, 2, malloc)
               D == Moved(C, 1, [id |-> C[1].id, data |-> page])
    <3>1. Holds(q.heap, q.tail, q.length, Row(q), i + 1, M, D)
      BY <1>1, <1>2, <1>7, <2>5, <2>6, ReplacedHolds
    <3> HIDE DEF q, M, D
    <3>2. Holds(heap', tail', length', printed', i + 1, M, D) BY <2>3, <2>4, <3>1
    <3>3. \E K : Holds(heap', tail', length', printed', i + 1, K, D) BY <3>2
    <3>4. ReplacesFirst(C) BY <1>5, <2>1, <2>5, <2>6, <3>3 DEF ReplacesFirst, D
    <3> QED BY <1>1, <2>3, <3>4
  <2>7. CASE length # frameCount
    <3> DEFINE M == Append(L, malloc)
               D == Append(C, [id |-> length + 1, data |-> page])
    <3>1. Holds(q.heap, q.tail, q.length, Row(q), i + 1, M, D)
      BY <1>1, <1>2, <2>5, <2>7, LoadedHolds
    <3> HIDE DEF q, M, D
    <3>2. Holds(heap', tail', length', printed', i + 1, M, D) BY <2>3, <2>4, <3>1
    <3>3. \E K : Holds(heap', tail', length', printed', i + 1, K, D) BY <3>2
    <3>4. Len(C) < frameCount BY <1>3, <1>5, <1>7, <2>7
    <3>5. LoadsNext(C) BY <1>5, <2>1, <2>5, <3>3, <3>4 DEF LoadsNext, D
    <3> QED BY <1>1, <2>3, <3>5
  <2> QED BY <2>6, <2>7
<1> QED BY <1>1, <1>8, <1>9

LEMMA FreedAll ==
  ASSUME IInv
  PROVE  freeQueue = <<>>
<1> SUFFICES DOMAIN heap \ Range(List) = {}
  BY DEF freeQueue
<1>1. CASE Live
  <2>1. PICK L, C : Holds(heap, tail, length, printed, i, L, C) BY <1>1 DEF IInv, Held
  <2>2. QueueWellFormed
    <3>1. frameCount \in Int BY DEF IInv, Inputs
    <3> QED BY <2>1, <3>1, WellFormedIs DEF Holds
  <2> QED BY <1>1, <2>2 DEF QueueWellFormed
<1>2. CASE ~ Live
  <2>1. DOMAIN heap = {} BY <1>2 DEF IInv
  <2> QED BY <2>1
<1> QED BY <1>1, <1>2

LEMMA HeldNext ==
  ASSUME UNCHANGED input, i' = i + 1, NEW L, NEW C,
         Holds(heap', tail', length', printed', i + 1, L, C)
  PROVE  Held'
<1>1. pages' = pages /\ frameCount' = frameCount /\ algorithm' = algorithm BY DEF input
<1>2. Holds(heap, tail, length, printed, i, L, C)' BY <1>1 DEF Holds, LastUses
<1> QED BY <1>1, <1>2 DEF Held

LEMMA Inductive ==
  ASSUME IInv, [Next]_vars
  PROVE  IInv'
<1>1. CASE simulate
  <2>1. /\ status = "running" /\ i < Len(pages) /\ i' = i + 1 /\ UNCHANGED input
        /\ Served(pages[i + 1]) \/ Fault(pages[i + 1])
    BY <1>1 DEF simulate
  <2>2. pages' = pages /\ frameCount' = frameCount /\ algorithm' = algorithm
    BY <2>1 DEF input
  <2>3. faults' \in {faults, faults + 1} /\ status' \in {"running", "dead"}
    BY <2>1 DEF Served, Fault
  <2>4. Inputs' BY <2>1, <2>2, <2>3 DEF IInv, Inputs
  <2>5. CASE Live
    <3>1. PICK L, C : Holds(heap, tail, length, printed, i, L, C) BY <2>5 DEF IInv, Held
    <3>2. /\ status' = "running"
          /\ (\E k \in 1 .. Len(C) : HitsOne(C, k)) \/ ReplacesFirst(C) \/ LoadsNext(C)
      BY <1>1, <2>5, <3>1, TurnOf DEF IInv
    <3>3. \E M, D : Holds(heap', tail', length', printed', i + 1, M, D)
      <4>1. CASE ReplacesFirst(C) BY <4>1 DEF ReplacesFirst
      <4>2. CASE LoadsNext(C) BY <4>2 DEF LoadsNext
      <4>3. ASSUME NEW k \in 1 .. Len(C), HitsOne(C, k)
            PROVE  \E M, D : Holds(heap', tail', length', printed', i + 1, M, D)
        <5>1. CASE algorithm = LRU BY <4>3, <5>1 DEF HitsOne
        <5>2. CASE algorithm = FIFO
          <6>1. UNCHANGED queue BY <4>3, <5>2 DEF HitsOne
          <6>2. printed' = printed
            <7>1. ~ Fault(pages[i + 1]) BY <4>3 DEF HitsOne, Fault, IInv, Inputs
            <7> QED BY <2>1, <7>1 DEF Served
          <6>3. Holds(heap', tail', length', printed', i + 1, L, C)
            BY <3>1, <5>2, <6>1, <6>2 DEF Holds, queue, FIFO, LRU
          <6> QED BY <6>3
        <5> QED BY <5>1, <5>2 DEF IInv, Inputs
      <4> QED BY <3>2, <4>1, <4>2, <4>3
    <3>4. Held' BY <2>1, <3>3, HeldNext
    <3>5. Live' BY <2>2, <2>5, <3>2 DEF Live
    <3> QED BY <2>4, <3>2, <3>4, <3>5 DEF IInv
  <2>6. CASE ~ Live
    <3>1. heap = <<>> /\ length = 0 /\ ~ (frameCount > 0) /\ frameCount \in Int
      BY <2>1, <2>6 DEF IInv, Live, Inputs
    <3>2. ~ inQueue(pages[i + 1]) BY <3>1 DEF inQueue, isQueueEmpty
    <3>3. status' = "dead" /\ UNCHANGED queue BY <2>1, <3>1, <3>2 DEF Served, Fault
    <3>4. heap' = <<>> /\ length' = 0 /\ ~ Live' BY <3>1, <3>3 DEF queue, Live
    <3>5. frameCount' <= 0 /\ pages' # <<>>
      <4>1. pages # <<>>
        <5>1. Len(pages) # 0 BY <2>1 DEF IInv, Inputs
        <5> QED BY <5>1
      <4> QED BY <2>2, <3>1, <4>1
    <3> QED BY <2>4, <3>3, <3>4, <3>5 DEF IInv
  <2> QED BY <2>5, <2>6
<1>2. CASE Finish
  <2>1. /\ status' = "done" /\ UNCHANGED <<input, i, faults, printed>>
        /\ heap' = freeQueue /\ length' = 0
    BY <1>2 DEF Finish
  <2>2. pages' = pages /\ frameCount' = frameCount /\ algorithm' = algorithm
        /\ i' = i /\ faults' = faults
    BY <2>1 DEF input
  <2>3. Inputs' BY <2>1, <2>2 DEF IInv, Inputs
  <2>4. ~ Live' BY <2>1 DEF Live
  <2> QED BY <2>1, <2>3, <2>4, FreedAll DEF IInv
<1>3. CASE UNCHANGED vars
  <2>1. /\ UNCHANGED <<pages, frameCount, algorithm, i, faults, heap, tail, length, printed, status>>
    BY <1>3 DEF vars, input, queue
  <2>2. Held => Held' BY <2>1 DEF Held, Holds, LastUses
  <2> QED BY <2>1, <2>2 DEF IInv, Inputs, Live
<1> QED BY <1>1, <1>2, <1>3 DEF Next

LEMMA AlwaysInductive == Spec => []IInv
<1>1. Init => IInv BY InitHeld
<1>2. IInv /\ [Next]_vars => IInv' BY Inductive
<1> QED BY <1>1, <1>2, PTL DEF Spec

-----------------------------------------------------------------------------
(* However long the sequence of references, the list of nodes is a queue of *)
(* different pages that share the frames from 1 on, and nothing leaks.      *)
THEOREM QueueAlwaysSound == Spec => []QueueSound
<1>1. IInv => QueueSound
  <2> SUFFICES ASSUME IInv PROVE QueueSound OBVIOUS
  <2>1. QueueWellFormed /\ length \in Nat
        /\ \A n \in DOMAIN heap : /\ heap[n].id \in 0 .. frameCount
                                  /\ heap[n].next \in (DOMAIN heap \cup {NULL}) \ {head}
    <3>1. CASE Live
      <4>1. PICK L, C : Holds(heap, tail, length, printed, i, L, C) BY <3>1 DEF IInv, Held
      <4>2. frameCount \in Int BY DEF IInv, Inputs
      <4>3. IsQueue(heap, tail, length, L, C) /\ Framed(C) /\ length <= frameCount
        BY <4>1 DEF Holds
      <4> QED BY <4>2, <4>3, WellFormedIs
    <3>2. CASE ~ Live
      <4>1. DOMAIN heap = {} /\ length = 0 BY <3>2 DEF IInv
      <4> QED BY <3>2, <4>1 DEF QueueWellFormed
    <3> QED BY <3>1, <3>2
  <2>2. TypeOK BY <2>1 DEF TypeOK, IInv, Inputs
  <2>3. NothingLeaks BY DEF NothingLeaks, IInv, Live
  <2> QED BY <2>1, <2>2, <2>3 DEF QueueSound
<1> QED BY <1>1, AlwaysInductive, PTL

(* The printed row shows every resident page at its frame, and LRU keeps    *)
(* the pages last used.                                                     *)
THEOREM PagesAlwaysKept == Spec => []PagesKept
<1>1. IInv => PagesKept
  <2> SUFFICES ASSUME IInv, Live PROVE PagesKept
    BY DEF PagesKept, PrintedByFrame, LruKeepsRecent
  <2>1. PICK L, C : Holds(heap, tail, length, printed, i, L, C) BY DEF IInv, Held
  <2>2. /\ IsQueue(heap, tail, length, L, C) /\ Framed(C) /\ length <= frameCount
        /\ Shows(printed, C)
    BY <2>1 DEF Holds
  <2>3. FramesAs(C) /\ Resident = DataOf(C) BY <2>2, FrameIs, ResidentIs
  <2>4. PrintedByFrame
    <3>1. Len(printed) = length BY <2>2 DEF Shows, IsQueue
    <3>2. ASSUME NEW p \in Resident PROVE printed[Frame(p)] = p
      <4>1. PICK k \in 1 .. Len(C) : p = C[k].data BY <2>3 DEF DataOf
      <4> QED BY <2>2, <2>3, <4>1 DEF FramesAs, Shows
    <3> QED BY <3>1, <3>2 DEF PrintedByFrame
  <2>5. LruKeepsRecent
    <3> SUFFICES ASSUME algorithm = LRU PROVE LruKeepsRecent BY DEF LruKeepsRecent
    <3>1. PICK u : LastUses(pages, u, i) /\ Recent(C, u, frameCount) BY <2>1 DEF Holds
    <3>2. i \in Nat /\ frameCount \in Int /\ frameCount > 0 BY DEF IInv, Inputs, Live
    <3>3. \A p \in Page :
            p \in Resident <=>
              /\ LastUse(p) # 0
              /\ Cardinality({q \in Page : LastUse(q) > LastUse(p)}) < frameCount
      BY <2>2, <3>1, <3>2, LruIs
    <3> QED BY <3>3 DEF LruKeepsRecent
  <2> QED BY <2>4, <2>5 DEF PagesKept
<1> QED BY <1>1, AlwaysInductive, PTL

-----------------------------------------------------------------------------
(* What the policy of Paging sees: f is the frames that C says, and AgeOf(C) *)
(* its order of age.                                                        *)
FrameOf(f, C) ==
  /\ f = [p \in Page |-> f[p]]
  /\ \A k \in 1 .. Len(C) : f[C[k].data] = C[k].id
  /\ \A p \in Page \ DataOf(C) : f[p] = 0

View ==
  /\ \A L, C : IsQueue(heap, tail, length, L, C) /\ Framed(C) =>
       FrameOf(frame, C) /\ older = AgeOf(C)
  /\ heap = <<>> => frame = [p \in Page |-> 0] /\ older = {}

LEMMA ViewIs == View
<1>1. ASSUME NEW L, NEW C, IsQueue(heap, tail, length, L, C), Framed(C)
      PROVE  FrameOf(frame, C) /\ older = AgeOf(C)
  <2>1. FramesAs(C) /\ older = AgeOf(C) BY <1>1, FrameIs, OlderIs
  <2>2. \A k \in 1 .. Len(C) : C[k].data \in Page BY <1>1, QueueNodes
  <2>3. frame = [p \in Page |-> Frame(p)] BY DEF frame
  <2>4. \A p \in Page : frame[p] = Frame(p) BY <2>3
  <2>5. frame = [p \in Page |-> frame[p]] BY <2>3
  <2>6. \A k \in 1 .. Len(C) : frame[C[k].data] = C[k].id BY <2>1, <2>2, <2>4 DEF FramesAs
  <2>7. \A p \in Page \ DataOf(C) : frame[p] = 0 BY <2>1, <2>4 DEF FramesAs, DataOf
  <2> QED BY <2>1, <2>5, <2>6, <2>7 DEF FrameOf
<1>2. ASSUME heap = <<>> PROVE frame = [p \in Page |-> 0] /\ older = {}
  <2>1. DOMAIN heap = {} BY <1>2
  <2>2. \A p \in Page : Frame(p) = 0 BY <2>1 DEF Frame, Nodes
  <2>3. Len(List) = 0
    <3>1. Cardinality(DOMAIN heap) = 0 BY <2>1, FS_EmptySet
    <3>2. 1 .. 0 = {} OBVIOUS
    <3> DEFINE walk[k \in 1 .. 0] ==
                 IF k = 1 THEN head ELSE IF walk[k-1] = NULL THEN NULL ELSE heap[walk[k-1]].next
    <3>3. List = [k \in {j \in 1 .. 0 : walk[j] # NULL} |-> walk[k]] BY <3>1 DEF List
    <3> HIDE DEF walk
    <3>4. {j \in 1 .. 0 : walk[j] # NULL} = {} BY <3>2
    <3>5. List = <<>> BY <3>3, <3>4
    <3> QED BY <3>5
  <2>4. older = {}
    <3>1. \A j \in 2 .. Len(List) : FALSE BY <2>3
    <3> QED BY <3>1 DEF older
  <2> QED BY <2>2, <2>4 DEF frame
<1> QED BY <1>1, <1>2 DEF View

(* The entries of the moved queue are the others and the new one.           *)
LEMMA MovedData ==
  ASSUME NEW C \in Seq(Entry), Framed(C), NEW k \in 1 .. Len(C), NEW e \in Entry,
         \A j \in 1 .. Len(C) : j # k => C[j].data # e.data,
         NEW D, D = Moved(C, k, e), NEW v, v = C[k].data
  PROVE  /\ DataOf(D) = (DataOf(C) \ {v}) \cup {e.data}
         /\ AgeOf(D) = {pair \in AgeOf(C) : v \notin {pair[1], pair[2]}}
                         \cup {<<q, e.data>> : q \in (DataOf(C) \ {v}) \ {e.data}}
<1> DEFINE n == Len(C)
           src(j) == IF j < k THEN j ELSE j + 1
           dst(a) == IF a < k THEN a ELSE a - 1
           p == e.data
<1>1. /\ n \in Nat /\ k \in 1 .. n /\ \A j \in 1 .. n : C[j].data \in Page
      /\ \A a, j \in 1 .. n : a # j => C[a].data # C[j].data
      /\ \A j \in 1 .. n : j # k => C[j].data # p
      /\ p \in Page /\ v = C[k].data
  <2>1. \A x \in Entry : x.data \in Page BY DEF Entry
  <2>2. \A j \in 1 .. n : C[j] \in Entry OBVIOUS
  <2> QED BY <2>1, <2>2 DEF Framed
<1>2. /\ Len(D) = n
      /\ \A j \in 1 .. n : \/ j < k /\ j # n /\ D[j] = C[j]
                           \/ ~ (j < k) /\ j # n /\ j + 1 \in 1 .. n /\ D[j] = C[j + 1]
                           \/ j = n /\ D[j] = e
  <2> DEFINE X == Moved(C, k, e)
  <2>1. /\ Len(X) = n
        /\ \A j \in 1 .. n : \/ j < k /\ j # n /\ X[j] = C[j]
                             \/ ~ (j < k) /\ j # n /\ j + 1 \in 1 .. n /\ X[j] = C[j + 1]
                             \/ j = n /\ X[j] = e
    BY MovedEntries, ZenonT(30)
  <2> HIDE DEF n
  <2> QED BY <2>1
<1>3. DataOf(C) = {C[j].data : j \in 1 .. n} /\ DataOf(D) = {D[j].data : j \in 1 .. n}
  BY <1>2 DEF DataOf
<1>4. D[n].data = p /\ n \in 1 .. n BY <1>1, <1>2
<1> HIDE DEF n, p
<1>5. \A j \in 1 .. n : j # n => /\ src(j) \in 1 .. n /\ src(j) # k /\ D[j].data = C[src(j)].data
  BY <1>1, <1>2
<1>6. \A a \in 1 .. n : a # k => /\ dst(a) \in 1 .. n /\ dst(a) # n /\ src(dst(a)) = a
  BY <1>1
<1>7. \A a, b \in 1 .. n : a < b /\ b # n => src(a) < src(b) BY <1>1
<1>8. \A a, b \in 1 .. n : a < b /\ a # k /\ b # k => dst(a) < dst(b) BY <1>1
<1>9. \A a \in 1 .. n : a # n => a < n BY <1>1
<1>10. \A a, b \in 1 .. n : a < b /\ b # n => a # n BY <1>1
<1> HIDE DEF src, dst
<1>11. \A a \in 1 .. n : a # k => D[dst(a)].data = C[a].data BY <1>5, <1>6
<1>12. \A j \in 1 .. n : j # n => D[j].data \in (DataOf(C) \ {v}) \ {p}
  <2> SUFFICES ASSUME NEW j \in 1 .. n, j # n PROVE D[j].data \in (DataOf(C) \ {v}) \ {p}
    OBVIOUS
  <2>1. src(j) \in 1 .. n /\ src(j) # k /\ D[j].data = C[src(j)].data BY <1>5
  <2> QED BY <1>1, <1>3, <2>1
<1>13. \A q \in DataOf(C) \ {v} : \E a \in 1 .. n : a # k /\ q = C[a].data BY <1>1, <1>3
<1>14. DataOf(D) = (DataOf(C) \ {v}) \cup {p}
  <2>1. ASSUME NEW q \in DataOf(D) PROVE q \in (DataOf(C) \ {v}) \cup {p}
    BY <1>3, <1>4, <1>12
  <2>2. ASSUME NEW q \in DataOf(C) \ {v} PROVE q \in DataOf(D)
    <3>1. PICK a \in 1 .. n : a # k /\ q = C[a].data BY <1>13
    <3> QED BY <1>3, <1>6, <1>11, <3>1
  <2> QED BY <1>3, <1>4, <2>1, <2>2, ZenonT(30)
<1> DEFINE Kept == {pair \in AgeOf(C) : v \notin {pair[1], pair[2]}}
           New == {<<q, p>> : q \in (DataOf(C) \ {v}) \ {p}}
<1>15. ASSUME NEW pq \in AgeOf(D) PROVE pq \in Kept \cup New
  <2>1. PICK a \in 1 .. n, b \in 1 .. n : a < b /\ pq = <<D[a].data, D[b].data>>
    BY <1>2, <1>15 DEF AgeOf
  <2>2. CASE b = n
    <3>1. a # n BY <1>1, <2>1, <2>2
    <3> QED BY <1>4, <1>12, <2>1, <2>2, <3>1
  <2>3. CASE b # n
    <3>1. a # n BY <1>10, <2>1, <2>3
    <3>2. /\ src(a) \in 1 .. n /\ src(b) \in 1 .. n /\ src(a) < src(b)
          /\ pq = <<C[src(a)].data, C[src(b)].data>>
      BY <1>5, <1>7, <2>1, <2>3, <3>1
    <3>3. pq \in AgeOf(C) BY <1>1, <3>2 DEF AgeOf, n
    <3>4. D[a].data # v /\ D[b].data # v BY <1>12, <2>3, <3>1
    <3> QED BY <2>1, <3>3, <3>4
  <2> QED BY <2>2, <2>3
<1>16. ASSUME NEW pq \in Kept PROVE pq \in AgeOf(D)
  <2>1. PICK a \in 1 .. n, b \in 1 .. n : a < b /\ pq = <<C[a].data, C[b].data>>
    BY DEF AgeOf, n
  <2>2. a # k /\ b # k
    <3>1. v # pq[1] /\ v # pq[2] OBVIOUS
    <3> QED BY <1>1, <2>1, <3>1
  <2>3. /\ dst(a) \in 1 .. n /\ dst(b) \in 1 .. n /\ dst(a) < dst(b)
        /\ pq = <<D[dst(a)].data, D[dst(b)].data>>
    BY <1>6, <1>8, <1>11, <2>1, <2>2
  <2>4. pq \in Page \X Page BY DEF AgeOf
  <2> QED BY <1>2, <2>3, <2>4 DEF AgeOf
<1>17. ASSUME NEW q \in (DataOf(C) \ {v}) \ {p} PROVE <<q, p>> \in AgeOf(D)
  <2>1. PICK a \in 1 .. n : a # k /\ q = C[a].data BY <1>13
  <2>2. /\ dst(a) \in 1 .. n /\ dst(a) < n /\ <<q, p>> = <<D[dst(a)].data, D[n].data>>
    BY <1>4, <1>6, <1>9, <1>11, <2>1
  <2>3. <<q, p>> \in Page \X Page BY <1>1, <2>1
  <2> QED BY <1>2, <1>4, <2>2, <2>3 DEF AgeOf
<1>18. AgeOf(D) = Kept \cup New
  <2> HIDE DEF Kept
  <2> QED BY <1>15, <1>16, <1>17
<1> QED BY <1>14, <1>18 DEF p

LEMMA MovedFrames ==
  ASSUME NEW C \in Seq(Entry), Framed(C), NEW k \in 1 .. Len(C), NEW e \in Entry,
         \A j \in 1 .. Len(C) : j # k => C[j].data # e.data, e.id = C[k].id,
         NEW D, D = Moved(C, k, e), NEW v, v = C[k].data,
         NEW f, FrameOf(f, C), NEW g, FrameOf(g, D)
  PROVE  IF e.data = v THEN g = f ELSE g = [f EXCEPT ![e.data] = f[v], ![v] = 0]
<1> DEFINE n == Len(C)
           p == e.data
           X == Moved(C, k, e)
<1>1. /\ n \in Nat /\ k \in 1 .. n /\ \A j \in 1 .. n : C[j].data \in Page
      /\ \A a, j \in 1 .. n : a # j => C[a].data # C[j].data
      /\ \A j \in 1 .. n : j # k => C[j].data # p
      /\ p \in Page /\ v = C[k].data /\ v \in Page
  <2>1. \A x \in Entry : x.data \in Page BY DEF Entry
  <2>2. \A j \in 1 .. n : C[j] \in Entry OBVIOUS
  <2> QED BY <2>1, <2>2 DEF Framed
<1>2. /\ Len(X) = n
      /\ \A j \in 1 .. n : \/ j < k /\ j # n /\ X[j] = C[j]
                           \/ ~ (j < k) /\ j # n /\ j + 1 \in 1 .. n /\ X[j] = C[j + 1]
                           \/ j = n /\ X[j] = e
  BY MovedEntries, ZenonT(30)
<1>3. DataOf(D) = (DataOf(C) \ {v}) \cup {p}
  <2>1. DataOf(D) = (DataOf(C) \ {v}) \cup {e.data}
    <3> HIDE DEF n, p, X
    <3> QED BY MovedData, SMTT(30)
  <2> QED BY <2>1 DEF p
<1>4. DataOf(C) = {C[j].data : j \in 1 .. n} BY DEF DataOf
<1>5. /\ \A j \in 1 .. n : f[C[j].data] = C[j].id
      /\ \A x \in Page \ DataOf(C) : f[x] = 0
      /\ f = [x \in Page |-> f[x]]
  BY DEF FrameOf
<1>6. /\ \A j \in 1 .. n : g[X[j].data] = X[j].id
      /\ \A x \in Page \ DataOf(D) : g[x] = 0
      /\ g = [x \in Page |-> g[x]]
  BY <1>2 DEF FrameOf
<1> HIDE DEF n, X, p
<1>7. g[p] = f[v]
  <2>1. n \in 1 .. n BY <1>1
  <2>2. X[n] = e BY <1>2, <2>1
  <2>3. g[p] = e.id BY <1>6, <2>1, <2>2 DEF p
  <2> QED BY <1>1, <1>5, <2>3
<1>8. p # v => g[v] = 0 BY <1>1, <1>3, <1>6
<1>9. ASSUME NEW a \in 1 .. n, a # k PROVE g[C[a].data] = f[C[a].data]
  <2>1. \E j \in 1 .. n : X[j] = C[a]
    <3>1. CASE a < k
      <4>1. a # n BY <1>1, <3>1
      <4> QED BY <1>2, <3>1, <4>1
    <3>2. CASE ~ (a < k)
      <4>1. a - 1 \in 1 .. n /\ ~ (a - 1 < k) /\ a - 1 # n /\ a - 1 + 1 = a BY <1>1, <1>9, <3>2
      <4>2. X[a - 1] = C[a] BY <1>2, <4>1
      <4> QED BY <4>1, <4>2
    <3> QED BY <3>1, <3>2
  <2> QED BY <1>5, <1>6, <2>1, ZenonT(30)
<1>10. \A x \in Page \ {p, v} : g[x] = f[x]
  <2> SUFFICES ASSUME NEW x \in Page \ {p, v} PROVE g[x] = f[x] OBVIOUS
  <2>1. CASE x \in DataOf(C)
    <3>1. PICK a \in 1 .. n : x = C[a].data BY <1>4, <2>1
    <3>2. a # k BY <1>1, <3>1
    <3> QED BY <1>9, <3>1, <3>2
  <2>2. CASE x \notin DataOf(C) BY <1>3, <1>5, <1>6, <2>2
  <2> QED BY <2>1, <2>2
<1>11. CASE p = v
  <2>1. \A x \in Page : g[x] = f[x] BY <1>7, <1>10, <1>11
  <2>2. g = f BY <1>5, <1>6, <2>1
  <2> QED BY <1>11, <2>2 DEF p
<1>12. CASE p # v
  <2> DEFINE h == [f EXCEPT ![p] = f[v], ![v] = 0]
  <2>1. h = [x \in Page |-> IF x = v THEN 0 ELSE IF x = p THEN f[v] ELSE f[x]]
    BY <1>1, <1>5, <1>12
  <2>2. \A x \in Page : g[x] = IF x = v THEN 0 ELSE IF x = p THEN f[v] ELSE f[x]
    BY <1>7, <1>8, <1>10, <1>12
  <2>3. g = h
    <3> HIDE DEF h
    <3> QED BY <1>6, <2>1, <2>2
  <2> QED BY <1>12, <2>3 DEF p
<1> QED BY <1>11, <1>12

LEMMA AppendedView ==
  ASSUME NEW C \in Seq(Entry), Framed(C), NEW e \in Entry, e.id = Len(C) + 1,
         \A j \in 1 .. Len(C) : C[j].data # e.data,
         NEW D, D = Append(C, e), NEW f, FrameOf(f, C), NEW g, FrameOf(g, D)
  PROVE  /\ AgeOf(D) = AgeOf(C) \cup {<<q, e.data>> : q \in DataOf(C) \ {e.data}}
         /\ g = [f EXCEPT ![e.data] = Len(C) + 1]
<1> DEFINE n == Len(C)
           p == e.data
<1>1. /\ n \in Nat /\ \A j \in 1 .. n : C[j].data \in Page /\ C[j].data # p
      /\ p \in Page
  <2>1. \A x \in Entry : x.data \in Page BY DEF Entry
  <2>2. \A j \in 1 .. n : C[j] \in Entry OBVIOUS
  <2> QED BY <2>1, <2>2
<1>2. Len(D) = n + 1 /\ D[n + 1] = e /\ \A j \in 1 .. n : D[j] = C[j] OBVIOUS
<1>3. DataOf(C) = {C[j].data : j \in 1 .. n} /\ DataOf(D) = {D[j].data : j \in 1 .. n + 1}
  BY <1>2 DEF DataOf
<1>4. /\ \A j \in 1 .. n : f[C[j].data] = C[j].id
      /\ \A x \in Page \ DataOf(C) : f[x] = 0
      /\ f = [x \in Page |-> f[x]]
  BY DEF FrameOf
<1>5. /\ \A j \in 1 .. n + 1 : g[D[j].data] = D[j].id
      /\ \A x \in Page \ DataOf(D) : g[x] = 0
      /\ g = [x \in Page |-> g[x]]
  BY <1>2 DEF FrameOf
<1>6. e.id = n + 1 /\ e.data = p OBVIOUS
<1> HIDE DEF n, p
<1>7. /\ n + 1 \in 1 .. n + 1 /\ \A j \in 1 .. n : j \in 1 .. n + 1 /\ j < n + 1
      /\ \A j \in 1 .. n + 1 : j \in 1 .. n \/ j = n + 1
      /\ \A a, j \in 1 .. n + 1 : a < j => a \in 1 .. n
  BY <1>1
<1>8. p \notin DataOf(C) BY <1>1, <1>3
<1>9. DataOf(D) = DataOf(C) \cup {p}
  <2>1. \A q \in DataOf(D) : q \in DataOf(C) \cup {p} BY <1>2, <1>3, <1>6, <1>7
  <2>2. ASSUME NEW q \in DataOf(C) PROVE q \in DataOf(D)
    <3>1. PICK j \in 1 .. n : q = C[j].data BY <1>3
    <3> QED BY <1>2, <1>3, <1>7, <3>1
  <2>3. p \in DataOf(D) BY <1>2, <1>3, <1>6, <1>7
  <2> QED BY <2>1, <2>2, <2>3
<1>10. g = [f EXCEPT ![p] = n + 1]
  <2>1. g[p] = n + 1 BY <1>2, <1>5, <1>6, <1>7
  <2>2. ASSUME NEW x \in Page, x # p PROVE g[x] = f[x]
    <3>1. CASE x \in DataOf(C)
      <4>1. PICK j \in 1 .. n : x = C[j].data BY <1>3, <3>1
      <4>2. g[D[j].data] = D[j].id /\ D[j] = C[j] BY <1>2, <1>5, <1>7
      <4> QED BY <1>4, <4>1, <4>2
    <3>2. CASE x \notin DataOf(C) BY <1>4, <1>5, <1>9, <2>2, <3>2
    <3> QED BY <3>1, <3>2
  <2> QED BY <1>1, <1>4, <1>5, <2>1, <2>2
<1> DEFINE New == {<<q, p>> : q \in DataOf(C) \ {p}}
<1>11. ASSUME NEW pq \in AgeOf(D) PROVE pq \in AgeOf(C) \cup New
  <2>1. PICK a \in 1 .. n + 1, b \in 1 .. n + 1 : a < b /\ pq = <<D[a].data, D[b].data>>
    BY <1>2, <1>11 DEF AgeOf
  <2>2. a \in 1 .. n /\ D[a].data = C[a].data BY <1>2, <1>7, <2>1
  <2>3. CASE b = n + 1
    <3>1. pq = <<C[a].data, p>> BY <1>2, <1>6, <2>1, <2>2, <2>3
    <3> QED BY <1>1, <1>3, <2>2, <3>1
  <2>4. CASE b \in 1 .. n
    <3>1. pq = <<C[a].data, C[b].data>> BY <1>2, <2>1, <2>2, <2>4
    <3>2. pq \in Page \X Page BY <1>11 DEF AgeOf
    <3> QED BY <2>1, <2>2, <2>4, <3>1, <3>2 DEF AgeOf, n
  <2> QED BY <1>7, <2>3, <2>4
<1>12. ASSUME NEW pq \in AgeOf(C) PROVE pq \in AgeOf(D)
  <2>1. PICK a \in 1 .. n, b \in 1 .. n : a < b /\ pq = <<C[a].data, C[b].data>>
    BY DEF AgeOf, n
  <2>2. /\ a \in 1 .. n + 1 /\ b \in 1 .. n + 1 /\ pq = <<D[a].data, D[b].data>>
    BY <1>2, <1>7, <2>1
  <2>3. pq \in Page \X Page BY DEF AgeOf
  <2> QED BY <1>2, <2>1, <2>2, <2>3 DEF AgeOf
<1>13. ASSUME NEW q \in DataOf(C) PROVE <<q, p>> \in AgeOf(D)
  <2>1. PICK a \in 1 .. n : q = C[a].data BY <1>3
  <2>2. a \in 1 .. n + 1 /\ a < n + 1 /\ <<q, p>> = <<D[a].data, D[n + 1].data>>
    BY <1>2, <1>6, <1>7, <2>1
  <2>3. <<q, p>> \in Page \X Page BY <1>1, <2>1
  <2> QED BY <1>2, <1>7, <2>2, <2>3 DEF AgeOf
<1>14. AgeOf(D) = AgeOf(C) \cup New BY <1>11, <1>12, <1>13
<1> QED BY <1>10, <1>14 DEF n, p

(* Paging counts its frames with the same Cardinality.                      *)
LEMMA CountIs ==
  ASSUME NEW S PROVE Policy!Cardinality(S) = Cardinality(S)
BY DEF Policy!Cardinality, Cardinality

(* A hit, a replacement and a load are steps of the policy.                 *)
LEMMA PolicyView ==
  ASSUME View, NEW L, NEW C, Holds(heap, tail, length, printed, i, L, C)
  PROVE  /\ FrameOf(frame, C) /\ older = AgeOf(C) /\ C \in Seq(Entry) /\ Framed(C)
         /\ Policy!Resident = DataOf(C) /\ Cardinality(DataOf(C)) = Len(C)
         /\ \A p \in Page : frame[p] = 0 <=> p \notin DataOf(C)
         /\ \A k \in 1 .. Len(C) : C[k] \in Entry /\ C[k].data \in Page
<1>1. IsQueue(heap, tail, length, L, C) /\ Framed(C) BY DEF Holds
<1>2. FrameOf(frame, C) /\ older = AgeOf(C) BY <1>1 DEF View
<1>3. C \in Seq(Entry) BY <1>1 DEF IsQueue
<1>4. \A k \in 1 .. Len(C) : C[k] \in Entry /\ C[k].data \in Page BY <1>1, QueueNodes
<1>5. Cardinality(DataOf(C)) = Len(C) BY <1>1, ResidentIs
<1>6. ASSUME NEW p \in Page PROVE frame[p] = 0 <=> p \notin DataOf(C)
  <2>1. ASSUME NEW k \in 1 .. Len(C) PROVE frame[C[k].data] # 0
    <3>1. C[k].id \in 1 .. Len(C) BY <1>1 DEF Framed
    <3>2. frame[C[k].data] = C[k].id BY <1>2 DEF FrameOf
    <3> QED BY <3>1, <3>2
  <2> QED BY <1>2, <2>1 DEF FrameOf, DataOf
<1>7. Policy!Resident = DataOf(C)
  <2>1. DataOf(C) \subseteq Page BY <1>4 DEF DataOf
  <2> QED BY <1>6, <2>1 DEF Policy!Resident
<1> QED BY <1>1, <1>2, <1>3, <1>4, <1>5, <1>6, <1>7

LEMMA ViewNext ==
  ASSUME View', NEW L, NEW C, NEW n, Holds(heap', tail', length', printed', n, L, C)
  PROVE  FrameOf(frame', C) /\ older' = AgeOf(C)
<1>1. IsQueue(heap', tail', length', L, C) /\ Framed(C) BY DEF Holds
<1>2. \A M, D : IsQueue(heap', tail', length', M, D) /\ Framed(D) =>
        FrameOf(frame', D) /\ older' = AgeOf(D)
  BY DEF View
<1> QED BY <1>1, <1>2

LEMMA HitImplements ==
  ASSUME Inputs, View, View', NEW L, NEW C, Holds(heap, tail, length, printed, i, L, C),
         NEW k \in 1 .. Len(C), HitsOne(C, k), printed' = printed
  PROVE  Policy!Hit(pages[i + 1])
<1> DEFINE p == pages[i + 1]
           D == Moved(C, k, C[k])
<1>1. /\ FrameOf(frame, C) /\ older = AgeOf(C) /\ C \in Seq(Entry) /\ Framed(C)
      /\ Policy!Resident = DataOf(C)
      /\ \A q \in Page : frame[q] = 0 <=> q \notin DataOf(C)
      /\ \A j \in 1 .. Len(C) : C[j] \in Entry /\ C[j].data \in Page
  BY PolicyView
<1>2. p = C[k].data /\ faults' = faults /\ p \in Page /\ p \in DataOf(C)
  BY <1>1 DEF HitsOne, DataOf
<1>3. frame[p] # 0 BY <1>1, <1>2
<1>4. CASE algorithm = FIFO
  <2>1. UNCHANGED queue BY <1>4 DEF HitsOne
  <2>2. Holds(heap', tail', length', printed', i, L, C) BY <2>1 DEF queue
  <2>3. FrameOf(frame', C) /\ older' = AgeOf(C) BY <2>2, ViewNext
  <2>4. frame' = frame
    <3>1. /\ frame = [q \in Page |-> frame[q]] /\ frame' = [q \in Page |-> frame'[q]]
          /\ \A j \in 1 .. Len(C) : frame[C[j].data] = C[j].id /\ frame'[C[j].data] = C[j].id
          /\ \A q \in Page \ DataOf(C) : frame[q] = 0 /\ frame'[q] = 0
      BY <1>1, <2>3 DEF FrameOf
    <3>2. \A q \in Page : frame[q] = frame'[q] BY <3>1 DEF DataOf
    <3> QED BY <3>1, <3>2
  <2>5. algorithm # LRU BY <1>4 DEF FIFO, LRU
  <2> QED BY <1>1, <1>2, <1>3, <2>3, <2>4, <2>5 DEF Policy!Hit, Policy!LRU, LRU
<1>5. CASE algorithm = LRU
  <2>1. PICK M : Holds(heap', tail', length', printed', i + 1, M, D) BY <1>5 DEF HitsOne
  <2>2. FrameOf(frame', D) /\ older' = AgeOf(D) BY <2>1, ViewNext
  <2>3. \A j \in 1 .. Len(C) : j # k => C[j].data # p BY <1>1, <1>2 DEF Framed
  <2>4. PICK e : e \in Entry /\ e = C[k] BY <1>1
  <2>5. D = Moved(C, k, e) /\ e.data = p /\ e.id = C[k].id BY <1>2, <2>4
  <2> HIDE DEF D, p
  <2>6. older' = {pair \in AgeOf(C) : p \notin {pair[1], pair[2]}}
                   \cup {<<q, p>> : q \in (DataOf(C) \ {p}) \ {p}}
    BY <1>1, <1>2, <2>2, <2>3, <2>4, <2>5, MovedData
  <2>7. frame' = frame BY <1>1, <1>2, <2>2, <2>3, <2>4, <2>5, MovedFrames
  <2>8. (DataOf(C) \ {p}) \ {p} = DataOf(C) \ {p} OBVIOUS
  <2>9. older' = Policy!Without(p) \cup Policy!Youngest(p, Policy!Resident)
    BY <1>1, <2>6, <2>8 DEF Policy!Without, Policy!Youngest
  <2>10. Policy!Hit(p)
    BY <1>2, <1>3, <1>5, <2>7, <2>9 DEF Policy!Hit, Policy!LRU, LRU
  <2> QED BY <2>10 DEF p
<1> QED BY <1>4, <1>5 DEF Inputs

LEMMA ReplaceImplements ==
  ASSUME Inputs, i < Len(pages), View, View', NEW L, NEW C,
         Holds(heap, tail, length, printed, i, L, C), frameCount > 0, ReplacesFirst(C)
  PROVE  Policy!Replace(pages[i + 1])
<1> DEFINE p == pages[i + 1]
           e == [id |-> C[1].id, data |-> p]
           D == Moved(C, 1, e)
           victim == C[1].data
<1>1. /\ FrameOf(frame, C) /\ older = AgeOf(C) /\ C \in Seq(Entry) /\ Framed(C)
      /\ Policy!Resident = DataOf(C) /\ Cardinality(DataOf(C)) = Len(C)
      /\ \A q \in Page : frame[q] = 0 <=> q \notin DataOf(C)
      /\ \A j \in 1 .. Len(C) : C[j] \in Entry /\ C[j].data \in Page
  BY PolicyView
<1>2. /\ Len(C) = frameCount /\ faults' = faults + 1
      /\ \A k \in 1 .. Len(C) : C[k].data # p
  BY DEF ReplacesFirst
<1>3. 1 \in 1 .. Len(C) /\ Len(C) \in Nat BY <1>1, <1>2
<1>4. p \in Page
  <2>1. i + 1 \in 1 .. Len(pages) /\ pages \in Seq(Page) BY DEF Inputs
  <2> QED BY <2>1
<1>5. e \in Entry /\ e.id = C[1].id /\ e.data = p
  <2>1. C[1] \in Entry BY <1>1, <1>3
  <2>2. C[1].id \in Nat BY <2>1 DEF Entry
  <2> QED BY <1>4, <2>2 DEF Entry
<1>6. PICK M : Holds(heap', tail', length', printed', i + 1, M, D) BY DEF ReplacesFirst
<1>7. FrameOf(frame', D) /\ older' = AgeOf(D) BY <1>6, ViewNext
<1>8. p # victim /\ victim \in DataOf(C) /\ p \notin DataOf(C) BY <1>2, <1>3 DEF DataOf
<1>9. \A j \in 1 .. Len(C) : j # 1 => C[j].data # e.data BY <1>2, <1>5
<1>10. \A q \in DataOf(C) : <<q, victim>> \notin AgeOf(C)
  <2> SUFFICES ASSUME NEW j \in 1 .. Len(C), NEW m \in 1 .. Len(C), j < m, C[m].data = C[1].data
               PROVE FALSE
    BY DEF AgeOf
  <2>1. m # 1 BY <1>3
  <2> QED BY <1>1, <1>3, <2>1 DEF Framed
<1> HIDE DEF e, D, victim, p
<1>11. /\ older' = {pair \in AgeOf(C) : victim \notin {pair[1], pair[2]}}
                     \cup {<<q, e.data>> : q \in (DataOf(C) \ {victim}) \ {e.data}}
  BY <1>1, <1>3, <1>5, <1>7, <1>9, MovedData DEF D, victim
<1>12. frame' = [frame EXCEPT ![p] = frame[victim], ![victim] = 0]
  <2>1. IF e.data = victim THEN frame' = frame
        ELSE frame' = [frame EXCEPT ![e.data] = frame[victim], ![victim] = 0]
    BY <1>1, <1>3, <1>5, <1>7, <1>9, MovedFrames DEF D, victim
  <2> QED BY <1>5, <1>8, <2>1
<1>13. older' = Policy!Without(victim) \cup Policy!Youngest(p, Policy!Resident \ {victim})
  BY <1>1, <1>5, <1>11 DEF Policy!Without, Policy!Youngest
<1>14. Policy!Cardinality(Policy!Resident) = frameCount
  BY <1>1, <1>2, CountIs
<1>15. Policy!Replace(p)
  BY <1>1, <1>2, <1>4, <1>8, <1>10, <1>12, <1>13, <1>14 DEF Policy!Replace
<1> QED BY <1>15 DEF p

LEMMA LoadImplements ==
  ASSUME Inputs, i < Len(pages), View, View', NEW L, NEW C,
         Holds(heap, tail, length, printed, i, L, C), LoadsNext(C)
  PROVE  Policy!Load(pages[i + 1])
<1> DEFINE p == pages[i + 1]
           e == [id |-> Len(C) + 1, data |-> p]
           D == Append(C, e)
<1>1. /\ FrameOf(frame, C) /\ older = AgeOf(C) /\ C \in Seq(Entry) /\ Framed(C)
      /\ Policy!Resident = DataOf(C) /\ Cardinality(DataOf(C)) = Len(C)
      /\ \A q \in Page : frame[q] = 0 <=> q \notin DataOf(C)
  BY PolicyView
<1>2. /\ Len(C) < frameCount /\ faults' = faults + 1
      /\ \A k \in 1 .. Len(C) : C[k].data # p
  BY DEF LoadsNext
<1>3. p \in Page
  <2>1. i + 1 \in 1 .. Len(pages) /\ pages \in Seq(Page) BY DEF Inputs
  <2> QED BY <2>1
<1>4. e \in Entry /\ e.id = Len(C) + 1 /\ e.data = p
  <2>1. Len(C) \in Nat BY <1>1
  <2> QED BY <1>3, <2>1 DEF Entry
<1>5. PICK M : Holds(heap', tail', length', printed', i + 1, M, D) BY DEF LoadsNext
<1>6. FrameOf(frame', D) /\ older' = AgeOf(D) BY <1>5, ViewNext
<1>7. p \notin DataOf(C) BY <1>2 DEF DataOf
<1>8. \A j \in 1 .. Len(C) : C[j].data # e.data BY <1>2, <1>4
<1>9. D = Append(C, e) OBVIOUS
<1> HIDE DEF e, D, p
<1>10. /\ older' = AgeOf(C) \cup {<<q, e.data>> : q \in DataOf(C) \ {e.data}}
       /\ frame' = [frame EXCEPT ![e.data] = Len(C) + 1]
  <2>1. C \in Seq(Entry) /\ Framed(C) /\ FrameOf(frame, C) BY <1>1
  <2>2. e \in Entry /\ e.id = Len(C) + 1 BY <1>4
  <2>3. FrameOf(frame', D) BY <1>6
  <2> QED BY <1>6, <1>8, <1>9, <2>1, <2>2, <2>3, AppendedView
<1>11. Policy!Cardinality(Policy!Resident) = Len(C)
  BY <1>1, CountIs
<1>12. Policy!Load(p)
  BY <1>1, <1>2, <1>3, <1>4, <1>7, <1>10, <1>11 DEF Policy!Load, Policy!Youngest
<1> QED BY <1>12 DEF p


LEMMA TurnImplements ==
  ASSUME IInv, View, View', simulate
  PROVE  Policy!Next
<1>1. /\ status = "running" /\ i < Len(pages) /\ i' = i + 1 /\ UNCHANGED input
      /\ Served(pages[i + 1]) \/ Fault(pages[i + 1])
  BY DEF simulate
<1>2. UNCHANGED <<pages, frameCount, algorithm>> BY <1>1 DEF input
<1>3. Inputs BY DEF IInv
<1>4. Policy!Hit(pages[i + 1]) \/ Policy!Load(pages[i + 1])
        \/ Policy!Replace(pages[i + 1]) \/ Policy!NoFrames
  <2>1. CASE Live
    <3>1. PICK L, C : Holds(heap, tail, length, printed, i, L, C) BY <2>1 DEF IInv, Held
    <3>2. (\E k \in 1 .. Len(C) : HitsOne(C, k)) \/ ReplacesFirst(C) \/ LoadsNext(C)
      BY <1>3, <2>1, <3>1, TurnOf
    <3>3. ASSUME NEW k \in 1 .. Len(C), HitsOne(C, k) PROVE Policy!Hit(pages[i + 1])
      <4>1. printed' = printed
        <5>1. ~ Fault(pages[i + 1]) BY <3>3 DEF HitsOne, Fault, IInv, Inputs
        <5> QED BY <1>1, <5>1 DEF Served
      <4> QED BY <1>3, <3>1, <3>3, <4>1, HitImplements
    <3>4. CASE ReplacesFirst(C)
      <4>1. frameCount > 0 BY <2>1 DEF Live
      <4> QED BY <1>1, <1>3, <3>1, <3>4, <4>1, ReplaceImplements
    <3>5. CASE LoadsNext(C) BY <1>1, <1>3, <3>1, <3>5, LoadImplements
    <3> QED BY <3>2, <3>3, <3>4, <3>5
  <2>2. CASE ~ Live
    <3>1. heap = <<>> /\ length = 0 /\ ~ (frameCount > 0) /\ frameCount \in Int
      BY <1>1, <2>2 DEF IInv, Live, Inputs
    <3>2. ~ inQueue(pages[i + 1]) BY <3>1 DEF inQueue, isQueueEmpty
    <3>3. heap' = <<>> /\ faults' = faults + 1
      BY <1>1, <3>1, <3>2 DEF Served, Fault, queue
    <3>4. frame = [p \in Page |-> 0] /\ older = {} BY <3>1 DEF View
    <3>5. frame' = [p \in Page |-> 0] /\ older' = {} BY <3>3 DEF View
    <3> QED BY <3>1, <3>3, <3>4, <3>5 DEF Policy!NoFrames
  <2> QED BY <2>1, <2>2
<1> QED BY <1>1, <1>2, <1>4 DEF Policy!Next, Policy!Reference

LEMMA SameFrames ==
  ASSUME NEW C, NEW f, NEW g, FrameOf(f, C), FrameOf(g, C)
  PROVE  f = g
<1>1. \A p \in Page : f[p] = g[p] BY DEF FrameOf, DataOf
<1> QED BY <1>1 DEF FrameOf

LEMMA StutterImplements ==
  ASSUME IInv, View, View', UNCHANGED vars
  PROVE  UNCHANGED Policy!vars
<1>1. /\ UNCHANGED <<pages, frameCount, algorithm, i, faults, heap, tail, length, printed, status>>
  BY DEF vars, input, queue
<1>2. CASE Live
  <2>1. PICK L, C : Holds(heap, tail, length, printed, i, L, C) BY <1>2 DEF IInv, Held
  <2>2. FrameOf(frame, C) /\ older = AgeOf(C) BY <2>1, PolicyView
  <2>3. Holds(heap', tail', length', printed', i, L, C) BY <1>1, <2>1
  <2>4. FrameOf(frame', C) /\ older' = AgeOf(C) BY <2>3, ViewNext
  <2>5. frame' = frame BY <2>2, <2>4, SameFrames
  <2> QED BY <1>1, <2>2, <2>4, <2>5 DEF Policy!vars
<1>3. CASE ~ Live
  <2>1. heap = <<>> /\ heap' = <<>> BY <1>1, <1>3 DEF IInv
  <2>2. frame = [p \in Page |-> 0] /\ older = {} BY <2>1 DEF View
  <2>3. frame' = [p \in Page |-> 0] /\ older' = {} BY <2>1 DEF View
  <2> QED BY <1>1, <2>2, <2>3 DEF Policy!vars
<1> QED BY <1>2, <1>3

LEMMA StepImplements ==
  ASSUME IInv, View, View', [Next]_vars
  PROVE  [Policy!Next]_(Policy!vars)
<1>1. CASE simulate BY <1>1, TurnImplements
<1>2. CASE Finish
  <2>1. /\ i = Len(pages) /\ heap' = freeQueue
        /\ UNCHANGED <<pages, frameCount, algorithm, i, faults>>
    BY <1>2 DEF Finish, input
  <2>2. heap' = <<>> BY <2>1, FreedAll
  <2>3. frame' = [p \in Page |-> 0] /\ older' = {} BY <2>2 DEF View
  <2>4. Policy!Next BY <2>1, <2>3 DEF Policy!Next, Policy!Finish
  <2> QED BY <2>4
<1>3. CASE UNCHANGED vars BY <1>3, StutterImplements
<1> QED BY <1>1, <1>2, <1>3 DEF Next

LEMMA InitImplements ==
  ASSUME Init, View
  PROVE  Policy!Init
<1>1. i = 0 /\ faults = 0 BY DEF Init
<1>2. CASE Live
  <2>1. Holds(heap, tail, length, printed, i, <<head>>, <<>>) BY <1>2, InitHeld
  <2>2. FrameOf(frame, <<>>) /\ older = AgeOf(<<>>) BY <2>1, PolicyView
  <2>3. Len(<<>>) = 0 /\ \A k \in 1 .. 0 : FALSE OBVIOUS
  <2>4. DataOf(<<>>) = {} /\ AgeOf(<<>>) = {} BY <2>3 DEF DataOf, AgeOf
  <2>5. frame = [p \in Page |-> 0] BY <2>2, <2>4 DEF FrameOf
  <2> QED BY <1>1, <2>2, <2>4, <2>5 DEF Policy!Init
<1>3. CASE ~ Live
  <2>1. heap = <<>> BY <1>3, InitHeld DEF IInv
  <2> QED BY <1>1, <2>1 DEF View, Policy!Init
<1> QED BY <1>2, <1>3

(* The queue of linked nodes implements the replacement policy of Paging:   *)
(* it evicts the oldest page, by load or by last use, and gives the new     *)
(* page the frame of that one, or the lowest unused frame.                  *)
THEOREM ImplementsPolicy == Spec => ImplementsPaging
<1>1. View BY ViewIs
<1>2. Init /\ View => Policy!Init BY InitImplements
<1>3. IInv /\ View /\ View' /\ [Next]_vars => [Policy!Next]_(Policy!vars) BY StepImplements
<1> QED BY <1>1, <1>2, <1>3, AlwaysInductive, PTL DEF Spec, ImplementsPaging, Policy!Spec
=============================================================================
