----------------------------- MODULE MemAlloc_proofs -----------------------------
(* What 2-3.c keeps of its memory, for any sizes, requests and slice.             *)
EXTENDS MemAlloc, SequenceTheorems, WellFoundedInduction, TLAPS

-----------------------------------------------------------------------------
(* Induction and the like.  The theorems of the library take an operator;  *)
(* these take sets and functions.                                          *)

(* A non-empty set of naturals has a least element: what the code's scans of   *)
(* its lists for the first block that fits find.                               *)
LEMMA LeastNat ==
  ASSUME NEW S, S \subseteq Nat, S # {}
  PROVE  \E x \in S : \A y \in S : x <= y
<1>. DEFINE R == OpToRel(<, Nat)
<1>1. IsWellFoundedOn(R, Nat)
  BY NatLessThanWellFounded
<1>2. \E x \in S : \A y \in S : ~ (<<y, x>> \in R)
  <2>. HIDE DEF R
  <2>. QED BY <1>1, WFMin
<1>3. \A x \in S, y \in S : y < x => <<y, x>> \in R
  BY DEF OpToRel
<1>. HIDE DEF R
<1>4. PICK x \in S : \A y \in S : ~ (<<y, x>> \in R)
  BY <1>2
<1>5. \A y \in S : ~ (y < x)
  BY <1>3, <1>4
<1>. QED BY <1>5

(* Min returns that least element.                                             *)
LEMMA MinOfNats ==
  ASSUME NEW S, S \subseteq Nat, S # {}
  PROVE  /\ Min(S) \in S
         /\ \A y \in S : Min(S) <= y
BY LeastNat DEF Min

(* Induction over an interval, for the set of the numbers that have a property. *)
LEMMA Induction ==
  ASSUME NEW a \in Int, NEW n \in Int, NEW T, a \in T,
         \A k \in a .. n - 1 : k \in T => k + 1 \in T
  PROVE  a .. n \subseteq T
<1> DEFINE missing == {d \in Nat : a + d \in a .. n /\ a + d \notin T}
<1> SUFFICES ASSUME missing # {} PROVE FALSE
  <2> SUFFICES ASSUME NEW k \in a .. n, k \notin T, missing = {} PROVE FALSE OBVIOUS
  <2>1. k - a \in Nat /\ a + (k - a) = k OBVIOUS
  <2>2. k - a \in missing BY <2>1
  <2> QED BY <2>2
<1>1. missing \subseteq Nat OBVIOUS
<1> HIDE DEF missing
<1>2. PICK d \in missing : \A e \in missing : d <= e BY <1>1, LeastNat
<1>3. d \in Nat /\ a + d \in a .. n /\ a + d \notin T BY <1>2 DEF missing
<1>4. d # 0 /\ d - 1 \in Nat /\ a + (d - 1) \in a .. n - 1 BY <1>3
<1>5. d - 1 \in missing \/ a + (d - 1) \in T BY <1>3, <1>4 DEF missing
<1>6. a + (d - 1) \notin T BY <1>3, <1>4
<1> QED BY <1>2, <1>3, <1>4, <1>5, <1>6

(* A recursive definition over an interval has a solution: the step from each  *)
(* value to the next is given as a function.                                   *)
Solvable(a, n, S, base, step) ==
  \E f \in [a .. n -> S] : f[a] = base /\ \A k \in a + 1 .. n : f[k] = step[k][f[k - 1]]

LEMMA Recursion ==
  ASSUME NEW a \in Int, NEW n \in Int, a <= n, NEW S, NEW base \in S,
         NEW step, step \in [a + 1 .. n -> [S -> S]]
  PROVE  Solvable(a, n, S, base, step)
<1> DEFINE Solves(f, m) == f[a] = base /\ \A k \in a + 1 .. m : f[k] = step[k][f[k - 1]]
           T == {m \in a .. n : \E f \in [a .. m -> S] : Solves(f, m)}
<1>1. a \in T
  <2> DEFINE g == [k \in a .. a |-> base]
  <2>1. g \in [a .. a -> S] /\ Solves(g, a) OBVIOUS
  <2>2. a \in a .. n OBVIOUS
  <2> HIDE DEF g, Solves
  <2> QED BY <2>1, <2>2
<1>2. ASSUME NEW m \in a .. n - 1, m \in T PROVE m + 1 \in T
  <2>1. PICK f \in [a .. m -> S] : Solves(f, m) BY <1>2
  <2> DEFINE g == [k \in a .. m + 1 |-> IF k = m + 1 THEN step[m + 1][f[m]] ELSE f[k]]
  <2>2. m + 1 \in a + 1 .. n /\ f[m] \in S /\ step[m + 1][f[m]] \in S BY <1>2
  <2>3. g \in [a .. m + 1 -> S] BY <2>2
  <2>4. g[a] = base BY <2>1
  <2>5. ASSUME NEW k \in a + 1 .. m + 1 PROVE g[k] = step[k][g[k - 1]]
    <3>1. CASE k = m + 1 BY <3>1
    <3>2. CASE k # m + 1
      <4>1. k \in a + 1 .. m /\ k - 1 \in a .. m BY <3>2
      <4> QED BY <2>1, <4>1
    <3> QED BY <3>1, <3>2
  <2> HIDE DEF g
  <2>6. Solves(g, m + 1) BY <2>4, <2>5
  <2> QED BY <2>2, <2>3, <2>6, SMTT(30)
<1> HIDE DEF T
<1>3. a .. n \subseteq T BY <1>1, <1>2, Induction
<1>4. n \in T BY <1>3
<1> QED BY <1>4 DEF T, Solvable

(* Prefix sums f of the numbers z: what an exchange, a removal, a new      *)
(* first or last number does to the sum.                                   *)

Adds(f, n, z) == f[0] = 0 /\ \A j \in 1 .. n : f[j] = f[j - 1] + z[j]

LEMMA AddsOnce ==
  ASSUME NEW n \in Nat, NEW z, NEW f, NEW g, Adds(f, n, z), Adds(g, n, z)
  PROVE  f[n] = g[n]
<1> DEFINE T == {k \in 0 .. n : f[k] = g[k]}
<1>1. 0 \in T BY DEF Adds
<1>2. ASSUME NEW k \in 0 .. n - 1, k \in T PROVE k + 1 \in T
  <2>1. k + 1 \in 1 .. n /\ k + 1 - 1 = k OBVIOUS
  <2>2. f[k + 1] = f[k] + z[k + 1] /\ g[k + 1] = g[k] + z[k + 1] BY <2>1 DEF Adds
  <2> QED BY <1>2, <2>1, <2>2
<1>3. n \in 0 .. n /\ n \in Int /\ 0 \in Int OBVIOUS
<1> HIDE DEF T
<1>4. 0 .. n \subseteq T BY <1>1, <1>2, <1>3, Induction
<1> QED BY <1>3, <1>4 DEF T

LEMMA AddsRemoved ==
  ASSUME NEW n \in Nat, NEW k \in 1 .. n, NEW z \in [1 .. n -> Nat],
         NEW f \in [0 .. n -> Nat], Adds(f, n, z), NEW y \in [1 .. n - 1 -> Nat],
         \A j \in 1 .. n - 1 : y[j] = IF j < k THEN z[j] ELSE z[j + 1]
  PROVE  \E g \in [0 .. n - 1 -> Int] : Adds(g, n - 1, y) /\ g[n - 1] = f[n] - z[k]
<1> DEFINE g == [j \in 0 .. n - 1 |-> IF j < k THEN f[j] ELSE f[j + 1] - z[k]]
<1>1. \A j \in 1 .. n : f[j] = f[j - 1] + z[j] /\ f[j] \in Nat /\ f[j - 1] \in Nat /\ z[j] \in Nat BY DEF Adds
<1>2. g \in [0 .. n - 1 -> Int]
  <2> SUFFICES ASSUME NEW j \in 0 .. n - 1 PROVE (IF j < k THEN f[j] ELSE f[j + 1] - z[k]) \in Int
    OBVIOUS
  <2>1. j \in 0 .. n /\ j + 1 \in 0 .. n OBVIOUS
  <2>2. f[j] \in Nat /\ f[j + 1] \in Nat /\ z[k] \in Nat BY <2>1
  <2> QED BY <2>2
<1>3. g[0] = 0 BY DEF Adds
<1>4. ASSUME NEW j \in 1 .. n - 1 PROVE g[j] = g[j - 1] + y[j]
  <2>1. j \in 1 .. n /\ j + 1 \in 1 .. n /\ j \in 0 .. n - 1 /\ j - 1 \in 0 .. n - 1 OBVIOUS
  <2>2. f[j] = f[j - 1] + z[j] /\ f[j] \in Nat /\ f[j - 1] \in Nat /\ z[j] \in Nat BY <1>1, <2>1
  <2>3. f[j + 1] = f[j] + z[j + 1] /\ f[j + 1] \in Nat /\ z[j + 1] \in Nat BY <1>1, <2>1
  <2>4. z[k] \in Nat OBVIOUS
  <2>5. CASE j < k BY <2>1, <2>2, <2>5
  <2>6. CASE j = k
    <3>1. g[j] = f[j + 1] - z[j] /\ g[j - 1] = f[j - 1] /\ y[j] = z[j + 1] BY <2>1, <2>6
    <3> HIDE DEF g
    <3> QED BY <2>2, <2>3, <3>1, SMTT(30)
  <2>7. CASE j > k
    <3>1. g[j] = f[j + 1] - z[k] /\ g[j - 1] = f[j] - z[k] /\ y[j] = z[j + 1] BY <2>1, <2>7
    <3> HIDE DEF g
    <3> QED BY <2>2, <2>3, <2>4, <3>1, SMTT(30)
  <2> QED BY <2>5, <2>6, <2>7
<1>5. g[n - 1] = f[n] - z[k] BY <1>1
<1> HIDE DEF g
<1> QED BY <1>2, <1>3, <1>4, <1>5 DEF Adds

LEMMA AddsReplaced ==
  ASSUME NEW n \in Nat, NEW k \in 1 .. n, NEW z \in [1 .. n -> Nat],
         NEW f \in [0 .. n -> Nat], Adds(f, n, z), NEW y \in [1 .. n -> Nat],
         \A j \in 1 .. n : j # k => y[j] = z[j]
  PROVE  \E g \in [0 .. n -> Int] : Adds(g, n, y) /\ g[n] = f[n] - z[k] + y[k]
<1> DEFINE g == [j \in 0 .. n |-> IF j < k THEN f[j] ELSE f[j] - z[k] + y[k]]
<1>1. \A j \in 1 .. n : f[j] = f[j - 1] + z[j] /\ f[j] \in Nat /\ f[j - 1] \in Nat /\ z[j] \in Nat
  BY DEF Adds
<1>2. g \in [0 .. n -> Int] BY <1>1
<1>3. g[0] = 0 BY DEF Adds
<1>4. ASSUME NEW j \in 1 .. n PROVE g[j] = g[j - 1] + y[j]
  <2>1. j \in 0 .. n /\ j - 1 \in 0 .. n OBVIOUS
  <2>2. f[j] = f[j - 1] + z[j] /\ f[j] \in Nat /\ f[j - 1] \in Nat /\ z[j] \in Nat BY <1>1
  <2>3. z[k] \in Nat /\ y[k] \in Nat OBVIOUS
  <2>4. CASE j < k BY <2>1, <2>2, <2>4
  <2>5. CASE j = k
    <3>1. g[j] = f[j] - z[j] + y[j] /\ g[j - 1] = f[j - 1] BY <2>1, <2>5
    <3> HIDE DEF g
    <3> QED BY <2>2, <2>3, <2>5, <3>1
  <2>6. CASE j > k
    <3>1. g[j] = f[j] - z[k] + y[k] /\ g[j - 1] = f[j - 1] - z[k] + y[k] /\ y[j] = z[j]
      BY <2>1, <2>6
    <3> HIDE DEF g
    <3> QED BY <2>2, <2>3, <3>1
  <2> QED BY <2>4, <2>5, <2>6
<1>5. g[n] = f[n] - z[k] + y[k] BY <1>1
<1> HIDE DEF g
<1> QED BY <1>2, <1>3, <1>4, <1>5 DEF Adds

LEMMA AddsCons ==
  ASSUME NEW n \in Nat, NEW z \in [1 .. n -> Nat],
         NEW f \in [0 .. n -> Nat], Adds(f, n, z), NEW y \in [1 .. n + 1 -> Nat],
         \A j \in 1 .. n : y[j + 1] = z[j]
  PROVE  \E g \in [0 .. n + 1 -> Int] : Adds(g, n + 1, y) /\ g[n + 1] = f[n] + y[1]
<1> DEFINE g == [j \in 0 .. n + 1 |-> IF j = 0 THEN 0 ELSE f[j - 1] + y[1]]
<1>1. \A j \in 1 .. n : f[j] = f[j - 1] + z[j] /\ f[j] \in Nat /\ f[j - 1] \in Nat /\ z[j] \in Nat
  BY DEF Adds
<1>0. f[0] = 0 /\ y[1] \in Nat BY DEF Adds
<1>2. g \in [0 .. n + 1 -> Int] BY <1>0
<1>3. g[0] = 0 OBVIOUS
<1>4. ASSUME NEW j \in 1 .. n + 1 PROVE g[j] = g[j - 1] + y[j]
  <2>1. j \in 0 .. n + 1 /\ j - 1 \in 0 .. n + 1 OBVIOUS
  <2>2. CASE j = 1 BY <1>0, <2>1, <2>2
  <2>3. CASE j # 1
    <3> DEFINE i == j - 1
    <3>1. i \in 1 .. n /\ j = i + 1 BY <2>3
    <3>2. g[j] = f[i] + y[1] /\ g[j - 1] = f[i - 1] + y[1] /\ y[j] = z[i] BY <2>1, <2>3, <3>1
    <3> HIDE DEF g, i
    <3>3. f[i] = f[i - 1] + z[i] /\ f[i - 1] \in Nat /\ z[i] \in Nat BY <1>1, <3>1
    <3> QED BY <1>0, <3>2, <3>3
  <2> QED BY <2>2, <2>3
<1>5. g[n + 1] = f[n] + y[1] BY <1>0
<1> HIDE DEF g
<1> QED BY <1>2, <1>3, <1>4, <1>5 DEF Adds

LEMMA AddsAppended ==
  ASSUME NEW n \in Nat, NEW z \in [1 .. n -> Nat],
         NEW f \in [0 .. n -> Nat], Adds(f, n, z), NEW y \in [1 .. n + 1 -> Nat],
         \A j \in 1 .. n : y[j] = z[j]
  PROVE  \E g \in [0 .. n + 1 -> Int] : Adds(g, n + 1, y) /\ g[n + 1] = f[n] + y[n + 1]
<1> DEFINE g == [j \in 0 .. n + 1 |-> IF j = n + 1 THEN f[n] + y[n + 1] ELSE f[j]]
<1>1. f[n] \in Nat /\ y[n + 1] \in Nat /\ f[0] = 0 BY DEF Adds
<1>2. g \in [0 .. n + 1 -> Int] BY <1>1
<1>3. g[0] = 0 BY <1>1
<1>4. ASSUME NEW j \in 1 .. n + 1 PROVE g[j] = g[j - 1] + y[j]
  <2>1. CASE j = n + 1 BY <1>1, <2>1
  <2>2. CASE j # n + 1
    <3>1. j \in 1 .. n BY <2>2
    <3>2. f[j] = f[j - 1] + z[j] BY <3>1 DEF Adds
    <3> QED BY <3>1, <3>2
  <2> QED BY <2>1, <2>2
<1>5. g[n + 1] = f[n] + y[n + 1] BY <1>1
<1> HIDE DEF g
<1> QED BY <1>2, <1>3, <1>4, <1>5 DEF Adds

(* Prefix sums do not fall, and every number below the last lies under one.    *)
LEMMA AddsMonotone ==
  ASSUME NEW n \in Nat, NEW z \in [1 .. n -> Nat], NEW f \in [0 .. n -> Nat], Adds(f, n, z),
         NEW i \in 0 .. n, NEW j \in i .. n
  PROVE  f[i] <= f[j]
<1> DEFINE T == {k \in i .. n : f[i] <= f[k]}
<1>1. i \in T BY DEF T
<1>2. ASSUME NEW k \in i .. n - 1, k \in T PROVE k + 1 \in T
  <2>1. k + 1 \in 1 .. n /\ k + 1 - 1 = k /\ k + 1 \in i .. n /\ k \in 0 .. n OBVIOUS
  <2>2. f[k + 1] = f[k] + z[k + 1] /\ z[k + 1] \in Nat BY <2>1 DEF Adds
  <2>3. f[k] \in Nat /\ f[i] \in Nat /\ f[i] <= f[k] BY <1>2, <2>1
  <2>4. f[i] <= f[k + 1] BY <2>2, <2>3
  <2> QED BY <2>1, <2>4
<1>3. i \in Int /\ n \in Int /\ j \in i .. n OBVIOUS
<1> HIDE DEF T
<1>4. i .. n \subseteq T BY <1>1, <1>2, <1>3, Induction, Zenon
<1> QED BY <1>3, <1>4 DEF T

LEMMA AddsBetween ==
  ASSUME NEW n \in Nat, NEW z \in [1 .. n -> Nat], NEW f \in [0 .. n -> Nat], Adds(f, n, z),
         NEW a \in Nat, a < f[n]
  PROVE  \E k \in 1 .. n : f[k - 1] <= a /\ a < f[k]
<1> DEFINE T == {k \in 0 .. n : a < f[k]}
<1>1. n \in T /\ T \subseteq Nat OBVIOUS
<1>2. PICK k \in T : \A j \in T : k <= j
  <2> HIDE DEF T
  <2> QED BY <1>1, LeastNat
<1>3. k # 0 BY DEF Adds
<1>4. k \in 1 .. n /\ k - 1 \in 0 .. n BY <1>3
<1>5. ~ (a < f[k - 1]) BY <1>2, <1>4
<1>6. f[k - 1] \in Nat /\ a < f[k] BY <1>2, <1>4
<1>7. f[k - 1] <= a BY <1>5, <1>6
<1> QED BY <1>4, <1>6, <1>7

(* What RemoveAt and InsertAt make of a sequence, by position.                 *)
LEMMA RemoveAtAs ==
  ASSUME NEW R, NEW s \in Seq(R), NEW k \in 1 .. Len(s)
  PROVE  /\ RemoveAt(s, k) \in Seq(R) /\ Len(RemoveAt(s, k)) = Len(s) - 1
         /\ \A j \in 1 .. Len(s) - 1 :
              RemoveAt(s, k)[j] = IF j < k THEN s[j] ELSE s[j + 1]
<1> DEFINE a == SubSeq(s, 1, k - 1)
           b == SubSeq(s, k + 1, Len(s))
<1>1. a \in Seq(R) /\ Len(a) = k - 1 /\ \A j \in 1 .. k - 1 : a[j] = s[j] OBVIOUS
<1>2. b \in Seq(R) /\ Len(b) = Len(s) - k /\ \A j \in 1 .. Len(s) - k : b[j] = s[k + j]
  <2>1. k + 1 \in 1 .. Len(s) + 1 /\ Len(s) \in k .. Len(s) OBVIOUS
  <2> QED BY <2>1, SubSeqProperties
<1>3. RemoveAt(s, k) = a \o b BY DEF RemoveAt
<1> HIDE DEF a, b
<1>4. /\ a \o b \in Seq(R) /\ Len(a \o b) = Len(s) - 1
      /\ \A j \in 1 .. Len(s) - 1 : (a \o b)[j] = IF j < k THEN a[j] ELSE b[j - (k - 1)]
  BY <1>1, <1>2
<1>5. \A j \in 1 .. Len(s) - 1 : (a \o b)[j] = IF j < k THEN s[j] ELSE s[j + 1]
  <2> SUFFICES ASSUME NEW j \in 1 .. Len(s) - 1
               PROVE  (a \o b)[j] = IF j < k THEN s[j] ELSE s[j + 1]
    OBVIOUS
  <2>1. CASE j < k BY <1>1, <1>4, <2>1
  <2>2. CASE ~ (j < k)
    <3>1. j - (k - 1) \in 1 .. Len(s) - k /\ k + (j - (k - 1)) = j + 1 BY <2>2
    <3> QED BY <1>2, <1>4, <2>2, <3>1
  <2> QED BY <2>1, <2>2
<1> QED BY <1>3, <1>4, <1>5

-----------------------------------------------------------------------------

-----------------------------------------------------------------------------
(* What a new first node makes of a list, by position.                     *)
LEMMA ConsAs ==
  ASSUME NEW R, NEW s \in Seq(R), NEW b \in R
  PROVE  /\ <<b>> \o s \in Seq(R) /\ Len(<<b>> \o s) = Len(s) + 1
         /\ (<<b>> \o s)[1] = b
         /\ \A j \in 1 .. Len(s) : (<<b>> \o s)[j + 1] = s[j]
OBVIOUS

-----------------------------------------------------------------------------
(* Total is the last prefix sum of the sizes.                              *)
Sizes(s) == [j \in 1 .. Len(s) |-> s[j].size]

LEMMA TotalFun ==
  ASSUME NEW R, \A r \in R : r.size \in Nat, NEW s \in Seq(R)
  PROVE  /\ Sizes(s) \in [1 .. Len(s) -> Nat]
         /\ \E f \in [0 .. Len(s) -> Nat] : Adds(f, Len(s), Sizes(s)) /\ Total(s) = f[Len(s)]
<1> DEFINE n == Len(s)
           step == [k \in 1 .. n |-> [x \in Nat |-> x + s[k].size]]
           sum[k \in 0 .. n] == IF k = 0 THEN 0 ELSE sum[k - 1] + s[k].size
<1>1. n \in Nat /\ \A k \in 1 .. n : s[k].size \in Nat OBVIOUS
<1>2. step \in [1 .. n -> [Nat -> Nat]] BY <1>1
<1>3. PICK f \in [0 .. n -> Nat] : f[0] = 0 /\ \A k \in 0 + 1 .. n : f[k] = step[k][f[k - 1]]
  <2>1. n \in Int /\ 0 \in Int /\ 0 <= n /\ 0 \in Nat  BY <1>1
  <2>2. step \in [0 + 1 .. n -> [Nat -> Nat]] BY <1>2
  <2> HIDE DEF step, n
  <2>3. Solvable(0, n, Nat, 0, step) BY <2>1, <2>2, Recursion, Zenon
  <2> QED BY <2>3, Zenon DEF Solvable
<1>4. \A k \in 1 .. n : f[k - 1] \in Nat /\ f[k] = f[k - 1] + s[k].size
  <2> SUFFICES ASSUME NEW k \in 1 .. n PROVE f[k - 1] \in Nat /\ f[k] = f[k - 1] + s[k].size
    OBVIOUS
  <2>1. k \in 0 + 1 .. n /\ k - 1 \in 0 .. n BY <1>1
  <2>2. f[k] = step[k][f[k - 1]] /\ f[k - 1] \in Nat BY <1>3, <2>1
  <2> QED BY <2>1, <2>2
<1>5. f = [k \in 0 .. n |-> IF k = 0 THEN 0 ELSE f[k - 1] + s[k].size] BY <1>1, <1>3, <1>4
<1>6. sum = [k \in 0 .. n |-> IF k = 0 THEN 0 ELSE sum[k - 1] + s[k].size]
  <2> HIDE DEF n
  <2> QED BY <1>5 DEF sum
<1>7. Total(s) = sum[n] BY DEF Total
<1> HIDE DEF sum, step
<1>8. sum[n] = f[n]
  <2> DEFINE T == {k \in 0 .. n : sum[k] = f[k]}
  <2>1. 0 \in T BY <1>1, <1>3, <1>6
  <2>2. ASSUME NEW k \in 0 .. n - 1, k \in T PROVE k + 1 \in T
    <3>1. k + 1 \in 1 .. n /\ k + 1 - 1 = k BY <1>1
    <3>2. sum[k + 1] = sum[k] + s[k + 1].size BY <1>1, <1>6, <3>1
    <3> QED BY <1>4, <2>2, <3>1, <3>2
  <2>3. n \in 0 .. n /\ 0 \in Int /\ n \in Int BY <1>1
  <2> HIDE DEF T, n
  <2>4. 0 .. n \subseteq T BY <2>1, <2>2, <2>3, Induction
  <2> QED BY <2>3, <2>4 DEF T
<1>9. \A k \in 1 .. n : f[k] = f[k - 1] + Sizes(s)[k] BY <1>4 DEF Sizes
<1>10. Sizes(s) \in [1 .. n -> Nat] BY <1>1 DEF Sizes
<1> QED BY <1>3, <1>7, <1>8, <1>9, <1>10 DEF Adds

LEMMA TotalIs ==
  ASSUME NEW R, \A r \in R : r.size \in Nat, NEW s \in Seq(R),
         NEW g, Adds(g, Len(s), Sizes(s))
  PROVE  Total(s) = g[Len(s)]
<1>1. PICK f \in [0 .. Len(s) -> Nat] : Adds(f, Len(s), Sizes(s)) /\ Total(s) = f[Len(s)]
  BY TotalFun
<1>2. Len(s) \in Nat OBVIOUS
<1> QED BY <1>1, <1>2, AddsOnce

LEMMA TotalNat ==
  ASSUME NEW R, \A r \in R : r.size \in Nat, NEW s \in Seq(R)
  PROVE  Total(s) \in Nat
<1>1. PICK f \in [0 .. Len(s) -> Nat] : Total(s) = f[Len(s)] BY TotalFun
<1> QED BY <1>1

LEMMA TotalEmpty == Total(<<>>) = 0
<1>1. <<>> \in Seq({}) /\ Len(<<>>) = 0 /\ \A r \in {} : r.size \in Nat OBVIOUS
<1>2. PICK f : Adds(f, Len(<<>>), Sizes(<<>>)) /\ Total(<<>>) = f[Len(<<>>)] BY <1>1, TotalFun
<1> QED BY <1>1, <1>2 DEF Adds

LEMMA TotalReplaced ==
  ASSUME NEW R, \A r \in R : r.size \in Nat, NEW s \in Seq(R), NEW k \in 1 .. Len(s), NEW v \in R
  PROVE  Total([s EXCEPT ![k] = v]) = Total(s) - s[k].size + v.size
<1> DEFINE t == [s EXCEPT ![k] = v]
<1>1. t \in Seq(R) /\ Len(t) = Len(s) /\ Len(s) \in Nat
      /\ \A j \in 1 .. Len(s) : t[j] = IF j = k THEN v ELSE s[j]
  OBVIOUS
<1> HIDE DEF t
<1>2. PICK f \in [0 .. Len(s) -> Nat] : Adds(f, Len(s), Sizes(s)) /\ Total(s) = f[Len(s)]
  BY TotalFun
<1>3. Sizes(s) \in [1 .. Len(s) -> Nat] /\ Sizes(t) \in [1 .. Len(s) -> Nat] BY <1>1, TotalFun
<1>4. /\ \A j \in 1 .. Len(s) : j # k => Sizes(t)[j] = Sizes(s)[j]
      /\ Sizes(s)[k] = s[k].size /\ Sizes(t)[k] = v.size
  BY <1>1 DEF Sizes
<1>5. PICK g : Adds(g, Len(s), Sizes(t)) /\ g[Len(s)] = f[Len(s)] - Sizes(s)[k] + Sizes(t)[k]
  BY <1>1, <1>2, <1>3, <1>4, AddsReplaced, ZenonT(30)
<1>6. Total(t) = g[Len(t)] BY <1>1, <1>5, TotalIs
<1> QED BY <1>1, <1>2, <1>4, <1>5, <1>6 DEF t

LEMMA TotalRemoved ==
  ASSUME NEW R, \A r \in R : r.size \in Nat, NEW s \in Seq(R), NEW k \in 1 .. Len(s)
  PROVE  Total(RemoveAt(s, k)) = Total(s) - s[k].size
<1> DEFINE t == RemoveAt(s, k)
<1>1. t \in Seq(R) /\ Len(t) = Len(s) - 1 /\ Len(s) \in Nat
      /\ \A j \in 1 .. Len(s) - 1 : t[j] = IF j < k THEN s[j] ELSE s[j + 1]
  BY RemoveAtAs
<1> HIDE DEF t
<1>2. PICK f \in [0 .. Len(s) -> Nat] : Adds(f, Len(s), Sizes(s)) /\ Total(s) = f[Len(s)]
  BY TotalFun
<1>3. Sizes(s) \in [1 .. Len(s) -> Nat] /\ Sizes(t) \in [1 .. Len(s) - 1 -> Nat]
  BY <1>1, TotalFun
<1>4. /\ \A j \in 1 .. Len(s) - 1 : Sizes(t)[j] = IF j < k THEN Sizes(s)[j] ELSE Sizes(s)[j + 1]
      /\ Sizes(s)[k] = s[k].size
  BY <1>1 DEF Sizes
<1>5. PICK g : Adds(g, Len(s) - 1, Sizes(t)) /\ g[Len(s) - 1] = f[Len(s)] - Sizes(s)[k]
  BY <1>1, <1>2, <1>3, <1>4, AddsRemoved, ZenonT(30)
<1>6. Total(t) = g[Len(t)] BY <1>1, <1>5, TotalIs
<1> QED BY <1>1, <1>2, <1>4, <1>5, <1>6 DEF t

LEMMA TotalCons ==
  ASSUME NEW R, \A r \in R : r.size \in Nat, NEW s \in Seq(R), NEW b \in R
  PROVE  Total(<<b>> \o s) = Total(s) + b.size
<1> DEFINE t == <<b>> \o s
<1>1. t \in Seq(R) /\ Len(t) = Len(s) + 1 /\ Len(s) \in Nat /\ t[1] = b
      /\ \A j \in 1 .. Len(s) : t[j + 1] = s[j]
  BY ConsAs
<1> HIDE DEF t
<1>2. PICK f \in [0 .. Len(s) -> Nat] : Adds(f, Len(s), Sizes(s)) /\ Total(s) = f[Len(s)]
  BY TotalFun
<1>3. Sizes(s) \in [1 .. Len(s) -> Nat] /\ Sizes(t) \in [1 .. Len(s) + 1 -> Nat]
  BY <1>1, TotalFun
<1>4. (\A j \in 1 .. Len(s) : Sizes(t)[j + 1] = Sizes(s)[j]) /\ Sizes(t)[1] = b.size
  BY <1>1 DEF Sizes
<1>5. PICK g \in [0 .. Len(s) + 1 -> Int] :
             Adds(g, Len(s) + 1, Sizes(t)) /\ g[Len(s) + 1] = f[Len(s)] + Sizes(t)[1]
  <2> DEFINE z == Sizes(s)
             y == Sizes(t)
             n == Len(s)
  <2>1. /\ n \in Nat /\ z \in [1 .. n -> Nat] /\ f \in [0 .. n -> Nat] /\ Adds(f, n, z)
        /\ y \in [1 .. n + 1 -> Nat] /\ \A j \in 1 .. n : y[j + 1] = z[j]
    BY <1>1, <1>2, <1>3, <1>4
  <2> HIDE DEF z, y, n
  <2>2. \E g \in [0 .. n + 1 -> Int] : Adds(g, n + 1, y) /\ g[n + 1] = f[n] + y[1]
    BY <2>1, AddsCons
  <2> QED BY <2>2 DEF n, y
<1>6. Total(t) = g[Len(t)] BY <1>1, <1>5, TotalIs
<1> QED BY <1>1, <1>2, <1>4, <1>5, <1>6 DEF t

LEMMA TotalAppended ==
  ASSUME NEW R, \A r \in R : r.size \in Nat, NEW s \in Seq(R), NEW b \in R
  PROVE  Total(Append(s, b)) = Total(s) + b.size
<1> DEFINE t == Append(s, b)
<1>1. t \in Seq(R) /\ Len(t) = Len(s) + 1 /\ Len(s) \in Nat /\ t[Len(s) + 1] = b
      /\ \A j \in 1 .. Len(s) : t[j] = s[j]
  OBVIOUS
<1> HIDE DEF t
<1>2. PICK f \in [0 .. Len(s) -> Nat] : Adds(f, Len(s), Sizes(s)) /\ Total(s) = f[Len(s)]
  BY TotalFun
<1>3. Sizes(s) \in [1 .. Len(s) -> Nat] /\ Sizes(t) \in [1 .. Len(s) + 1 -> Nat]
  BY <1>1, TotalFun
<1>4. (\A j \in 1 .. Len(s) : Sizes(t)[j] = Sizes(s)[j]) /\ Sizes(t)[Len(s) + 1] = b.size
  BY <1>1 DEF Sizes
<1>5. PICK g : Adds(g, Len(s) + 1, Sizes(t)) /\ g[Len(s) + 1] = f[Len(s)] + Sizes(t)[Len(s) + 1]
  BY <1>1, <1>2, <1>3, <1>4, AddsAppended
<1>6. Total(t) = g[Len(t)] BY <1>1, <1>5, TotalIs
<1> QED BY <1>1, <1>2, <1>4, <1>5, <1>6 DEF t

LEMMA TotalPrefix ==
  ASSUME NEW R, \A r \in R : r.size \in Nat, NEW s \in Seq(R),
         NEW f, Adds(f, Len(s), Sizes(s)), NEW k \in 0 .. Len(s)
  PROVE  Total(SubSeq(s, 1, k)) = f[k]
<1> DEFINE t == SubSeq(s, 1, k)
<1>1. t \in Seq(R) /\ Len(t) = k /\ \A j \in 1 .. k : t[j] = s[j] OBVIOUS
<1> HIDE DEF t
<1>2. \A j \in 1 .. k : j \in 1 .. Len(s) /\ Sizes(t)[j] = Sizes(s)[j] BY <1>1 DEF Sizes
<1>3. Adds(f, k, Sizes(t)) BY <1>2 DEF Adds
<1> QED BY <1>1, <1>3, TotalIs DEF t

-----------------------------------------------------------------------------
(* The exchange sorts: every exchange keeps the blocks, their number, the  *)
(* sum of their sizes and that they do not overlap.                        *)
Block == [size : Nat, start_addr : Nat]

Disjoint(b, c) ==
  b.size = 0 \/ c.size = 0 \/ End(b) <= c.start_addr \/ End(c) <= b.start_addr
Apart(s) == \A i, j \in 1 .. Len(s) : i # j => Disjoint(s[i], s[j])

Kept(blocks) == {bs \in Seq(Block) :
  /\ Len(bs) = Len(blocks) /\ Range(bs) = Range(blocks) /\ Total(bs) = Total(blocks)
  /\ Apart(blocks) => Apart(bs)}

LEMMA RangeOf ==
  ASSUME NEW R, NEW s \in Seq(R)
  PROVE  /\ Range(s) = {s[k] : k \in 1 .. Len(s)}
         /\ Range(s) \subseteq R
         /\ \A k \in 1 .. Len(s) : s[k] \in Range(s)
         /\ \A r \in Range(s) : \E k \in 1 .. Len(s) : s[k] = r
BY DEF Range

LEMMA ExchangeKeeps ==
  ASSUME NEW algorithm, NEW bs \in Seq(Block), NEW i \in 1 .. Len(bs), NEW j \in 1 .. Len(bs), i # j
  PROVE  /\ Exchange(algorithm, bs, i, j) \in Kept(bs)
         /\ Exchange(algorithm, bs, i, j) =
              IF Before(algorithm, bs[j], bs[i]) THEN [bs EXCEPT ![i] = bs[j], ![j] = bs[i]] ELSE bs
<1> DEFINE cs == [bs EXCEPT ![i] = bs[j]]
           ds == [bs EXCEPT ![i] = bs[j], ![j] = bs[i]]
<1>1. /\ ds = [cs EXCEPT ![j] = bs[i]] /\ cs \in Seq(Block) /\ ds \in Seq(Block)
      /\ Len(cs) = Len(bs) /\ Len(ds) = Len(bs) /\ cs[j] = bs[j]
      /\ \A k \in 1 .. Len(bs) : ds[k] = IF k = j THEN bs[i] ELSE IF k = i THEN bs[j] ELSE bs[k]
      /\ bs[i] \in Block /\ bs[j] \in Block
  OBVIOUS
<1> HIDE DEF cs, ds
<1>6. \A r \in Block : r.size \in Nat BY DEF Block
<1>7. /\ ds = [cs EXCEPT ![j] = bs[i]] /\ cs = [bs EXCEPT ![i] = bs[j]]
      /\ cs \in Seq(Block) /\ cs[j] = bs[j] /\ bs[i] \in Block /\ bs[j] \in Block
      /\ j \in 1 .. Len(cs)
  BY <1>1 DEF cs
<1>2. Total(ds) = Total(bs)
  <2>1. Total([bs EXCEPT ![i] = bs[j]]) = Total(bs) - bs[i].size + bs[j].size
    BY <1>6, <1>7, TotalReplaced, ZenonT(30)
  <2>2. Total([cs EXCEPT ![j] = bs[i]]) = Total(cs) - cs[j].size + bs[i].size
    <3>1. cs \in Seq(Block) /\ j \in 1 .. Len(cs) /\ bs[i] \in Block BY <1>7
    <3> QED BY <1>6, <3>1, TotalReplaced, Zenon
  <2>3. Total(bs) \in Nat /\ bs[i].size \in Nat /\ bs[j].size \in Nat
    BY <1>6, <1>7, TotalNat, Zenon
  <2> QED BY <1>7, <2>1, <2>2, <2>3
<1>3. Range(ds) = Range(bs)
  <2>1. Range(ds) = {ds[k] : k \in 1 .. Len(bs)} /\ Range(bs) = {bs[k] : k \in 1 .. Len(bs)}
    BY <1>1 DEF Range
  <2>2. ASSUME NEW k \in 1 .. Len(bs) PROVE ds[k] \in Range(bs) /\ bs[k] \in Range(ds)
    <3>1. \E m \in 1 .. Len(bs) : ds[k] = bs[m] BY <1>1
    <3>2. \E m \in 1 .. Len(bs) : bs[k] = ds[m]
      <4>1. CASE k = i BY <1>1, <4>1
      <4>2. CASE k = j BY <1>1, <4>2
      <4>3. CASE k # i /\ k # j BY <1>1, <4>3
      <4> QED BY <4>1, <4>2, <4>3
    <3> QED BY <2>1, <3>1, <3>2
  <2>3. Range(ds) \subseteq Range(bs)
    <3>1. \A r \in Range(ds) : \E k \in 1 .. Len(bs) : r = ds[k] BY <2>1
    <3> QED BY <2>2, <3>1
  <2>4. Range(bs) \subseteq Range(ds)
    <3>1. \A r \in Range(bs) : \E k \in 1 .. Len(bs) : r = bs[k] BY <2>1
    <3> QED BY <2>2, <3>1
  <2> QED BY <2>3, <2>4
<1>4. ASSUME Apart(bs) PROVE Apart(ds)
  <2> SUFFICES ASSUME NEW k \in 1 .. Len(bs), NEW m \in 1 .. Len(bs), k # m
               PROVE  Disjoint(ds[k], ds[m])
    BY <1>1 DEF Apart
  <2> DEFINE h(x) == IF x = j THEN i ELSE IF x = i THEN j ELSE x
  <2>1. h(k) \in 1 .. Len(bs) /\ h(m) \in 1 .. Len(bs) /\ h(k) # h(m) OBVIOUS
  <2>2. ds[k] = bs[h(k)] /\ ds[m] = bs[h(m)] BY <1>1
  <2> HIDE DEF h
  <2> QED BY <1>4, <2>1, <2>2 DEF Apart
<1>5. bs \in Kept(bs) /\ ds \in Kept(bs) BY <1>1, <1>2, <1>3, <1>4 DEF Kept
<1> QED BY <1>5 DEF Exchange, ds

LEMMA KeptIs ==
  ASSUME NEW blocks \in Seq(Block)
  PROVE  /\ blocks \in Kept(blocks)
         /\ \A bs \in Kept(blocks) :
              bs \in Seq(Block) /\ Len(bs) = Len(blocks) /\ Kept(bs) \subseteq Kept(blocks)
BY DEF Kept

(* The inner loop, exchange by exchange.                                   *)
Exchanges(u, algorithm, s, i) ==
  /\ u \in [i .. Len(s) -> Kept(s)]
  /\ u[i] = s /\ Settle(algorithm, s, i) = u[Len(s)]
  /\ \A j \in i + 1 .. Len(s) : u[j] = Exchange(algorithm, u[j - 1], i, j)

LEMMA SettleIs ==
  ASSUME NEW algorithm, NEW blocks \in Seq(Block), NEW i \in 1 .. Len(blocks)
  PROVE  \E u : Exchanges(u, algorithm, blocks, i)
<1> DEFINE n == Len(blocks)
           S == Kept(blocks)
           step == [j \in i + 1 .. n |-> [bs \in S |-> Exchange(algorithm, bs, i, j)]]
           upto[j \in i .. n] == IF j = i THEN blocks ELSE Exchange(algorithm, upto[j - 1], i, j)
<1>1. n \in Nat /\ i \in Int /\ i <= n /\ n \in i .. n /\ n \in Int /\ blocks \in S
  BY KeptIs
<1>2. ASSUME NEW j \in i + 1 .. n, NEW bs \in S PROVE Exchange(algorithm, bs, i, j) \in S
  <2>1. bs \in Seq(Block) /\ Len(bs) = n /\ Kept(bs) \subseteq S BY KeptIs
  <2>2. i \in 1 .. Len(bs) /\ j \in 1 .. Len(bs) /\ i # j BY <2>1
  <2> QED BY <2>1, <2>2, ExchangeKeeps
<1>3. step \in [i + 1 .. n -> [S -> S]] BY <1>2
<1>4. PICK f \in [i .. n -> S] :
        f[i] = blocks /\ \A k \in i + 1 .. n : f[k] = step[k][f[k - 1]]
  <2> HIDE DEF step, n, S
  <2>1. Solvable(i, n, S, blocks, step) BY <1>1, <1>3, Recursion, Zenon
  <2> QED BY <2>1, Zenon DEF Solvable
<1>5. ASSUME NEW k \in i + 1 .. n PROVE f[k] = Exchange(algorithm, f[k - 1], i, k)
  <2>1. k - 1 \in i .. n BY <1>1
  <2> HIDE DEF S
  <2>2. f[k - 1] \in S BY <2>1
  <2> QED BY <1>4, <2>2
<1>6. f = [j \in i .. n |-> IF j = i THEN blocks ELSE Exchange(algorithm, f[j - 1], i, j)]
  <2> HIDE DEF S
  <2> QED BY <1>1, <1>4, <1>5
<1>7. upto = [j \in i .. n |-> IF j = i THEN blocks ELSE Exchange(algorithm, upto[j - 1], i, j)]
  <2> HIDE DEF n, S
  <2> QED BY <1>6 DEF upto
<1>8. Settle(algorithm, blocks, i) = upto[n] BY DEF Settle
<1> HIDE DEF upto, step, S
<1>9. upto[n] = f[n]
  <2> DEFINE T == {k \in i .. n : upto[k] = f[k]}
  <2>1. i \in T BY <1>1, <1>4, <1>7
  <2>2. ASSUME NEW k \in i .. n - 1, k \in T PROVE k + 1 \in T
    <3>1. k + 1 \in i + 1 .. n /\ k + 1 \in i .. n /\ k + 1 - 1 = k /\ k + 1 # i BY <1>1
    <3>2. upto[k + 1] = Exchange(algorithm, upto[k], i, k + 1) BY <1>7, <3>1
    <3>3. f[k + 1] = Exchange(algorithm, f[k], i, k + 1) BY <1>5, <3>1
    <3> QED BY <2>2, <3>1, <3>2, <3>3
  <2> HIDE DEF T, n
  <2>3. i .. n \subseteq T BY <1>1, <2>1, <2>2, Induction
  <2> QED BY <1>1, <2>3 DEF T
<1> QED BY <1>4, <1>5, <1>8, <1>9 DEF S, Exchanges

(* The outer loop, turn by turn.                                           *)
Turns(u, algorithm, s) ==
  /\ u \in [0 .. Len(s) -> Kept(s)]
  /\ u[0] = s /\ rearrange(algorithm, s) = u[Len(s)]
  /\ \A i \in 1 .. Len(s) : u[i] = Settle(algorithm, u[i - 1], i)

LEMMA RearrangeIs ==
  ASSUME NEW algorithm, NEW blocks \in Seq(Block)
  PROVE  \E u : Turns(u, algorithm, blocks)
<1> DEFINE n == Len(blocks)
           S == Kept(blocks)
           step == [i \in 1 .. n |-> [bs \in S |-> Settle(algorithm, bs, i)]]
           settled[i \in 0 .. n] == IF i = 0 THEN blocks ELSE Settle(algorithm, settled[i - 1], i)
<1>1. /\ n \in Nat /\ 0 \in Int /\ 0 <= n /\ n \in 0 .. n /\ 0 \in 0 .. n
      /\ n \in Int /\ blocks \in S
  BY KeptIs
<1>2. ASSUME NEW i \in 1 .. n, NEW bs \in S PROVE Settle(algorithm, bs, i) \in S
  <2>1. bs \in Seq(Block) /\ Len(bs) = n /\ Kept(bs) \subseteq S BY KeptIs
  <2>2. i \in 1 .. Len(bs) /\ Len(bs) \in i .. Len(bs) BY <1>1, <2>1
  <2>3. PICK u : Exchanges(u, algorithm, bs, i) BY <2>1, <2>2, SettleIs
  <2> QED BY <2>1, <2>2, <2>3 DEF Exchanges
<1>3. step \in [0 + 1 .. n -> [S -> S]] BY <1>2
<1>4. PICK f \in [0 .. n -> S] :
        f[0] = blocks /\ \A k \in 0 + 1 .. n : f[k] = step[k][f[k - 1]]
  <2> HIDE DEF step, n, S
  <2>1. Solvable(0, n, S, blocks, step) BY <1>1, <1>3, Recursion, Zenon
  <2> QED BY <2>1, Zenon DEF Solvable
<1>5. ASSUME NEW k \in 1 .. n PROVE f[k] = Settle(algorithm, f[k - 1], k)
  <2>1. k - 1 \in 0 .. n /\ k \in 0 + 1 .. n BY <1>1
  <2> HIDE DEF S
  <2>2. f[k - 1] \in S BY <2>1
  <2> QED BY <1>4, <2>1, <2>2
<1>6. f = [i \in 0 .. n |-> IF i = 0 THEN blocks ELSE Settle(algorithm, f[i - 1], i)]
  <2> HIDE DEF S
  <2> QED BY <1>1, <1>4, <1>5
<1>7. settled = [i \in 0 .. n |-> IF i = 0 THEN blocks ELSE Settle(algorithm, settled[i - 1], i)]
  <2> HIDE DEF n, S
  <2> QED BY <1>6 DEF settled
<1>8. rearrange(algorithm, blocks) = settled[n] BY DEF rearrange
<1> HIDE DEF settled, step, S
<1>9. settled[n] = f[n]
  <2> DEFINE T == {k \in 0 .. n : settled[k] = f[k]}
  <2>1. 0 \in T BY <1>1, <1>4, <1>7
  <2>2. ASSUME NEW k \in 0 .. n - 1, k \in T PROVE k + 1 \in T
    <3>1. k + 1 \in 1 .. n /\ k + 1 \in 0 .. n /\ k + 1 - 1 = k /\ k + 1 # 0 BY <1>1
    <3>2. settled[k + 1] = Settle(algorithm, settled[k], k + 1) BY <1>7, <3>1
    <3>3. f[k + 1] = Settle(algorithm, f[k], k + 1) BY <1>5, <3>1
    <3> QED BY <2>2, <3>1, <3>2, <3>3
  <2> HIDE DEF T, n
  <2>3. 0 .. n \subseteq T BY <1>1, <2>1, <2>2, Induction
  <2> QED BY <1>1, <2>3 DEF T
<1> QED BY <1>4, <1>5, <1>8, <1>9 DEF S, Turns

LEMMA RearrangeKeeps ==
  ASSUME NEW algorithm, NEW blocks \in Seq(Block)
  PROVE  rearrange(algorithm, blocks) \in Kept(blocks)
<1>1. Len(blocks) \in 0 .. Len(blocks) OBVIOUS
<1>2. PICK u : Turns(u, algorithm, blocks) BY RearrangeIs
<1> QED BY <1>1, <1>2 DEF Turns

(* The order of a list: no later node belongs before an earlier one.       *)
Sorted(algorithm, s) ==
  \A j, k \in 1 .. Len(s) : j < k => ~ Before(algorithm, s[k], s[j])

LEMMA BeforeOrders ==
  ASSUME NEW algorithm \in 1 .. 3, NEW a \in Block, NEW b \in Block, NEW c \in Block
  PROVE  /\ Before(algorithm, a, b) => ~ Before(algorithm, b, a)
         /\ Before(algorithm, a, b) /\ ~ Before(algorithm, c, b) => ~ Before(algorithm, c, a)
<1>1. /\ a.size \in Nat /\ a.start_addr \in Nat /\ b.size \in Nat /\ b.start_addr \in Nat
      /\ c.size \in Nat /\ c.start_addr \in Nat
  BY DEF Block
<1>2. CASE algorithm = 1 BY <1>1, <1>2 DEF Before, MA_FF, MA_BF, MA_WF
<1>3. CASE algorithm = 2 BY <1>1, <1>3 DEF Before, MA_FF, MA_BF, MA_WF
<1>4. CASE algorithm = 3 BY <1>1, <1>4 DEF Before, MA_FF, MA_BF, MA_WF
<1> QED BY <1>2, <1>3, <1>4

(* After i turns the first i nodes are where they belong; during a turn    *)
(* the node i belongs before none of those it has been held against.       *)
Settled(algorithm, s, i) ==
  \A j, k \in 1 .. Len(s) : j <= i /\ j < k => ~ Before(algorithm, s[k], s[j])
Leads(algorithm, s, i, m) ==
  \A k \in 1 .. Len(s) : i < k /\ k <= m => ~ Before(algorithm, s[k], s[i])

LEMMA ExchangeSettles ==
  ASSUME NEW algorithm \in 1 .. 3, NEW s \in Seq(Block), NEW i \in 1 .. Len(s),
         NEW m \in i + 1 .. Len(s), Settled(algorithm, s, i - 1), Leads(algorithm, s, i, m - 1)
  PROVE  LET t == Exchange(algorithm, s, i, m)
         IN  Settled(algorithm, t, i - 1) /\ Leads(algorithm, t, i, m)
<1> DEFINE t == [s EXCEPT ![i] = s[m], ![m] = s[i]]
<1>1. i \in 1 .. Len(s) /\ m \in 1 .. Len(s) /\ i < m OBVIOUS
<1>2. CASE ~ Before(algorithm, s[m], s[i])
  <2>1. Exchange(algorithm, s, i, m) = s BY <1>2 DEF Exchange
  <2>2. Leads(algorithm, s, i, m)
    <3> SUFFICES ASSUME NEW k \in 1 .. Len(s), i < k, k <= m PROVE ~ Before(algorithm, s[k], s[i])
      BY DEF Leads
    <3>1. CASE k = m BY <1>2, <3>1
    <3>2. CASE k # m BY <3>2 DEF Leads
    <3> QED BY <3>1, <3>2
  <2> QED BY <2>1, <2>2
<1>3. CASE Before(algorithm, s[m], s[i])
  <2>1. Exchange(algorithm, s, i, m) = t BY <1>3 DEF Exchange
  <2>2. /\ Len(t) = Len(s) /\ s[i] \in Block /\ s[m] \in Block
        /\ \A k \in 1 .. Len(s) : t[k] = IF k = m THEN s[i] ELSE IF k = i THEN s[m] ELSE s[k]
        /\ \A k \in 1 .. Len(s) : s[k] \in Block
    OBVIOUS
  <2> HIDE DEF t
  <2>3. Settled(algorithm, t, i - 1)
    <3> SUFFICES ASSUME NEW j \in 1 .. Len(s), NEW k \in 1 .. Len(s), j <= i - 1, j < k
                 PROVE  ~ Before(algorithm, t[k], t[j])
      BY <2>2 DEF Settled
    <3>1. j # m /\ j # i /\ j < i /\ j < m BY <1>1
    <3>2. t[j] = s[j] BY <2>2, <3>1
    <3>3. \A x \in 1 .. Len(s) : j < x => ~ Before(algorithm, s[x], s[j]) BY DEF Settled
    <3>4. PICK x \in 1 .. Len(s) : j < x /\ t[k] = s[x]
      <4>1. CASE k = m BY <1>1, <2>2, <3>1, <4>1
      <4>2. CASE k = i BY <1>1, <2>2, <3>1, <4>2
      <4>3. CASE k # m /\ k # i BY <2>2, <4>3
      <4> QED BY <4>1, <4>2, <4>3
    <3> QED BY <3>2, <3>3, <3>4
  <2>4. Leads(algorithm, t, i, m)
    <3> SUFFICES ASSUME NEW k \in 1 .. Len(s), i < k, k <= m PROVE ~ Before(algorithm, t[k], t[i])
      BY <2>2 DEF Leads
    <3>1. t[i] = s[m] BY <1>1, <2>2
    <3>2. CASE k = m
      <4>1. t[k] = s[i] BY <2>2, <3>2
      <4> QED BY <1>3, <2>2, <3>1, <4>1, BeforeOrders
    <3>3. CASE k # m
      <4>1. t[k] = s[k] /\ k <= m - 1 BY <2>2, <3>3
      <4>2. ~ Before(algorithm, s[k], s[i]) BY <4>1 DEF Leads
      <4> QED BY <1>3, <2>2, <3>1, <4>1, <4>2, BeforeOrders
    <3> QED BY <3>2, <3>3
  <2> QED BY <2>1, <2>3, <2>4
<1> QED BY <1>2, <1>3

LEMMA SettleSettles ==
  ASSUME NEW algorithm \in 1 .. 3, NEW s \in Seq(Block), NEW i \in 1 .. Len(s),
         Settled(algorithm, s, i - 1)
  PROVE  Settled(algorithm, Settle(algorithm, s, i), i)
<1>0. PICK u : Exchanges(u, algorithm, s, i) BY SettleIs
<1>1. /\ u \in [i .. Len(s) -> Kept(s)]
      /\ u[i] = s /\ Settle(algorithm, s, i) = u[Len(s)]
      /\ \A j \in i + 1 .. Len(s) : u[j] = Exchange(algorithm, u[j - 1], i, j)
  BY <1>0 DEF Exchanges
<1> DEFINE n == Len(s)
           T == {m \in i .. n : Settled(algorithm, u[m], i - 1) /\ Leads(algorithm, u[m], i, m)}
<1>2. n \in Nat /\ i \in Int /\ n \in Int /\ i \in i .. n /\ n \in i .. n OBVIOUS
<1>3. i \in T BY <1>1, <1>2 DEF Leads
<1>4. ASSUME NEW m \in i .. n - 1, m \in T PROVE m + 1 \in T
  <2>1. m + 1 \in i + 1 .. n /\ m + 1 - 1 = m /\ m + 1 \in i .. n /\ m \in i .. n BY <1>2
  <2>2. u[m] \in Seq(Block) /\ Len(u[m]) = n BY <1>1, <2>1, KeptIs
  <2>3. u[m + 1] = Exchange(algorithm, u[m], i, m + 1) BY <1>1, <2>1
  <2>4. /\ i \in 1 .. Len(u[m]) /\ m + 1 \in i + 1 .. Len(u[m])
        /\ Settled(algorithm, u[m], i - 1) /\ Leads(algorithm, u[m], i, m + 1 - 1)
    BY <1>4, <2>1, <2>2
  <2> HIDE DEF T, n
  <2>5. /\ Settled(algorithm, Exchange(algorithm, u[m], i, m + 1), i - 1)
        /\ Leads(algorithm, Exchange(algorithm, u[m], i, m + 1), i, m + 1)
    BY <2>2, <2>4, ExchangeSettles
  <2> QED BY <2>1, <2>3, <2>5 DEF T
<1> HIDE DEF T
<1>5. i .. n \subseteq T BY <1>2, <1>3, <1>4, Induction
<1>6. Settled(algorithm, u[n], i - 1) /\ Leads(algorithm, u[n], i, n) /\ Len(u[n]) = n
  BY <1>1, <1>2, <1>5, KeptIs DEF T
<1>7. Settled(algorithm, u[n], i) BY <1>2, <1>6 DEF Settled, Leads
<1> QED BY <1>1, <1>7

LEMMA RearrangeSorts ==
  ASSUME NEW algorithm \in 1 .. 3, NEW blocks \in Seq(Block)
  PROVE  Sorted(algorithm, rearrange(algorithm, blocks))
<1>0. PICK u : Turns(u, algorithm, blocks) BY RearrangeIs
<1>1. /\ u \in [0 .. Len(blocks) -> Kept(blocks)]
      /\ u[0] = blocks /\ rearrange(algorithm, blocks) = u[Len(blocks)]
      /\ \A i \in 1 .. Len(blocks) : u[i] = Settle(algorithm, u[i - 1], i)
  BY <1>0 DEF Turns
<1> DEFINE n == Len(blocks)
           T == {i \in 0 .. n : Settled(algorithm, u[i], i)}
<1>2. n \in Nat /\ 0 \in Int /\ n \in Int /\ 0 \in 0 .. n /\ n \in 0 .. n OBVIOUS
<1>3. 0 \in T BY <1>2 DEF Settled
<1>4. ASSUME NEW i \in 0 .. n - 1, i \in T PROVE i + 1 \in T
  <2>1. i + 1 \in 1 .. n /\ i + 1 - 1 = i /\ i + 1 \in 0 .. n /\ i \in 0 .. n BY <1>2
  <2>2. u[i] \in Seq(Block) /\ Len(u[i]) = n BY <1>1, <2>1, KeptIs
  <2>3. u[i + 1] = Settle(algorithm, u[i], i + 1) BY <1>1, <2>1
  <2>4. i + 1 \in 1 .. Len(u[i]) /\ Settled(algorithm, u[i], i + 1 - 1) BY <1>4, <2>1, <2>2
  <2> HIDE DEF T, n
  <2>5. Settled(algorithm, Settle(algorithm, u[i], i + 1), i + 1) BY <2>2, <2>4, SettleSettles
  <2> QED BY <2>1, <2>3, <2>5 DEF T
<1> HIDE DEF T
<1>5. 0 .. n \subseteq T BY <1>2, <1>3, <1>4, Induction
<1>6. Settled(algorithm, u[n], n) /\ Len(u[n]) = n BY <1>1, <1>2, <1>5, KeptIs DEF T
<1> QED BY <1>1, <1>2, <1>6 DEF Settled, Sorted

-----------------------------------------------------------------------------
(* The merge: every block is appended or lengthens the last one, so what   *)
(* the blocks cover together, and what they keep clear of, stays.          *)
Covered(s, a) == \E i \in 1 .. Len(s) : Covers(s[i], a)
Clear(s, b) == \A i \in 1 .. Len(s) : Disjoint(s[i], b)
Within(s, m) == \A i \in 1 .. Len(s) : End(s[i]) <= m

Longer(d, b) == [size |-> d.size + b.size, start_addr |-> d.start_addr]

LEMMA JoinIs ==
  ASSUME NEW done \in Seq(Block), NEW b \in Block
  PROVE  /\ Join(done, b) \in Seq(Block) /\ Len(Join(done, b)) \in Nat
         /\ \/ /\ Join(done, b) = Append(done, b) /\ Len(Join(done, b)) = Len(done) + 1
               /\ done # <<>> => End(done[Len(done)]) # b.start_addr
               /\ Join(done, b)[Len(done) + 1] = b
               /\ \A i \in 1 .. Len(done) : Join(done, b)[i] = done[i]
            \/ /\ done # <<>> /\ End(done[Len(done)]) = b.start_addr
               /\ Len(done) \in 1 .. Len(done) /\ Len(Join(done, b)) = Len(done)
               /\ Join(done, b) = [done EXCEPT ![Len(done)] = Longer(done[Len(done)], b)]
               /\ Join(done, b)[Len(done)] = Longer(done[Len(done)], b)
               /\ Longer(done[Len(done)], b) \in Block
               /\ \A i \in 1 .. Len(done) - 1 : Join(done, b)[i] = done[i]
<1> DEFINE n == Len(done)
<1>1. CASE done # <<>> /\ End(done[n]) = b.start_addr
  <2>1. n \in 1 .. n /\ done[n] \in Block /\ Last(done) = done[n] BY <1>1 DEF Last
  <2>2. Longer(done[n], b) \in Block BY <2>1 DEF Block, Longer
  <2>3. [done[n] EXCEPT !.size = @ + b.size] = Longer(done[n], b)
    <3>1. \A d \in Block : [d EXCEPT !.size = @ + b.size] = Longer(d, b) BY DEF Block, Longer
    <3> QED BY <2>1, <3>1
  <2>4. Join(done, b) = [done EXCEPT ![n] = Longer(done[n], b)] BY <1>1, <2>1, <2>3 DEF Join
  <2> HIDE DEF Longer
  <2>5. /\ Join(done, b) \in Seq(Block) /\ Len(Join(done, b)) = n
        /\ Join(done, b)[n] = Longer(done[n], b)
        /\ \A i \in 1 .. n - 1 : Join(done, b)[i] = done[i]
        /\ Len(Join(done, b)) \in Nat
    BY <2>1, <2>2, <2>4
  <2> QED BY <1>1, <2>1, <2>2, <2>4, <2>5, Zenon
<1>2. CASE ~ (done # <<>> /\ End(done[n]) = b.start_addr)
  <2>1. Join(done, b) = Append(done, b) BY <1>2 DEF Join, Last
  <2> QED BY <1>2, <2>1
<1> QED BY <1>1, <1>2

LEMMA LongerIs ==
  ASSUME NEW d \in Block, NEW b \in Block, End(d) = b.start_addr
  PROVE  /\ End(Longer(d, b)) = End(b)
         /\ \A a \in Int : Covers(d, a) \/ Covers(b, a) => Covers(Longer(d, b), a)
         /\ \A c \in Block : Disjoint(d, c) /\ Disjoint(b, c) => Disjoint(Longer(d, b), c)
BY DEF Block, Longer, End, Covers, Disjoint

LEMMA DisjointBoth ==
  ASSUME NEW b \in Block, NEW c \in Block
  PROVE  Disjoint(b, c) <=> Disjoint(c, b)
BY DEF Disjoint

LEMMA JoinKeeps ==
  ASSUME NEW done \in Seq(Block), NEW b \in Block
  PROVE  /\ Total(Join(done, b)) = Total(done) + b.size
         /\ \A a \in Int : Covered(done, a) \/ Covers(b, a) => Covered(Join(done, b), a)
         /\ \A c \in Block : Clear(done, c) /\ Disjoint(b, c) => Clear(Join(done, b), c)
         /\ \A m \in Nat : Within(done, m) /\ End(b) <= m => Within(Join(done, b), m)
         /\ Apart(done) /\ Clear(done, b) => Apart(Join(done, b))
<1> DEFINE n == Len(done)
           t == Join(done, b)
<1>1. n \in Nat /\ \A i \in 1 .. n : done[i] \in Block OBVIOUS
<1>2. \A r \in Block : r.size \in Nat BY DEF Block
<1>3. CASE /\ t = Append(done, b) /\ Len(t) = n + 1 /\ t[n + 1] = b
           /\ \A i \in 1 .. n : t[i] = done[i]
  <2>1. Total(t) = Total(done) + b.size BY <1>2, <1>3, TotalAppended
  <2> HIDE DEF t
  <2>2. \A i \in 1 .. n + 1 : i = n + 1 \/ i \in 1 .. n BY <1>1
  <2>3. ASSUME NEW a \in Int, Covered(done, a) \/ Covers(b, a) PROVE Covered(t, a)
    <3>1. CASE Covers(b, a)
      <4>1. n + 1 \in 1 .. Len(t) BY <1>1, <1>3
      <4> QED BY <1>3, <3>1, <4>1 DEF Covered
    <3>2. CASE Covered(done, a)
      <4>1. PICK i \in 1 .. n : Covers(done[i], a) BY <3>2 DEF Covered
      <4>2. i \in 1 .. Len(t) /\ t[i] = done[i] BY <1>1, <1>3
      <4> QED BY <4>1, <4>2 DEF Covered
    <3> QED BY <2>3, <3>1, <3>2
  <2>4. ASSUME NEW c \in Block, Clear(done, c), Disjoint(b, c) PROVE Clear(t, c)
    BY <1>3, <2>2, <2>4 DEF Clear
  <2>5. ASSUME NEW m \in Nat, Within(done, m), End(b) <= m PROVE Within(t, m)
    BY <1>3, <2>2, <2>5 DEF Within
  <2>6. ASSUME Apart(done), Clear(done, b) PROVE Apart(t)
    <3> SUFFICES ASSUME NEW i \in 1 .. n + 1, NEW j \in 1 .. n + 1, i # j
                 PROVE  Disjoint(t[i], t[j])
      BY <1>3 DEF Apart
    <3>1. CASE i = n + 1
      <4>1. j \in 1 .. n BY <1>1, <3>1
      <4>2. Disjoint(done[j], b) BY <2>6, <4>1 DEF Clear
      <4> QED BY <1>1, <1>3, <3>1, <4>1, <4>2, DisjointBoth
    <3>2. CASE j = n + 1
      <4>1. i \in 1 .. n BY <1>1, <3>2
      <4> QED BY <1>3, <2>6, <3>2, <4>1 DEF Clear
    <3>3. CASE i # n + 1 /\ j # n + 1
      <4>1. i \in 1 .. n /\ j \in 1 .. n BY <1>1, <3>3
      <4> QED BY <1>3, <2>6, <4>1 DEF Apart
    <3> QED BY <3>1, <3>2, <3>3
  <2> QED BY <2>1, <2>3, <2>4, <2>5, <2>6 DEF t
<1>4. CASE /\ End(done[n]) = b.start_addr /\ n \in 1 .. n /\ Len(t) = n
           /\ t = [done EXCEPT ![n] = Longer(done[n], b)] /\ t[n] = Longer(done[n], b)
           /\ Longer(done[n], b) \in Block
           /\ \A i \in 1 .. n - 1 : t[i] = done[i]
  <2> DEFINE l == Longer(done[n], b)
  <2>1. Total(t) = Total(done) - done[n].size + l.size
    <3>1. done \in Seq(Block) /\ n \in 1 .. n /\ l \in Block BY <1>4
    <3>2. Total([done EXCEPT ![n] = l]) = Total(done) - done[n].size + l.size
      BY <1>2, <3>1, TotalReplaced, Zenon
    <3> QED BY <1>4, <3>2
  <2>2. Total(t) = Total(done) + b.size
    <3>1. Total(done) \in Nat BY <1>2, TotalNat
    <3>2. l.size = done[n].size + b.size /\ done[n].size \in Nat /\ b.size \in Nat
      BY <1>1, <1>2, <1>4 DEF Longer
    <3> HIDE DEF l, t
    <3> QED BY <2>1, <3>1, <3>2
  <2>3. done[n] \in Block /\ l \in Block BY <1>1, <1>4
  <2>4. /\ End(l) = End(b) /\ \A a \in Int : Covers(done[n], a) \/ Covers(b, a) => Covers(l, a)
        /\ \A c \in Block : Disjoint(done[n], c) /\ Disjoint(b, c) => Disjoint(l, c)
    BY <1>4, <2>3, LongerIs
  <2>5. t[n] = l /\ Len(t) = n /\ n \in 1 .. n /\ \A i \in 1 .. n - 1 : t[i] = done[i]
    BY <1>4
  <2>6. \A i \in 1 .. n : i = n \/ i \in 1 .. n - 1 BY <1>1
  <2> HIDE DEF t, l
  <2>7. ASSUME NEW a \in Int, Covered(done, a) \/ Covers(b, a) PROVE Covered(t, a)
    <3>1. CASE Covers(b, a) BY <2>4, <2>5, <3>1 DEF Covered
    <3>2. CASE Covered(done, a)
      <4>1. PICK i \in 1 .. n : Covers(done[i], a) BY <3>2 DEF Covered
      <4>2. CASE i = n BY <2>4, <2>5, <4>1, <4>2 DEF Covered
      <4>3. CASE i \in 1 .. n - 1 BY <2>5, <4>1, <4>3 DEF Covered
      <4> QED BY <2>6, <4>2, <4>3
    <3> QED BY <2>7, <3>1, <3>2
  <2>8. ASSUME NEW c \in Block, Clear(done, c), Disjoint(b, c) PROVE Clear(t, c)
    <3>1. \A i \in 1 .. n : Disjoint(done[i], c) BY <2>8 DEF Clear
    <3>2. Disjoint(l, c) BY <2>4, <2>5, <2>8, <3>1
    <3> QED BY <2>5, <2>6, <3>1, <3>2 DEF Clear
  <2>9. ASSUME NEW m \in Nat, Within(done, m), End(b) <= m PROVE Within(t, m)
    <3> SUFFICES ASSUME NEW i \in 1 .. n PROVE End(t[i]) <= m BY <2>5 DEF Within
    <3>1. End(done[i]) <= m BY <2>9 DEF Within
    <3>2. CASE i = n BY <2>4, <2>5, <2>9, <3>2
    <3>3. CASE i \in 1 .. n - 1 BY <2>5, <3>1, <3>3
    <3> QED BY <2>6, <3>2, <3>3
  <2>10. ASSUME Apart(done), Clear(done, b) PROVE Apart(t)
    <3> SUFFICES ASSUME NEW i \in 1 .. n, NEW j \in 1 .. n, i # j PROVE Disjoint(t[i], t[j])
      BY <2>5 DEF Apart
    <3>1. \A k \in 1 .. n - 1 : Disjoint(l, done[k])
      <4> SUFFICES ASSUME NEW k \in 1 .. n - 1 PROVE Disjoint(l, done[k]) OBVIOUS
      <4>1. k \in 1 .. n /\ k # n /\ done[k] \in Block BY <1>1
      <4>2. Disjoint(done[n], done[k]) BY <2>5, <2>10, <4>1 DEF Apart
      <4>3. Disjoint(b, done[k]) BY <2>10, <4>1, DisjointBoth DEF Clear
      <4> QED BY <2>4, <4>1, <4>2, <4>3
    <3>2. CASE i = n
      <4>1. j \in 1 .. n - 1 BY <2>6, <3>2
      <4> QED BY <2>5, <3>1, <3>2, <4>1
    <3>3. CASE j = n
      <4>1. i \in 1 .. n - 1 /\ done[i] \in Block BY <1>1, <2>6, <3>3
      <4>2. Disjoint(done[i], l) BY <2>3, <3>1, <4>1, DisjointBoth
      <4> QED BY <2>5, <3>3, <4>1, <4>2
    <3>4. CASE i # n /\ j # n
      <4>1. i \in 1 .. n - 1 /\ j \in 1 .. n - 1 BY <2>6, <3>4
      <4> QED BY <2>5, <2>10, <4>1 DEF Apart
    <3> QED BY <3>2, <3>3, <3>4
  <2> QED BY <2>2, <2>7, <2>8, <2>9, <2>10 DEF t
<1> QED BY <1>3, <1>4, JoinIs, ZenonT(30)

Joins(u, s) ==
  /\ u \in [0 .. Len(s) -> Seq(Block)]
  /\ u[0] = <<>> /\ memory_merge(s) = u[Len(s)]
  /\ \A k \in 1 .. Len(s) : u[k] = Join(u[k - 1], s[k])

LEMMA MergeIs ==
  ASSUME NEW blocks \in Seq(Block)
  PROVE  \E u : Joins(u, blocks)
<1> DEFINE n == Len(blocks)
           S == Seq(Block)
           step == [k \in 1 .. n |-> [done \in S |-> Join(done, blocks[k])]]
           merged[k \in 0 .. n] == IF k = 0 THEN <<>> ELSE Join(merged[k - 1], blocks[k])
<1>1. /\ n \in Nat /\ 0 \in Int /\ 0 <= n /\ n \in 0 .. n /\ 0 \in 0 .. n
      /\ n \in Int /\ <<>> \in S
  OBVIOUS
<1>2. ASSUME NEW k \in 1 .. n, NEW done \in S PROVE Join(done, blocks[k]) \in S
  <2>1. blocks[k] \in Block BY <1>1
  <2> QED BY <2>1, JoinIs
<1>3. step \in [0 + 1 .. n -> [S -> S]] BY <1>2
<1>4. PICK f \in [0 .. n -> S] :
        f[0] = <<>> /\ \A k \in 0 + 1 .. n : f[k] = step[k][f[k - 1]]
  <2> HIDE DEF step, n, S
  <2>1. Solvable(0, n, S, <<>>, step) BY <1>1, <1>3, Recursion, Zenon
  <2> QED BY <2>1, Zenon DEF Solvable
<1>5. ASSUME NEW k \in 1 .. n PROVE f[k] = Join(f[k - 1], blocks[k])
  <2>1. k - 1 \in 0 .. n /\ k \in 0 + 1 .. n BY <1>1
  <2> HIDE DEF S
  <2>2. f[k - 1] \in S BY <2>1
  <2> QED BY <1>4, <2>1, <2>2
<1>6. f = [k \in 0 .. n |-> IF k = 0 THEN <<>> ELSE Join(f[k - 1], blocks[k])]
  <2> HIDE DEF S
  <2> QED BY <1>1, <1>4, <1>5
<1>7. merged = [k \in 0 .. n |-> IF k = 0 THEN <<>> ELSE Join(merged[k - 1], blocks[k])]
  <2> HIDE DEF n, S
  <2> QED BY <1>6 DEF merged
<1>8. memory_merge(blocks) = merged[n] BY DEF memory_merge
<1> HIDE DEF merged, step, S
<1>9. merged[n] = f[n]
  <2> DEFINE T == {k \in 0 .. n : merged[k] = f[k]}
  <2>1. 0 \in T BY <1>1, <1>4, <1>7
  <2>2. ASSUME NEW k \in 0 .. n - 1, k \in T PROVE k + 1 \in T
    <3>1. k + 1 \in 1 .. n /\ k + 1 \in 0 .. n /\ k + 1 - 1 = k /\ k + 1 # 0 BY <1>1
    <3>2. merged[k + 1] = Join(merged[k], blocks[k + 1]) BY <1>7, <3>1
    <3>3. f[k + 1] = Join(f[k], blocks[k + 1]) BY <1>5, <3>1
    <3> QED BY <2>2, <3>1, <3>2, <3>3
  <2> HIDE DEF T, n
  <2>3. 0 .. n \subseteq T BY <1>1, <2>1, <2>2, Induction
  <2> QED BY <1>1, <2>3 DEF T
<1> QED BY <1>4, <1>5, <1>8, <1>9 DEF S, Joins

LEMMA JoinsAt ==
  ASSUME NEW s \in Seq(Block), NEW u, Joins(u, s), NEW k \in 0 .. Len(s) - 1
  PROVE  u[k] \in Seq(Block) /\ u[k + 1] = Join(u[k], s[k + 1])
<1>1. k \in 0 .. Len(s) /\ k + 1 \in 1 .. Len(s) /\ k + 1 - 1 = k OBVIOUS
<1> QED BY <1>1 DEF Joins

(* What the merge makes of the first k blocks.                             *)
SameMemory(t, s, k) ==
  /\ \A a \in Int : (\E i \in 1 .. k : Covers(s[i], a)) => Covered(t, a)
  /\ \A c \in Block : (\A i \in 1 .. k : Disjoint(s[i], c)) => Clear(t, c)
  /\ \A m \in Nat : (\A i \in 1 .. k : End(s[i]) <= m) => Within(t, m)
  /\ Apart(t)

LEMMA JoinSame ==
  ASSUME NEW s \in Seq(Block), Apart(s), NEW t \in Seq(Block), NEW k \in 1 .. Len(s),
         SameMemory(t, s, k - 1)
  PROVE  SameMemory(Join(t, s[k]), s, k)
<1>1. s[k] \in Block /\ k \in Nat /\ \A i \in 1 .. k : i \in 1 .. k - 1 \/ i = k OBVIOUS
<1>2. \A i \in 1 .. k - 1 : i \in 1 .. k /\ i \in 1 .. Len(s) /\ i # k OBVIOUS
<1>3. Clear(t, s[k])
  <2>1. \A i \in 1 .. k - 1 : Disjoint(s[i], s[k]) BY <1>2 DEF Apart
  <2> QED BY <1>1, <2>1 DEF SameMemory
<1>4. Apart(Join(t, s[k])) BY <1>1, <1>3, JoinKeeps DEF SameMemory
<1>5. ASSUME NEW a \in Int, NEW i \in 1 .. k, Covers(s[i], a) PROVE Covered(Join(t, s[k]), a)
  <2>1. CASE i = k BY <1>1, <1>5, <2>1, JoinKeeps
  <2>2. CASE i \in 1 .. k - 1
    <3>1. Covered(t, a) BY <1>5, <2>2 DEF SameMemory
    <3> QED BY <1>1, <3>1, JoinKeeps
  <2> QED BY <1>1, <2>1, <2>2
<1>6. ASSUME NEW c \in Block, \A i \in 1 .. k : Disjoint(s[i], c) PROVE Clear(Join(t, s[k]), c)
  <2>1. Clear(t, c) BY <1>2, <1>6 DEF SameMemory
  <2>2. k \in 1 .. k BY <1>1
  <2> QED BY <1>1, <1>6, <2>1, <2>2, JoinKeeps
<1>7. ASSUME NEW m \in Nat, \A i \in 1 .. k : End(s[i]) <= m PROVE Within(Join(t, s[k]), m)
  <2>1. Within(t, m) BY <1>2, <1>7 DEF SameMemory
  <2>2. k \in 1 .. k BY <1>1
  <2> QED BY <1>1, <1>7, <2>1, <2>2, JoinKeeps
<1> QED BY <1>4, <1>5, <1>6, <1>7 DEF SameMemory

LEMMA MergeKeeps ==
  ASSUME NEW s \in Seq(Block), Apart(s)
  PROVE  /\ memory_merge(s) \in Seq(Block) /\ Total(memory_merge(s)) = Total(s)
         /\ SameMemory(memory_merge(s), s, Len(s))
<1>0. PICK u : Joins(u, s) BY MergeIs
<1>1. \A r \in Block : r.size \in Nat BY DEF Block
<1>2. PICK f \in [0 .. Len(s) -> Nat] : Adds(f, Len(s), Sizes(s)) /\ Total(s) = f[Len(s)]
  BY <1>1, TotalFun
<1> DEFINE n == Len(s)
           T == {k \in 0 .. n : Total(u[k]) = f[k] /\ SameMemory(u[k], s, k)}
<1>3. n \in Nat /\ 0 \in Int /\ n \in Int /\ 0 \in 0 .. n /\ n \in 0 .. n OBVIOUS
<1>4. 0 \in T
  <2>1. u[0] = <<>> /\ f[0] = 0 BY <1>0, <1>2 DEF Joins, Adds
  <2>2. SameMemory(<<>>, s, 0) BY DEF SameMemory, Covered, Clear, Within, Apart
  <2> QED BY <1>3, <2>1, <2>2, TotalEmpty
<1>5. ASSUME NEW k \in 0 .. n - 1, k \in T PROVE k + 1 \in T
  <2>1. k + 1 \in 1 .. n /\ k + 1 - 1 = k /\ k + 1 \in 0 .. n /\ k \in 0 .. n BY <1>3
  <2>2. u[k] \in Seq(Block) /\ u[k + 1] = Join(u[k], s[k + 1]) BY <1>0, JoinsAt
  <2>3. SameMemory(u[k], s, k + 1 - 1) BY <1>5, <2>1
  <2>4. s[k + 1] \in Block BY <2>1
  <2>5. Total(u[k + 1]) = Total(u[k]) + s[k + 1].size BY <2>2, <2>4, JoinKeeps
  <2>6. f[k + 1] = f[k] + s[k + 1].size BY <1>2, <2>1 DEF Adds, Sizes
  <2>7. SameMemory(u[k + 1], s, k + 1) BY <2>1, <2>2, <2>3, JoinSame
  <2> QED BY <1>5, <2>1, <2>5, <2>6, <2>7
<1> HIDE DEF T
<1>6. 0 .. n \subseteq T BY <1>3, <1>4, <1>5, Induction
<1>7. Total(u[n]) = f[n] /\ SameMemory(u[n], s, n) BY <1>3, <1>6 DEF T
<1>8. memory_merge(s) = u[n] /\ u[n] \in Seq(Block) BY <1>0, <1>3 DEF Joins
<1> QED BY <1>2, <1>7, <1>8

(* Blocks in address order that share no address leave a gap between one   *)
(* merged block and the next.                                              *)
Gaps(t) ==
  /\ \A i \in 1 .. Len(t) : t[i].size > 0
  /\ \A i, j \in 1 .. Len(t) : i < j => End(t[i]) < t[j].start_addr

LEMMA JoinGaps ==
  ASSUME NEW t \in Seq(Block), NEW b \in Block, b.size > 0, Gaps(t),
         t # <<>> => End(t[Len(t)]) <= b.start_addr
  PROVE  /\ Gaps(Join(t, b)) /\ Join(t, b) # <<>>
         /\ End(Join(t, b)[Len(Join(t, b))]) = End(b)
<1> DEFINE n == Len(t)
           v == Join(t, b)
<1>1. n \in Nat /\ \A i \in 1 .. n : t[i] \in Block OBVIOUS
<1>2. \A d \in Block : d.size \in Nat /\ d.start_addr \in Nat BY DEF Block
<1>3. CASE /\ Len(v) = n + 1 /\ v[n + 1] = b /\ \A i \in 1 .. n : v[i] = t[i]
           /\ t # <<>> => End(t[n]) # b.start_addr
  <2>1. \A i \in 1 .. n : End(t[i]) < b.start_addr
    <3> SUFFICES ASSUME NEW i \in 1 .. n PROVE End(t[i]) < b.start_addr OBVIOUS
    <3>1. t # <<>> /\ n \in 1 .. n BY <1>1
    <3>2. End(t[n]) < b.start_addr BY <1>1, <1>2, <1>3, <3>1 DEF End
    <3>3. CASE i = n BY <3>2, <3>3
    <3>4. CASE i # n
      <4>1. End(t[i]) < t[n].start_addr BY <1>1, <3>1, <3>4 DEF Gaps
      <4> QED BY <1>1, <1>2, <3>1, <3>2, <4>1, SMTT(30) DEF End
    <3> QED BY <3>3, <3>4
  <2> HIDE DEF v
  <2>2. \A i \in 1 .. n + 1 : i = n + 1 \/ i \in 1 .. n BY <1>1
  <2>3. \A i \in 1 .. Len(v) : v[i].size > 0 BY <1>3, <2>2 DEF Gaps
  <2>4. ASSUME NEW i \in 1 .. n + 1, NEW j \in 1 .. n + 1, i < j
        PROVE  End(v[i]) < v[j].start_addr
    <3>1. i \in 1 .. n BY <1>1, <2>4
    <3>2. CASE j = n + 1 BY <1>3, <2>1, <3>1, <3>2
    <3>3. CASE j \in 1 .. n BY <1>3, <2>4, <3>1, <3>3 DEF Gaps
    <3> QED BY <2>2, <3>2, <3>3
  <2>5. Gaps(v) BY <1>3, <2>3, <2>4 DEF Gaps
  <2>6. Len(v) # 0 /\ v[Len(v)] = b BY <1>1, <1>3
  <2>7. v # <<>> BY <2>6
  <2> QED BY <2>5, <2>6, <2>7 DEF v
<1>4. CASE /\ End(t[n]) = b.start_addr /\ n \in 1 .. n /\ Len(v) = n /\ v[n] = Longer(t[n], b)
           /\ \A i \in 1 .. n - 1 : v[i] = t[i]
  <2>1. End(Longer(t[n], b)) = End(b) BY <1>1, <1>4, LongerIs
  <2>2. /\ Longer(t[n], b).size > 0 /\ Longer(t[n], b).start_addr = t[n].start_addr
    BY <1>1, <1>2, <1>4 DEF Longer
  <2> HIDE DEF v
  <2>3. \A i \in 1 .. n : i = n \/ i \in 1 .. n - 1 BY <1>1
  <2>4. \A i \in 1 .. Len(v) : v[i].size > 0 BY <1>4, <2>2, <2>3 DEF Gaps
  <2>5. ASSUME NEW i \in 1 .. n, NEW j \in 1 .. n, i < j PROVE End(v[i]) < v[j].start_addr
    <3>1. i \in 1 .. n - 1 /\ v[i] = t[i] BY <1>1, <1>4, <2>5
    <3>2. v[j].start_addr = t[j].start_addr BY <1>4, <2>2, <2>3
    <3> QED BY <2>5, <3>1, <3>2 DEF Gaps
  <2>6. Gaps(v) BY <1>4, <2>4, <2>5 DEF Gaps
  <2>7. Len(v) # 0 BY <1>4
  <2>8. v # <<>> BY <2>7
  <2> QED BY <1>4, <2>1, <2>6, <2>8 DEF v
<1> QED BY <1>3, <1>4, JoinIs, ZenonT(30)

LEMMA InAddressOrder ==
  ASSUME NEW b \in Block, NEW c \in Block, b.size > 0, c.size > 0,
         Disjoint(b, c), ~ Before(MA_FF, c, b)
  PROVE  End(b) <= c.start_addr
<1>1. /\ b.size \in Nat /\ b.start_addr \in Nat /\ c.size \in Nat /\ c.start_addr \in Nat
  BY DEF Block
<1>2. ~ (c.start_addr < b.start_addr) BY DEF Before, MA_FF, MA_BF, MA_WF
<1> QED BY <1>1, <1>2 DEF Disjoint, End

LEMMA MergeGaps ==
  ASSUME NEW s \in Seq(Block), Apart(s), Sorted(MA_FF, s), \A i \in 1 .. Len(s) : s[i].size > 0
  PROVE  Gaps(memory_merge(s))
<1>0. PICK u : Joins(u, s) BY MergeIs
<1> DEFINE n == Len(s)
           T == {k \in 0 .. n : /\ Gaps(u[k])
                                /\ IF k = 0 THEN u[k] = <<>>
                                   ELSE u[k] # <<>> /\ End(u[k][Len(u[k])]) = End(s[k])}
<1>1. n \in Nat /\ 0 \in Int /\ n \in Int /\ 0 \in 0 .. n /\ n \in 0 .. n OBVIOUS
<1>2. 0 \in T BY <1>0, <1>1 DEF Joins, Gaps
<1>3. ASSUME NEW k \in 0 .. n - 1, k \in T PROVE k + 1 \in T
  <2>1. k + 1 \in 1 .. n /\ k + 1 - 1 = k /\ k + 1 \in 0 .. n /\ k \in 0 .. n /\ k + 1 # 0
    BY <1>1
  <2>2. u[k] \in Seq(Block) /\ u[k + 1] = Join(u[k], s[k + 1]) BY <1>0, JoinsAt
  <2>3. s[k + 1] \in Block /\ s[k + 1].size > 0 BY <2>1
  <2>4. u[k] # <<>> => End(u[k][Len(u[k])]) <= s[k + 1].start_addr
    <3> SUFFICES ASSUME u[k] # <<>> PROVE End(u[k][Len(u[k])]) <= s[k + 1].start_addr OBVIOUS
    <3>1. k # 0 BY <1>3
    <3>2. k \in 1 .. n /\ k < k + 1 BY <2>1, <3>1
    <3>3. End(u[k][Len(u[k])]) = End(s[k]) BY <1>3, <3>1
    <3>4. ~ Before(MA_FF, s[k + 1], s[k]) BY <2>1, <3>2 DEF Sorted
    <3>5. Disjoint(s[k], s[k + 1]) BY <2>1, <3>2 DEF Apart
    <3>6. s[k] \in Block /\ s[k].size > 0 BY <3>2
    <3>7. End(s[k]) <= s[k + 1].start_addr
      BY <2>3, <3>4, <3>5, <3>6, InAddressOrder
    <3> QED BY <3>3, <3>7
  <2>5. Gaps(u[k]) BY <1>3
  <2> HIDE DEF T
  <2>6. /\ Gaps(u[k + 1]) /\ u[k + 1] # <<>>
        /\ End(u[k + 1][Len(u[k + 1])]) = End(s[k + 1])
    BY <2>2, <2>3, <2>4, <2>5, JoinGaps
  <2> QED BY <2>1, <2>6 DEF T
<1> HIDE DEF T
<1>4. 0 .. n \subseteq T BY <1>1, <1>2, <1>3, Induction
<1> QED BY <1>0, <1>1, <1>4 DEF T, Joins

(* With such gaps no block begins where another ends.                      *)
LEMMA GapsMerged ==
  ASSUME NEW t \in Seq(Block), Gaps(t)
  PROVE  Merged(t)
<1> SUFFICES ASSUME NEW a \in Range(t), NEW b \in Range(t), a # b PROVE End(a) # b.start_addr
  BY DEF Merged
<1>1. PICK i \in 1 .. Len(t) : t[i] = a BY RangeOf
<1>2. PICK j \in 1 .. Len(t) : t[j] = b BY RangeOf
<1>3. a \in Block /\ b \in Block /\ i # j BY <1>1, <1>2
<1>4. a.size \in Nat /\ a.start_addr \in Nat /\ b.size \in Nat /\ b.start_addr \in Nat
  BY <1>3 DEF Block
<1>5. a.size > 0 /\ b.size > 0 BY <1>1, <1>2 DEF Gaps
<1>6. CASE i < j BY <1>1, <1>2, <1>4, <1>6 DEF Gaps, End
<1>7. CASE j < i
  <2>1. End(b) < a.start_addr BY <1>1, <1>2, <1>7 DEF Gaps
  <2> QED BY <1>4, <1>5, <2>1 DEF End
<1> QED BY <1>3, <1>6, <1>7

-----------------------------------------------------------------------------
(* Free blocks and processes tile the memory.                              *)
Process == [pid : Nat, size : Nat, start_addr : Nat]
Tile == Block \cup Process

Tiled(fs, ps, m) ==
  /\ Within(fs, m) /\ Within(ps, m)
  /\ Apart(fs) /\ Apart(ps)
  /\ \A j \in 1 .. Len(ps) : Clear(fs, ps[j])
  /\ \A a \in 0 .. m - 1 : Covered(fs, a) \/ Covered(ps, a)

LEMMA Tiles ==
  /\ \A r \in Tile : r.size \in Nat /\ r.start_addr \in Nat
  /\ \A s \in Seq(Block) : s \in Seq(Tile)
  /\ \A s \in Seq(Process) : s \in Seq(Tile)
<1>1. Block \subseteq Tile /\ Process \subseteq Tile BY DEF Tile
<1>2. \A r \in Tile : r.size \in Nat /\ r.start_addr \in Nat BY DEF Tile, Block, Process
<1> QED BY <1>1, <1>2

LEMMA DisjointTiles ==
  ASSUME NEW b \in Tile, NEW c \in Tile
  PROVE  Disjoint(b, c) => Disjoint(c, b)
BY Tiles DEF Disjoint

(* A node is taken out.                                                    *)
LEMMA RemoveTiles ==
  ASSUME NEW s \in Seq(Tile), NEW k \in 1 .. Len(s)
  PROVE  LET t == RemoveAt(s, k)
         IN  /\ \A m \in Nat : Within(s, m) => Within(t, m)
             /\ Apart(s) => Apart(t) /\ Clear(t, s[k])
             /\ \A c : Clear(s, c) => Clear(t, c)
             /\ \A a : Covered(s, a) => Covered(t, a) \/ Covers(s[k], a)
<1> DEFINE t == RemoveAt(s, k)
           h(i) == IF i < k THEN i ELSE i + 1
<1>1. /\ Len(t) = Len(s) - 1 /\ Len(s) \in Nat
      /\ \A i \in 1 .. Len(s) - 1 : t[i] = IF i < k THEN s[i] ELSE s[i + 1]
  BY RemoveAtAs
<1> HIDE DEF t
<1>2. \A i \in 1 .. Len(t) : h(i) \in 1 .. Len(s) /\ h(i) # k /\ t[i] = s[h(i)] BY <1>1
<1>3. \A i, j \in 1 .. Len(t) : i # j => h(i) # h(j) BY <1>1
<1>4. ASSUME NEW j \in 1 .. Len(s), j # k PROVE \E i \in 1 .. Len(t) : t[i] = s[j]
  <2>1. CASE j < k
    <3>1. j \in 1 .. Len(t) /\ h(j) = j BY <1>1, <2>1
    <3> QED BY <1>2, <3>1
  <2>2. CASE j > k
    <3>1. j - 1 \in 1 .. Len(t) /\ h(j - 1) = j BY <1>1, <2>2
    <3> QED BY <1>2, <3>1
  <2> QED BY <1>4, <2>1, <2>2
<1> HIDE DEF h
<1>5. ASSUME NEW m \in Nat, Within(s, m) PROVE Within(t, m) BY <1>2, <1>5 DEF Within
<1>6. ASSUME Apart(s) PROVE Apart(t) /\ Clear(t, s[k]) BY <1>2, <1>3, <1>6 DEF Apart, Clear
<1>7. ASSUME NEW c, Clear(s, c) PROVE Clear(t, c) BY <1>2, <1>7 DEF Clear
<1>8. ASSUME NEW a, Covered(s, a) PROVE Covered(t, a) \/ Covers(s[k], a)
  BY <1>4, <1>8 DEF Covered
<1> QED BY <1>5, <1>6, <1>7, <1>8 DEF t

(* A node is put first.                                                    *)
LEMMA ConsTiles ==
  ASSUME NEW s \in Seq(Tile), NEW b \in Tile
  PROVE  LET t == <<b>> \o s
         IN  /\ \A m \in Nat : Within(s, m) /\ End(b) <= m => Within(t, m)
             /\ Apart(s) /\ Clear(s, b) => Apart(t)
             /\ \A c : Clear(s, c) /\ Disjoint(b, c) => Clear(t, c)
             /\ \A a : Covered(s, a) \/ Covers(b, a) => Covered(t, a)
<1> DEFINE t == <<b>> \o s
<1>1. /\ Len(t) = Len(s) + 1 /\ Len(s) \in Nat /\ t[1] = b
      /\ \A i \in 1 .. Len(s) : t[i + 1] = s[i] /\ i + 1 \in 1 .. Len(t)
  BY ConsAs
<1> HIDE DEF t
<1>2. \A i \in 1 .. Len(t) : i = 1 \/ (i - 1 \in 1 .. Len(s) /\ t[i] = s[i - 1])
  <2> SUFFICES ASSUME NEW i \in 1 .. Len(t), i # 1
               PROVE  i - 1 \in 1 .. Len(s) /\ t[i] = s[i - 1]
    OBVIOUS
  <2>1. i - 1 \in 1 .. Len(s) /\ i - 1 + 1 = i BY <1>1
  <2> QED BY <1>1, <2>1
<1>3. 1 \in 1 .. Len(t) BY <1>1
<1>4. ASSUME NEW m \in Nat, Within(s, m), End(b) <= m PROVE Within(t, m)
  BY <1>1, <1>2, <1>4 DEF Within
<1>5. ASSUME Apart(s), Clear(s, b) PROVE Apart(t)
  <2> SUFFICES ASSUME NEW i \in 1 .. Len(t), NEW j \in 1 .. Len(t), i # j
               PROVE  Disjoint(t[i], t[j])
    BY DEF Apart
  <2>1. CASE i = 1
    <3>1. j - 1 \in 1 .. Len(s) /\ t[j] = s[j - 1] BY <1>2, <2>1
    <3>2. s[j - 1] \in Tile BY <3>1
    <3>3. Disjoint(s[j - 1], b) BY <1>5, <3>1 DEF Clear
    <3> QED BY <1>1, <2>1, <3>1, <3>2, <3>3, DisjointTiles
  <2>2. CASE j = 1
    <3>1. i - 1 \in 1 .. Len(s) /\ t[i] = s[i - 1] BY <1>2, <2>2
    <3> QED BY <1>1, <1>5, <2>2, <3>1 DEF Clear
  <2>3. CASE i # 1 /\ j # 1
    <3>1. i - 1 \in 1 .. Len(s) /\ t[i] = s[i - 1] BY <1>2, <2>3
    <3>2. j - 1 \in 1 .. Len(s) /\ t[j] = s[j - 1] BY <1>2, <2>3
    <3>3. i - 1 # j - 1 OBVIOUS
    <3> QED BY <1>5, <3>1, <3>2, <3>3 DEF Apart
  <2> QED BY <2>1, <2>2, <2>3
<1>6. ASSUME NEW c, Clear(s, c), Disjoint(b, c) PROVE Clear(t, c)
  BY <1>1, <1>2, <1>6 DEF Clear
<1>7. ASSUME NEW a, Covered(s, a) \/ Covers(b, a) PROVE Covered(t, a)
  BY <1>1, <1>3, <1>7 DEF Covered
<1> QED BY <1>4, <1>5, <1>6, <1>7 DEF t

(* A node gives up part of what it covers.                                 *)
LEMMA ShrinkTiles ==
  ASSUME NEW s \in Seq(Tile), NEW k \in 1 .. Len(s), NEW v \in Tile, End(v) = End(s[k]),
         \A c \in Tile : Disjoint(s[k], c) => Disjoint(v, c)
  PROVE  LET t == [s EXCEPT ![k] = v]
         IN  /\ \A m \in Nat : Within(s, m) => Within(t, m)
             /\ Apart(s) => Apart(t)
             /\ \A c \in Tile : Clear(s, c) => Clear(t, c)
             /\ \A a : Covered(s, a) => Covered(t, a) \/ Covers(s[k], a)
             /\ \A a : Covers(v, a) => Covered(t, a)
<1> DEFINE t == [s EXCEPT ![k] = v]
<1>1. /\ Len(t) = Len(s) /\ t[k] = v /\ \A i \in 1 .. Len(s) : s[i] \in Tile
      /\ \A i \in 1 .. Len(s) : i # k => t[i] = s[i]
  OBVIOUS
<1> HIDE DEF t
<1>2. ASSUME NEW m \in Nat, Within(s, m) PROVE Within(t, m) BY <1>1, <1>2 DEF Within
<1>3. ASSUME Apart(s) PROVE Apart(t)
  <2> SUFFICES ASSUME NEW i \in 1 .. Len(s), NEW j \in 1 .. Len(s), i # j
               PROVE  Disjoint(t[i], t[j])
    BY <1>1 DEF Apart
  <2>1. Disjoint(s[i], s[j]) BY <1>3 DEF Apart
  <2>2. CASE i = k BY <1>1, <2>1, <2>2
  <2>3. CASE j = k
    <3>1. s[i] \in Tile /\ Disjoint(s[k], s[i]) BY <1>1, <2>1, <2>3, DisjointTiles
    <3>2. Disjoint(v, s[i]) BY <3>1
    <3> QED BY <1>1, <2>3, <3>1, <3>2, DisjointTiles
  <2>4. CASE i # k /\ j # k BY <1>1, <2>1, <2>4
  <2> QED BY <2>2, <2>3, <2>4
<1>4. ASSUME NEW c \in Tile, Clear(s, c) PROVE Clear(t, c) BY <1>1, <1>4 DEF Clear
<1>5. ASSUME NEW a, Covered(s, a) PROVE Covered(t, a) \/ Covers(s[k], a)
  BY <1>1, <1>5 DEF Covered
<1>6. ASSUME NEW a, Covers(v, a) PROVE Covered(t, a) BY <1>1, <1>6 DEF Covered
<1> QED BY <1>2, <1>3, <1>4, <1>5, <1>6 DEF t

LEMMA TiledKept ==
  ASSUME NEW fs \in Seq(Block), NEW ps \in Seq(Process), NEW m \in Nat, Tiled(fs, ps, m),
         NEW gs \in Kept(fs)
  PROVE  Tiled(gs, ps, m)
<1>1. gs \in Seq(Block) /\ Range(gs) = Range(fs) /\ Apart(gs) BY DEF Kept, Tiled
<1>2. ASSUME NEW i \in 1 .. Len(gs) PROVE \E j \in 1 .. Len(fs) : fs[j] = gs[i]
  <2>1. gs[i] \in Range(fs) BY <1>1, RangeOf
  <2> QED BY <2>1, RangeOf
<1>3. ASSUME NEW i \in 1 .. Len(fs) PROVE \E j \in 1 .. Len(gs) : gs[j] = fs[i]
  <2>1. fs[i] \in Range(gs) BY <1>1, RangeOf
  <2> QED BY <1>1, <2>1, RangeOf, SMTT(30)
<1>4. Within(gs, m) BY <1>2 DEF Within, Tiled
<1>5. ASSUME NEW j \in 1 .. Len(ps) PROVE Clear(gs, ps[j])
  <2>1. Clear(fs, ps[j]) BY DEF Tiled
  <2> QED BY <1>2, <2>1 DEF Clear
<1>6. ASSUME NEW a, Covered(fs, a) PROVE Covered(gs, a) BY <1>3, <1>6 DEF Covered
<1> QED BY <1>1, <1>4, <1>5, <1>6 DEF Tiled

LEMMA TiledMerge ==
  ASSUME NEW fs \in Seq(Block), NEW ps \in Seq(Process), NEW m \in Nat, Tiled(fs, ps, m)
  PROVE  Tiled(memory_merge(fs), ps, m)
<1> DEFINE t == memory_merge(fs)
<1>1. Apart(fs) /\ Within(fs, m) /\ Within(ps, m) /\ Apart(ps) BY DEF Tiled
<1>2. t \in Seq(Block) /\ SameMemory(t, fs, Len(fs)) BY <1>1, MergeKeeps
<1> HIDE DEF t
<1>3. Apart(t) /\ Within(t, m) BY <1>1, <1>2 DEF SameMemory, Within
<1>4. ASSUME NEW j \in 1 .. Len(ps) PROVE Clear(t, ps[j])
  <2> DEFINE c == [size |-> ps[j].size, start_addr |-> ps[j].start_addr]
  <2>1. c \in Block /\ \A b : Disjoint(b, c) <=> Disjoint(b, ps[j])
    <3>1. ps[j] \in Process OBVIOUS
    <3> QED BY <3>1 DEF Block, Process, Disjoint, End
  <2> HIDE DEF c
  <2>2. \A i \in 1 .. Len(fs) : Disjoint(fs[i], c) BY <2>1 DEF Tiled, Clear
  <2>3. Clear(t, c) BY <1>2, <2>1, <2>2 DEF SameMemory
  <2> QED BY <2>1, <2>3 DEF Clear
<1>5. ASSUME NEW a \in 0 .. m - 1, Covered(fs, a) PROVE Covered(t, a)
  BY <1>2, <1>5 DEF SameMemory, Covered
<1> QED BY <1>1, <1>3, <1>4, <1>5 DEF Tiled, t

(* kill_process: the process's memory becomes the first free block.        *)
LEMMA TiledFreed ==
  ASSUME NEW fs \in Seq(Block), NEW ps \in Seq(Process), NEW m \in Nat, Tiled(fs, ps, m),
         NEW k \in 1 .. Len(ps), NEW b \in Block,
         b.size = ps[k].size, b.start_addr = ps[k].start_addr
  PROVE  Tiled(<<b>> \o fs, RemoveAt(ps, k), m)
<1> DEFINE gs == <<b>> \o fs
           qs == RemoveAt(ps, k)
<1>1. fs \in Seq(Tile) /\ ps \in Seq(Tile) /\ b \in Tile /\ ps[k] \in Tile BY Tiles DEF Tile
<1>2. /\ End(b) = End(ps[k]) /\ \A a : Covers(b, a) <=> Covers(ps[k], a)
      /\ \A c : Disjoint(c, b) <=> Disjoint(c, ps[k])
  BY DEF End, Covers, Disjoint
<1>3. Within(gs, m) /\ Within(qs, m)
  <2>1. End(b) <= m BY <1>2 DEF Tiled, Within
  <2> QED BY <1>1, <2>1, ConsTiles, RemoveTiles DEF Tiled
<1>4. Apart(gs)
  <2>1. Clear(fs, ps[k]) BY DEF Tiled
  <2>2. Clear(fs, b) BY <1>2, <2>1 DEF Clear
  <2> QED BY <1>1, <2>2, ConsTiles DEF Tiled
<1>5. Apart(qs) /\ Clear(qs, ps[k]) BY <1>1, RemoveTiles DEF Tiled
<1>6. qs \in Seq(Process) /\ \A j \in 1 .. Len(qs) : \E i \in 1 .. Len(ps) : qs[j] = ps[i]
  <2>1. \A j \in 1 .. Len(ps) - 1 : j \in 1 .. Len(ps) /\ j + 1 \in 1 .. Len(ps) OBVIOUS
  <2>2. /\ qs \in Seq(Process) /\ Len(qs) = Len(ps) - 1
        /\ \A j \in 1 .. Len(ps) - 1 : qs[j] = IF j < k THEN ps[j] ELSE ps[j + 1]
    BY RemoveAtAs
  <2> HIDE DEF qs
  <2> QED BY <2>1, <2>2
<1>7. ASSUME NEW j \in 1 .. Len(qs) PROVE Clear(gs, qs[j])
  <2>1. Clear(fs, qs[j]) BY <1>6 DEF Tiled
  <2>2. Disjoint(qs[j], b) BY <1>2, <1>5 DEF Clear
  <2>3. qs[j] \in Tile BY <1>6 DEF Tile
  <2>4. Disjoint(b, qs[j]) BY <1>1, <2>2, <2>3, DisjointTiles
  <2> QED BY <1>1, <2>1, <2>4, ConsTiles
<1>8. ASSUME NEW a \in 0 .. m - 1 PROVE Covered(gs, a) \/ Covered(qs, a)
  <2>1. Covered(fs, a) \/ Covered(ps, a) BY DEF Tiled
  <2>2. Covered(fs, a) \/ Covers(b, a) => Covered(gs, a) BY <1>1, ConsTiles
  <2>3. Covered(ps, a) => Covered(qs, a) \/ Covers(ps[k], a) BY <1>1, RemoveTiles
  <2> QED BY <1>2, <2>1, <2>2, <2>3
<1> HIDE DEF gs, qs
<1>9. Tiled(gs, qs, m) BY <1>3, <1>4, <1>5, <1>7, <1>8 DEF Tiled
<1> QED BY <1>9 DEF gs, qs

(* allocate_mem: the block is taken off the list, or its front is.         *)
LEMMA Split ==
  ASSUME NEW b \in Block, NEW request \in Nat, request <= b.size,
         NEW v \in Block, v.start_addr = b.start_addr + request, v.size = b.size - request,
         NEW g \in Process, g.start_addr = b.start_addr, g.size = request
  PROVE  /\ End(v) = End(b) /\ End(g) <= End(b) /\ Disjoint(v, g)
         /\ \A c \in Tile : Disjoint(b, c) => Disjoint(v, c) /\ Disjoint(g, c)
         /\ \A a \in Int : Covers(b, a) => Covers(v, a) \/ Covers(g, a)
<1>1. /\ b.size \in Nat /\ b.start_addr \in Nat /\ v.size \in Nat /\ v.start_addr \in Nat
  BY DEF Block
<1>2. End(v) = End(b) /\ End(g) <= End(b) /\ Disjoint(v, g) BY <1>1 DEF End, Disjoint
<1>3. ASSUME NEW c \in Tile, Disjoint(b, c) PROVE Disjoint(v, c) /\ Disjoint(g, c)
  <2>1. c.size \in Nat /\ c.start_addr \in Nat BY Tiles
  <2>2. End(v) = End(b) BY <1>2
  <2>3. \/ b.size = 0 \/ c.size = 0 \/ End(b) <= c.start_addr
        \/ c.start_addr + c.size <= b.start_addr
    BY <1>3 DEF Disjoint, End
  <2>4. Disjoint(v, c) BY <1>1, <2>1, <2>3 DEF Disjoint, End
  <2>5. Disjoint(g, c) BY <1>1, <2>1, <2>3 DEF Disjoint, End
  <2> QED BY <2>4, <2>5
<1>4. \A a \in Int : Covers(b, a) => Covers(v, a) \/ Covers(g, a) BY <1>1 DEF Covers, End
<1> QED BY <1>2, <1>3, <1>4

LEMMA TiledGrant ==
  ASSUME NEW fs \in Seq(Block), NEW ps \in Seq(Process), NEW m \in Nat, Tiled(fs, ps, m),
         NEW k \in 1 .. Len(fs), NEW request \in Nat, request <= fs[k].size, pid \in Nat
  PROVE  /\ Remaining(fs, k, request) \in Seq(Block) /\ Granted(fs[k], request) \in Process
         /\ Tiled(Remaining(fs, k, request), <<Granted(fs[k], request)>> \o ps, m)
         /\ Total(Remaining(fs, k, request)) + Granted(fs[k], request).size = Total(fs)
<1> DEFINE g == Granted(fs[k], request)
           gs == Remaining(fs, k, request)
           qs == <<g>> \o ps
<1>1. /\ fs \in Seq(Tile) /\ ps \in Seq(Tile) /\ fs[k] \in Block /\ fs[k] \in Tile
      /\ \A r \in Block : r.size \in Nat
  <2>1. fs \in Seq(Tile) /\ ps \in Seq(Tile) BY Tiles
  <2>2. fs[k] \in Block OBVIOUS
  <2> QED BY <2>1, <2>2 DEF Tile, Block
<1>2. fs[k].size \in Nat /\ fs[k].start_addr \in Nat BY <1>1, Tiles
<1>3. g \in Process /\ g \in Tile BY <1>2 DEF Granted, Process, Tile
<1>4. Total(fs) \in Nat BY <1>1, TotalNat, Zenon
<1>5. /\ gs \in Seq(Block) /\ Total(gs) + g.size = Total(fs)
      /\ End(g) <= End(fs[k])
      /\ \A c \in Tile : Disjoint(fs[k], c) => Disjoint(g, c)
      /\ Within(fs, m) => Within(gs, m)
      /\ Apart(fs) => Apart(gs) /\ Clear(gs, g)
      /\ \A c \in Tile : Clear(fs, c) => Clear(gs, c)
      /\ \A a \in Int : Covered(fs, a) => Covered(gs, a) \/ Covers(g, a)
  <2>1. CASE TakesAll(fs[k], request)
    <3>1. g.size = fs[k].size /\ g.start_addr = fs[k].start_addr BY <2>1 DEF Granted
    <3>2. gs = RemoveAt(fs, k) BY <2>1 DEF Remaining
    <3>3. gs \in Seq(Block) BY <3>2, RemoveAtAs
    <3>4. Total(RemoveAt(fs, k)) = Total(fs) - fs[k].size BY <1>1, TotalRemoved, Zenon
    <3>5. End(g) = End(fs[k]) /\ \A c : Disjoint(fs[k], c) <=> Disjoint(g, c)
      BY <3>1 DEF End, Disjoint
    <3>6. \A a, c : (Covers(fs[k], a) <=> Covers(g, a)) /\ (Disjoint(c, fs[k]) <=> Disjoint(c, g))
      BY <3>1 DEF Covers, Disjoint, End
    <3>7. /\ Within(fs, m) => Within(gs, m)
          /\ Apart(fs) => Apart(gs) /\ Clear(gs, fs[k])
          /\ \A c : Clear(fs, c) => Clear(gs, c)
          /\ \A a : Covered(fs, a) => Covered(gs, a) \/ Covers(fs[k], a)
      BY <1>1, <3>2, RemoveTiles
    <3>8. End(fs[k]) \in Nat BY <1>2 DEF End
    <3>9. Total(gs) + g.size = Total(fs) BY <1>2, <1>4, <3>1, <3>2, <3>4
    <3>10. End(g) <= End(fs[k]) BY <3>5, <3>8
    <3>11. Clear(gs, fs[k]) => Clear(gs, g) BY <3>6 DEF Clear
    <3> HIDE DEF g, gs
    <3> QED BY <3>3, <3>5, <3>6, <3>7, <3>9, <3>10, <3>11
  <2>2. CASE ~ TakesAll(fs[k], request)
    <3> DEFINE v == [start_addr |-> fs[k].start_addr + request, size |-> fs[k].size - request]
    <3>1. g.size = request /\ g.start_addr = fs[k].start_addr BY <2>2 DEF Granted
    <3>2. gs = [fs EXCEPT ![k] = v] BY <2>2 DEF Remaining
    <3>3. v \in Block /\ v \in Tile
      <4>1. fs[k].start_addr + request \in Nat /\ fs[k].size - request \in Nat BY <1>2
      <4> QED BY <4>1 DEF Block, Tile
    <3>4. v.start_addr = fs[k].start_addr + request /\ v.size = fs[k].size - request OBVIOUS
    <3> HIDE DEF v
    <3>5. gs \in Seq(Block) BY <3>2, <3>3
    <3>6. Total([fs EXCEPT ![k] = v]) = Total(fs) - fs[k].size + v.size
      BY <1>1, <3>3, TotalReplaced, Zenon
    <3>7. Total(gs) + g.size = Total(fs) BY <1>2, <1>4, <3>1, <3>2, <3>4, <3>6
    <3>8. /\ End(v) = End(fs[k]) /\ End(g) <= End(fs[k]) /\ Disjoint(v, g)
          /\ \A c \in Tile : Disjoint(fs[k], c) => Disjoint(v, c) /\ Disjoint(g, c)
          /\ \A a \in Int : Covers(fs[k], a) => Covers(v, a) \/ Covers(g, a)
      <4> HIDE DEF g
      <4> QED BY <1>1, <1>3, <3>1, <3>3, <3>4, Split
    <3>9. \A c \in Tile : Disjoint(fs[k], c) => Disjoint(v, c) BY <3>8
    <3>12. /\ Within(fs, m) => Within(gs, m)
           /\ Apart(fs) => Apart(gs)
           /\ \A c \in Tile : Clear(fs, c) => Clear(gs, c)
           /\ \A a : Covered(fs, a) => Covered(gs, a) \/ Covers(fs[k], a)
           /\ \A a : Covers(v, a) => Covered(gs, a)
      <4>1. End(v) = End(fs[k]) BY <3>8
      <4> HIDE DEF g, gs, qs
      <4> QED BY <1>1, <3>2, <3>3, <3>9, <4>1, ShrinkTiles, Zenon
    <3>13. /\ Len(gs) = Len(fs) /\ gs[k] = v /\ \A i \in 1 .. Len(fs) : fs[i] \in Tile
           /\ \A i \in 1 .. Len(fs) : i # k => gs[i] = fs[i]
      BY <1>1, <3>2, <3>3
    <3> HIDE DEF g, gs
    <3>14. ASSUME Apart(fs) PROVE Clear(gs, g)
      <4> SUFFICES ASSUME NEW i \in 1 .. Len(fs) PROVE Disjoint(gs[i], g) BY <3>13 DEF Clear
      <4>1. CASE i = k BY <3>8, <3>13, <4>1
      <4>2. CASE i # k
        <5>1. Disjoint(fs[k], fs[i]) BY <3>14, <4>2 DEF Apart
        <5>2. Disjoint(g, fs[i]) BY <3>8, <3>13, <5>1
        <5> QED BY <1>3, <3>13, <4>2, <5>2, DisjointTiles
      <4> QED BY <4>1, <4>2
    <3> QED BY <3>5, <3>7, <3>8, <3>12, <3>14
  <2> QED BY <2>1, <2>2
<1> HIDE DEF g, gs
<1>7. Within(qs, m)
  <2>1. End(g) <= m
    <3>1. End(fs[k]) <= m BY DEF Tiled, Within
    <3>2. End(g) \in Nat /\ End(fs[k]) \in Nat BY <1>2, <1>3, Tiles, SMTT(30) DEF End
    <3> QED BY <1>5, <3>1, <3>2
  <2> QED BY <1>1, <1>3, <2>1, ConsTiles DEF Tiled
<1>8. \A j \in 1 .. Len(ps) : Disjoint(g, ps[j]) /\ ps[j] \in Tile /\ Clear(gs, ps[j])
  <2> SUFFICES ASSUME NEW j \in 1 .. Len(ps)
               PROVE  Disjoint(g, ps[j]) /\ ps[j] \in Tile /\ Clear(gs, ps[j])
    OBVIOUS
  <2>1. ps[j] \in Tile /\ Clear(fs, ps[j]) BY <1>1 DEF Tiled
  <2>2. Disjoint(fs[k], ps[j]) BY <2>1 DEF Clear
  <2> QED BY <1>5, <2>1, <2>2
<1>9. Apart(qs)
  <2>1. Clear(ps, g) BY <1>3, <1>8, DisjointTiles DEF Clear
  <2> QED BY <1>1, <1>3, <2>1, ConsTiles DEF Tiled
<1>10. /\ Len(qs) = Len(ps) + 1 /\ qs[1] = g
       /\ \A j \in 1 .. Len(ps) : qs[j + 1] = ps[j]
  BY <1>3, ConsAs
<1>11. ASSUME NEW j \in 1 .. Len(qs) PROVE Clear(gs, qs[j])
  <2>1. CASE j = 1 BY <1>5, <1>10, <2>1 DEF Tiled
  <2>2. CASE j # 1
    <3>1. j - 1 \in 1 .. Len(ps) /\ j - 1 + 1 = j BY <1>10, <2>2
    <3>2. qs[j] = ps[j - 1] BY <1>10, <3>1
    <3> QED BY <1>8, <3>1, <3>2
  <2> QED BY <2>1, <2>2
<1>12. ASSUME NEW a \in 0 .. m - 1 PROVE Covered(gs, a) \/ Covered(qs, a)
  <2>1. Covered(fs, a) \/ Covered(ps, a) BY DEF Tiled
  <2>2. Covered(ps, a) \/ Covers(g, a) => Covered(qs, a) BY <1>1, <1>3, ConsTiles
  <2> QED BY <1>5, <2>1, <2>2
<1> HIDE DEF qs
<1>13. Tiled(gs, qs, m) BY <1>5, <1>7, <1>9, <1>11, <1>12 DEF Tiled
<1> QED BY <1>3, <1>5, <1>13 DEF g, gs, qs

(* memory_compaction: the k-th process begins where the first k - 1 end.   *)
CompactedTo(f, qs, fs) ==
  /\ qs \in Seq(Process) /\ Len(qs) = Len(allocated_block_head)
  /\ \A k \in 1 .. Len(allocated_block_head) :
       /\ qs[k].pid = allocated_block_head[k].pid /\ qs[k].size = allocated_block_head[k].size
       /\ qs[k].start_addr = f[k - 1]
  /\ fs = <<[size |-> mem_size - Total(allocated_block_head),
             start_addr |-> Total(allocated_block_head)]>>
  /\ fs \in Seq(Block)

LEMMA Moved ==
  ASSUME NEW r \in Process, NEW x \in Nat
  PROVE  /\ [r EXCEPT !.start_addr = x] = [pid |-> r.pid, size |-> r.size, start_addr |-> x]
         /\ [r EXCEPT !.start_addr = x] \in Process
BY DEF Process

LEMMA CompactedIs ==
  ASSUME allocated_block_head \in Seq(Process), mem_size \in Nat,
         Total(allocated_block_head) <= mem_size,
         NEW f \in [0 .. Len(allocated_block_head) -> Nat],
         Adds(f, Len(allocated_block_head), Sizes(allocated_block_head)),
         f[Len(allocated_block_head)] = Total(allocated_block_head)
  PROVE  CompactedTo(f, CompactedProcesses, CompactedFree)
<1> DEFINE ps == allocated_block_head
           n == Len(ps)
<1>1. n \in Nat /\ \A r \in Process : r.size \in Nat BY DEF Process
<1>2. ASSUME NEW k \in 1 .. n + 1 PROVE SizeBefore(k) = f[k - 1]
  <2>1. k - 1 \in 0 .. n BY <1>1
  <2> QED BY <1>1, <2>1, TotalPrefix DEF SizeBefore
<1>3. ASSUME NEW k \in 1 .. n
      PROVE  /\ [ps[k] EXCEPT !.start_addr = SizeBefore(k)]
                   = [pid |-> ps[k].pid, size |-> ps[k].size, start_addr |-> f[k - 1]]
             /\ [ps[k] EXCEPT !.start_addr = SizeBefore(k)] \in Process
  <2>2. k \in 1 .. n + 1 /\ k - 1 \in 0 .. n BY <1>1
  <2>3. ps[k] \in Process /\ f[k - 1] \in Nat /\ SizeBefore(k) = f[k - 1] BY <1>2, <2>2
  <2> QED BY <2>3, Moved
<1>4. DOMAIN ps = 1 .. n OBVIOUS
<1>5. CompactedProcesses = [k \in 1 .. n |-> [ps[k] EXCEPT !.start_addr = SizeBefore(k)]]
  BY <1>4 DEF CompactedProcesses
<1>6. CompactedProcesses \in [1 .. n -> Process] BY <1>3, <1>5
<1>7. CompactedProcesses \in Seq(Process) /\ Len(CompactedProcesses) = n
  <2> HIDE DEF n
  <2> QED BY <1>1, <1>6, IsASeq, LenProperties
<1>8. CompactedFree = <<[size |-> mem_size - Total(ps), start_addr |-> Total(ps)]>>
  <2>1. n + 1 \in 1 .. n + 1 /\ n + 1 - 1 = n BY <1>1
  <2>2. SizeBefore(n + 1) = Total(ps) BY <1>2, <2>1
  <2> QED BY <2>2 DEF CompactedFree
<1>9. CompactedFree \in Seq(Block)
  <2>1. Total(ps) \in Nat BY <1>1
  <2>2. mem_size - Total(ps) \in Nat BY <2>1
  <2>3. [size |-> mem_size - Total(ps), start_addr |-> Total(ps)] \in Block
    BY <2>1, <2>2 DEF Block
  <2> QED BY <1>8, <2>3
<1> QED BY <1>3, <1>5, <1>7, <1>8, <1>9 DEF CompactedTo

LEMMA CompactedFun ==
  ASSUME allocated_block_head \in Seq(Process)
  PROVE  /\ \E f \in [0 .. Len(allocated_block_head) -> Nat] :
              /\ Adds(f, Len(allocated_block_head), Sizes(allocated_block_head))
              /\ f[Len(allocated_block_head)] = Total(allocated_block_head)
         /\ Sizes(allocated_block_head) \in [1 .. Len(allocated_block_head) -> Nat]
         /\ Total(allocated_block_head) \in Nat
<1>1. \A r \in Process : r.size \in Nat BY DEF Process
<1> QED BY <1>1, TotalFun, TotalNat

LEMMA CompactedTotals ==
  ASSUME allocated_block_head \in Seq(Process), mem_size \in Nat,
         Total(allocated_block_head) <= mem_size
  PROVE  /\ Total(CompactedProcesses) = Total(allocated_block_head)
         /\ Total(CompactedFree) = mem_size - Total(allocated_block_head)
<1> DEFINE ps == allocated_block_head
           used == Total(allocated_block_head)
           qs == CompactedProcesses
<1>1. PICK f \in [0 .. Len(ps) -> Nat] : Adds(f, Len(ps), Sizes(ps)) /\ f[Len(ps)] = used
  BY CompactedFun
<1>2. used \in Nat BY CompactedFun
<1>3. /\ qs \in Seq(Process) /\ Len(qs) = Len(ps)
      /\ \A k \in 1 .. Len(ps) : qs[k].size = ps[k].size
      /\ CompactedFree = <<[size |-> mem_size - used, start_addr |-> used]>>
  <2>1. CompactedTo(f, CompactedProcesses, CompactedFree) BY <1>1, CompactedIs
  <2> QED BY <2>1 DEF CompactedTo
<1> HIDE DEF qs, used
<1>5. Adds(f, Len(qs), Sizes(qs)) BY <1>1, <1>3 DEF Adds, Sizes
<1>6. Total(qs) = used
  <2>1. \A r \in Process : r.size \in Nat BY DEF Process
  <2> QED BY <1>1, <1>3, <1>5, <2>1, TotalIs
<1>7. Total(CompactedFree) = mem_size - used
  <2> DEFINE b == [size |-> mem_size - used, start_addr |-> used]
  <2>1. b \in Block /\ b.size = mem_size - used
    <3>1. used <= mem_size BY DEF used
    <3>2. mem_size - used \in Nat BY <1>2, <3>1
    <3> QED BY <1>2, <3>2 DEF Block
  <2> HIDE DEF b
  <2>2. <<>> \in Seq(Block) /\ <<b>> = Append(<<>>, b) OBVIOUS
  <2>3. \A r \in Block : r.size \in Nat BY DEF Block
  <2>4. Total(Append(<<>>, b)) = Total(<<>>) + b.size BY <2>1, <2>2, <2>3, TotalAppended, Zenon
  <2>5. Total(<<b>>) = b.size
    <3>1. b.size \in Nat BY <2>1, <2>3
    <3> QED BY <2>2, <2>4, <3>1, TotalEmpty
  <2> QED BY <1>3, <2>1, <2>5 DEF b
<1> QED BY <1>6, <1>7 DEF qs, used

LEMMA TiledCompacted ==
  ASSUME allocated_block_head \in Seq(Process), mem_size \in Nat,
         Total(allocated_block_head) <= mem_size
  PROVE  Tiled(CompactedFree, CompactedProcesses, mem_size)
<1> DEFINE ps == allocated_block_head
           n == Len(ps)
           used == Total(allocated_block_head)
           fs == CompactedFree
           qs == CompactedProcesses
           b == [size |-> mem_size - used, start_addr |-> used]
<1>1. PICK f \in [0 .. n -> Nat] : Adds(f, n, Sizes(ps)) /\ f[n] = used
  BY CompactedFun
<1>2. used \in Nat /\ n \in Nat /\ Sizes(ps) \in [1 .. n -> Nat] /\ used <= mem_size
  BY CompactedFun
<1>3. /\ qs \in Seq(Process) /\ Len(qs) = n
      /\ \A k \in 1 .. n : qs[k].size = ps[k].size /\ qs[k].start_addr = f[k - 1]
      /\ fs = <<b>>
  <2>1. CompactedTo(f, CompactedProcesses, CompactedFree) BY <1>1, CompactedIs
  <2> QED BY <2>1 DEF CompactedTo
<1> HIDE DEF qs, fs
<1>4. ASSUME NEW k \in 1 .. n
      PROVE  /\ End(qs[k]) = f[k] /\ k - 1 \in 0 .. n /\ k \in 0 .. n
             /\ f[k - 1] \in Nat /\ f[k] \in Nat /\ f[k] <= used /\ qs[k].start_addr = f[k - 1]
  <2>1. k - 1 \in 0 .. n /\ k \in 0 .. n /\ n \in k .. n BY <1>2
  <2>2. f[k] = f[k - 1] + ps[k].size BY <1>1 DEF Adds, Sizes
  <2>3. f[k] <= f[n] BY <1>1, <1>2, <2>1, AddsMonotone
  <2> HIDE DEF used
  <2> QED BY <1>1, <1>3, <2>1, <2>2, <2>3 DEF End
<1> HIDE DEF used, n
<1>5. b.size = mem_size - used /\ b.start_addr = used /\ End(b) = mem_size
  BY <1>2 DEF End
<1> HIDE DEF b
<1>6. Len(fs) = 1 /\ fs[1] = b /\ 1 \in 1 .. Len(fs) /\ \A i \in 1 .. Len(fs) : i = 1 BY <1>3
<1>7. Within(fs, mem_size) BY <1>5, <1>6 DEF Within
<1>8. Within(qs, mem_size)
  <2> SUFFICES ASSUME NEW k \in 1 .. n PROVE End(qs[k]) <= mem_size BY <1>3 DEF Within
  <2> QED BY <1>2, <1>4
<1>9. Apart(fs) BY <1>6 DEF Apart
<1>10. Apart(qs)
  <2>1. ASSUME NEW j \in 1 .. n, NEW k \in 1 .. n, j < k
        PROVE  Disjoint(qs[j], qs[k]) /\ Disjoint(qs[k], qs[j])
    <3>1. j \in 0 .. n /\ k - 1 \in j .. n BY <1>2, <2>1
    <3>2. f[j] <= f[k - 1] BY <1>1, <1>2, <3>1, AddsMonotone
    <3>3. End(qs[j]) <= qs[k].start_addr BY <1>4, <3>2
    <3> QED BY <3>3 DEF Disjoint
  <2>2. \A j, k \in 1 .. n : j # k => j < k \/ k < j BY <1>2
  <2> QED BY <1>3, <2>1, <2>2 DEF Apart
<1>11. ASSUME NEW k \in 1 .. n PROVE Clear(fs, qs[k])
  <2>1. End(qs[k]) <= b.start_addr BY <1>4, <1>5
  <2> QED BY <1>6, <2>1 DEF Clear, Disjoint
<1>12. ASSUME NEW a \in 0 .. mem_size - 1 PROVE Covered(fs, a) \/ Covered(qs, a)
  <2>1. CASE a < used
    <3>1. a \in Nat /\ a < f[n] BY <1>1, <2>1
    <3>2. PICK k \in 1 .. n : f[k - 1] <= a /\ a < f[k]
      BY <1>1, <1>2, <3>1, AddsBetween
    <3> QED BY <1>3, <1>4, <3>2 DEF Covered, Covers
  <2>2. CASE ~ (a < used)
    <3>1. b.start_addr <= a /\ a < End(b) BY <1>2, <1>5, <2>2
    <3> QED BY <1>6, <3>1 DEF Covered, Covers
  <2> QED BY <2>1, <2>2
<1>13. Tiled(fs, qs, mem_size) BY <1>3, <1>7, <1>8, <1>9, <1>10, <1>11, <1>12 DEF Tiled
<1> QED BY <1>13 DEF fs, qs

(* The scans of the two lists.                                             *)
LEMMA FirstFitIs ==
  ASSUME free_block \in Seq(Block), NEW request \in Int
  PROVE  LET k == FirstFit(request)
         IN  \/ /\ k \in 1 .. Len(free_block) /\ k > 0 /\ free_block[k].size >= request
                /\ \A j \in 1 .. Len(free_block) : j < k => free_block[j].size < request
             \/ k = 0 /\ \A j \in 1 .. Len(free_block) : free_block[j].size < request
<1> DEFINE I == {i \in 1 .. Len(free_block) : free_block[i].size >= request}
           k == FirstFit(request)
<1>1. \A i \in 1 .. Len(free_block) : free_block[i].size \in Nat
  <2>1. \A i \in 1 .. Len(free_block) : free_block[i] \in Block OBVIOUS
  <2> QED BY <2>1 DEF Block
<1>2. k = IF I # {} THEN Min(I) ELSE 0 BY DEF FirstFit, SelectInSeq
<1> HIDE DEF k
<1>3. CASE I = {}
  <2>1. k = 0 /\ \A j \in 1 .. Len(free_block) : ~ (free_block[j].size >= request)
    BY <1>2, <1>3
  <2>2. \A j \in 1 .. Len(free_block) : free_block[j].size < request BY <1>1, <2>1
  <2> QED BY <2>1, <2>2 DEF k
<1>4. CASE I # {}
  <2>1. I \subseteq Nat OBVIOUS
  <2>2. k \in I /\ \A j \in I : k <= j
    <3> HIDE DEF I
    <3> QED BY <1>2, <1>4, <2>1, MinOfNats
  <2>3. \A j \in 1 .. Len(free_block) : j < k => ~ (free_block[j].size >= request) BY <2>2
  <2>4. \A j \in 1 .. Len(free_block) : j < k => free_block[j].size < request BY <1>1, <2>3
  <2>5. k \in 1 .. Len(free_block) /\ k > 0 /\ free_block[k].size >= request BY <2>2
  <2> QED BY <2>4, <2>5 DEF k
<1> QED BY <1>3, <1>4

LEMMA FindProcessIs ==
  ASSUME allocated_block_head \in Seq(Process), NEW p
  PROVE  LET k == find_process(p)
         IN  \/ k \in 1 .. Len(allocated_block_head) /\ k # 0 /\ allocated_block_head[k].pid = p
             \/ k = 0 /\ \A j \in 1 .. Len(allocated_block_head) : allocated_block_head[j].pid # p
<1> DEFINE I == {i \in 1 .. Len(allocated_block_head) : allocated_block_head[i].pid = p}
           k == find_process(p)
<1>1. k = IF I # {} THEN Min(I) ELSE 0 BY DEF find_process, SelectInSeq
<1> HIDE DEF k
<1>2. CASE I = {} BY <1>1, <1>2 DEF k
<1>3. CASE I # {}
  <2>1. I \subseteq Nat OBVIOUS
  <2>2. k \in I
    <3> HIDE DEF I
    <3> QED BY <1>1, <1>3, <2>1, MinOfNats
  <2> QED BY <2>2 DEF k
<1> QED BY <1>2, <1>3

-----------------------------------------------------------------------------
(* The inductive invariant: until the program exits its free blocks and    *)
(* processes tile the memory, add up to it, and the list is in the order   *)
(* of the policy; before the first choice the memory is one free block.    *)
Held(fs, ps) ==
  /\ fs \in Seq(Block) /\ ps \in Seq(Process)
  /\ Tiled(fs, ps, mem_size) /\ Total(fs) + Total(ps) = mem_size

PidsUpTo(ps, n) ==
  /\ \A k \in 1 .. Len(ps) : ps[k].pid \in 1 .. n
  /\ \A j, k \in 1 .. Len(ps) : j # k => ps[j].pid # ps[k].pid

Types ==
  /\ free_block \in Seq(Block) /\ allocated_block_head \in Seq(Process)
  /\ mem_size \in Nat \ {0} /\ ma_algorithm \in 1 .. 3
  /\ pid \in 0 .. MaxPid /\ flag \in {0, 1} /\ status \in {"menu", "exited", "undefined"}

Fresh == flag = 0 /\ status # "exited" =>
  allocated_block_head = <<>> /\ free_block = <<[size |-> mem_size, start_addr |-> 0]>>

Kempt == status # "exited" =>
  Held(free_block, allocated_block_head) /\ Sorted(ma_algorithm, free_block)

IInv == Types /\ PidsUpTo(allocated_block_head, pid) /\ Fresh /\ Kempt

LEMMA OneBlock ==
  ASSUME NEW m \in Nat \ {0}, NEW fs, fs = <<[size |-> m, start_addr |-> 0]>>
  PROVE  /\ fs \in Seq(Block) /\ Tiled(fs, <<>>, m) /\ Total(fs) + Total(<<>>) = m
         /\ \A algorithm : Sorted(algorithm, fs)
<1> DEFINE b == [size |-> m, start_addr |-> 0]
<1>1. b \in Block /\ b.size = m /\ End(b) = m /\ b.start_addr = 0 BY DEF Block, End
<1> HIDE DEF b
<1>2. /\ fs \in Seq(Block) /\ Len(fs) = 1 /\ fs[1] = b /\ 1 \in 1 .. Len(fs)
      /\ \A i \in 1 .. Len(fs) : i = 1
  BY <1>1 DEF b
<1>3. Len(<<>>) = 0 OBVIOUS
<1>4. Within(fs, m) /\ Within(<<>>, m) BY <1>1, <1>2, <1>3 DEF Within
<1>5. Apart(fs) /\ Apart(<<>>) BY <1>2, <1>3 DEF Apart
<1>6. \A a \in 0 .. m - 1 : Covered(fs, a) BY <1>1, <1>2 DEF Covered, Covers
<1>7. Tiled(fs, <<>>, m) BY <1>3, <1>4, <1>5, <1>6 DEF Tiled
<1>8. \A algorithm : Sorted(algorithm, fs) BY <1>2 DEF Sorted
<1>9. Total(fs) + Total(<<>>) = m
  <2>1. <<>> \in Seq(Block) /\ fs = Append(<<>>, b) BY DEF b
  <2>2. \A r \in Block : r.size \in Nat BY DEF Block
  <2>3. Total(Append(<<>>, b)) = Total(<<>>) + b.size BY <1>1, <2>1, <2>2, TotalAppended, Zenon
  <2> QED BY <1>1, <2>1, <2>3, TotalEmpty
<1> QED BY <1>2, <1>7, <1>8, <1>9

LEMMA InitIInv == Init => IInv
<1> SUFFICES ASSUME Init PROVE IInv OBVIOUS
<1>1. DEFAULT_MEM_SIZE \in Nat \ {0} /\ MaxPid \in Nat BY MemAllocAssumption
<1>2. <<>> \in Seq(Process) OBVIOUS
<1>3. Held(free_block, allocated_block_head) /\ Sorted(ma_algorithm, free_block)
  BY <1>1, <1>2, OneBlock DEF Init, Held
<1>4. Types BY <1>1, <1>2, <1>3 DEF Init, Types, Held, MA_FF
<1>5. PidsUpTo(allocated_block_head, pid) BY DEF Init, PidsUpTo
<1>6. Fresh BY DEF Init, Fresh
<1> QED BY <1>3, <1>4, <1>5, <1>6 DEF IInv, Kempt

LEMMA HeldRearranged ==
  ASSUME NEW fs, NEW ps, mem_size \in Nat, Held(fs, ps), NEW algorithm \in 1 .. 3
  PROVE  /\ Held(rearrange(algorithm, fs), ps)
         /\ Sorted(algorithm, rearrange(algorithm, fs))
<1>1. rearrange(algorithm, fs) \in Kept(fs) BY RearrangeKeeps DEF Held
<1>2. Tiled(rearrange(algorithm, fs), ps, mem_size) BY <1>1, TiledKept DEF Held
<1>3. /\ rearrange(algorithm, fs) \in Seq(Block)
      /\ Total(rearrange(algorithm, fs)) = Total(fs)
  BY <1>1 DEF Kept
<1> QED BY <1>2, <1>3, RearrangeSorts DEF Held

(* A granted block, from the list or from what compaction left.            *)
LEMMA GrantKeeps ==
  ASSUME NEW fs, NEW ps, Types, Held(fs, ps), PidsUpTo(ps, pid),
         NEW k \in 1 .. Len(fs), NEW request \in Nat, request <= fs[k].size,
         Grant(fs, ps, k, request), UNCHANGED <<mem_size, ma_algorithm>>, pid' = pid + 1
  PROVE  /\ Held(free_block, allocated_block_head)' /\ Sorted(ma_algorithm, free_block)'
         /\ PidsUpTo(allocated_block_head, pid)'
<1> DEFINE gs == Remaining(fs, k, request)
           g == Granted(fs[k], request)
           qs == <<g>> \o ps
<1>1. /\ fs \in Seq(Block) /\ ps \in Seq(Process) /\ mem_size \in Nat /\ pid \in Nat
      /\ ma_algorithm \in 1 .. 3 /\ Tiled(fs, ps, mem_size) /\ Total(fs) + Total(ps) = mem_size
  BY DEF Types, Held
<1>2. gs \in Seq(Block) /\ g \in Process /\ Tiled(gs, qs, mem_size) /\ Total(gs) + g.size = Total(fs)
  BY <1>1, TiledGrant
<1>3. g.pid = pid + 1 BY DEF Granted
<1>4. free_block' = rearrange(ma_algorithm, gs) /\ allocated_block_head' = qs BY DEF Grant
<1> HIDE DEF gs, g
<1>5. /\ qs \in Seq(Process) /\ Len(qs) = Len(ps) + 1 /\ qs[1] = g
      /\ \A j \in 1 .. Len(ps) : qs[j + 1] = ps[j]
  BY <1>1, <1>2, ConsAs
<1>6. Held(gs, qs)
  <2>1. \A r \in Process : r.size \in Nat BY DEF Process
  <2>2. Total(qs) = Total(ps) + g.size BY <1>1, <1>2, <2>1, TotalCons
  <2>3. Total(ps) \in Nat /\ g.size \in Nat BY <1>1, <1>2, <2>1, TotalNat
  <2>4. Total(gs) \in Nat
    <3>1. \A r \in Block : r.size \in Nat BY DEF Block
    <3> QED BY <1>2, <3>1, TotalNat
  <2> HIDE DEF qs
  <2>5. Total(gs) + Total(qs) = mem_size BY <1>1, <1>2, <2>2, <2>3, <2>4
  <2> QED BY <1>2, <1>5, <2>5 DEF Held
<1>7. \A j \in 1 .. Len(qs) : j = 1 \/ (j - 1 \in 1 .. Len(ps) /\ qs[j] = ps[j - 1])
  <2> SUFFICES ASSUME NEW j \in 1 .. Len(qs), j # 1
               PROVE  j - 1 \in 1 .. Len(ps) /\ qs[j] = ps[j - 1]
    OBVIOUS
  <2>1. j - 1 \in 1 .. Len(ps) /\ j - 1 + 1 = j BY <1>1, <1>5
  <2> QED BY <1>5, <2>1
<1> HIDE DEF qs
<1>8. PidsUpTo(qs, pid + 1)
  <2>1. \A j \in 1 .. Len(ps) : ps[j].pid \in 1 .. pid BY DEF PidsUpTo
  <2>2. ASSUME NEW j \in 1 .. Len(qs) PROVE qs[j].pid \in 1 .. pid + 1
    <3>1. CASE j = 1 BY <1>1, <1>3, <1>5, <3>1
    <3>2. CASE j # 1
      <4>1. qs[j].pid \in 1 .. pid BY <1>7, <2>1, <3>2
      <4> HIDE DEF PidsUpTo
      <4> QED BY <1>1, <4>1
    <3> QED BY <3>1, <3>2
  <2>3. ASSUME NEW i \in 1 .. Len(qs), NEW j \in 1 .. Len(qs), i # j PROVE qs[i].pid # qs[j].pid
    <3>1. CASE i = 1 BY <1>1, <1>3, <1>5, <1>7, <2>1, <2>3, <3>1, SMTT(30)
    <3>2. CASE j = 1 BY <1>1, <1>3, <1>5, <1>7, <2>1, <2>3, <3>2
    <3>3. CASE i # 1 /\ j # 1
      <4>1. /\ i - 1 \in 1 .. Len(ps) /\ qs[i] = ps[i - 1]
            /\ j - 1 \in 1 .. Len(ps) /\ qs[j] = ps[j - 1] /\ i - 1 # j - 1
        BY <1>7, <2>3, <3>3, SMTT(30)
      <4> QED BY <4>1 DEF PidsUpTo
    <3> QED BY <3>1, <3>2, <3>3
  <2> QED BY <2>2, <2>3 DEF PidsUpTo
<1>9. /\ Held(rearrange(ma_algorithm, gs), qs)
      /\ Sorted(ma_algorithm, rearrange(ma_algorithm, gs))
  BY <1>1, <1>6, HeldRearranged
<1>10. Held(free_block, allocated_block_head)' BY <1>4, <1>9 DEF Held
<1> QED BY <1>4, <1>8, <1>9, <1>10

(* Compaction keeps what the processes are and what is free altogether.    *)
LEMMA CompactionKeeps ==
  ASSUME Types, Held(free_block, allocated_block_head), PidsUpTo(allocated_block_head, pid)
  PROVE  /\ Held(CompactedFree, CompactedProcesses) /\ PidsUpTo(CompactedProcesses, pid)
         /\ Len(CompactedFree) = 1 /\ CompactedFree[1].size = Total(free_block)
         /\ Len(CompactedProcesses) = Len(allocated_block_head)
         /\ \A k \in 1 .. Len(allocated_block_head) :
              /\ CompactedProcesses[k].pid = allocated_block_head[k].pid
              /\ CompactedProcesses[k].size = allocated_block_head[k].size
<1>1. /\ allocated_block_head \in Seq(Process) /\ mem_size \in Nat
      /\ Total(free_block) \in Nat /\ Total(allocated_block_head) \in Nat
      /\ Total(free_block) + Total(allocated_block_head) = mem_size
  <2>1. \A r \in Block : r.size \in Nat BY DEF Block
  <2>2. \A r \in Process : r.size \in Nat BY DEF Process
  <2> QED BY <2>1, <2>2, TotalNat DEF Types, Held
<1>2. /\ Total(allocated_block_head) <= mem_size
      /\ mem_size - Total(allocated_block_head) = Total(free_block)
  BY <1>1
<1>3. PICK f \in [0 .. Len(allocated_block_head) -> Nat] :
           /\ Adds(f, Len(allocated_block_head), Sizes(allocated_block_head))
           /\ f[Len(allocated_block_head)] = Total(allocated_block_head)
  BY <1>1, CompactedFun
<1>4. CompactedTo(f, CompactedProcesses, CompactedFree) BY <1>1, <1>2, <1>3, CompactedIs
<1>5. Held(CompactedFree, CompactedProcesses)
  <2>1. Tiled(CompactedFree, CompactedProcesses, mem_size) BY <1>1, <1>2, TiledCompacted
  <2>2. Total(CompactedFree) + Total(CompactedProcesses) = mem_size
    BY <1>1, <1>2, CompactedTotals
  <2> QED BY <1>4, <2>1, <2>2 DEF Held, CompactedTo
<1>6. PidsUpTo(CompactedProcesses, pid) BY <1>4, ZenonT(30) DEF PidsUpTo, CompactedTo
<1>7. Len(CompactedFree) = 1 /\ CompactedFree[1].size = Total(free_block)
  BY <1>2, <1>4 DEF CompactedTo
<1> QED BY <1>4, <1>5, <1>6, <1>7 DEF CompactedTo

(* The four outcomes of a request.                                         *)
FromList(request) ==
  /\ FirstFit(request) \in 1 .. Len(free_block)
  /\ free_block[FirstFit(request)].size >= request
  /\ \A j \in 1 .. Len(free_block) :
       j < FirstFit(request) => free_block[j].size < request
  /\ Grant(free_block, allocated_block_head, FirstFit(request), request)
NoneFits(request) == \A j \in 1 .. Len(free_block) : free_block[j].size < request
Dangling(request) ==
  /\ NoneFits(request) /\ status' = "undefined"
  /\ UNCHANGED <<free_block, allocated_block_head>>
FromCompacted(request) ==
  /\ NoneFits(request) /\ CompactedFree[1].size >= request
  /\ Grant(CompactedFree, CompactedProcesses, 1, request)
Refused(request) ==
  /\ NoneFits(request) /\ CompactedFree[1].size < request
  /\ free_block' = CompactedFree /\ allocated_block_head' = CompactedProcesses
  /\ UNCHANGED status

LEMMA Outcomes ==
  ASSUME Types, NEW request \in Int, allocate_mem(request)
  PROVE  FromList(request) \/ Dangling(request) \/ FromCompacted(request) \/ Refused(request)
<1> DEFINE k == FirstFit(request)
<1>1. \/ /\ k \in 1 .. Len(free_block) /\ k > 0 /\ free_block[k].size >= request
         /\ \A j \in 1 .. Len(free_block) : j < k => free_block[j].size < request
      \/ k = 0 /\ NoneFits(request)
  BY FirstFitIs DEF Types, NoneFits
<1>2. \/ k > 0 /\ Grant(free_block, allocated_block_head, k, request)
      \/ /\ k = 0 /\ CompactedFree[1].size >= request
         /\ \/ status' = "undefined" /\ UNCHANGED <<free_block, allocated_block_head>>
            \/ Grant(CompactedFree, CompactedProcesses, 1, request)
      \/ /\ k = 0 /\ CompactedFree[1].size < request
         /\ free_block' = CompactedFree
         /\ allocated_block_head' = CompactedProcesses
         /\ UNCHANGED status
  BY DEF allocate_mem
<1>3. CASE k > 0
  <2>1. k # 0 BY <1>1, <1>3
  <2> QED BY <1>1, <1>2, <2>1 DEF FromList
<1>4. CASE k = 0
  <2>1. ~ (k > 0) BY <1>4
  <2>2. NoneFits(request) BY <1>1, <2>1
  <2> QED BY <1>2, <2>1, <2>2 DEF Dangling, FromCompacted, Refused
<1> QED BY <1>1, <1>3, <1>4

(* The request of a typed size: the size, or what malloc left there.       *)
LEMMA NewProcess ==
  ASSUME IInv, NEW s \in Typed, new_process(s)
  PROVE  /\ Types /\ Held(free_block, allocated_block_head) /\ PidsUpTo(allocated_block_head, pid)
         /\ Sorted(ma_algorithm, free_block)
         /\ status = "menu" /\ pid < MaxPid /\ pid' = pid + 1 /\ flag' = 1
         /\ UNCHANGED <<mem_size, ma_algorithm>>
         /\ \E request \in Nat :
              /\ s > 0 => request = s
              /\ FromList(request) \/ Dangling(request) \/ FromCompacted(request) \/ Refused(request)
<1>1. Types /\ status = "menu" BY DEF IInv, new_process
<1>2. \A request \in IF s > 0 THEN {s} ELSE Garbage : request \in Nat /\ (s > 0 => request = s)
  BY MemAllocAssumption
<1>3. PICK request \in IF s > 0 THEN {s} ELSE Garbage : allocate_mem(request) BY DEF new_process
<1>4. request \in Nat /\ request \in Int /\ (s > 0 => request = s) BY <1>2
<1>5. FromList(request) \/ Dangling(request) \/ FromCompacted(request) \/ Refused(request)
  BY <1>1, <1>3, <1>4, Outcomes
<1> QED BY <1>1, <1>4, <1>5 DEF IInv, Kempt, new_process

LEMMA NewProcessKeeps ==
  ASSUME IInv, NEW s \in Typed, new_process(s)
  PROVE  IInv'
<1>1. /\ Types /\ Held(free_block, allocated_block_head) /\ PidsUpTo(allocated_block_head, pid)
      /\ Sorted(ma_algorithm, free_block)
      /\ status = "menu" /\ pid < MaxPid /\ pid' = pid + 1 /\ flag' = 1
      /\ UNCHANGED <<mem_size, ma_algorithm>>
  BY NewProcess
<1>2. PICK request \in Nat :
        FromList(request) \/ Dangling(request) \/ FromCompacted(request) \/ Refused(request)
  BY NewProcess
<1>3. pid' \in 0 .. MaxPid /\ pid \in Nat BY <1>1, MemAllocAssumption DEF Types
<1>4. /\ Held(CompactedFree, CompactedProcesses) /\ PidsUpTo(CompactedProcesses, pid)
      /\ Len(CompactedFree) = 1
      /\ Held(free_block, allocated_block_head) /\ free_block \in Seq(Block)
  BY <1>1, CompactionKeeps DEF Types
<1>5. \A ps : PidsUpTo(ps, pid) => PidsUpTo(ps, pid + 1)
  <2> SUFFICES ASSUME NEW ps, PidsUpTo(ps, pid) PROVE PidsUpTo(ps, pid + 1) OBVIOUS
  <2>1. 1 .. pid \subseteq 1 .. pid + 1 BY <1>3
  <2> QED BY <2>1 DEF PidsUpTo
<1>6. /\ Held(free_block, allocated_block_head)' /\ Sorted(ma_algorithm, free_block)'
      /\ PidsUpTo(allocated_block_head, pid)' /\ status' \in {"menu", "undefined"}
  <2>1. CASE FromList(request)
    <3> DEFINE k == FirstFit(request)
    <3>1. /\ k \in 1 .. Len(free_block) /\ Grant(free_block, allocated_block_head, k, request)
          /\ free_block[k].size >= request
      BY <2>1 DEF FromList
    <3>2. request <= free_block[k].size
      <4>1. free_block[k] \in Block BY <1>4, <3>1
      <4> QED BY <3>1, <4>1 DEF Block
    <3> HIDE DEF k
    <3> QED BY <1>1, <3>1, <3>2, GrantKeeps DEF Grant
  <2>2. CASE Dangling(request)
    <3>1. /\ free_block' = free_block /\ allocated_block_head' = allocated_block_head
          /\ mem_size' = mem_size /\ ma_algorithm' = ma_algorithm /\ status' = "undefined"
      BY <1>1, <2>2 DEF Dangling
    <3> QED BY <1>1, <1>5, <3>1 DEF Held
  <2>3. CASE FromCompacted(request)
    <3>1. /\ 1 \in 1 .. Len(CompactedFree) /\ CompactedFree[1].size >= request
          /\ Grant(CompactedFree, CompactedProcesses, 1, request)
      BY <1>4, <2>3 DEF FromCompacted
    <3>2. request <= CompactedFree[1].size
      <4>0. CompactedFree \in Seq(Block) BY <1>4 DEF Held
      <4>1. CompactedFree[1] \in Block BY <3>1, <4>0
      <4> QED BY <3>1, <4>1 DEF Block
    <3> QED BY <1>1, <1>4, <3>1, <3>2, GrantKeeps DEF Grant
  <2>4. CASE Refused(request)
    <3>1. /\ free_block' = CompactedFree /\ allocated_block_head' = CompactedProcesses
          /\ mem_size' = mem_size /\ ma_algorithm' = ma_algorithm /\ status' = status
      BY <1>1, <2>4 DEF Refused
    <3>2. Sorted(ma_algorithm, CompactedFree) BY <1>4 DEF Sorted
    <3> QED BY <1>1, <1>4, <1>5, <3>1, <3>2 DEF Held
  <2> QED BY <1>2, <2>1, <2>2, <2>3, <2>4
<1>7. Types' BY <1>1, <1>3, <1>6 DEF Types, Held
<1>8. Fresh' BY <1>1 DEF Fresh
<1> QED BY <1>6, <1>7, <1>8 DEF IInv, Kempt

LEMMA SetMemSizeKeeps ==
  ASSUME IInv, NEW n \in Typed, set_mem_size(n)
  PROVE  IInv'
<1>1. Types /\ Kempt /\ status = "menu" /\ n \in Int /\ MaxPid \in Nat
  BY MemAllocAssumption DEF IInv, set_mem_size
<1>2. /\ free_block = <<[size |-> mem_size, start_addr |-> 0]>> /\ allocated_block_head = <<>>
      /\ mem_size \in Nat \ {0}
  BY <1>1 DEF IInv, Fresh, Types, set_mem_size
<1>3. /\ mem_size' \in Nat \ {0} /\ free_block' = <<[size |-> mem_size', start_addr |-> 0]>>
      /\ allocated_block_head' = <<>>
  <2>1. CASE n > 0
    <3>1. free_block' = [free_block EXCEPT ![1].size = n] /\ mem_size' = n
      BY <2>1 DEF set_mem_size
    <3>2. free_block' = <<[size |-> n, start_addr |-> 0]>> BY <1>2, <3>1
    <3> QED BY <1>1, <1>2, <2>1, <3>1, <3>2 DEF set_mem_size
  <2>2. CASE ~ (n > 0) BY <1>2, <2>2 DEF set_mem_size
  <2> QED BY <2>1, <2>2
<1>4. /\ free_block' \in Seq(Block) /\ Tiled(free_block', <<>>, mem_size')
      /\ Total(free_block') + Total(<<>>) = mem_size' /\ Sorted(ma_algorithm', free_block')
  BY <1>3, OneBlock
<1>5. <<>> \in Seq(Process) OBVIOUS
<1>6. Held(free_block, allocated_block_head)' BY <1>3, <1>4, <1>5 DEF Held
<1>7. Types' BY <1>1, <1>3, <1>4, <1>5 DEF Types, set_mem_size
<1>8. PidsUpTo(allocated_block_head, pid)' BY <1>3 DEF PidsUpTo
<1>9. Fresh' BY DEF Fresh, set_mem_size
<1> QED BY <1>4, <1>6, <1>7, <1>8, <1>9 DEF IInv, Kempt

LEMMA SetAlgorithmKeeps ==
  ASSUME IInv, NEW algorithm \in 0 .. 3, set_algorithm(algorithm)
  PROVE  IInv'
<1>1. /\ Types /\ Held(free_block, allocated_block_head) /\ PidsUpTo(allocated_block_head, pid)
      /\ mem_size \in Nat
  BY DEF IInv, Kempt, Types, set_algorithm
<1>2. ma_algorithm' \in 1 .. 3 BY <1>1 DEF Types, set_algorithm
<1>3. /\ free_block' = rearrange(ma_algorithm', free_block) /\ flag' = 1
      /\ UNCHANGED <<allocated_block_head, mem_size, pid, status>>
  BY DEF set_algorithm
<1>4. /\ Held(rearrange(ma_algorithm', free_block), allocated_block_head)
      /\ Sorted(ma_algorithm', rearrange(ma_algorithm', free_block))
  BY <1>1, <1>2, HeldRearranged
<1>5. Held(free_block, allocated_block_head)' BY <1>3, <1>4 DEF Held
<1>6. Types' BY <1>1, <1>2, <1>3, <1>5 DEF Types, Held
<1>7. PidsUpTo(allocated_block_head, pid)' BY <1>1, <1>3
<1>8. Fresh' BY <1>3 DEF Fresh
<1> QED BY <1>3, <1>4, <1>5, <1>6, <1>7, <1>8 DEF IInv, Kempt

(* kill_process: the sorted and merged list holds what was free and what   *)
(* the process gives back.                                                 *)
FreedAt(k) == [size |-> allocated_block_head[k].size,
               start_addr |-> allocated_block_head[k].start_addr]

LEMMA KillProcess ==
  ASSUME IInv, NEW p, kill_process(p)
  PROVE  /\ status = "menu" /\ flag' = 1 /\ UNCHANGED <<mem_size, ma_algorithm, pid, status>>
         /\ \/ UNCHANGED <<free_block, allocated_block_head>>
            \/ \E k \in 1 .. Len(allocated_block_head) :
                 /\ allocated_block_head[k].pid = p
                 /\ free_block' = rearrange(ma_algorithm,
                                     memory_merge(memory_sort(<<FreedAt(k)>> \o free_block)))
                 /\ allocated_block_head' = RemoveAt(allocated_block_head, k)
<1>1. allocated_block_head \in Seq(Process) BY DEF IInv, Types
<1>2. CASE find_process(p) = 0 BY <1>2 DEF kill_process
<1>3. CASE find_process(p) # 0
  <2>1. /\ find_process(p) \in 1 .. Len(allocated_block_head)
        /\ allocated_block_head[find_process(p)].pid = p
    BY <1>1, <1>3, FindProcessIs
  <2> QED BY <1>3, <2>1 DEF kill_process, FreedAt
<1> QED BY <1>2, <1>3

LEMMA HeldFreed ==
  ASSUME Types, Held(free_block, allocated_block_head), NEW k \in 1 .. Len(allocated_block_head)
  PROVE  LET fs == memory_sort(<<FreedAt(k)>> \o free_block)
             qs == RemoveAt(allocated_block_head, k)
         IN  /\ Held(fs, qs) /\ Sorted(MA_FF, fs)
             /\ fs \in Kept(<<FreedAt(k)>> \o free_block)
             /\ Held(memory_merge(fs), qs)
<1> DEFINE b == FreedAt(k)
           ps == allocated_block_head
           gs == <<b>> \o free_block
           qs == RemoveAt(ps, k)
           fs == memory_sort(gs)
           ms == memory_merge(fs)
<1>1. /\ free_block \in Seq(Block) /\ ps \in Seq(Process) /\ mem_size \in Nat
      /\ Tiled(free_block, ps, mem_size) /\ Total(free_block) + Total(ps) = mem_size
  BY DEF Types, Held
<1>2. b \in Block /\ b.size = ps[k].size /\ b.start_addr = ps[k].start_addr
  <2>1. ps[k] \in Process BY <1>1
  <2> QED BY <2>1 DEF FreedAt, Block, Process
<1> HIDE DEF b
<1>3. gs \in Seq(Block) BY <1>1, <1>2, ConsAs
<1>4. qs \in Seq(Process) BY <1>1, RemoveAtAs
<1>5. Tiled(gs, qs, mem_size) BY <1>1, <1>2, TiledFreed
<1>6. Total(gs) + Total(qs) = mem_size
  <2>1. \A r \in Block : r.size \in Nat BY DEF Block
  <2>2. \A r \in Process : r.size \in Nat BY DEF Process
  <2>3. Total(gs) = Total(free_block) + b.size BY <1>1, <1>2, <2>1, TotalCons
  <2>4. Total(qs) = Total(ps) - ps[k].size BY <1>1, <2>2, TotalRemoved
  <2>5. Total(free_block) \in Nat /\ Total(ps) \in Nat BY <1>1, <2>1, <2>2, TotalNat
  <2>6. b.size \in Nat BY <1>2, <2>1
  <2> HIDE DEF gs, qs
  <2> QED BY <1>1, <1>2, <2>3, <2>4, <2>5, <2>6
<1> HIDE DEF gs, qs
<1>7. Held(gs, qs) BY <1>3, <1>4, <1>5, <1>6 DEF Held
<1>8. MA_FF \in 1 .. 3 BY DEF MA_FF
<1>9. Held(fs, qs) /\ Sorted(MA_FF, fs) BY <1>1, <1>7, <1>8, HeldRearranged DEF memory_sort
<1>10. fs \in Kept(gs) BY <1>3, RearrangeKeeps DEF memory_sort
<1> HIDE DEF fs
<1>11. fs \in Seq(Block) /\ Tiled(fs, qs, mem_size) /\ Total(fs) + Total(qs) = mem_size
  BY <1>9 DEF Held
<1>12. Tiled(ms, qs, mem_size) BY <1>1, <1>4, <1>11, TiledMerge
<1>13. ms \in Seq(Block) /\ Total(ms) = Total(fs) BY <1>11, MergeKeeps DEF Tiled
<1>14. Held(ms, qs) BY <1>4, <1>11, <1>12, <1>13 DEF Held
<1> QED BY <1>9, <1>10, <1>14 DEF b, gs, qs, fs

LEMMA KillProcessKeeps ==
  ASSUME IInv, NEW p, kill_process(p)
  PROVE  IInv'
<1>1. /\ Types /\ Held(free_block, allocated_block_head) /\ PidsUpTo(allocated_block_head, pid)
      /\ Sorted(ma_algorithm, free_block) /\ ma_algorithm \in 1 .. 3 /\ mem_size \in Nat
      /\ allocated_block_head \in Seq(Process)
  BY KillProcess DEF IInv, Kempt, Types
<1>2. status = "menu" /\ flag' = 1 /\ UNCHANGED <<mem_size, ma_algorithm, pid, status>>
  BY KillProcess
<1>3. /\ Held(free_block, allocated_block_head)' /\ Sorted(ma_algorithm, free_block)'
      /\ PidsUpTo(allocated_block_head, pid)'
  <2>1. CASE UNCHANGED <<free_block, allocated_block_head>> BY <1>1, <1>2, <2>1 DEF Held
  <2>2. CASE ~ UNCHANGED <<free_block, allocated_block_head>>
    <3>1. PICK k \in 1 .. Len(allocated_block_head) :
            /\ free_block' = rearrange(ma_algorithm,
                                memory_merge(memory_sort(<<FreedAt(k)>> \o free_block)))
            /\ allocated_block_head' = RemoveAt(allocated_block_head, k)
      BY <2>2, KillProcess
    <3> DEFINE ms == memory_merge(memory_sort(<<FreedAt(k)>> \o free_block))
               qs == RemoveAt(allocated_block_head, k)
    <3>2. Held(ms, qs) BY <1>1, HeldFreed
    <3>3. /\ Len(qs) = Len(allocated_block_head) - 1
          /\ \A j \in 1 .. Len(allocated_block_head) - 1 :
               qs[j] = IF j < k THEN allocated_block_head[j] ELSE allocated_block_head[j + 1]
      BY <1>1, RemoveAtAs
    <3> HIDE DEF ms, qs
    <3>4. Held(rearrange(ma_algorithm, ms), qs) /\ Sorted(ma_algorithm, rearrange(ma_algorithm, ms))
      BY <1>1, <3>2, HeldRearranged
    <3>5. PidsUpTo(qs, pid)
      <4> DEFINE h(j) == IF j < k THEN j ELSE j + 1
      <4>1. Len(allocated_block_head) \in Nat /\ k \in Nat BY <1>1
      <4>2. \A j \in 1 .. Len(qs) :
              h(j) \in 1 .. Len(allocated_block_head) /\ qs[j] = allocated_block_head[h(j)]
        BY <3>3, <4>1
      <4>3. \A i, j \in 1 .. Len(qs) : i # j => h(i) # h(j) BY <3>3, <4>1
      <4> HIDE DEF h
      <4>4. \A j \in 1 .. Len(qs) : qs[j].pid \in 1 .. pid BY <1>1, <4>2 DEF PidsUpTo
      <4>5. ASSUME NEW i \in 1 .. Len(qs), NEW j \in 1 .. Len(qs), i # j PROVE qs[i].pid # qs[j].pid
        <5>1. h(i) \in 1 .. Len(allocated_block_head) /\ h(j) \in 1 .. Len(allocated_block_head)
          BY <4>2
        <5>2. h(i) # h(j) BY <4>3, <4>5
        <5>3. allocated_block_head[h(i)].pid # allocated_block_head[h(j)].pid
          BY <1>1, <5>1, <5>2 DEF PidsUpTo
        <5> QED BY <4>2, <5>3
      <4> QED BY <4>4, <4>5 DEF PidsUpTo
    <3>6. free_block' = rearrange(ma_algorithm, ms) /\ allocated_block_head' = qs
      BY <3>1 DEF ms, qs
    <3> QED BY <1>2, <3>4, <3>5, <3>6 DEF Held
  <2> QED BY <2>1, <2>2
<1>4. Types' BY <1>1, <1>2, <1>3 DEF Types, Held
<1>5. Fresh' BY <1>2 DEF Fresh
<1> QED BY <1>3, <1>4, <1>5 DEF IInv, Kempt

LEMMA NextIInv == IInv /\ [Next]_vars => IInv'
<1> SUFFICES ASSUME IInv, [Next]_vars PROVE IInv' OBVIOUS
<1>1. ASSUME NEW n \in Typed, set_mem_size(n) PROVE IInv' BY <1>1, SetMemSizeKeeps
<1>2. ASSUME NEW n \in Typed, new_process(n) PROVE IInv' BY <1>2, NewProcessKeeps
<1>3. ASSUME NEW algorithm \in 0 .. 3, set_algorithm(algorithm) PROVE IInv'
  BY <1>3, SetAlgorithmKeeps
<1>4. ASSUME NEW p \in 1 .. MaxPid, kill_process(p) PROVE IInv' BY <1>4, KillProcessKeeps
<1>5. CASE Display
  <2>1. Types' BY <1>5 DEF Display, IInv, Types
  <2>2. PidsUpTo(allocated_block_head, pid)' BY <1>5 DEF Display, IInv
  <2>3. Fresh' BY <1>5 DEF Display, Fresh
  <2>4. Kempt' BY <1>5 DEF Display, IInv, Kempt, Held
  <2> QED BY <2>1, <2>2, <2>3, <2>4 DEF IInv
<1>6. CASE do_exit
  <2>1. Types' BY <1>6 DEF do_exit, IInv, Types
  <2>2. PidsUpTo(allocated_block_head, pid)' BY <1>6 DEF do_exit, PidsUpTo
  <2>3. Fresh' /\ Kempt' BY <1>6 DEF do_exit, Fresh, Kempt
  <2> QED BY <2>1, <2>2, <2>3 DEF IInv
<1>7. CASE UNCHANGED vars
  BY <1>7 DEF vars, IInv, Types, Fresh, Kempt, Held
<1> QED BY <1>1, <1>2, <1>3, <1>4, <1>5, <1>6, <1>7 DEF Next

LEMMA Inductive == Spec => []IInv
<1> QED BY InitIInv, NextIInv, PTL DEF Spec

-----------------------------------------------------------------------------
(* The blocks and processes as one sequence of places.                     *)
LEMMA Places ==
  ASSUME Types
  PROVE  /\ DOMAIN (free_block \o allocated_block_head)
              = 1 .. Len(free_block) + Len(allocated_block_head)
         /\ Len(free_block) \in Nat /\ Len(allocated_block_head) \in Nat
         /\ \A i \in 1 .. Len(free_block) : BlockAt(i) = free_block[i] /\ free_block[i] \in Tile
         /\ \A j \in 1 .. Len(allocated_block_head) :
              /\ BlockAt(Len(free_block) + j) = allocated_block_head[j]
              /\ allocated_block_head[j] \in Tile
         /\ \A at \in 1 .. Len(free_block) + Len(allocated_block_head) :
              \/ at \in 1 .. Len(free_block)
              \/ \E j \in 1 .. Len(allocated_block_head) : at = Len(free_block) + j
<1>1. free_block \in Seq(Tile) /\ allocated_block_head \in Seq(Tile) BY Tiles DEF Types
<1> DEFINE s == free_block
           t == allocated_block_head
<1> HIDE DEF s, t
<1>2. \A x, y \in Seq(Tile) :
        /\ DOMAIN (x \o y) = 1 .. Len(x) + Len(y) /\ Len(x) \in Nat /\ Len(y) \in Nat
        /\ \A i \in 1 .. Len(x) : (x \o y)[i] = x[i] /\ x[i] \in Tile
        /\ \A j \in 1 .. Len(y) : (x \o y)[Len(x) + j] = y[j] /\ y[j] \in Tile
  OBVIOUS
<1>3. \A m, n \in Nat : \A at \in 1 .. m + n : at \in 1 .. m \/ \E j \in 1 .. n : at = m + j
  <2> SUFFICES ASSUME NEW m \in Nat, NEW n \in Nat, NEW at \in 1 .. m + n, at \notin 1 .. m
               PROVE  \E j \in 1 .. n : at = m + j
    OBVIOUS
  <2>1. at - m \in 1 .. n /\ at = m + (at - m) OBVIOUS
  <2> QED BY <2>1
<1> QED BY <1>1, <1>2, <1>3 DEF BlockAt

LEMMA CoversBoth ==
  ASSUME NEW b \in Tile, NEW c \in Tile, NEW a \in Int, Covers(b, a), Covers(c, a)
  PROVE  ~ Disjoint(b, c)
<1>1. b.size \in Nat /\ b.start_addr \in Nat /\ c.size \in Nat /\ c.start_addr \in Nat BY Tiles
<1> QED BY <1>1 DEF Covers, Disjoint, End

LEMMA IInvTypeOK == IInv => TypeOK
<1> SUFFICES ASSUME IInv PROVE TypeOK OBVIOUS
<1>1. Types /\ PidsUpTo(allocated_block_head, pid) BY DEF IInv
<1>2. free_block \in Seq(Block) /\ allocated_block_head \in Seq(Process) BY <1>1 DEF Types
<1>3. ASSUME NEW b \in Range(free_block) PROVE b.size \in Nat /\ b.start_addr \in Nat
  <2>1. b \in Block BY <1>2, RangeOf
  <2> QED BY <2>1 DEF Block
<1>4. ASSUME NEW p \in Processes PROVE p.pid \in 1 .. pid /\ p.size \in Nat /\ p.start_addr \in Nat
  <2>1. PICK k \in 1 .. Len(allocated_block_head) : allocated_block_head[k] = p
    BY <1>2, RangeOf DEF Processes
  <2>2. p \in Process BY <1>2, <2>1
  <2>3. p.pid \in 1 .. pid BY <1>1, <2>1 DEF PidsUpTo
  <2> QED BY <2>2, <2>3 DEF Process
<1>5. IsInjective([k \in DOMAIN allocated_block_head |-> allocated_block_head[k].pid])
  <2>1. DOMAIN allocated_block_head = 1 .. Len(allocated_block_head) BY <1>2
  <2> QED BY <1>1, <2>1 DEF PidsUpTo, IsInjective
<1> QED BY <1>1, <1>3, <1>4, <1>5 DEF TypeOK, Types

LEMMA IInvBlocksTile == IInv => BlocksTile
<1> SUFFICES ASSUME IInv, status # "exited"
             PROVE  LET places == DOMAIN (free_block \o allocated_block_head)
                    IN  /\ \A at \in places : BlockAt(at).start_addr >= 0 /\ End(BlockAt(at)) <= mem_size
                        /\ \A a \in 0 .. mem_size - 1 :
                             \E at \in places : /\ Covers(BlockAt(at), a)
                                                /\ \A to \in places : Covers(BlockAt(to), a) => to = at
  BY IInvTypeOK DEF BlocksTile
<1> DEFINE n == Len(free_block)
           l == Len(allocated_block_head)
<1>1. Types /\ Tiled(free_block, allocated_block_head, mem_size) BY DEF IInv, Kempt, Held
<1>2. /\ DOMAIN (free_block \o allocated_block_head) = 1 .. n + l /\ n \in Nat /\ l \in Nat
      /\ \A i \in 1 .. n : BlockAt(i) = free_block[i] /\ free_block[i] \in Tile
      /\ \A j \in 1 .. l :
           BlockAt(n + j) = allocated_block_head[j] /\ allocated_block_head[j] \in Tile
      /\ \A at \in 1 .. n + l : at \in 1 .. n \/ \E j \in 1 .. l : at = n + j
  BY <1>1, Places
<1> HIDE DEF n, l
<1>3. \A at \in 1 .. n + l : BlockAt(at) \in Tile BY <1>2
<1>4. ASSUME NEW at \in 1 .. n + l PROVE BlockAt(at).start_addr >= 0 /\ End(BlockAt(at)) <= mem_size
  <2>1. BlockAt(at).start_addr \in Nat BY <1>3, Tiles
  <2>2. End(BlockAt(at)) <= mem_size
    <3>1. CASE at \in 1 .. n BY <1>1, <1>2, <3>1 DEF Tiled, Within, n
    <3>2. ASSUME NEW j \in 1 .. l, at = n + j PROVE End(BlockAt(at)) <= mem_size
      BY <1>1, <1>2, <3>2 DEF Tiled, Within, l
    <3> QED BY <1>2, <3>1, <3>2
  <2> QED BY <2>1, <2>2
<1>5. ASSUME NEW at \in 1 .. n + l, NEW to \in 1 .. n + l, at # to
      PROVE  Disjoint(BlockAt(at), BlockAt(to))
  <2>1. CASE at \in 1 .. n /\ to \in 1 .. n BY <1>1, <1>2, <1>5, <2>1 DEF Tiled, Apart, n
  <2>2. ASSUME NEW i \in 1 .. n, NEW j \in 1 .. l
        PROVE  Disjoint(BlockAt(i), BlockAt(n + j)) /\ Disjoint(BlockAt(n + j), BlockAt(i))
    <3>1. Disjoint(free_block[i], allocated_block_head[j]) BY <1>1 DEF Tiled, Clear, n, l
    <3> QED BY <1>2, <3>1, DisjointTiles
  <2>3. ASSUME NEW i \in 1 .. l, NEW j \in 1 .. l, at = n + i, to = n + j
        PROVE  Disjoint(BlockAt(at), BlockAt(to))
    <3>1. i # j BY <1>5, <2>3
    <3>2. Disjoint(allocated_block_head[i], allocated_block_head[j])
      BY <1>1, <3>1 DEF Tiled, Apart, l
    <3> QED BY <1>2, <2>3, <3>2
  <2> QED BY <1>2, <2>1, <2>2, <2>3
<1>6. ASSUME NEW a \in 0 .. mem_size - 1 PROVE \E at \in 1 .. n + l : Covers(BlockAt(at), a)
  <2>1. CASE Covered(free_block, a)
    <3>1. PICK i \in 1 .. n : Covers(free_block[i], a) BY <2>1 DEF Covered, n
    <3>2. i \in 1 .. n + l BY <1>2
    <3> QED BY <1>2, <3>1, <3>2
  <2>2. CASE Covered(allocated_block_head, a)
    <3>1. PICK j \in 1 .. l : Covers(allocated_block_head[j], a) BY <2>2 DEF Covered, l
    <3>2. n + j \in 1 .. n + l BY <1>2
    <3> QED BY <1>2, <3>1, <3>2
  <2> QED BY <1>1, <2>1, <2>2 DEF Tiled
<1>7. ASSUME NEW a \in 0 .. mem_size - 1
      PROVE  \E at \in 1 .. n + l : /\ Covers(BlockAt(at), a)
                                   /\ \A to \in 1 .. n + l : Covers(BlockAt(to), a) => to = at
  <2>1. PICK at \in 1 .. n + l : Covers(BlockAt(at), a) BY <1>6
  <2>2. ASSUME NEW to \in 1 .. n + l, Covers(BlockAt(to), a), to # at PROVE FALSE
    <3>1. Disjoint(BlockAt(at), BlockAt(to)) BY <1>5, <2>2
    <3>2. BlockAt(at) \in Tile /\ BlockAt(to) \in Tile /\ a \in Int BY <1>3
    <3> QED BY <2>1, <2>2, <3>1, <3>2, CoversBoth
  <2> QED BY <2>1, <2>2
<1> QED BY <1>2, <1>4, <1>7

(* Free blocks and processes tile the memory through every split, grant,   *)
(* merge and compaction, for any requests and any memory (2-3.c).          *)
THEOREM BlocksAlwaysTile == Spec => []BlocksTile
<1> QED BY Inductive, IInvBlocksTile, PTL

-----------------------------------------------------------------------------
(* What a granted request leaves: the new process first, where its hole    *)
(* began, no larger than the slice allows.                                 *)
Slack == IF MIN_SLICE > 0 THEN MIN_SLICE - 1 ELSE 0

LEMMA Granting ==
  ASSUME NEW fs \in Seq(Block), NEW ps \in Seq(Process), pid \in Nat, NEW k \in 1 .. Len(fs),
         NEW request \in Nat, fs[k].size >= request, Grant(fs, ps, k, request)
  PROVE  /\ Len(allocated_block_head') = Len(ps) + 1
         /\ allocated_block_head'[1].start_addr = fs[k].start_addr
         /\ allocated_block_head'[1].size \in request .. request + Slack
         /\ \A j \in 1 .. Len(ps) : allocated_block_head'[j + 1] = ps[j]
         /\ free_block' = rearrange(ma_algorithm, Remaining(fs, k, request))
         /\ status' = status
<1> DEFINE g == Granted(fs[k], request)
<1>1. fs[k].size \in Nat /\ fs[k].start_addr \in Nat
  <2>1. fs[k] \in Block OBVIOUS
  <2> QED BY <2>1 DEF Block
<1>2. /\ g \in Process /\ g.start_addr = fs[k].start_addr
      /\ g.size = IF TakesAll(fs[k], request) THEN fs[k].size ELSE request
  BY <1>1 DEF Granted, Process
<1>3. g.size \in request .. request + Slack
  <2>1. MIN_SLICE \in Nat BY MemAllocAssumption
  <2>2. CASE TakesAll(fs[k], request) BY <1>1, <1>2, <2>1, <2>2 DEF TakesAll, Slack
  <2>3. CASE ~ TakesAll(fs[k], request) BY <1>2, <2>1, <2>3 DEF Slack
  <2> QED BY <2>2, <2>3
<1>4. /\ allocated_block_head' = <<g>> \o ps
      /\ free_block' = rearrange(ma_algorithm, Remaining(fs, k, request)) /\ status' = status
  BY DEF Grant
<1> HIDE DEF g
<1> QED BY <1>2, <1>3, <1>4, ConsAs

(* The outcomes of new_process, by what they do to the processes.          *)
LEMMA Serving ==
  ASSUME IInv, NEW s \in Typed, new_process(s)
  PROVE  \E request \in Nat :
           /\ s > 0 => request = s
           /\ \/ /\ FromList(request) /\ Created /\ status' = status
                 /\ allocated_block_head'[1].start_addr
                      = free_block[FirstFit(request)].start_addr
                 /\ allocated_block_head'[1].size \in request .. request + Slack
                 /\ \A j \in 1 .. Len(allocated_block_head) :
                      allocated_block_head'[j + 1] = allocated_block_head[j]
              \/ NoneFits(request) /\ status' = "undefined" /\ ~ Created
                 /\ UNCHANGED <<free_block, allocated_block_head>>
              \/ /\ NoneFits(request) /\ Created /\ status' = status
                 /\ allocated_block_head'[1].size \in request .. request + Slack
                 /\ \A j \in 1 .. Len(allocated_block_head) :
                      allocated_block_head'[j + 1] = CompactedProcesses[j]
                 /\ free_block' = rearrange(ma_algorithm, Remaining(CompactedFree, 1, request))
              \/ /\ NoneFits(request) /\ ~ Created /\ status' = status
                 /\ Total(free_block) < request
                 /\ allocated_block_head' = CompactedProcesses
                 /\ free_block' = CompactedFree
<1>1. PICK request \in Nat :
        /\ s > 0 => request = s
        /\ FromList(request) \/ Dangling(request) \/ FromCompacted(request) \/ Refused(request)
  BY NewProcess
<1>2. /\ Types /\ Held(free_block, allocated_block_head) /\ PidsUpTo(allocated_block_head, pid)
  BY NewProcess
<1>3. pid \in Nat BY <1>2 DEF Types
<1>4. /\ free_block \in Seq(Block) /\ allocated_block_head \in Seq(Process)
      /\ CompactedFree \in Seq(Block) /\ CompactedProcesses \in Seq(Process)
      /\ Len(CompactedFree) = 1 /\ CompactedFree[1].size = Total(free_block)
      /\ Len(CompactedProcesses) = Len(allocated_block_head)
  BY <1>2, CompactionKeeps DEF Types, Held
<1>5. Len(allocated_block_head) \in Nat BY <1>4
<1>6. CASE FromList(request)
  <2> DEFINE k == FirstFit(request)
  <2>1. /\ k \in 1 .. Len(free_block) /\ free_block[k].size >= request
        /\ Grant(free_block, allocated_block_head, k, request)
    BY <1>6 DEF FromList
  <2> HIDE DEF k
  <2>2. /\ Len(allocated_block_head') = Len(allocated_block_head) + 1
        /\ allocated_block_head'[1].start_addr = free_block[k].start_addr
        /\ allocated_block_head'[1].size \in request .. request + Slack
        /\ \A j \in 1 .. Len(allocated_block_head) :
             allocated_block_head'[j + 1] = allocated_block_head[j]
        /\ status' = status
    BY <1>3, <1>4, <2>1, Granting
  <2>3. Created BY <1>5, <2>2 DEF Created
  <2> QED BY <1>1, <1>6, <2>2, <2>3 DEF k
<1>7. CASE Dangling(request)
  <2>1. ~ Created BY <1>5, <1>7 DEF Created, Dangling
  <2> QED BY <1>1, <1>7, <2>1 DEF Dangling
<1>8. CASE FromCompacted(request)
  <2>1. /\ 1 \in 1 .. Len(CompactedFree) /\ CompactedFree[1].size >= request
        /\ Grant(CompactedFree, CompactedProcesses, 1, request) /\ NoneFits(request)
    BY <1>4, <1>8 DEF FromCompacted
  <2>2. /\ Len(allocated_block_head') = Len(CompactedProcesses) + 1
        /\ allocated_block_head'[1].size \in request .. request + Slack
        /\ \A j \in 1 .. Len(CompactedProcesses) :
             allocated_block_head'[j + 1] = CompactedProcesses[j]
        /\ free_block' = rearrange(ma_algorithm, Remaining(CompactedFree, 1, request))
        /\ status' = status
    BY <1>3, <1>4, <2>1, Granting
  <2>3. Created BY <1>4, <1>5, <2>2 DEF Created
  <2> QED BY <1>1, <1>4, <2>1, <2>2, <2>3
<1>9. CASE Refused(request)
  <2>1. /\ NoneFits(request) /\ CompactedFree[1].size < request
        /\ allocated_block_head' = CompactedProcesses /\ free_block' = CompactedFree
        /\ status' = status
    BY <1>9 DEF Refused
  <2>2. ~ Created BY <1>4, <1>5, <2>1 DEF Created
  <2> QED BY <1>1, <1>4, <2>1, <2>2
<1> QED BY <1>1, <1>6, <1>7, <1>8, <1>9

(* Two blocks that hold an address each and begin at the same one are the  *)
(* same node.                                                              *)
LEMMA SameStart ==
  ASSUME NEW s \in Seq(Block), Apart(s), NEW j \in 1 .. Len(s), NEW k \in 1 .. Len(s),
         s[j].size > 0, s[k].size > 0, s[j].start_addr = s[k].start_addr
  PROVE  j = k
<1> SUFFICES ASSUME j # k PROVE FALSE OBVIOUS
<1>1. Disjoint(s[j], s[k]) BY DEF Apart
<1>2. s[j] \in Block /\ s[k] \in Block OBVIOUS
<1> QED BY <1>1, <1>2, SMTT(30) DEF Disjoint, End, Block

(* The policy: the first adequate block of the list in its order.          *)
LEMMA PolicyOrder ==
  ASSUME NEW algorithm \in 1 .. 3, NEW b \in Block, NEW hole \in Block,
         b = hole \/ ~ Before(algorithm, b, hole)
  PROVE  CASE algorithm = MA_FF -> hole.start_addr <= b.start_addr
           [] algorithm = MA_BF -> hole.size <= b.size
           [] algorithm = MA_WF -> hole.size >= b.size
<1> DEFINE goal == CASE algorithm = MA_FF -> hole.start_addr <= b.start_addr
                     [] algorithm = MA_BF -> hole.size <= b.size
                     [] algorithm = MA_WF -> hole.size >= b.size
<1>1. /\ b.size \in Nat /\ b.start_addr \in Nat
      /\ hole.size \in Nat /\ hole.start_addr \in Nat
  BY DEF Block
<1>2. ASSUME algorithm = 1 PROVE goal BY <1>1, <1>2 DEF Before, MA_FF, MA_BF, MA_WF
<1>3. ASSUME algorithm = 2 PROVE goal BY <1>1, <1>3 DEF Before, MA_FF, MA_BF, MA_WF
<1>4. ASSUME algorithm = 3 PROVE goal BY <1>1, <1>4 DEF Before, MA_FF, MA_BF, MA_WF
<1>5. goal
  <2>1. algorithm = 1 \/ algorithm = 2 \/ algorithm = 3 OBVIOUS
  <2> HIDE DEF goal
  <2> QED BY <1>2, <1>3, <1>4, <2>1
<1> QED BY <1>5

LEMMA Chosen ==
  ASSUME IInv, NEW s \in Typed, s > 0, new_process(s), Created, Fits(s) # {}
  PROVE  \E hole \in Fits(s) : /\ hole.start_addr = allocated_block_head'[1].start_addr
                              /\ AsPolicySays(s, hole)
<1> DEFINE at == allocated_block_head'[1].start_addr
           fits == Fits(s)
<1>1. /\ free_block \in Seq(Block) /\ Apart(free_block) /\ Sorted(ma_algorithm, free_block)
      /\ s \in Int /\ ma_algorithm \in 1 .. 3
  BY NewProcess, MemAllocAssumption DEF Types, Held, Tiled
<1>2. \A b \in fits : \E j \in 1 .. Len(free_block) : free_block[j] = b
  BY <1>1, RangeOf DEF Fits
<1>3. \A b \in fits : b \in Block /\ b.size >= s BY <1>1, RangeOf DEF Fits
<1>4. ~ NoneFits(s)
  <2>1. PICK b \in fits : TRUE OBVIOUS
  <2>2. PICK j \in 1 .. Len(free_block) : free_block[j] = b BY <1>2
  <2>3. b.size \in Nat /\ b.size >= s BY <1>3 DEF Block
  <2> QED BY <1>1, <2>2, <2>3 DEF NoneFits
<1>5. PICK k \in 1 .. Len(free_block) :
        /\ k = FirstFit(s) /\ free_block[k].size >= s /\ at = free_block[k].start_addr
        /\ \A j \in 1 .. Len(free_block) : j < k => free_block[j].size < s
  BY <1>4, Serving DEF FromList
<1> DEFINE c == free_block[k]
<1>6. c \in fits BY <1>1, <1>5, RangeOf DEF Fits
<1> HIDE DEF fits
<1>7. ASSUME NEW b \in fits PROVE b = c \/ ~ Before(ma_algorithm, b, c)
  <2>1. PICK j \in 1 .. Len(free_block) : free_block[j] = b BY <1>2
  <2>2. ~ (j < k)
    <3> SUFFICES ASSUME j < k PROVE FALSE OBVIOUS
    <3>1. b.size < s BY <1>5, <2>1
    <3>2. b.size \in Nat /\ b.size >= s BY <1>3 DEF Block
    <3> QED BY <1>1, <3>1, <3>2
  <2>3. j = k \/ k < j BY <2>2
  <2> QED BY <1>1, <2>1, <2>3 DEF Sorted
<1>8. c \in Block BY <1>1
<1> HIDE DEF c
<1>9. \A b \in fits : b \in Block /\ (b = c \/ ~ Before(ma_algorithm, b, c)) BY <1>3, <1>7
<1>10. AsPolicySays(s, c) BY <1>1, <1>8, <1>9, PolicyOrder DEF AsPolicySays, fits
<1>11. c.start_addr = at BY <1>5 DEF c
<1> QED BY <1>6, <1>10, <1>11 DEF fits

(* A new process lies where its policy says, for any requests: in the      *)
(* adequate hole that is lowest, smallest or largest (allocate_mem).       *)
THEOREM FitAlwaysChosen == Spec => FitChosen
<1> DEFINE Policy ==
      \A s \in Typed : s > 0 /\ new_process(s) /\ Created /\ Fits(s) # {} =>
        \E hole \in Fits(s) : /\ hole.start_addr = allocated_block_head'[1].start_addr
                              /\ AsPolicySays(s, hole)
<1>1. IInv => Policy BY Chosen
<1>2. IInv /\ [Next]_vars => [Policy]_vars BY <1>1
<1> HIDE DEF Policy
<1>3. Spec => [][Policy]_vars BY <1>2, Inductive, PTL DEF Spec
<1> QED BY <1>3 DEF FitChosen, Policy

(* A request is refused only when all free memory together is too little,  *)
(* and a process gets what it asked for and no more than the slice beyond  *)
(* it, for any requests (allocate_mem, memory_compaction).                 *)
THEOREM AlwaysServedUnlessFull == Spec => ServedUnlessFull
<1> DEFINE Served ==
      \A s \in Typed : s > 0 /\ new_process(s) =>
        IF Created
        THEN allocated_block_head'[1].size
               \in s .. s + (IF MIN_SLICE > 0 THEN MIN_SLICE - 1 ELSE 0)
        ELSE status' = "menu" => FreeMemory < s
<1>1. IInv => Served BY Serving DEF Slack, FreeMemory
<1>2. IInv /\ [Next]_vars => [Served]_vars BY <1>1
<1> HIDE DEF Served
<1>3. Spec => [][Served]_vars BY <1>2, Inductive, PTL DEF Spec
<1> QED BY <1>3 DEF ServedUnlessFull, Served

(* A process that is still at some place of its list is kept.              *)
LEMMA StaysAt ==
  ASSUME allocated_block_head' \in Seq(Process), NEW ab,
         NEW j \in 1 .. Len(allocated_block_head'), allocated_block_head'[j] = ab
  PROVE  KeptOrKilled(ab)
<1>1. ab \in Range(allocated_block_head') BY RangeOf
<1> QED BY <1>1 DEF KeptOrKilled

LEMMA KeptWhenServed ==
  ASSUME IInv, IInv', NEW s \in Typed, new_process(s), status' = "menu",
         NEW k \in 1 .. Len(allocated_block_head)
  PROVE  KeptOrKilled(allocated_block_head[k])
<1> DEFINE ab == allocated_block_head[k]
           c == CompactedProcesses[k]
<1>1. /\ allocated_block_head' \in Seq(Process) /\ free_block \in Seq(Block)
      /\ Len(allocated_block_head) \in Nat /\ Len(allocated_block_head') \in Nat
  BY DEF IInv, Types
<1>2. /\ c.pid = ab.pid /\ c.size = ab.size
      /\ Len(CompactedProcesses) = Len(allocated_block_head)
  BY NewProcess, CompactionKeeps
<1> HIDE DEF ab, c
<1>3. PICK request \in Nat :
           \/ /\ Created
              /\ \A j \in 1 .. Len(allocated_block_head) :
                   allocated_block_head'[j + 1] = allocated_block_head[j]
           \/ /\ NoneFits(request) /\ Created
              /\ allocated_block_head'[1].size \in request .. request + Slack
              /\ \A j \in 1 .. Len(allocated_block_head) :
                   allocated_block_head'[j + 1] = CompactedProcesses[j]
           \/ ~ Created /\ allocated_block_head' = CompactedProcesses
  BY Serving
<1>4. CASE Created /\ allocated_block_head'[k + 1] = ab
  <2>1. k + 1 \in 1 .. Len(allocated_block_head') BY <1>1, <1>4 DEF Created
  <2> QED BY <1>1, <1>4, <2>1, StaysAt DEF ab
<1>5. CASE /\ NoneFits(request) /\ Created
           /\ allocated_block_head'[1].size \in request .. request + Slack
           /\ allocated_block_head'[k + 1] = c
  <2>1. k + 1 \in 1 .. Len(allocated_block_head') BY <1>1, <1>5 DEF Created
  <2>2. c \in Range(allocated_block_head') BY <1>1, <1>5, <2>1, RangeOf
  <2>3. ASSUME NEW b \in Range(free_block) PROVE b.size < allocated_block_head'[1].size
    <3>1. PICK j \in 1 .. Len(free_block) : free_block[j] = b BY <1>1, RangeOf
    <3>2. b.size < request /\ b \in Block BY <1>1, <1>5, <3>1 DEF NoneFits
    <3>3. /\ allocated_block_head'[1].size >= request /\ allocated_block_head'[1].size \in Int
      BY <1>5
    <3>4. b.size \in Nat BY <3>2 DEF Block
    <3> HIDE DEF Block
    <3> QED BY <3>2, <3>3, <3>4
  <2> QED BY <1>2, <2>2, <2>3 DEF KeptOrKilled, ab
<1>6. CASE ~ Created /\ allocated_block_head' = CompactedProcesses
  <2>1. k \in 1 .. Len(allocated_block_head') /\ allocated_block_head'[k] = c
    BY <1>2, <1>6 DEF c
  <2>2. c \in Range(allocated_block_head') BY <1>1, <2>1, RangeOf
  <2> QED BY <1>2, <1>6, <2>2 DEF KeptOrKilled, ab
<1> QED BY <1>3, <1>4, <1>5, <1>6 DEF ab, c

LEMMA KeptWhenKilled ==
  ASSUME IInv, IInv', NEW p, kill_process(p), NEW k \in 1 .. Len(allocated_block_head)
  PROVE  KeptOrKilled(allocated_block_head[k])
<1>1. /\ allocated_block_head' \in Seq(Process) /\ allocated_block_head \in Seq(Process)
      /\ Len(allocated_block_head) \in Nat
  BY DEF IInv, Types
<1>2. CASE allocated_block_head' = allocated_block_head BY <1>1, <1>2, StaysAt
<1>3. CASE allocated_block_head' # allocated_block_head
  <2>1. PICK i \in 1 .. Len(allocated_block_head) :
          /\ allocated_block_head[i].pid = p
          /\ allocated_block_head' = RemoveAt(allocated_block_head, i)
    BY <1>3, KillProcess
  <2>2. /\ Len(allocated_block_head') = Len(allocated_block_head) - 1
        /\ \A j \in 1 .. Len(allocated_block_head) - 1 :
             allocated_block_head'[j]
               = IF j < i THEN allocated_block_head[j] ELSE allocated_block_head[j + 1]
    BY <1>1, <2>1, RemoveAtAs
  <2>3. CASE k = i BY <2>1, <2>3 DEF KeptOrKilled
  <2>4. CASE k < i
    <3>1. k \in 1 .. Len(allocated_block_head') BY <1>1, <2>2, <2>4
    <3> QED BY <1>1, <2>2, <2>4, <3>1, StaysAt
  <2>5. CASE k > i
    <3>1. /\ k - 1 \in 1 .. Len(allocated_block_head') /\ ~ (k - 1 < i) /\ k - 1 + 1 = k
      BY <1>1, <2>2, <2>5
    <3> QED BY <1>1, <2>2, <3>1, StaysAt
  <2> QED BY <2>3, <2>4, <2>5
<1> QED BY <1>2, <1>3

(* A process keeps its size to its end, only its own end removes it, and   *)
(* it is moved only for a request no hole could take (memory_compaction).  *)
THEOREM ProcessesAlwaysKept == Spec => ProcessesKept
<1> DEFINE Keeps == status' = "menu" => \A ab \in Processes : KeptOrKilled(ab)
<1>1. IInv /\ [Next]_vars => [Keeps]_vars
  <2> SUFFICES ASSUME IInv, Next, status' = "menu", NEW ab \in Processes PROVE KeptOrKilled(ab)
    OBVIOUS
  <2>1. IInv' BY NextIInv
  <2>2. /\ allocated_block_head \in Seq(Process) /\ allocated_block_head' \in Seq(Process)
    BY <2>1 DEF IInv, Types
  <2>3. PICK k \in 1 .. Len(allocated_block_head) : allocated_block_head[k] = ab
    BY <2>2, RangeOf DEF Processes
  <2>4. CASE allocated_block_head' = allocated_block_head BY <2>2, <2>3, <2>4, StaysAt
  <2>5. CASE \E s \in Typed : new_process(s) BY <2>1, <2>3, <2>5, KeptWhenServed
  <2>6. CASE \E p \in 1 .. MaxPid : kill_process(p) BY <2>1, <2>3, <2>6, KeptWhenKilled
  <2>7. ~ do_exit BY DEF do_exit
  <2> QED BY <2>4, <2>5, <2>6, <2>7 DEF Next, set_mem_size, set_algorithm, Display
<1> HIDE DEF Keeps
<1>2. Spec => [][Keeps]_vars BY <1>1, Inductive, PTL DEF Spec
<1> QED BY <1>2 DEF ProcessesKept, Keeps

-----------------------------------------------------------------------------
(* Blocks that touch no other: what keeps them so.                         *)
LEMMA MergedRange ==
  ASSUME NEW s, NEW t, Range(s) = Range(t), Merged(s)
  PROVE  Merged(t)
BY DEF Merged

LEMMA MergedRearranged ==
  ASSUME NEW s \in Seq(Block), Merged(s), NEW algorithm
  PROVE  Merged(rearrange(algorithm, s))
<1>1. rearrange(algorithm, s) \in Kept(s) BY RearrangeKeeps
<1> QED BY <1>1, MergedRange DEF Kept

LEMMA MergedShort ==
  ASSUME NEW s \in Seq(Block), Len(s) = 0 \/ Len(s) = 1
  PROVE  Merged(s)
<1> SUFFICES ASSUME NEW a \in Range(s), NEW b \in Range(s) PROVE a = b BY DEF Merged
<1>1. PICK i \in 1 .. Len(s) : s[i] = a BY RangeOf
<1>2. PICK j \in 1 .. Len(s) : s[j] = b BY RangeOf
<1>3. i = j
  <2>1. CASE Len(s) = 0
    <3>1. i \in 1 .. 0 BY <2>1
    <3> QED BY <3>1
  <2>2. CASE Len(s) = 1
    <3>1. i \in 1 .. 1 /\ j \in 1 .. 1 BY <2>2
    <3> QED BY <3>1
  <2> QED BY <2>1, <2>2
<1> QED BY <1>1, <1>2, <1>3

(* Two nodes apart that touch nowhere: one ends before the other begins.   *)
LEMMA BlockEnds ==
  ASSUME NEW b \in Block
  PROVE  /\ b.start_addr \in Nat /\ b.size \in Nat /\ End(b) \in Nat
         /\ b.start_addr <= End(b)
BY DEF Block, End

LEMMA BlocksBetween ==
  ASSUME NEW b \in Block, NEW c \in Block, b.size > 0, c.size > 0, Disjoint(b, c),
         b # c => End(b) # c.start_addr /\ End(c) # b.start_addr
  PROVE  End(b) < c.start_addr \/ End(c) < b.start_addr
<1>1. /\ b.size \in Nat /\ b.start_addr \in Nat /\ c.size \in Nat /\ c.start_addr \in Nat
  BY DEF Block
<1>2. b # c BY <1>1 DEF Disjoint, End
<1>3. End(b) \in Nat /\ End(c) \in Nat BY <1>1 DEF End
<1>4. End(b) <= c.start_addr \/ End(c) <= b.start_addr BY <1>1 DEF Disjoint
<1> QED BY <1>1, <1>2, <1>3, <1>4

LEMMA GapBetween ==
  ASSUME NEW s \in Seq(Block), Apart(s), Merged(s), \A i \in 1 .. Len(s) : s[i].size > 0,
         NEW i \in 1 .. Len(s), NEW j \in 1 .. Len(s), i # j
  PROVE  End(s[i]) < s[j].start_addr \/ End(s[j]) < s[i].start_addr
<1>1. s[i] \in Block /\ s[j] \in Block /\ s[i].size > 0 /\ s[j].size > 0 OBVIOUS
<1>2. Disjoint(s[i], s[j]) BY DEF Apart
<1>3. s[i] \in Range(s) /\ s[j] \in Range(s) BY RangeOf
<1>4. s[i] # s[j] => End(s[i]) # s[j].start_addr /\ End(s[j]) # s[i].start_addr
  BY <1>3 DEF Merged
<1> QED BY <1>1, <1>2, <1>4, BlocksBetween

(* A grant from a list without touching blocks leaves none: the rest of    *)
(* the block begins later and ends where the block did.                    *)
LEMMA MergedRemaining ==
  ASSUME NEW s \in Seq(Block), Apart(s), Merged(s), \A i \in 1 .. Len(s) : s[i].size > 0,
         NEW k \in 1 .. Len(s), NEW request \in Nat, s[k].size >= request,
         NEW t, t = Remaining(s, k, request), t \in Seq(Block)
  PROVE  Merged(t)
<1>0. /\ Len(RemoveAt(s, k)) = Len(s) - 1
      /\ \A j \in 1 .. Len(s) - 1 :
           RemoveAt(s, k)[j] = IF j < k THEN s[j] ELSE s[j + 1]
  BY RemoveAtAs
<1>1. CASE TakesAll(s[k], request)
  <2>1. t = RemoveAt(s, k) BY <1>1 DEF Remaining
  <2>2. Range(t) \subseteq Range(s)
    <3> SUFFICES ASSUME NEW r \in Range(t) PROVE r \in Range(s) OBVIOUS
    <3>1. PICK j \in 1 .. Len(t) : t[j] = r BY RangeOf
    <3>2. /\ Len(t) = Len(s) - 1
          /\ t[j] = IF j < k THEN s[j] ELSE s[j + 1]
      BY <1>0, <2>1, <3>1
    <3>3. j \in 1 .. Len(s) /\ j + 1 \in 1 .. Len(s) BY <3>1, <3>2
    <3> QED BY <3>1, <3>2, <3>3, RangeOf
  <2> QED BY <2>2 DEF Merged
<1>2. CASE ~ TakesAll(s[k], request)
  <2> DEFINE v == [start_addr |-> s[k].start_addr + request, size |-> s[k].size - request]
  <2>1. t = [s EXCEPT ![k] = v] BY <1>2 DEF Remaining
  <2>2. s[k] \in Block OBVIOUS
  <2>3. /\ s[k].size \in Nat /\ s[k].start_addr \in Nat
        /\ v.start_addr = s[k].start_addr + request /\ End(v) = End(s[k])
    BY <2>2 DEF Block, End
  <2> HIDE DEF v
  <2>4. Len(t) = Len(s) /\ \A i \in 1 .. Len(s) : t[i] = IF i = k THEN v ELSE s[i] BY <2>1
  <2>5. ASSUME NEW a \in Range(t), NEW b \in Range(t), a # b PROVE End(a) # b.start_addr
    <3>1. PICK i \in 1 .. Len(s) : t[i] = a BY <2>4, RangeOf
    <3>2. PICK j \in 1 .. Len(s) : t[j] = b BY <2>4, RangeOf
    <3>3. i # j BY <2>5, <3>1, <3>2
    <3>4. End(s[i]) < s[j].start_addr \/ End(s[j]) < s[i].start_addr BY <3>3, GapBetween
    <3>5. End(a) = End(s[i]) /\ End(b) = End(s[j]) BY <2>3, <2>4, <3>1, <3>2
    <3>6. /\ s[i] \in Block /\ s[j] \in Block OBVIOUS
    <3>7. /\ s[i].size \in Nat /\ s[i].start_addr \in Nat /\ s[j].size \in Nat
          /\ s[j].start_addr \in Nat
      BY <3>6 DEF Block
    <3>8. b.start_addr \in Nat /\ b.start_addr >= s[j].start_addr BY <2>3, <2>4, <3>2, <3>7, SMTT(30)
    <3>9. End(s[i]) \in Nat /\ End(s[j]) \in Nat /\ s[i].start_addr <= End(s[i])
      BY <3>6, BlockEnds
    <3>10. b.start_addr <= End(b)
      <4>1. b \in Block BY <3>2, <2>4
      <4> QED BY <4>1, BlockEnds
    <3>11. CASE End(s[i]) < s[j].start_addr BY <3>5, <3>7, <3>8, <3>9, <3>11
    <3>12. CASE End(s[j]) < s[i].start_addr BY <3>5, <3>7, <3>8, <3>9, <3>10, <3>12
    <3> QED BY <3>4, <3>11, <3>12
  <2> QED BY <2>5 DEF Merged
<1> QED BY <1>1, <1>2

LEMMA SizesPositive ==
  ASSUME Types, NoneEmpty
  PROVE  /\ \A i \in 1 .. Len(free_block) : free_block[i].size > 0
         /\ \A j \in 1 .. Len(allocated_block_head) : allocated_block_head[j].size > 0
<1>1. /\ DOMAIN (free_block \o allocated_block_head)
           = 1 .. Len(free_block) + Len(allocated_block_head)
      /\ Len(free_block) \in Nat /\ Len(allocated_block_head) \in Nat
      /\ \A i \in 1 .. Len(free_block) : BlockAt(i) = free_block[i]
      /\ \A j \in 1 .. Len(allocated_block_head) :
           BlockAt(Len(free_block) + j) = allocated_block_head[j]
  BY Places
<1>2. ASSUME NEW i \in 1 .. Len(free_block) PROVE free_block[i].size > 0
  <2>1. i \in 1 .. Len(free_block) + Len(allocated_block_head) BY <1>1
  <2> QED BY <1>1, <2>1 DEF NoneEmpty
<1>3. ASSUME NEW j \in 1 .. Len(allocated_block_head) PROVE allocated_block_head[j].size > 0
  <2>1. Len(free_block) + j \in 1 .. Len(free_block) + Len(allocated_block_head) BY <1>1
  <2> QED BY <1>1, <2>1 DEF NoneEmpty
<1> QED BY <1>2, <1>3

(* The block a process gives back is merged with both its neighbours.      *)
LEMMA MergedFreed ==
  ASSUME IInv, NoneEmpty, status # "exited", NEW k \in 1 .. Len(allocated_block_head)
  PROVE  LET ms == memory_merge(memory_sort(<<FreedAt(k)>> \o free_block))
         IN  ms \in Seq(Block) /\ Merged(ms)
<1> DEFINE b == FreedAt(k)
           gs == <<b>> \o free_block
           fs == memory_sort(gs)
<1>1. /\ Types /\ Held(free_block, allocated_block_head) /\ free_block \in Seq(Block)
      /\ allocated_block_head \in Seq(Process)
  BY DEF IInv, Kempt, Types
<1>2. /\ Held(fs, RemoveAt(allocated_block_head, k)) /\ Sorted(MA_FF, fs) /\ fs \in Kept(gs)
      /\ Held(memory_merge(fs), RemoveAt(allocated_block_head, k))
  BY <1>1, HeldFreed
<1>3. fs \in Seq(Block) /\ Apart(fs) /\ Range(fs) = Range(gs) /\ memory_merge(fs) \in Seq(Block)
  BY <1>2 DEF Held, Tiled, Kept
<1>4. b \in Block /\ b.size > 0
  <2>1. allocated_block_head[k].size > 0 /\ allocated_block_head[k] \in Process
    BY <1>1, SizesPositive
  <2> QED BY <2>1 DEF FreedAt, Block, Process
<1> HIDE DEF b, fs
<1>5. /\ gs \in Seq(Block) /\ Len(gs) = Len(free_block) + 1 /\ gs[1] = b
      /\ \A j \in 1 .. Len(free_block) : gs[j + 1] = free_block[j]
  BY <1>1, <1>4, ConsAs
<1> HIDE DEF gs
<1>6. ASSUME NEW i \in 1 .. Len(gs) PROVE gs[i].size > 0
  <2>1. CASE i = 1 BY <1>4, <1>5, <2>1
  <2>2. CASE i # 1
    <3>1. i - 1 \in 1 .. Len(free_block) /\ i - 1 + 1 = i BY <1>1, <1>5, <2>2
    <3>2. gs[i] = free_block[i - 1] BY <1>5, <3>1
    <3> QED BY <1>1, <3>1, <3>2, SizesPositive
  <2> QED BY <2>1, <2>2
<1>7. ASSUME NEW i \in 1 .. Len(fs) PROVE fs[i].size > 0
  <2>1. fs[i] \in Range(gs) BY <1>3, RangeOf
  <2>2. PICK j \in 1 .. Len(gs) : gs[j] = fs[i] BY <1>5, <2>1, RangeOf
  <2> QED BY <1>6, <2>2
<1>8. Gaps(memory_merge(fs)) BY <1>2, <1>3, <1>7, MergeGaps
<1>9. Merged(memory_merge(fs)) BY <1>3, <1>8, GapsMerged
<1> QED BY <1>3, <1>9 DEF fs, gs, b

LEMMA MergedWhenServed ==
  ASSUME IInv, IInv', NEW n \in Typed, new_process(n), NoneEmpty, Merged(free_block) \/ Ended
  PROVE  Merged(free_block')
<1>1. /\ Types /\ Held(free_block, allocated_block_head) /\ PidsUpTo(allocated_block_head, pid)
      /\ free_block \in Seq(Block) /\ free_block' \in Seq(Block) /\ Apart(free_block)
      /\ ma_algorithm \in 1 .. 3 /\ mem_size \in Nat /\ pid \in Nat
      /\ allocated_block_head \in Seq(Process)
  BY NewProcess DEF IInv, Types, Held, Tiled
<1>2. PICK request \in Nat :
        FromList(request) \/ Dangling(request) \/ FromCompacted(request) \/ Refused(request)
  BY NewProcess
<1>3. /\ Held(CompactedFree, CompactedProcesses) /\ CompactedFree \in Seq(Block)
      /\ Len(CompactedFree) = 1 /\ Len(CompactedProcesses) = Len(allocated_block_head)
  BY <1>1, CompactionKeeps DEF Held
<1>4. ~ Ended
  <2>1. Created \/ allocated_block_head' = allocated_block_head
          \/ allocated_block_head' = CompactedProcesses
    BY Serving
  <2>2. Len(allocated_block_head) \in Nat /\ Len(allocated_block_head') \in Nat
    BY <1>1 DEF IInv, Types
  <2> QED BY <1>3, <2>1, <2>2 DEF Created, Ended
<1>5. \A i \in 1 .. Len(free_block) : free_block[i].size > 0 BY <1>1, SizesPositive
<1>6. CASE FromList(request)
  <2> DEFINE k == FirstFit(request)
             t == Remaining(free_block, k, request)
  <2>1. /\ k \in 1 .. Len(free_block) /\ free_block[k].size >= request
        /\ free_block' = rearrange(ma_algorithm, t)
    BY <1>6 DEF FromList, Grant
  <2> HIDE DEF k
  <2>2. request <= free_block[k].size
    <3>1. free_block[k] \in Block BY <1>1, <2>1
    <3> QED BY <2>1, <3>1 DEF Block
  <2>3. t \in Seq(Block) BY <1>1, <2>1, <2>2, TiledGrant DEF Held
  <2>4. Merged(t) BY <1>1, <1>4, <1>5, <2>1, <2>3, MergedRemaining
  <2> QED BY <2>1, <2>3, <2>4, MergedRearranged
<1>7. CASE Dangling(request) BY <1>4, <1>7 DEF Dangling
<1>8. CASE FromCompacted(request)
  <2> DEFINE t == Remaining(CompactedFree, 1, request)
  <2>1. /\ 1 \in 1 .. Len(CompactedFree) /\ CompactedFree[1].size >= request
        /\ free_block' = rearrange(ma_algorithm, t)
    BY <1>3, <1>8 DEF FromCompacted, Grant
  <2>2. request <= CompactedFree[1].size
    <3>1. CompactedFree[1] \in Block BY <1>3, <2>1
    <3> QED BY <2>1, <3>1 DEF Block
  <2>3. t \in Seq(Block) BY <1>1, <1>3, <2>1, <2>2, TiledGrant DEF Held
  <2>4. Len(t) = 0 \/ Len(t) = 1
    <3>1. Len(RemoveAt(CompactedFree, 1)) = Len(CompactedFree) - 1 BY <1>3, <2>1, RemoveAtAs
    <3>2. CASE TakesAll(CompactedFree[1], request)
      BY <1>3, <3>1, <3>2 DEF Remaining
    <3>3. CASE ~ TakesAll(CompactedFree[1], request) BY <1>3, <3>3 DEF Remaining
    <3> QED BY <3>2, <3>3
  <2> HIDE DEF t
  <2>5. Merged(t) BY <2>3, <2>4, MergedShort
  <2> QED BY <2>1, <2>3, <2>5, MergedRearranged
<1>9. CASE Refused(request) BY <1>3, <1>9, MergedShort DEF Refused
<1> QED BY <1>2, <1>6, <1>7, <1>8, <1>9

(* Once a process has ended no two free blocks touch, and none begin to in *)
(* between, as long as every block holds an address (free_mem).            *)
THEOREM FreeBlocksAlwaysMerged == Spec => FreeBlocksMerged
<1> DEFINE Keeps == NoneEmpty /\ (Merged(free_block) \/ Ended) => Merged(free_block')
<1>1. IInv /\ [Next]_vars => [Keeps]_vars
  <2> SUFFICES ASSUME IInv, Next, NoneEmpty, Merged(free_block) \/ Ended
               PROVE  Merged(free_block')
    OBVIOUS
  <2>1. IInv' BY NextIInv
  <2>2. /\ free_block \in Seq(Block) /\ free_block' \in Seq(Block)
        /\ Len(allocated_block_head) \in Nat
    BY <2>1 DEF IInv, Types
  <2>3. ASSUME NEW n \in Typed, set_mem_size(n) PROVE Merged(free_block')
    <3>1. free_block = <<[size |-> mem_size, start_addr |-> 0]>>
      BY <2>3 DEF IInv, Fresh, set_mem_size
    <3>2. free_block' = free_block \/ free_block' = [free_block EXCEPT ![1].size = n]
      BY <2>3 DEF set_mem_size
    <3>3. Len(free_block') = 1 BY <3>1, <3>2
    <3> QED BY <2>2, <3>3, MergedShort
  <2>4. ASSUME NEW n \in Typed, new_process(n) PROVE Merged(free_block')
    BY <2>1, <2>4, MergedWhenServed
  <2>5. ASSUME NEW algorithm \in 0 .. 3, set_algorithm(algorithm) PROVE Merged(free_block')
    <3>1. /\ free_block' = rearrange(ma_algorithm', free_block)
          /\ allocated_block_head' = allocated_block_head
      BY <2>5 DEF set_algorithm
    <3>2. Merged(free_block) BY <2>2, <3>1 DEF Ended
    <3> QED BY <2>2, <3>1, <3>2, MergedRearranged
  <2>6. ASSUME NEW p \in 1 .. MaxPid, kill_process(p) PROVE Merged(free_block')
    <3>1. CASE UNCHANGED <<free_block, allocated_block_head>> BY <2>2, <3>1 DEF Ended
    <3>2. CASE ~ UNCHANGED <<free_block, allocated_block_head>>
      <4>1. PICK k \in 1 .. Len(allocated_block_head) :
              free_block' = rearrange(ma_algorithm,
                              memory_merge(memory_sort(<<FreedAt(k)>> \o free_block)))
        BY <2>6, <3>2, KillProcess
      <4>2. status # "exited" BY <2>6, KillProcess
      <4> QED BY <4>1, <4>2, MergedFreed, MergedRearranged
    <3> QED BY <3>1, <3>2
  <2>7. CASE Display BY <2>2, <2>7 DEF Display, Ended
  <2>8. CASE do_exit
    <3>1. free_block' = <<>> BY <2>8 DEF do_exit
    <3> QED BY <2>2, <3>1, MergedShort
  <2> QED BY <2>3, <2>4, <2>5, <2>6, <2>7, <2>8 DEF Next
<1> HIDE DEF Keeps
<1>2. Spec => [][Keeps]_vars BY <1>1, Inductive, PTL DEF Spec
<1> QED BY <1>2 DEF FreeBlocksMerged, Keeps
=============================================================================
