--------------------------- MODULE FileSystem_proofs ---------------------------
(***************************************************************************)
(* The file system, for every size of disk, directory and file.  First its *)
(* commands as one step each: types, ownership of blocks, chains; then the *)
(* names (FSTree); then the commands write by write, with crashes; then    *)
(* what a command loses and what it leaves alone.  Each operator on the    *)
(* disk image has a lemma saying that it keeps the image sound; an action  *)
(* composes them.                                                          *)
(***************************************************************************)
EXTENDS FSCrash, FiniteSetTheorems, SequenceTheorems, WellFoundedInduction, TLAPS

-----------------------------------------------------------------------------
(* Induction and the like.  The theorems of the library take an operator;  *)
(* these take sets and functions.                                          *)

(* A non-empty set of naturals has a least element: the code's scans for the   *)
(* lowest clear bit, the first entry, the first free slot find something.      *)
LEMMA LeastNat ==
  ASSUME NEW S, S \subseteq Nat, S # {}
  PROVE  \E x \in S : \A y \in S : x <= y
<1>. DEFINE R == OpToRel(<, Nat)
<1>1. IsWellFoundedOn(R, Nat)
  BY NatLessThanWellFounded
<1>2. \E x \in S : \A y \in S : ~ (<<y, x>> \in R)
  <2>. HIDE DEF R
  <2>. QED BY <1>1, WFMin
<1>3. \A x \in S, y \in S : y < x => <<y, x>> \in R
  BY DEF OpToRel
<1>. HIDE DEF R
<1>4. PICK x \in S : \A y \in S : ~ (<<y, x>> \in R)
  BY <1>2
<1>5. \A y \in S : ~ (y < x)
  BY <1>3, <1>4
<1>. QED BY <1>5

(* Min returns that least element.                                             *)
LEMMA MinOfNats ==
  ASSUME NEW S, S \subseteq Nat, S # {}
  PROVE  /\ Min(S) \in S
         /\ \A y \in S : Min(S) <= y
BY LeastNat DEF Min

(* The range of the modulus, by which the code's counters wrap.                *)
LEMMA Modulo ==
  ASSUME NEW x \in Int, NEW n \in Nat, n > 0
  PROVE  x % n \in 0 .. n - 1
OBVIOUS

(* Induction over an interval, for the set of the numbers that have a property. *)
LEMMA Induction ==
  ASSUME NEW a \in Int, NEW n \in Int, NEW T, a \in T,
         \A k \in a .. n - 1 : k \in T => k + 1 \in T
  PROVE  a .. n \subseteq T
<1> DEFINE missing == {d \in Nat : a + d \in a .. n /\ a + d \notin T}
<1> SUFFICES ASSUME missing # {} PROVE FALSE
  <2> SUFFICES ASSUME NEW k \in a .. n, k \notin T, missing = {} PROVE FALSE OBVIOUS
  <2>1. k - a \in Nat /\ a + (k - a) = k OBVIOUS
  <2>2. k - a \in missing BY <2>1
  <2> QED BY <2>2
<1>1. missing \subseteq Nat OBVIOUS
<1> HIDE DEF missing
<1>2. PICK d \in missing : \A e \in missing : d <= e BY <1>1, LeastNat
<1>3. d \in Nat /\ a + d \in a .. n /\ a + d \notin T BY <1>2 DEF missing
<1>4. d # 0 /\ d - 1 \in Nat /\ a + (d - 1) \in a .. n - 1 BY <1>3
<1>5. d - 1 \in missing \/ a + (d - 1) \in T BY <1>3, <1>4 DEF missing
<1>6. a + (d - 1) \notin T BY <1>3, <1>4
<1> QED BY <1>2, <1>3, <1>4, <1>5, <1>6

(* A recursive definition over an interval has a solution: the step from each  *)
(* value to the next is given as a function.                                   *)
Solvable(a, n, S, base, step) ==
  \E f \in [a .. n -> S] : f[a] = base /\ \A k \in a + 1 .. n : f[k] = step[k][f[k - 1]]

LEMMA Recursion ==
  ASSUME NEW a \in Int, NEW n \in Int, a <= n, NEW S, NEW base \in S,
         NEW step, step \in [a + 1 .. n -> [S -> S]]
  PROVE  Solvable(a, n, S, base, step)
<1> DEFINE Solves(f, m) == f[a] = base /\ \A k \in a + 1 .. m : f[k] = step[k][f[k - 1]]
           T == {m \in a .. n : \E f \in [a .. m -> S] : Solves(f, m)}
<1>1. a \in T
  <2> DEFINE g == [k \in a .. a |-> base]
  <2>1. g \in [a .. a -> S] /\ Solves(g, a) OBVIOUS
  <2>2. a \in a .. n OBVIOUS
  <2> HIDE DEF g, Solves
  <2> QED BY <2>1, <2>2
<1>2. ASSUME NEW m \in a .. n - 1, m \in T PROVE m + 1 \in T
  <2>1. PICK f \in [a .. m -> S] : Solves(f, m) BY <1>2
  <2> DEFINE g == [k \in a .. m + 1 |-> IF k = m + 1 THEN step[m + 1][f[m]] ELSE f[k]]
  <2>2. m + 1 \in a + 1 .. n /\ f[m] \in S /\ step[m + 1][f[m]] \in S BY <1>2
  <2>3. g \in [a .. m + 1 -> S] BY <2>2
  <2>4. g[a] = base BY <2>1
  <2>5. ASSUME NEW k \in a + 1 .. m + 1 PROVE g[k] = step[k][g[k - 1]]
    <3>1. CASE k = m + 1 BY <3>1
    <3>2. CASE k # m + 1
      <4>1. k \in a + 1 .. m /\ k - 1 \in a .. m BY <3>2
      <4> QED BY <2>1, <4>1
    <3> QED BY <3>1, <3>2
  <2> HIDE DEF g
  <2>6. Solves(g, m + 1) BY <2>4, <2>5
  <2> QED BY <2>2, <2>3, <2>6, SMTT(30)
<1> HIDE DEF T
<1>3. a .. n \subseteq T BY <1>1, <1>2, Induction
<1>4. n \in T BY <1>3
<1> QED BY <1>4 DEF T, Solvable

(* Prefix sums f of the numbers z: what an exchange, a removal, a new      *)
(* first or last number does to the sum.                                   *)

Adds(f, n, z) == f[0] = 0 /\ \A j \in 1 .. n : f[j] = f[j - 1] + z[j]

LEMMA AddsOnce ==
  ASSUME NEW n \in Nat, NEW z, NEW f, NEW g, Adds(f, n, z), Adds(g, n, z)
  PROVE  f[n] = g[n]
<1> DEFINE T == {k \in 0 .. n : f[k] = g[k]}
<1>1. 0 \in T BY DEF Adds
<1>2. ASSUME NEW k \in 0 .. n - 1, k \in T PROVE k + 1 \in T
  <2>1. k + 1 \in 1 .. n /\ k + 1 - 1 = k OBVIOUS
  <2>2. f[k + 1] = f[k] + z[k + 1] /\ g[k + 1] = g[k] + z[k + 1] BY <2>1 DEF Adds
  <2> QED BY <1>2, <2>1, <2>2
<1>3. n \in 0 .. n /\ n \in Int /\ 0 \in Int OBVIOUS
<1> HIDE DEF T
<1>4. 0 .. n \subseteq T BY <1>1, <1>2, <1>3, Induction
<1> QED BY <1>3, <1>4 DEF T

LEMMA AddsRemoved ==
  ASSUME NEW n \in Nat, NEW k \in 1 .. n, NEW z \in [1 .. n -> Nat],
         NEW f \in [0 .. n -> Nat], Adds(f, n, z), NEW y \in [1 .. n - 1 -> Nat],
         \A j \in 1 .. n - 1 : y[j] = IF j < k THEN z[j] ELSE z[j + 1]
  PROVE  \E g \in [0 .. n - 1 -> Int] : Adds(g, n - 1, y) /\ g[n - 1] = f[n] - z[k]
<1> DEFINE g == [j \in 0 .. n - 1 |-> IF j < k THEN f[j] ELSE f[j + 1] - z[k]]
<1>1. \A j \in 1 .. n : f[j] = f[j - 1] + z[j] /\ f[j] \in Nat /\ f[j - 1] \in Nat /\ z[j] \in Nat BY DEF Adds
<1>2. g \in [0 .. n - 1 -> Int]
  <2> SUFFICES ASSUME NEW j \in 0 .. n - 1 PROVE (IF j < k THEN f[j] ELSE f[j + 1] - z[k]) \in Int
    OBVIOUS
  <2>1. j \in 0 .. n /\ j + 1 \in 0 .. n OBVIOUS
  <2>2. f[j] \in Nat /\ f[j + 1] \in Nat /\ z[k] \in Nat BY <2>1
  <2> QED BY <2>2
<1>3. g[0] = 0 BY DEF Adds
<1>4. ASSUME NEW j \in 1 .. n - 1 PROVE g[j] = g[j - 1] + y[j]
  <2>1. j \in 1 .. n /\ j + 1 \in 1 .. n /\ j \in 0 .. n - 1 /\ j - 1 \in 0 .. n - 1 OBVIOUS
  <2>2. f[j] = f[j - 1] + z[j] /\ f[j] \in Nat /\ f[j - 1] \in Nat /\ z[j] \in Nat BY <1>1, <2>1
  <2>3. f[j + 1] = f[j] + z[j + 1] /\ f[j + 1] \in Nat /\ z[j + 1] \in Nat BY <1>1, <2>1
  <2>4. z[k] \in Nat OBVIOUS
  <2>5. CASE j < k BY <2>1, <2>2, <2>5
  <2>6. CASE j = k
    <3>1. g[j] = f[j + 1] - z[j] /\ g[j - 1] = f[j - 1] /\ y[j] = z[j + 1] BY <2>1, <2>6
    <3> HIDE DEF g
    <3> QED BY <2>2, <2>3, <3>1, SMTT(30)
  <2>7. CASE j > k
    <3>1. g[j] = f[j + 1] - z[k] /\ g[j - 1] = f[j] - z[k] /\ y[j] = z[j + 1] BY <2>1, <2>7
    <3> HIDE DEF g
    <3> QED BY <2>2, <2>3, <2>4, <3>1, SMTT(30)
  <2> QED BY <2>5, <2>6, <2>7
<1>5. g[n - 1] = f[n] - z[k] BY <1>1
<1> HIDE DEF g
<1> QED BY <1>2, <1>3, <1>4, <1>5 DEF Adds

LEMMA AddsReplaced ==
  ASSUME NEW n \in Nat, NEW k \in 1 .. n, NEW z \in [1 .. n -> Nat],
         NEW f \in [0 .. n -> Nat], Adds(f, n, z), NEW y \in [1 .. n -> Nat],
         \A j \in 1 .. n : j # k => y[j] = z[j]
  PROVE  \E g \in [0 .. n -> Int] : Adds(g, n, y) /\ g[n] = f[n] - z[k] + y[k]
<1> DEFINE g == [j \in 0 .. n |-> IF j < k THEN f[j] ELSE f[j] - z[k] + y[k]]
<1>1. \A j \in 1 .. n : f[j] = f[j - 1] + z[j] /\ f[j] \in Nat /\ f[j - 1] \in Nat /\ z[j] \in Nat
  BY DEF Adds
<1>2. g \in [0 .. n -> Int] BY <1>1
<1>3. g[0] = 0 BY DEF Adds
<1>4. ASSUME NEW j \in 1 .. n PROVE g[j] = g[j - 1] + y[j]
  <2>1. j \in 0 .. n /\ j - 1 \in 0 .. n OBVIOUS
  <2>2. f[j] = f[j - 1] + z[j] /\ f[j] \in Nat /\ f[j - 1] \in Nat /\ z[j] \in Nat BY <1>1
  <2>3. z[k] \in Nat /\ y[k] \in Nat OBVIOUS
  <2>4. CASE j < k BY <2>1, <2>2, <2>4
  <2>5. CASE j = k
    <3>1. g[j] = f[j] - z[j] + y[j] /\ g[j - 1] = f[j - 1] BY <2>1, <2>5
    <3> HIDE DEF g
    <3> QED BY <2>2, <2>3, <2>5, <3>1
  <2>6. CASE j > k
    <3>1. g[j] = f[j] - z[k] + y[k] /\ g[j - 1] = f[j - 1] - z[k] + y[k] /\ y[j] = z[j]
      BY <2>1, <2>6
    <3> HIDE DEF g
    <3> QED BY <2>2, <2>3, <3>1
  <2> QED BY <2>4, <2>5, <2>6
<1>5. g[n] = f[n] - z[k] + y[k] BY <1>1
<1> HIDE DEF g
<1> QED BY <1>2, <1>3, <1>4, <1>5 DEF Adds

(* Prefix sums do not fall, and every number below the last lies under one.    *)
LEMMA AddsMonotone ==
  ASSUME NEW n \in Nat, NEW z \in [1 .. n -> Nat], NEW f \in [0 .. n -> Nat], Adds(f, n, z),
         NEW i \in 0 .. n, NEW j \in i .. n
  PROVE  f[i] <= f[j]
<1> DEFINE T == {k \in i .. n : f[i] <= f[k]}
<1>1. i \in T BY DEF T
<1>2. ASSUME NEW k \in i .. n - 1, k \in T PROVE k + 1 \in T
  <2>1. k + 1 \in 1 .. n /\ k + 1 - 1 = k /\ k + 1 \in i .. n /\ k \in 0 .. n OBVIOUS
  <2>2. f[k + 1] = f[k] + z[k + 1] /\ z[k + 1] \in Nat BY <2>1 DEF Adds
  <2>3. f[k] \in Nat /\ f[i] \in Nat /\ f[i] <= f[k] BY <1>2, <2>1
  <2>4. f[i] <= f[k + 1] BY <2>2, <2>3
  <2> QED BY <2>1, <2>4
<1>3. i \in Int /\ n \in Int /\ j \in i .. n OBVIOUS
<1> HIDE DEF T
<1>4. i .. n \subseteq T BY <1>1, <1>2, <1>3, Induction, Zenon
<1> QED BY <1>3, <1>4 DEF T

(* Prefix sums exist: the recursion that adds up a sequence has a solution.    *)
LEMMA Sums ==
  ASSUME NEW n \in Nat, NEW z \in [1 .. n -> Nat]
  PROVE  \E f \in [0 .. n -> Nat] : Adds(f, n, z)
<1> DEFINE step == [k \in 0 + 1 .. n |-> [x \in Nat |-> x + z[k]]]
<1>1. step \in [0 + 1 .. n -> [Nat -> Nat]] OBVIOUS
<1>2. n \in Int /\ 0 \in Int /\ 0 <= n /\ 0 \in Nat OBVIOUS
<1>3. PICK f \in [0 .. n -> Nat] : f[0] = 0 /\ \A k \in 0 + 1 .. n : f[k] = step[k][f[k - 1]]
  <2> HIDE DEF step
  <2>1. Solvable(0, n, Nat, 0, step) BY <1>1, <1>2, Recursion, ZenonT(30)
  <2> QED BY <2>1, ZenonT(30) DEF Solvable
<1>4. ASSUME NEW k \in 1 .. n PROVE f[k] = f[k - 1] + z[k]
  <2>1. k \in 0 + 1 .. n /\ k - 1 \in 0 .. n OBVIOUS
  <2>2. f[k] = step[k][f[k - 1]] /\ f[k - 1] \in Nat BY <1>3, <2>1
  <2> QED BY <2>1, <2>2
<1> QED BY <1>3, <1>4 DEF Adds

(* What RemoveAt and InsertAt make of a sequence, by position.                 *)
LEMMA RemoveAtAs ==
  ASSUME NEW R, NEW s \in Seq(R), NEW k \in 1 .. Len(s)
  PROVE  /\ RemoveAt(s, k) \in Seq(R) /\ Len(RemoveAt(s, k)) = Len(s) - 1
         /\ \A j \in 1 .. Len(s) - 1 :
              RemoveAt(s, k)[j] = IF j < k THEN s[j] ELSE s[j + 1]
<1> DEFINE a == SubSeq(s, 1, k - 1)
           b == SubSeq(s, k + 1, Len(s))
<1>1. a \in Seq(R) /\ Len(a) = k - 1 /\ \A j \in 1 .. k - 1 : a[j] = s[j] OBVIOUS
<1>2. b \in Seq(R) /\ Len(b) = Len(s) - k /\ \A j \in 1 .. Len(s) - k : b[j] = s[k + j]
  <2>1. k + 1 \in 1 .. Len(s) + 1 /\ Len(s) \in k .. Len(s) OBVIOUS
  <2> QED BY <2>1, SubSeqProperties
<1>3. RemoveAt(s, k) = a \o b BY DEF RemoveAt
<1> HIDE DEF a, b
<1>4. /\ a \o b \in Seq(R) /\ Len(a \o b) = Len(s) - 1
      /\ \A j \in 1 .. Len(s) - 1 : (a \o b)[j] = IF j < k THEN a[j] ELSE b[j - (k - 1)]
  BY <1>1, <1>2
<1>5. \A j \in 1 .. Len(s) - 1 : (a \o b)[j] = IF j < k THEN s[j] ELSE s[j + 1]
  <2> SUFFICES ASSUME NEW j \in 1 .. Len(s) - 1
               PROVE  (a \o b)[j] = IF j < k THEN s[j] ELSE s[j + 1]
    OBVIOUS
  <2>1. CASE j < k BY <1>1, <1>4, <2>1
  <2>2. CASE ~ (j < k)
    <3>1. j - (k - 1) \in 1 .. Len(s) - k /\ k + (j - (k - 1)) = j + 1 BY <2>2
    <3> QED BY <1>2, <1>4, <2>2, <3>1
  <2> QED BY <2>1, <2>2
<1> QED BY <1>3, <1>4, <1>5

LEMMA InsertAtAs ==
  ASSUME NEW R, NEW s \in Seq(R), NEW k \in 1 .. Len(s) + 1, NEW e \in R
  PROVE  /\ InsertAt(s, k, e) \in Seq(R) /\ Len(InsertAt(s, k, e)) = Len(s) + 1
         /\ InsertAt(s, k, e)[k] = e
         /\ \A j \in 1 .. Len(s) :
              s[j] = IF j < k THEN InsertAt(s, k, e)[j] ELSE InsertAt(s, k, e)[j + 1]
<1> DEFINE a == SubSeq(s, 1, k - 1)
           b == SubSeq(s, k, Len(s))
           u == a \o <<e>>
           t == u \o b
<1>1. a \in Seq(R) /\ Len(a) = k - 1 /\ \A j \in 1 .. k - 1 : a[j] = s[j] OBVIOUS
<1>2. /\ b \in Seq(R) /\ Len(b) = Len(s) - (k - 1)
      /\ \A j \in 1 .. Len(s) - (k - 1) : b[j] = s[(k - 1) + j]
  <2>1. k \in 1 .. Len(s) + 1 /\ Len(s) \in k - 1 .. Len(s) OBVIOUS
  <2> QED BY <2>1, SubSeqProperties
<1>3. InsertAt(s, k, e) = t BY DEF InsertAt
<1> HIDE DEF a, b
<1>4. u \in Seq(R) /\ Len(u) = k /\ u[k] = e /\ \A j \in 1 .. k - 1 : u[j] = a[j]
  <2>1. <<e>> \in Seq(R) /\ Len(<<e>>) = 1 /\ <<e>>[1] = e OBVIOUS
  <2>2. u \in Seq(R) /\ Len(u) = k
    <3>1. u \in Seq(R) /\ Len(u) = Len(a) + 1 BY <1>1, <2>1, ConcatProperties
    <3> QED BY <1>1, <3>1
  <2>3. \A j \in 1 .. k : u[j] = IF j <= k - 1 THEN a[j] ELSE <<e>>[j - (k - 1)]
    <3>1. \A j \in 1 .. Len(a) + 1 : u[j] = IF j <= Len(a) THEN a[j] ELSE <<e>>[j - Len(a)]
      BY <1>1, <2>1, ConcatProperties
    <3> QED BY <1>1, <3>1
  <2>4. k \in 1 .. k /\ k - (k - 1) = 1 /\ ~ (k <= k - 1) OBVIOUS
  <2> HIDE DEF u
  <2> QED BY <2>1, <2>2, <2>3, <2>4
<1> HIDE DEF u
<1>5. /\ t \in Seq(R) /\ Len(t) = Len(s) + 1
      /\ \A j \in 1 .. k : t[j] = u[j]
      /\ \A j \in 1 .. Len(b) : t[k + j] = b[j]
  <2>1. /\ t \in Seq(R) /\ Len(t) = Len(u) + Len(b)
        /\ \A j \in 1 .. Len(u) + Len(b) : t[j] = IF j <= Len(u) THEN u[j] ELSE b[j - Len(u)]
    BY <1>2, <1>4, ConcatProperties
  <2>2. Len(u) = k /\ Len(b) = Len(s) - (k - 1) /\ Len(b) \in Nat BY <1>2, <1>4
  <2> HIDE DEF t
  <2>3. Len(t) = Len(s) + 1 BY <2>1, <2>2
  <2>4. \A j \in 1 .. k : t[j] = u[j] BY <2>1, <2>2
  <2>5. ASSUME NEW j \in 1 .. Len(b) PROVE t[k + j] = b[j]
    <3>1. k + j \in 1 .. k + Len(b) /\ (k + j) - k = j /\ ~ (k + j <= k) BY <2>2
    <3> QED BY <2>1, <2>2, <3>1
  <2> QED BY <2>1, <2>3, <2>4, <2>5
<1> HIDE DEF t
<1>6. ASSUME NEW j \in 1 .. Len(s) PROVE s[j] = IF j < k THEN t[j] ELSE t[j + 1]
  <2>1. CASE j < k BY <1>1, <1>4, <1>5, <2>1
  <2>2. CASE ~ (j < k)
    <3>1. /\ j - (k - 1) \in 1 .. Len(s) - (k - 1) /\ (k - 1) + (j - (k - 1)) = j
          /\ k + (j - (k - 1)) = j + 1
      BY <2>2
    <3>2. b[j - (k - 1)] = s[j] BY <1>2, <3>1
    <3>3. t[j + 1] = b[j - (k - 1)] BY <1>2, <1>5, <3>1
    <3> QED BY <2>2, <3>2, <3>3
  <2> QED BY <2>1, <2>2
<1>7. k \in 1 .. k OBVIOUS
<1> QED BY <1>3, <1>4, <1>5, <1>6, <1>7

(* A recursive definition whose k-th value lies in the k-th of the sets R.     *)
Staged(n, R, base, step) ==
  \E f : /\ f = [k \in 0 .. n |-> IF k = 0 THEN base ELSE step[k][f[k - 1]]]
         /\ \A k \in 0 .. n : f[k] \in R[k]

LEMMA StagesHold ==
  ASSUME NEW n \in Nat, NEW R, NEW f, f[0] \in R[0],
         \A k \in 1 .. n : f[k - 1] \in R[k - 1] => f[k] \in R[k]
  PROVE  \A k \in 0 .. n : f[k] \in R[k]
<1> DEFINE T == {k \in 0 .. n : f[k] \in R[k]}
<1>1. 0 \in T OBVIOUS
<1>2. ASSUME NEW k \in 0 .. n - 1, k \in T PROVE k + 1 \in T
  <2>1. k + 1 \in 1 .. n /\ (k + 1) - 1 = k /\ k + 1 \in 0 .. n OBVIOUS
  <2> QED BY <1>2, <2>1
<1>3. 0 \in Int /\ n \in Int OBVIOUS
<1> HIDE DEF T
<1>4. 0 .. n \subseteq T BY <1>1, <1>2, <1>3, Induction
<1> QED BY <1>4 DEF T

LEMMA Stages ==
  ASSUME NEW n \in Nat, NEW R, NEW base \in R[0], NEW step,
         \A k \in 1 .. n : \A x \in R[k - 1] : step[k][x] \in R[k]
  PROVE  Staged(n, R, base, step)
<1> DEFINE S == UNION {R[k] : k \in 0 .. n}
           partial == [k \in 0 + 1 .. n |-> [x \in S |-> IF x \in R[k - 1] THEN step[k][x] ELSE base]]
<1>1. base \in S OBVIOUS
<1>2. \A k \in 0 .. n : R[k] \subseteq S OBVIOUS
<1>3. partial \in [0 + 1 .. n -> [S -> S]]
  <2> SUFFICES ASSUME NEW k \in 0 + 1 .. n, NEW x \in S
               PROVE  (IF x \in R[k - 1] THEN step[k][x] ELSE base) \in S
    BY Zenon
  <2>1. k \in 1 .. n /\ k \in 0 .. n OBVIOUS
  <2> QED BY <1>1, <1>2, <2>1
<1>4. PICK f \in [0 .. n -> S] : f[0] = base /\ \A k \in 0 + 1 .. n : f[k] = partial[k][f[k - 1]]
  <2>1. n \in Int /\ 0 \in Int /\ 0 <= n OBVIOUS
  <2> HIDE DEF partial, S
  <2>2. Solvable(0, n, S, base, partial) BY <1>1, <1>3, <2>1, Recursion, ZenonT(30)
  <2> QED BY <2>2, ZenonT(30) DEF Solvable
<1>5. ASSUME NEW k \in 1 .. n, f[k - 1] \in R[k - 1]
      PROVE  f[k] = step[k][f[k - 1]]
  <2>1. k \in 0 + 1 .. n /\ k - 1 \in 0 .. n OBVIOUS
  <2>2. f[k - 1] \in S BY <1>4, <2>1
  <2>3. partial[k][f[k - 1]] = step[k][f[k - 1]] BY <1>5, <2>1, <2>2
  <2> QED BY <1>4, <2>1, <2>3
<1> HIDE DEF partial
<1>6. \A k \in 0 .. n : f[k] \in R[k]
  <2>1. f[0] \in R[0] BY <1>4
  <2>2. \A k \in 1 .. n : f[k - 1] \in R[k - 1] => f[k] \in R[k] BY <1>5
  <2> QED BY <2>1, <2>2, StagesHold
<1>7. f = [k \in 0 .. n |-> IF k = 0 THEN base ELSE step[k][f[k - 1]]]
  <2>1. ASSUME NEW k \in 0 .. n PROVE f[k] = IF k = 0 THEN base ELSE step[k][f[k - 1]]
    <3>1. CASE k = 0 BY <1>4, <3>1
    <3>2. CASE k # 0
      <4>1. k \in 1 .. n /\ k - 1 \in 0 .. n BY <3>2
      <4> QED BY <1>5, <1>6, <3>2, <4>1
    <3> QED BY <3>1, <3>2
  <2>2. f = [k \in 0 .. n |-> f[k]] BY <1>4
  <2> QED BY <2>1, <2>2
<1> QED BY <1>6, <1>7 DEF Staged

-----------------------------------------------------------------------------

(* What every operator keeps.  Ownership needs the types (block numbers in *)
(* range), and the fill of a new block fits only because it was zeroed.    *)
Sound(d) == d \in Disk /\ OwnsBlocks(d) /\ IsClean(d)

-----------------------------------------------------------------------------
(* Directory blocks.                                                       *)

LEMMA NamesType ==
  ASSUME NEW nm \in Names
  PROVE  RecLen(nm) \in Nat
BY NameLenAssumption DEF RecLen

LEMMA NewEntryType ==
  ASSUME NEW nm \in Names, NEW type \in {FT_REG_FILE, FT_DIR}, NEW i \in Inodes
  PROVE  NewEntry(nm, type, i) \in DirEntry
BY NamesType DEF NewEntry, DirEntry

LEMMA RecLenType ==
  ASSUME NEW e \in DirEntry, NEW n \in Nat
  PROVE  [e EXCEPT !.rec_len = n] \in DirEntry
BY DEF DirEntry

(* SelectInSeq finds an index, or 0.                                       *)
LEMMA SplittableType ==
  ASSUME NEW c \in Seq(DirEntry), NEW e \in DirEntry
  PROVE  /\ Splittable(c, e) \in 0 .. Len(c)
         /\ Splittable(c, e) > 0 => Slack(c[Splittable(c, e)]) >= e.rec_len
<1>. DEFINE I == {i \in 1 .. Len(c) : Slack(c[i]) >= e.rec_len}
<1>0. Splittable(c, e) = IF I # {} THEN Min(I) ELSE 0
  BY DEF Splittable, SelectInSeq
<1>1. I \subseteq Nat
  OBVIOUS
<1>2. I # {} => Min(I) \in I
  <2>. HIDE DEF I
  <2>. QED BY <1>1, MinOfNats
<1>. QED BY <1>0, <1>2

(* append_dir_entry returns a chain.                                       *)
LEMMA AppendDirEntryType ==
  ASSUME NEW c \in Seq(DirEntry), NEW e \in DirEntry
  PROVE  append_dir_entry(c, e) \in Seq(DirEntry)
<1>. DEFINE k == Splittable(c, e)
            c1 == [c EXCEPT ![k].rec_len = RecLen(c[k].name)]
            e1 == [e EXCEPT !.rec_len = Slack(c[k])]
<1>1. CASE k = 0
  BY <1>1 DEF append_dir_entry
<1>2. CASE k > 0
  <2>1. k \in 1 .. Len(c) /\ Slack(c[k]) >= e.rec_len
    BY <1>2, SplittableType
  <2>2. c[k] \in DirEntry /\ RecLen(c[k].name) \in Nat
    <3>. HIDE DEF k
    <3>1. c[k] \in DirEntry
      BY <2>1
    <3>2. c[k].name \in Names
      BY <3>1 DEF DirEntry
    <3>. QED BY <3>1, <3>2, NamesType
  <2>3. e1 \in DirEntry
    <3>1. Slack(c[k]) \in Nat
      BY <2>1, <2>2 DEF Slack, DirEntry
    <3>. QED BY <3>1, RecLenType
  <2>4. c1 \in Seq(DirEntry) /\ Len(c1) = Len(c)
    <3>1. [c[k] EXCEPT !.rec_len = RecLen(c[k].name)] \in DirEntry
      BY <2>2, RecLenType
    <3>. QED BY <2>1, <3>1
  <2>5. InsertAt(c1, k + 1, e1) \in Seq(DirEntry)
    <3>. HIDE DEF c1, e1, k
    <3>. QED BY <2>1, <2>3, <2>4 DEF InsertAt
  <2>. QED BY <1>2, <2>5 DEF append_dir_entry
<1>. QED BY <1>1, <1>2, SplittableType

LEMMA DeletableType ==
  ASSUME NEW c \in Seq(DirEntry), NEW name, NEW type
  PROVE  DeletableAt(c, name, type) \in {0} \cup 2 .. Len(c)
<1>. DEFINE I == {i \in 2 .. Len(c) : c[i].name = name /\ c[i].file_type = type}
<1>0. DeletableAt(c, name, type) = IF I # {} THEN Min(I) ELSE 0
  BY DEF DeletableAt, SelectInSubSeq
<1>1. I \subseteq Nat
  OBVIOUS
<1>2. I # {} => Min(I) \in I
  <2>. HIDE DEF I
  <2>. QED BY <1>1, MinOfNats
<1>. QED BY <1>0, <1>2

(* delete_dir_entry returns a chain.                                       *)
LEMMA DeleteDirEntryType ==
  ASSUME NEW c \in Seq(DirEntry), NEW name, NEW type
  PROVE  delete_dir_entry(c, name, type) \in Seq(DirEntry)
<1>. DEFINE k == DeletableAt(c, name, type)
            c1 == [c EXCEPT ![k-1].rec_len = @ + c[k].rec_len]
<1>1. CASE k = 0
  BY <1>1 DEF delete_dir_entry
<1>2. CASE k \in 2 .. Len(c)
  <2>1. c[k] \in DirEntry /\ c[k-1] \in DirEntry
    BY <1>2
  <2>2. [c[k-1] EXCEPT !.rec_len = @ + c[k].rec_len] \in DirEntry
    <3>. HIDE DEF k
    <3>1. c[k-1].rec_len + c[k].rec_len \in Nat
      BY <2>1 DEF DirEntry
    <3>. QED BY <2>1, <3>1, RecLenType
  <2>3. c1 \in Seq(DirEntry) /\ Len(c1) = Len(c)
    BY <1>2, <2>2
  <2>4. RemoveAt(c1, k) \in Seq(DirEntry)
    <3>. HIDE DEF c1, k
    <3>. QED BY <1>2, <2>3 DEF RemoveAt
  <2>. QED BY <1>2, <2>4 DEF delete_dir_entry
<1>. QED BY <1>1, <1>2, DeletableType

LEMMA SearchFileNameType ==
  ASSUME NEW c \in Seq(DirEntry), NEW name, NEW type
  PROVE  search_file_name(c, name, type) \in 0 .. INODE_COUNT
<1>. DEFINE I == {i \in 1 .. Len(c) : c[i].name = name /\ c[i].file_type = type}
            k == IF I # {} THEN Min(I) ELSE 0
<1>0. search_file_name(c, name, type) = IF k = 0 THEN 0 ELSE c[k].inode
  BY DEF search_file_name, SelectInSeq
<1>1. I \subseteq Nat
  OBVIOUS
<1>2. I # {} => Min(I) \in I
  <2>. HIDE DEF I
  <2>. QED BY <1>1, MinOfNats
<1>3. k \in 0 .. Len(c)
  BY <1>2
<1>4. k # 0 => c[k] \in DirEntry
  BY <1>3
<1>. HIDE DEF k
<1>. QED BY <1>0, <1>4, SizeAssumption DEF DirEntry, Inodes

-----------------------------------------------------------------------------
(* Inodes and the blocks they refer to.                                    *)

LEMMA InodeType ==
  ASSUME NEW d \in Disk, NEW i \in Inodes
  PROVE  /\ d.inode_table[i] \in Inode
         /\ d.inode_table[i].block \in Seq(Blocks)
         /\ d.inode_table[i].sub \in Seq(Blocks)
BY DEF Disk, Inode

LEMMA BlocksAreNats == Blocks \subseteq Nat /\ Inodes \subseteq Nat /\ 1 \in Inodes /\ 0 \in Blocks
BY ConstAssumption, SizeAssumption DEF Blocks, Inodes

(* Direct is a prefix of i_block.                                          *)
LEMMA DirectType ==
  ASSUME NEW n \in Inode
  PROVE  /\ Direct(n) \in Seq(Blocks)
         /\ Len(Direct(n)) <= Len(n.block) /\ Len(Direct(n)) <= DIRECT
         /\ \A k \in 1 .. Len(Direct(n)) : Direct(n)[k] = n.block[k]
         /\ Len(n.block) <= DIRECT => Len(Direct(n)) = Len(n.block)
         /\ Len(n.block) > DIRECT => Len(Direct(n)) = DIRECT
<1>. DEFINE m == Min({DIRECT, Len(n.block)})
<1>0. n.block \in Seq(Blocks) /\ DIRECT \in Nat
  BY ConstAssumption DEF Inode
<1>1. /\ m \in {DIRECT, Len(n.block)}
      /\ m <= DIRECT /\ m <= Len(n.block)
  <2>1. {DIRECT, Len(n.block)} \subseteq Nat /\ {DIRECT, Len(n.block)} # {}
    BY <1>0
  <2>. QED BY <2>1, MinOfNats
<1>2. Direct(n) = SubSeq(n.block, 1, m)
  BY DEF Direct
<1>. HIDE DEF m
<1>. QED BY <1>0, <1>1, <1>2

(* The walked blocks are blocks of the inode.                              *)
LEMMA DataBlocksType ==
  ASSUME NEW n \in Inode
  PROVE  /\ DataBlocks(n) \in Seq(Blocks)
         /\ \A k \in 1 .. Len(DataBlocks(n)) : DataBlocks(n)[k] \in Owned(n)
<1>1. n.sub \in Seq(Blocks) /\ n.block \in Seq(Blocks)
  BY DEF Inode
<1>2. Direct(n) \in Seq(Blocks)
  BY DirectType
<1>3. DataBlocks(n) \in Seq(Blocks) /\ Len(DataBlocks(n)) = Len(Direct(n)) + Len(n.sub)
  BY <1>1, <1>2 DEF DataBlocks
<1>4. ASSUME NEW k \in 1 .. Len(DataBlocks(n))
      PROVE  DataBlocks(n)[k] \in Owned(n)
  <2>1. CASE k <= Len(Direct(n))
    <3>1. DataBlocks(n)[k] = n.block[k] /\ k \in DOMAIN n.block
      BY <1>1, <1>2, <1>3, <2>1, DirectType DEF DataBlocks
    <3>. QED BY <3>1 DEF Owned, Range
  <2>2. CASE k > Len(Direct(n))
    <3>1. /\ DataBlocks(n)[k] = n.sub[k - Len(Direct(n))]
          /\ k - Len(Direct(n)) \in DOMAIN n.sub
      BY <1>1, <1>2, <1>3, <2>2 DEF DataBlocks
    <3>. QED BY <3>1 DEF Owned, Range
  <2>. QED BY <1>3, <2>1, <2>2, <1>2
<1>. QED BY <1>3, <1>4

(* handle_search_inode returns an inode number, or 0.                      *)
LEMMA SearchType ==
  ASSUME NEW d \in Disk, NEW p \in Inodes, NEW name, NEW type
  PROVE  handle_search_inode(d, p, name, type) \in 0 .. INODE_COUNT
<1>. DEFINE bs == DataBlocks(d.inode_table[p])
            I == {i \in 1 .. Len(bs) : search_file_name(d.dirents[bs[i]], name, type) # 0}
            k == IF I # {} THEN Min(I) ELSE 0
<1>0. handle_search_inode(d, p, name, type)
        = IF k = 0 THEN 0 ELSE search_file_name(d.dirents[bs[k]], name, type)
  BY DEF handle_search_inode, SelectInSeq
<1>1. bs \in Seq(Blocks)
  BY InodeType, DataBlocksType
<1>2. I \subseteq Nat
  OBVIOUS
<1>3. I # {} => Min(I) \in I
  <2>. HIDE DEF I
  <2>. QED BY <1>2, MinOfNats
<1>4. k # 0 => k \in 1 .. Len(bs)
  BY <1>3
<1>5. k # 0 => d.dirents[bs[k]] \in Seq(DirEntry)
  <2>. HIDE DEF k, bs
  <2>. QED BY <1>1, <1>4 DEF Disk
<1>. HIDE DEF k, bs
<1>. QED BY <1>0, <1>5, SearchFileNameType, SizeAssumption

-----------------------------------------------------------------------------
(* Operators that leave the bitmap, the block lists and the data alone.    *)

LEMMA SameBlocks ==
  ASSUME NEW c, NEW d, OwnsBlocks(c),
         d.block_bitmap = c.block_bitmap,
         \A i \in Inodes : /\ d.inode_table[i].block = c.inode_table[i].block
                          /\ d.inode_table[i].sub = c.inode_table[i].sub
  PROVE  OwnsBlocks(d)
BY DEF OwnsBlocks, Owned

LEMMA SameData ==
  ASSUME NEW c, NEW d, IsClean(c),
         d.block_bitmap = c.block_bitmap, d.dirents = c.dirents, d.text = c.text
  PROVE  IsClean(d)
BY DEF IsClean, FreeBlocks

(* The moduli of the sizes and counters.                                   *)
LEMMA ModuliType == UINT16 \in Nat /\ 0 < UINT16 /\ UINT32 \in Nat /\ 0 < UINT32
<1>1. UINT16 \in Nat /\ DATA_BLOCK_COUNT < UINT16 /\ DATA_BLOCK_COUNT \in Nat
  BY ConstAssumption
<1>2. UINT32 \in Nat /\ 17 < UINT32
  BY ConstAssumption
<1>. QED BY <1>1, <1>2

LEMMA AddSizeSound ==
  ASSUME NEW d, Sound(d), NEW i \in Inodes, NEW n \in Int
  PROVE  /\ Sound(AddSize(d, i, n))
         /\ AddSize(d, i, n).text = d.text
         /\ AddSize(d, i, n).block_bitmap = d.block_bitmap
<1>. DEFINE e == AddSize(d, i, n)
<1>0. d \in Disk /\ d.inode_table[i] \in Inode
  BY InodeType DEF Sound
<1>1. (d.inode_table[i].size + n) % UINT32 \in 0 .. UINT32 - 1
  <2>1. d.inode_table[i].size + n \in Int
    BY <1>0, ModuliType DEF Inode
  <2>. QED BY <2>1, Modulo, ModuliType
<1>2. [d.inode_table[i] EXCEPT !.size = (@ + n) % UINT32] \in Inode
  BY <1>0, <1>1 DEF Inode
<1>3. e \in Disk
  BY <1>0, <1>2 DEF AddSize, Disk
<1>4. /\ e.block_bitmap = d.block_bitmap /\ e.dirents = d.dirents /\ e.text = d.text
      /\ \A j \in Inodes : /\ e.inode_table[j].block = d.inode_table[j].block
                           /\ e.inode_table[j].sub = d.inode_table[j].sub
  BY <1>0 DEF AddSize, Disk, Inode
<1>. QED BY <1>3, <1>4, SameBlocks, SameData DEF Sound

(* The counters, the password and the mode of an inode.                    *)
LEMMA CountersSound ==
  ASSUME NEW d, Sound(d), NEW u \in 0 .. UINT16 - 1, NEW pw \in Passwords
  PROVE  /\ Sound([d EXCEPT !.used_dirs = u])
         /\ Sound([d EXCEPT !.password = pw])
<1>0. d \in Disk
  BY DEF Sound
<1>1. [d EXCEPT !.used_dirs = u] \in Disk /\ [d EXCEPT !.password = pw] \in Disk
  BY <1>0 DEF Disk
<1>. QED BY <1>0, <1>1, SameBlocks, SameData DEF Sound, Disk

LEMMA CountDirSound ==
  ASSUME NEW d, Sound(d)
  PROVE  /\ Sound(CountDir(d)) /\ Sound(UncountDir(d))
         /\ CountDir(d).block_bitmap = d.block_bitmap
         /\ CountDir(d).free_blocks = d.free_blocks
<1>0. d \in Disk /\ d.used_dirs \in Nat /\ d.password \in Passwords
  BY DEF Sound, Disk
<1>1. (d.used_dirs + 1) % UINT16 \in 0 .. UINT16 - 1 /\ (d.used_dirs - 1) % UINT16 \in 0 .. UINT16 - 1
  BY <1>0, Modulo, ModuliType
<1>2. CountDir(d).block_bitmap = d.block_bitmap /\ CountDir(d).free_blocks = d.free_blocks
  BY <1>0 DEF CountDir, Disk
<1>. QED BY <1>0, <1>1, <1>2, CountersSound DEF CountDir, UncountDir

LEMMA ModeSound ==
  ASSUME NEW d, Sound(d), NEW i \in Inodes, NEW perm \in SUBSET Bits,
         NEW type \in {FT_UNKNOWN, FT_REG_FILE, FT_DIR}
  PROVE  /\ Sound([d EXCEPT !.inode_table[i].perm = perm])
         /\ Sound([d EXCEPT !.inode_table[i].type = type, !.inode_table[i].perm = perm])
<1>. DEFINE e == [d EXCEPT !.inode_table[i].perm = perm]
            f == [d EXCEPT !.inode_table[i].type = type, !.inode_table[i].perm = perm]
<1>0. d \in Disk /\ d.inode_table[i] \in Inode
  BY InodeType DEF Sound
<1>1. /\ [d.inode_table[i] EXCEPT !.perm = perm] \in Inode
      /\ [[d.inode_table[i] EXCEPT !.type = type] EXCEPT !.perm = perm] \in Inode
  BY <1>0 DEF Inode
<1>2. e \in Disk /\ f \in Disk
  BY <1>0, <1>1 DEF Disk
<1>3. /\ e.block_bitmap = d.block_bitmap /\ e.dirents = d.dirents /\ e.text = d.text
      /\ \A j \in Inodes : /\ e.inode_table[j].block = d.inode_table[j].block
                           /\ e.inode_table[j].sub = d.inode_table[j].sub
  BY <1>0 DEF Disk, Inode
<1>4. /\ f.block_bitmap = d.block_bitmap /\ f.dirents = d.dirents /\ f.text = d.text
      /\ \A j \in Inodes : /\ f.inode_table[j].block = d.inode_table[j].block
                           /\ f.inode_table[j].sub = d.inode_table[j].sub
  BY <1>0 DEF Disk, Inode
<1>. HIDE DEF e, f
<1>5. Sound(e)
  BY <1>2, <1>3, SameBlocks, SameData DEF Sound
<1>6. Sound(f)
  BY <1>2, <1>4, SameBlocks, SameData DEF Sound
<1>. QED BY <1>5, <1>6 DEF e, f

-----------------------------------------------------------------------------
(* Allocation.                                                             *)

LEMMA ConcatRange ==
  ASSUME NEW S, NEW s \in Seq(S), NEW t \in Seq(S)
  PROVE  /\ Range(s \o t) = Range(s) \cup Range(t)
         /\ IsInjective(s) /\ IsInjective(t) /\ Range(s) \cap Range(t) = {} => IsInjective(s \o t)
<1>1. /\ DOMAIN s = 1 .. Len(s) /\ DOMAIN t = 1 .. Len(t)
      /\ DOMAIN (s \o t) = 1 .. Len(s) + Len(t)
      /\ \A k \in 1 .. Len(s) : (s \o t)[k] = s[k]
      /\ \A k \in 1 .. Len(s) + Len(t) : k > Len(s) => (s \o t)[k] = t[k - Len(s)]
      /\ Len(s) \in Nat /\ Len(t) \in Nat
  OBVIOUS
<1>2. Range(s \o t) \subseteq Range(s) \cup Range(t)
  BY <1>1 DEF Range
<1>3. Range(s) \subseteq Range(s \o t)
  BY <1>1 DEF Range
<1>4. ASSUME NEW k \in 1 .. Len(t)
      PROVE  t[k] \in Range(s \o t)
  <2>1. Len(s) + k \in 1 .. Len(s) + Len(t) /\ (s \o t)[Len(s) + k] = t[k]
    BY <1>1
  <2>. QED BY <1>1, <2>1 DEF Range
<1>5. Range(t) \subseteq Range(s \o t)
  BY <1>1, <1>4 DEF Range
<1>6. ASSUME IsInjective(s), IsInjective(t), Range(s) \cap Range(t) = {},
             NEW j \in DOMAIN (s \o t), NEW k \in DOMAIN (s \o t), (s \o t)[j] = (s \o t)[k]
      PROVE  j = k
  <2>1. CASE j <= Len(s) /\ k <= Len(s)
    BY <1>1, <1>6, <2>1 DEF IsInjective
  <2>2. CASE j > Len(s) /\ k > Len(s)
    <3>1. j - Len(s) \in DOMAIN t /\ k - Len(s) \in DOMAIN t
      BY <1>1, <2>2
    <3>2. j - Len(s) = k - Len(s)
      BY <1>1, <1>6, <2>2, <3>1 DEF IsInjective
    <3>. QED BY <1>1, <3>2
  <2>3. CASE j <= Len(s) /\ k > Len(s)
    <3>1. j \in DOMAIN s /\ k - Len(s) \in DOMAIN t
      BY <1>1, <2>3
    <3>2. s[j] \in Range(s) /\ t[k - Len(s)] \in Range(t)
      BY <3>1 DEF Range
    <3>. QED BY <1>1, <1>6, <2>3, <3>2
  <2>4. CASE j > Len(s) /\ k <= Len(s)
    <3>1. k \in DOMAIN s /\ j - Len(s) \in DOMAIN t
      BY <1>1, <2>4
    <3>2. s[k] \in Range(s) /\ t[j - Len(s)] \in Range(t)
      BY <3>1 DEF Range
    <3>. QED BY <1>1, <1>6, <2>4, <3>2
  <2>. QED BY <1>1, <2>1, <2>2, <2>3, <2>4
<1>. QED BY <1>2, <1>3, <1>5, <1>6 DEF IsInjective

LEMMA AppendRange ==
  ASSUME NEW S, NEW s \in Seq(S), NEW b \in S
  PROVE  /\ Range(Append(s, b)) = Range(s) \cup {b}
         /\ IsInjective(s) /\ b \notin Range(s) => IsInjective(Append(s, b))
<1>1. /\ DOMAIN s = 1 .. Len(s) /\ Len(s) \in Nat
      /\ DOMAIN Append(s, b) = 1 .. Len(s) + 1
      /\ \A k \in 1 .. Len(s) : Append(s, b)[k] = s[k]
      /\ Append(s, b)[Len(s) + 1] = b
  OBVIOUS
<1>2. Range(Append(s, b)) \subseteq Range(s) \cup {b}
  BY <1>1 DEF Range
<1>3. Range(s) \subseteq Range(Append(s, b)) /\ b \in Range(Append(s, b))
  BY <1>1 DEF Range
<1>4. IsInjective(s) /\ b \notin Range(s) => IsInjective(Append(s, b))
  BY <1>1 DEF Range, IsInjective
<1>. QED BY <1>2, <1>3, <1>4

(* One inode gets blocks that were not marked, which are marked now.       *)
LEMMA Reassign ==
  ASSUME NEW c, NEW d, NEW i \in Inodes,
         OwnsBlocks(c),
         c.block_bitmap \subseteq d.block_bitmap,
         \A j \in Inodes : j # i => d.inode_table[j] = c.inode_table[j],
         Owned(d.inode_table[i]) \subseteq
           Owned(c.inode_table[i]) \cup (d.block_bitmap \ c.block_bitmap),
         IsInjective(d.inode_table[i].block), IsInjective(d.inode_table[i].sub),
         Range(d.inode_table[i].block) \cap Range(d.inode_table[i].sub) = {}
  PROVE  OwnsBlocks(d)
<1>. DEFINE o(j) == Owned(c.inode_table[j])
            p(j) == Owned(d.inode_table[j])
            N == d.block_bitmap \ c.block_bitmap
<1>0. /\ \A j \in Inodes : o(j) \subseteq c.block_bitmap
      /\ \A j, k \in Inodes : j # k => o(j) \cap o(k) = {}
      /\ \A j \in Inodes : j # i => p(j) = o(j)
      /\ p(i) \subseteq o(i) \cup N
  BY DEF OwnsBlocks
<1>1. \A j \in Inodes : p(j) \subseteq d.block_bitmap
  <2>. HIDE DEF o, p
  <2>. QED BY <1>0
<1>2. \A j, k \in Inodes : j # k => p(j) \cap p(k) = {}
  <2>. HIDE DEF o, p
  <2>. QED BY <1>0
<1>3. \A j \in Inodes : /\ IsInjective(d.inode_table[j].block)
                       /\ IsInjective(d.inode_table[j].sub)
                       /\ Range(d.inode_table[j].block) \cap Range(d.inode_table[j].sub) = {}
  BY DEF OwnsBlocks
<1>. QED BY <1>1, <1>2, <1>3 DEF OwnsBlocks

(* new_block hands out a block no inode refers to.                         *)
LEMMA NextBlockFree ==
  ASSUME NEW d, CanNewBlock(d)
  PROVE  NextBlock(d) \in FreeBlocks(d)
<1>1. FreeBlocks(d) \subseteq Nat
  BY BlocksAreNats DEF FreeBlocks
<1>. QED BY <1>1, MinOfNats DEF CanNewBlock, NextBlock

LEMMA NewBlockType ==
  ASSUME NEW d \in Disk, CanNewBlock(d)
  PROVE  /\ new_block(d) \in Disk
         /\ NextBlock(d) \in Blocks
         /\ NextBlock(d) \notin d.block_bitmap
<1>1. NextBlock(d) \in Blocks /\ NextBlock(d) \notin d.block_bitmap
  BY NextBlockFree DEF FreeBlocks
<1>2. d.block_bitmap \cup {NextBlock(d)} \in SUBSET Blocks
  BY <1>1 DEF Disk
<1>3. d.free_blocks - 1 \in 0 .. UINT16 - 1
  BY ConstAssumption DEF Disk, CanNewBlock
<1>. QED BY <1>1, <1>2, <1>3 DEF new_block, Disk

LEMMA AddBlockSound ==
  ASSUME NEW d, Sound(d), CanNewBlock(d), NEW i \in Inodes
  PROVE  /\ Sound(AddBlock(d, i))
         /\ AddBlock(d, i).inode_table[i].block = Append(d.inode_table[i].block, NextBlock(d))
         /\ AddBlock(d, i).inode_table[i].sub = d.inode_table[i].sub
         /\ NextBlock(d) \in AddBlock(d, i).block_bitmap
<1>. DEFINE b == NextBlock(d)
            n == d.inode_table[i]
            e == AddBlock(d, i)
<1>0. /\ d \in Disk /\ n \in Inode /\ n.block \in Seq(Blocks)
      /\ new_block(d) \in Disk /\ b \in Blocks /\ b \notin d.block_bitmap
  BY InodeType, NewBlockType DEF Sound
<1>1. [n EXCEPT !.block = Append(@, b)] \in Inode
  <2>. HIDE DEF n, b
  <2>1. Append(n.block, b) \in Seq(Blocks)
    BY <1>0
  <2>. QED BY <1>0, <2>1 DEF Inode
<1>2. /\ new_block(d).inode_table = d.inode_table
      /\ new_block(d).block_bitmap = d.block_bitmap \cup {b}
      /\ new_block(d).dirents = d.dirents
      /\ new_block(d).text = d.text
  BY <1>0 DEF new_block, Disk
<1>3. e = [new_block(d) EXCEPT !.inode_table = [@ EXCEPT ![i] = [n EXCEPT !.block = Append(@, b)]]]
  BY <1>0, <1>2 DEF AddBlock, Disk
<1>4. e \in Disk
  <2>. HIDE DEF n, b, e
  <2>. QED BY <1>0, <1>1, <1>3 DEF Disk
<1>5. /\ e.block_bitmap = d.block_bitmap \cup {b}
      /\ e.dirents = d.dirents /\ e.text = d.text
      /\ \A j \in Inodes \ {i} : e.inode_table[j] = d.inode_table[j]
      /\ e.inode_table[i] = [n EXCEPT !.block = Append(@, b)]
  <2>. HIDE DEF n, b, e
  <2>. QED BY <1>0, <1>2, <1>3 DEF Disk
<1>6. /\ e.inode_table[i].block = Append(n.block, b)
      /\ e.inode_table[i].sub = n.sub
  <2>. HIDE DEF n, b, e
  <2>. QED BY <1>0, <1>5 DEF Inode
<1>7. /\ b \notin Range(n.block) /\ b \notin Range(n.sub)
      /\ IsInjective(n.block) /\ IsInjective(n.sub)
      /\ Range(n.block) \cap Range(n.sub) = {}
  BY <1>0 DEF Sound, OwnsBlocks, Owned
<1>8. /\ Range(Append(n.block, b)) = Range(n.block) \cup {b}
      /\ IsInjective(Append(n.block, b))
  BY <1>0, <1>7, AppendRange
<1>. HIDE DEF n, b, e
<1>9. OwnsBlocks(e)
  <2>1. Owned(e.inode_table[i]) \subseteq
          Owned(d.inode_table[i]) \cup (e.block_bitmap \ d.block_bitmap)
    BY <1>0, <1>5, <1>6, <1>8 DEF Owned, n
  <2>2. Range(e.inode_table[i].block) \cap Range(e.inode_table[i].sub) = {}
    BY <1>6, <1>7, <1>8
  <2>3. /\ d.block_bitmap \subseteq e.block_bitmap /\ OwnsBlocks(d)
        /\ \A j \in Inodes : j # i => e.inode_table[j] = d.inode_table[j]
    BY <1>5 DEF Sound
  <2>4. IsInjective(e.inode_table[i].block) /\ IsInjective(e.inode_table[i].sub)
    BY <1>6, <1>7, <1>8
  <2>. QED BY <2>1, <2>2, <2>3, <2>4, Reassign
<1>10. IsClean(e)
  BY <1>5 DEF Sound, IsClean, FreeBlocks
<1>. QED BY <1>4, <1>5, <1>6, <1>9, <1>10 DEF Sound, n, b, e

LEMMA AddSubSound ==
  ASSUME NEW d, Sound(d), CanNewBlock(d), NEW i \in Inodes
  PROVE  Sound(AddSub(d, i))
<1>. DEFINE b == NextBlock(d)
            n == d.inode_table[i]
            e == AddSub(d, i)
<1>0. /\ d \in Disk /\ n \in Inode /\ n.sub \in Seq(Blocks)
      /\ new_block(d) \in Disk /\ b \in Blocks /\ b \notin d.block_bitmap
  BY InodeType, NewBlockType DEF Sound
<1>1. [n EXCEPT !.sub = Append(@, b)] \in Inode
  <2>. HIDE DEF n, b
  <2>1. Append(n.sub, b) \in Seq(Blocks)
    BY <1>0
  <2>. QED BY <1>0, <2>1 DEF Inode
<1>2. /\ new_block(d).inode_table = d.inode_table
      /\ new_block(d).block_bitmap = d.block_bitmap \cup {b}
      /\ new_block(d).dirents = d.dirents
      /\ new_block(d).text = d.text
  BY <1>0 DEF new_block, Disk
<1>3. e = [new_block(d) EXCEPT !.inode_table = [@ EXCEPT ![i] = [n EXCEPT !.sub = Append(@, b)]]]
  BY <1>0, <1>2 DEF AddSub, Disk
<1>4. e \in Disk
  <2>. HIDE DEF n, b, e
  <2>. QED BY <1>0, <1>1, <1>3 DEF Disk
<1>5. /\ e.block_bitmap = d.block_bitmap \cup {b}
      /\ e.dirents = d.dirents /\ e.text = d.text
      /\ \A j \in Inodes \ {i} : e.inode_table[j] = d.inode_table[j]
      /\ e.inode_table[i] = [n EXCEPT !.sub = Append(@, b)]
  <2>. HIDE DEF n, b, e
  <2>. QED BY <1>0, <1>2, <1>3 DEF Disk
<1>6. /\ e.inode_table[i].sub = Append(n.sub, b)
      /\ e.inode_table[i].block = n.block
  <2>. HIDE DEF n, b, e
  <2>. QED BY <1>0, <1>5 DEF Inode
<1>7. /\ b \notin Range(n.block) /\ b \notin Range(n.sub)
      /\ IsInjective(n.block) /\ IsInjective(n.sub)
      /\ Range(n.block) \cap Range(n.sub) = {}
  BY <1>0 DEF Sound, OwnsBlocks, Owned
<1>8. /\ Range(Append(n.sub, b)) = Range(n.sub) \cup {b}
      /\ IsInjective(Append(n.sub, b))
  BY <1>0, <1>7, AppendRange
<1>. HIDE DEF n, b, e
<1>9. OwnsBlocks(e)
  <2>1. Owned(e.inode_table[i]) \subseteq
          Owned(d.inode_table[i]) \cup (e.block_bitmap \ d.block_bitmap)
    BY <1>0, <1>5, <1>6, <1>8 DEF Owned, n
  <2>2. Range(e.inode_table[i].block) \cap Range(e.inode_table[i].sub) = {}
    BY <1>6, <1>7, <1>8
  <2>3. /\ d.block_bitmap \subseteq e.block_bitmap /\ OwnsBlocks(d)
        /\ \A j \in Inodes : j # i => e.inode_table[j] = d.inode_table[j]
    BY <1>5 DEF Sound
  <2>4. IsInjective(e.inode_table[i].block) /\ IsInjective(e.inode_table[i].sub)
    BY <1>6, <1>7, <1>8
  <2>. QED BY <2>1, <2>2, <2>3, <2>4, Reassign
<1>10. IsClean(e)
  BY <1>5 DEF Sound, IsClean, FreeBlocks
<1>. QED BY <1>4, <1>5, <1>6, <1>9, <1>10 DEF Sound, n, b, e

LEMMA AppendEntrySound ==
  ASSUME NEW d, Sound(d), NEW b \in d.block_bitmap, NEW x \in DirEntry
  PROVE  /\ Sound(AppendEntry(d, b, x))
         /\ AppendEntry(d, b, x).block_bitmap = d.block_bitmap
<1>. DEFINE e == AppendEntry(d, b, x)
            c == append_dir_entry(d.dirents[b], x)
<1>0. /\ d \in Disk /\ b \in Blocks /\ d.dirents[b] \in Seq(DirEntry)
  BY DEF Sound, Disk
<1>1. c \in Seq(DirEntry)
  BY <1>0, AppendDirEntryType
<1>2. e = [d EXCEPT !.dirents = [@ EXCEPT ![b] = c]]
  BY <1>0 DEF AppendEntry, Disk
<1>. HIDE DEF c, e
<1>3. e \in Disk
  BY <1>0, <1>1, <1>2 DEF Disk
<1>4. /\ e.block_bitmap = d.block_bitmap /\ e.inode_table = d.inode_table /\ e.text = d.text
      /\ \A a \in Blocks : a # b => e.dirents[a] = d.dirents[a]
  BY <1>0, <1>2 DEF Disk
<1>5. IsClean(e)
  BY <1>4 DEF Sound, IsClean, FreeBlocks
<1>6. OwnsBlocks(e)
  BY <1>4, SameBlocks DEF Sound
<1>. QED BY <1>3, <1>4, <1>5, <1>6 DEF Sound, e

(* The blocks walked for a directory are marked ones.                      *)
LEMMA WalkedMarked ==
  ASSUME NEW d, Sound(d), NEW p \in Inodes
  PROVE  /\ \A k \in 1 .. Len(DataBlocks(d.inode_table[p])) :
              DataBlocks(d.inode_table[p])[k] \in d.block_bitmap
         /\ \A k \in DOMAIN d.inode_table[p].block :
              d.inode_table[p].block[k] \in d.block_bitmap
<1>1. d.inode_table[p] \in Inode /\ Owned(d.inode_table[p]) \subseteq d.block_bitmap
  BY InodeType DEF Sound, OwnsBlocks
<1>. QED BY <1>1, DataBlocksType DEF Owned, Range

LEMMA DeleteEntrySound ==
  ASSUME NEW d, Sound(d), NEW p \in Inodes, NEW name, NEW type
  PROVE  Sound(DeleteEntry(d, p, name, type))
<1>. DEFINE bs == DataBlocks(d.inode_table[p])
            I == {i \in 1 .. Len(bs) : DeletableAt(d.dirents[bs[i]], name, type) # 0}
            k == IF I # {} THEN Min(I) ELSE 0
            b == bs[k]
            c == delete_dir_entry(d.dirents[b], name, type)
            e == [d EXCEPT !.dirents[b] = c]
<1>0. DeleteEntry(d, p, name, type) = IF k = 0 THEN d ELSE e
  BY DEF DeleteEntry, SelectInSeq
<1>1. I \subseteq Nat
  OBVIOUS
<1>2. I # {} => Min(I) \in I
  <2>. HIDE DEF I
  <2>. QED BY <1>1, MinOfNats
<1>3. k # 0 => k \in 1 .. Len(bs)
  BY <1>2
<1>4. k # 0 => b \in d.block_bitmap
  <2>. HIDE DEF k
  <2>. QED BY <1>3, WalkedMarked
<1>5. ASSUME k # 0
      PROVE  Sound(e)
  <2>. HIDE DEF k, b
  <2>0. d \in Disk /\ b \in Blocks /\ d.dirents[b] \in Seq(DirEntry)
    BY <1>4, <1>5 DEF Sound, Disk
  <2>1. c \in Seq(DirEntry)
    BY <2>0, DeleteDirEntryType
  <2>. HIDE DEF c
  <2>2. e = [d EXCEPT !.dirents = [@ EXCEPT ![b] = c]]
    BY <2>0 DEF Disk
  <2>3. e \in Disk
    BY <2>0, <2>1, <2>2 DEF Disk
  <2>4. /\ e.block_bitmap = d.block_bitmap /\ e.inode_table = d.inode_table /\ e.text = d.text
        /\ \A a \in Blocks : a # b => e.dirents[a] = d.dirents[a]
    BY <2>0, <2>2 DEF Disk
  <2>. HIDE DEF e
  <2>5. IsClean(e)
    BY <1>4, <1>5, <2>4 DEF Sound, IsClean, FreeBlocks
  <2>6. OwnsBlocks(e)
    BY <2>4, SameBlocks DEF Sound
  <2>. QED BY <2>3, <2>5, <2>6 DEF Sound
<1>. HIDE DEF k, e
<1>. QED BY <1>0, <1>5

-----------------------------------------------------------------------------
(* Inodes: allocation, removal.                                            *)

LEMMA ZeroInode ==
  /\ NoInode \in Inode /\ Owned(NoInode) = {}
  /\ init_inode \in Inode /\ init_inode.block = <<>> /\ init_inode.sub = <<>>
  /\ IsInjective(<<>>) /\ Range(<<>>) = {}
<1>1. /\ {} \in SUBSET Bits /\ {4, 2} \in SUBSET Bits
      /\ 0 \in 0 .. UINT32 - 1
      /\ <<>> \in Seq(Blocks)
  BY ConstAssumption DEF Bits
<1>2. Range(<<>>) = {} /\ IsInjective(<<>>)
  BY DEF Range, IsInjective
<1>3. NoInode \in Inode
  BY <1>1 DEF NoInode, Inode
<1>4. ASSUME NEW n \in Inode, NEW P \in SUBSET Bits
      PROVE  /\ [n EXCEPT !.perm = P] \in Inode
             /\ [n EXCEPT !.perm = P].block = n.block
             /\ [n EXCEPT !.perm = P].sub = n.sub
  BY DEF Inode
<1>5. init_inode \in Inode /\ init_inode.block = <<>> /\ init_inode.sub = <<>>
  <2>1. NoInode.block = <<>> /\ NoInode.sub = <<>>
    BY DEF NoInode
  <2>. QED BY <1>1, <1>3, <1>4, <2>1 DEF init_inode
<1>6. Owned(NoInode) = {}
  BY <1>2 DEF NoInode, Owned
<1>. QED BY <1>2, <1>3, <1>4, <1>5, <1>6

LEMMA NewInodeSound ==
  ASSUME NEW d, Sound(d), CanNewInode(d)
  PROVE  /\ NextInode(d) \in Inodes
         /\ Sound(new_inode(d))
         /\ new_inode(d).inode_table[NextInode(d)] = init_inode
         /\ new_inode(d).block_bitmap = d.block_bitmap
         /\ new_inode(d).free_blocks = d.free_blocks
<1>. DEFINE i == NextInode(d)
            e == new_inode(d)
<1>0. d \in Disk
  BY DEF Sound
<1>1. i \in Inodes
  <2>1. FreeInodes(d) \subseteq Nat /\ FreeInodes(d) # {}
    BY BlocksAreNats DEF FreeInodes, CanNewInode
  <2>. QED BY <2>1, MinOfNats DEF NextInode, FreeInodes
<1>2. init_inode \in Inode /\ init_inode.block = <<>> /\ init_inode.sub = <<>>
  BY ZeroInode
<1>3. e \in Disk
  <2>1. d.free_inodes - 1 \in 0 .. UINT16 - 1
    BY <1>0, ConstAssumption DEF Disk, CanNewInode
  <2>2. d.inode_bitmap \cup {i} \in SUBSET Inodes
    BY <1>0, <1>1 DEF Disk
  <2>. HIDE DEF i
  <2>. QED BY <1>0, <1>1, <1>2, <2>1, <2>2 DEF new_inode, Disk, i
<1>4. /\ e.block_bitmap = d.block_bitmap /\ e.dirents = d.dirents /\ e.text = d.text
      /\ \A j \in Inodes : j # i => e.inode_table[j] = d.inode_table[j]
      /\ e.inode_table[i] = init_inode /\ e.free_blocks = d.free_blocks
  <2>. HIDE DEF i
  <2>. QED BY <1>0, <1>1 DEF new_inode, Disk, i
<1>5. /\ Range(<<>>) = {} /\ IsInjective(<<>>)
  BY ZeroInode
<1>. HIDE DEF e, i
<1>6. OwnsBlocks(e)
  <2>1. Owned(e.inode_table[i]) = {}
    BY <1>2, <1>4, <1>5 DEF Owned
  <2>2. /\ IsInjective(e.inode_table[i].block) /\ IsInjective(e.inode_table[i].sub)
        /\ Range(e.inode_table[i].block) \cap Range(e.inode_table[i].sub) = {}
    BY <1>2, <1>4, <1>5
  <2>3. d.block_bitmap \subseteq e.block_bitmap /\ OwnsBlocks(d)
    BY <1>4 DEF Sound
  <2>. QED BY <1>1, <1>4, <2>1, <2>2, <2>3, Reassign
<1>7. IsClean(e)
  BY <1>4, SameData DEF Sound
<1>. QED BY <1>1, <1>3, <1>4, <1>6, <1>7 DEF Sound, e, i

(* Removing an inode unmarks and zeroes the walked blocks; every other     *)
(* inode's blocks are disjoint from them and stay marked.                  *)
LEMMA FreeObjectSound ==
  ASSUME NEW d, Sound(d), NEW i \in Inodes
  PROVE  Sound(FreeObject(d, i))
<1>. DEFINE n == d.inode_table[i]
            R == Range(DataBlocks(n))
            e == FreeObject(d, i)
<1>0. /\ d \in Disk /\ n \in Inode /\ OwnsBlocks(d)
      /\ n.block \in Seq(Blocks) /\ d.free_blocks \in Nat /\ d.free_inodes \in Nat
  <2>1. d \in Disk /\ OwnsBlocks(d)
    BY DEF Sound
  <2>2. n \in Inode /\ n.block \in Seq(Blocks)
    BY <2>1, InodeType
  <2>. HIDE DEF n
  <2>. QED BY <2>1, <2>2 DEF Disk
<1>1. R \subseteq Owned(n)
  <2>1. DOMAIN DataBlocks(n) = 1 .. Len(DataBlocks(n))
    BY <1>0, DataBlocksType
  <2>. QED BY <1>0, <2>1, DataBlocksType DEF Range
<1>2. /\ (d.free_blocks + Len(n.block)) % UINT16 \in 0 .. UINT16 - 1
      /\ (d.free_inodes + 1) % UINT16 \in 0 .. UINT16 - 1
  <2>. HIDE DEF n
  <2>1. Len(n.block) \in Nat /\ UINT16 \in Nat /\ UINT16 > 0
    BY <1>0, ConstAssumption
  <2>2. d.free_blocks + Len(n.block) \in Int /\ d.free_inodes + 1 \in Int
    BY <1>0, <2>1
  <2>. QED BY <2>1, <2>2, Modulo
<1>3. e = [d EXCEPT !.block_bitmap = d.block_bitmap \ R,
                    !.dirents = [b \in Blocks |-> IF b \in R THEN <<>> ELSE d.dirents[b]],
                    !.text = [b \in Blocks |-> IF b \in R THEN 0 ELSE d.text[b]],
                    !.inode_table = [@ EXCEPT ![i] = NoInode],
                    !.inode_bitmap = d.inode_bitmap \ {i},
                    !.free_blocks = (d.free_blocks + Len(n.block)) % UINT16,
                    !.free_inodes = (d.free_inodes + 1) % UINT16]
  <2>. HIDE DEF n, R
  <2>. QED BY <1>0 DEF FreeObject, reset_inode_table, reset_block_entry, Disk, n, R
<1>. HIDE DEF n, R, e
<1>4. /\ e.block_bitmap = d.block_bitmap \ R
      /\ e.dirents = [b \in Blocks |-> IF b \in R THEN <<>> ELSE d.dirents[b]]
      /\ e.text = [b \in Blocks |-> IF b \in R THEN 0 ELSE d.text[b]]
      /\ e.inode_table = [d.inode_table EXCEPT ![i] = NoInode]
  BY <1>0, <1>3 DEF Disk
<1>5. e \in Disk
  <2>1. /\ d.block_bitmap \ R \in SUBSET Blocks
        /\ [b \in Blocks |-> IF b \in R THEN <<>> ELSE d.dirents[b]] \in [Blocks -> Seq(DirEntry)]
        /\ d.inode_bitmap \ {i} \in SUBSET Inodes
        /\ [d.inode_table EXCEPT ![i] = NoInode] \in [Inodes -> Inode]
    BY <1>0, ZeroInode DEF Disk
  <2>2. [b \in Blocks |-> IF b \in R THEN 0 ELSE d.text[b]] \in [Blocks -> 0 .. CAP]
    <3>1. 0 \in 0 .. CAP
      BY SizeAssumption, ConstAssumption, NamesType DEF CAP, RecLen
    <3>. QED BY <1>0, <3>1 DEF Disk
  <2>. QED BY <1>0, <1>2, <1>3, <2>1, <2>2 DEF Disk
<1>6. IsClean(e)
  <2>1. ASSUME NEW b \in FreeBlocks(e)
        PROVE  e.dirents[b] = <<>> /\ e.text[b] = 0
    <3>1. b \in Blocks /\ (b \in R \/ b \in FreeBlocks(d))
      BY <1>4, <2>1 DEF FreeBlocks
    <3>. QED BY <1>4, <3>1 DEF Sound, IsClean
  <2>. QED BY <2>1 DEF IsClean
<1>7. OwnsBlocks(e)
  <2>. DEFINE o(j) == Owned(d.inode_table[j])
              p(j) == Owned(e.inode_table[j])
  <2>1. /\ \A j \in Inodes : o(j) \subseteq d.block_bitmap
        /\ \A j, k \in Inodes : j # k => o(j) \cap o(k) = {}
    BY <1>0 DEF OwnsBlocks
  <2>2. R \subseteq o(i)
    BY <1>1 DEF n
  <2>3. e.inode_table[i] = NoInode /\ \A j \in Inodes : j # i => e.inode_table[j] = d.inode_table[j]
    BY <1>0, <1>4 DEF Disk
  <2>4. p(i) = {} /\ \A j \in Inodes : j # i => p(j) = o(j)
    BY <2>3, ZeroInode
  <2>5. \A j \in Inodes : p(j) \subseteq e.block_bitmap
    <3>. HIDE DEF o, p
    <3>. QED BY <1>4, <2>1, <2>2, <2>4
  <2>6. \A j, k \in Inodes : j # k => p(j) \cap p(k) = {}
    <3>. HIDE DEF o, p
    <3>. QED BY <2>1, <2>4
  <2>7. NoInode.block = <<>> /\ NoInode.sub = <<>>
    BY DEF NoInode
  <2>8. \A j \in Inodes : /\ IsInjective(e.inode_table[j].block)
                         /\ IsInjective(e.inode_table[j].sub)
                         /\ Range(e.inode_table[j].block) \cap Range(e.inode_table[j].sub) = {}
    BY <1>0, <2>3, <2>7, ZeroInode DEF OwnsBlocks
  <2>. QED BY <2>5, <2>6, <2>8 DEF OwnsBlocks
<1>. QED BY <1>5, <1>6, <1>7 DEF Sound, e

(* A new directory owns its one new block, and its dots go into that block. *)
(* The block of a new directory, marked and named by its inode.             *)
TakeBlock(d, i) ==
  [new_block(d) EXCEPT
     !.inode_table[i].type = FT_DIR,
     !.inode_table[i].block = <<NextBlock(d)>>,
     !.inode_table[i].size = RecLen(Dot) + RecLen(DotDot)]

LEMMA TakeBlockSound ==
  ASSUME NEW d, Sound(d), CanNewBlock(d), NEW i \in Inodes
  PROVE  /\ Sound(TakeBlock(d, i))
         /\ NextBlock(d) \in TakeBlock(d, i).block_bitmap /\ NextBlock(d) \notin d.block_bitmap
         /\ TakeBlock(d, i).dirents = d.dirents /\ TakeBlock(d, i).text = d.text
<1>. DEFINE b == NextBlock(d)
            n == d.inode_table[i]
            m == [[[n EXCEPT !.type = FT_DIR] EXCEPT !.block = <<b>>]
                     EXCEPT !.size = RecLen(Dot) + RecLen(DotDot)]
            e == TakeBlock(d, i)
<1>0. /\ d \in Disk /\ n \in Inode /\ n.sub \in Seq(Blocks)
      /\ new_block(d) \in Disk /\ b \in Blocks /\ b \notin d.block_bitmap
  BY InodeType, NewBlockType DEF Sound
<1>1. m \in Inode /\ m.block = <<b>> /\ m.sub = n.sub
  <2>. HIDE DEF n, b
  <2>1. <<b>> \in Seq(Blocks)
    BY <1>0
  <2>2. RecLen(Dot) + RecLen(DotDot) \in 0 .. UINT32 - 1
    BY ConstAssumption DEF RecLen
  <2>. QED BY <1>0, <2>1, <2>2 DEF Inode
<1>2. /\ new_block(d).inode_table = d.inode_table
      /\ new_block(d).block_bitmap = d.block_bitmap \cup {b}
      /\ new_block(d).dirents = d.dirents
      /\ new_block(d).text = d.text
  BY <1>0 DEF new_block, Disk
<1>3. e = [new_block(d) EXCEPT !.inode_table = [@ EXCEPT ![i] = m]]
  <2>1. /\ new_block(d).inode_table[i] = n
        /\ new_block(d).inode_table \in [Inodes -> Inode]
    BY <1>0, <1>2 DEF Disk
  <2>. HIDE DEF n, b
  <2>. QED BY <1>0, <2>1 DEF Disk, TakeBlock, b
<1>. HIDE DEF m, e, b
<1>4. e \in Disk
  BY <1>0, <1>1, <1>3 DEF Disk
<1>5. /\ e.block_bitmap = d.block_bitmap \cup {b}
      /\ e.dirents = d.dirents /\ e.text = d.text
      /\ \A j \in Inodes : j # i => e.inode_table[j] = d.inode_table[j]
      /\ e.inode_table[i] = m
  BY <1>0, <1>2, <1>3 DEF Disk
<1>6. Range(<<b>>) = {b} /\ IsInjective(<<b>>)
  BY DEF Range, IsInjective
<1>7. b \notin Range(n.sub) /\ IsInjective(n.sub)
  BY <1>0 DEF Sound, OwnsBlocks, Owned
<1>8. OwnsBlocks(e)
  <2>1. Owned(e.inode_table[i]) \subseteq
          Owned(d.inode_table[i]) \cup (e.block_bitmap \ d.block_bitmap)
    BY <1>0, <1>1, <1>5, <1>6 DEF Owned
  <2>2. /\ IsInjective(e.inode_table[i].block) /\ IsInjective(e.inode_table[i].sub)
        /\ Range(e.inode_table[i].block) \cap Range(e.inode_table[i].sub) = {}
    BY <1>1, <1>5, <1>6, <1>7
  <2>3. d.block_bitmap \subseteq e.block_bitmap /\ OwnsBlocks(d)
    BY <1>5 DEF Sound
  <2>. QED BY <1>5, <2>1, <2>2, <2>3, Reassign
<1>9. IsClean(e)
  BY <1>5 DEF Sound, IsClean, FreeBlocks
<1>10. Sound(e) /\ b \in e.block_bitmap
  BY <1>4, <1>5, <1>8, <1>9 DEF Sound
<1>. QED BY <1>0, <1>5, <1>10 DEF e, b

LEMMA NewDirectorySound ==
  ASSUME NEW d, Sound(d), CanNewBlock(d), NEW i \in Inodes, NEW parent \in Inodes
  PROVE  Sound(NewDirectory(d, i, parent))
<1>. DEFINE b == NextBlock(d)
            e == TakeBlock(d, i)
<1>1. Sound(e) /\ b \in e.block_bitmap
  BY TakeBlockSound
<1>2. NewDirectory(d, i, parent) = AppendDots(e, b, i, parent)
  BY DEF NewDirectory, TakeBlock
<1>. HIDE DEF e, b
<1>3. NewEntry(Dot, FT_DIR, i) \in DirEntry /\ NewEntry(DotDot, FT_DIR, parent) \in DirEntry
  BY ConstAssumption, NewEntryType
<1>4. /\ Sound(AppendEntry(e, b, NewEntry(Dot, FT_DIR, i)))
      /\ b \in AppendEntry(e, b, NewEntry(Dot, FT_DIR, i)).block_bitmap
  BY <1>1, <1>3, AppendEntrySound
<1>5. Sound(AppendDots(e, b, i, parent))
  BY <1>3, <1>4, AppendEntrySound DEF AppendDots
<1>. QED BY <1>2, <1>5

-----------------------------------------------------------------------------
(* Writing: the blocks are new, distinct and, when filled, never overfull.  *)

LEMMA NewBlocksType ==
  ASSUME NEW d \in Disk, NEW g \in Nat, NEW nb \in NewBlocks(d, g)
  PROVE  /\ nb \in Seq(Blocks) /\ Len(nb) = g
         /\ Range(nb) \subseteq FreeBlocks(d)
         /\ \A j \in 1 .. g : nb[j] \in Range(nb)
         /\ IsInjective(nb)
<1>1. /\ nb \in [1 .. g -> FreeBlocks(d)]
      /\ \A j, k \in 1 .. g : j < k => nb[j] < nb[k]
  BY DEF NewBlocks
<1>2. nb \in Seq(Blocks) /\ Len(nb) = g
  BY <1>1 DEF FreeBlocks
<1>3. Range(nb) \subseteq FreeBlocks(d) /\ \A j \in 1 .. g : nb[j] \in Range(nb)
  BY <1>1 DEF Range
<1>4. \A j \in 1 .. g : nb[j] \in Nat
  BY <1>1, BlocksAreNats DEF FreeBlocks
<1>5. IsInjective(nb)
  <2>1. ASSUME NEW j \in 1 .. g, NEW k \in 1 .. g, nb[j] = nb[k]
        PROVE  j = k
    <3>1. ~ (j < k) /\ ~ (k < j)
      BY <1>1, <1>4, <2>1
    <3>. QED BY <3>1
  <2>. QED BY <1>1, <2>1 DEF IsInjective
<1>. QED BY <1>2, <1>3, <1>5

LEMMA AddBlocksSound ==
  ASSUME NEW d, Sound(d), NEW i \in Inodes, NEW g \in Nat, NEW nb \in NewBlocks(d, g),
         d.free_blocks >= g, NEW size \in Int
  PROVE  /\ Sound(AddBlocks(d, i, nb, size))
         /\ AddBlocks(d, i, nb, size).text = d.text
         /\ AddBlocks(d, i, nb, size).block_bitmap = d.block_bitmap \cup Range(nb)
<1>. DEFINE n == d.inode_table[i]
            m == [n EXCEPT !.block = @ \o nb]
            e == [d EXCEPT !.block_bitmap = @ \cup Range(nb),
                           !.free_blocks = @ - Len(nb),
                           !.inode_table[i].block = @ \o nb]
<1>0. d \in Disk /\ n \in Inode /\ n.block \in Seq(Blocks) /\ n.sub \in Seq(Blocks)
  BY InodeType DEF Sound
<1>1. /\ nb \in Seq(Blocks) /\ Len(nb) = g
      /\ Range(nb) \subseteq Blocks /\ Range(nb) \cap d.block_bitmap = {}
      /\ IsInjective(nb)
  BY <1>0, NewBlocksType DEF FreeBlocks
<1>2. m \in Inode /\ m.block = n.block \o nb /\ m.sub = n.sub
  <2>. HIDE DEF n
  <2>1. n.block \o nb \in Seq(Blocks)
    BY <1>0, <1>1
  <2>. QED BY <1>0, <2>1 DEF Inode
<1>3. d.free_blocks - g \in 0 .. UINT16 - 1
  <2>1. d.free_blocks \in 0 .. UINT16 - 1 /\ UINT16 \in Nat
    BY <1>0, ConstAssumption DEF Disk
  <2>. QED BY <2>1
<1>4. e = [d EXCEPT !.block_bitmap = @ \cup Range(nb),
                    !.free_blocks = @ - g,
                    !.inode_table = [d.inode_table EXCEPT ![i] = m]]
  <2>1. d.inode_table[i] = n /\ d.inode_table \in [Inodes -> Inode]
    BY <1>0 DEF Disk
  <2>. HIDE DEF n
  <2>. QED BY <1>0, <1>1, <2>1 DEF Disk
<1>. HIDE DEF m, e
<1>5. e \in Disk
  <2>1. d.block_bitmap \cup Range(nb) \in SUBSET Blocks
    BY <1>0, <1>1 DEF Disk
  <2>. QED BY <1>0, <1>2, <1>3, <1>4, <2>1 DEF Disk
<1>6. /\ e.block_bitmap = d.block_bitmap \cup Range(nb)
      /\ e.dirents = d.dirents /\ e.text = d.text
      /\ \A j \in Inodes : j # i => e.inode_table[j] = d.inode_table[j]
      /\ e.inode_table[i] = m
  BY <1>0, <1>4 DEF Disk
<1>7. /\ Range(n.block) \cap Range(nb) = {} /\ Range(n.sub) \cap Range(nb) = {}
      /\ IsInjective(n.block) /\ IsInjective(n.sub)
      /\ Range(n.block) \cap Range(n.sub) = {}
  BY <1>0, <1>1 DEF Sound, OwnsBlocks, Owned
<1>8. Range(m.block) = Range(n.block) \cup Range(nb) /\ IsInjective(m.block)
  BY <1>0, <1>1, <1>2, <1>7, ConcatRange
<1>9. OwnsBlocks(e)
  <2>1. Owned(e.inode_table[i]) \subseteq
          Owned(d.inode_table[i]) \cup (e.block_bitmap \ d.block_bitmap)
    BY <1>1, <1>2, <1>6, <1>8 DEF Owned
  <2>2. /\ IsInjective(e.inode_table[i].block) /\ IsInjective(e.inode_table[i].sub)
        /\ Range(e.inode_table[i].block) \cap Range(e.inode_table[i].sub) = {}
    BY <1>2, <1>6, <1>7, <1>8
  <2>3. d.block_bitmap \subseteq e.block_bitmap /\ OwnsBlocks(d)
    BY <1>6 DEF Sound
  <2>. QED BY <1>6, <2>1, <2>2, <2>3, Reassign
<1>10. IsClean(e)
  BY <1>6 DEF Sound, IsClean, FreeBlocks
<1>11. Sound(e)
  BY <1>5, <1>9, <1>10 DEF Sound
<1>12. AddBlocks(d, i, nb, size) = AddSize(e, i, size)
  BY DEF AddBlocks, e
<1>. QED BY <1>6, <1>11, <1>12, AddSizeSound

LEMMA CapType == CAP \in Nat
BY SizeAssumption, ConstAssumption, NamesType DEF CAP, RecLen

(* The filled blocks are marked, so no free block gets text.                *)
LEMMA FillBlocksSound ==
  ASSUME NEW d, Sound(d), NEW bs \in Seq(Blocks), NEW rest \in Nat,
         NEW k \in 1 .. Len(bs) + 1,
         \A j \in 1 .. Len(bs) : bs[j] \in d.block_bitmap,
         k <= Len(bs) => d.text[bs[k]] + rest <= CAP
  PROVE  Sound(FillBlocks(d, bs, k, rest))
<1>. DEFINE Filled == {bs[j] : j \in 1 .. k - 1}
            f == [b \in Blocks |-> IF b \in Filled THEN CAP
                    ELSE IF k <= Len(bs) /\ bs[k] = b THEN d.text[b] + rest ELSE d.text[b]]
            e == FillBlocks(d, bs, k, rest)
<1>0. d \in Disk
  BY DEF Sound
<1>1. \A b \in Blocks : (\E j \in 1 .. k - 1 : bs[j] = b) <=> b \in Filled
  OBVIOUS
<1>2. e = [d EXCEPT !.text = f]
  <2>. HIDE DEF Filled
  <2>. QED BY <1>0, <1>1 DEF FillBlocks, Disk
<1>3. Filled \subseteq d.block_bitmap
  OBVIOUS
<1>. HIDE DEF Filled
<1>4. ASSUME NEW b \in Blocks
      PROVE  f[b] \in 0 .. CAP /\ (b \notin d.block_bitmap => f[b] = d.text[b])
  <2>1. d.text[b] \in 0 .. CAP
    BY <1>0 DEF Disk
  <2>2. CASE b \in Filled
    BY <1>3, <2>2, CapType
  <2>3. CASE b \notin Filled /\ k <= Len(bs) /\ bs[k] = b
    <3>1. b \in d.block_bitmap
      BY <2>3
    <3>2. d.text[b] + rest \in 0 .. CAP
      BY <2>1, <2>3, CapType
    <3>. QED BY <2>3, <3>1, <3>2
  <2>4. CASE b \notin Filled /\ ~ (k <= Len(bs) /\ bs[k] = b)
    BY <2>1, <2>4
  <2>. QED BY <2>2, <2>3, <2>4
<1>5. f \in [Blocks -> 0 .. CAP]
  BY <1>4
<1>. HIDE DEF e
<1>6. e \in Disk
  <2>. HIDE DEF f
  <2>. QED BY <1>0, <1>2, <1>5 DEF Disk
<1>7. /\ e.block_bitmap = d.block_bitmap /\ e.inode_table = d.inode_table
      /\ e.dirents = d.dirents /\ e.text = f
  <2>. HIDE DEF f
  <2>. QED BY <1>0, <1>2 DEF Disk
<1>8. IsClean(e)
  <2>. HIDE DEF f
  <2>. QED BY <1>4, <1>7 DEF Sound, IsClean, FreeBlocks
<1>9. OwnsBlocks(e)
  <2>. HIDE DEF f
  <2>. QED BY <1>7, SameBlocks DEF Sound
<1>. QED BY <1>6, <1>8, <1>9 DEF Sound, e

-----------------------------------------------------------------------------
(* The image initialize_disk writes.                                       *)

LEMMA EmptyDiskSound ==
  ASSUME NEW pw \in Passwords
  PROVE  /\ Sound(EmptyDisk(pw))
         /\ CanNewInode(EmptyDisk(pw)) /\ CanNewBlock(EmptyDisk(pw))
<1>. DEFINE e == EmptyDisk(pw)
<1>1. /\ e.free_blocks = DATA_BLOCK_COUNT /\ e.free_inodes = INODE_COUNT
      /\ e.block_bitmap = {} /\ e.inode_bitmap = {}
      /\ e.inode_table = [i \in Inodes |-> NoInode]
      /\ e.dirents = [b \in Blocks |-> <<>>] /\ e.text = [b \in Blocks |-> 0]
  BY DEF EmptyDisk
<1>2. e \in Disk
  <2>1. /\ DATA_BLOCK_COUNT \in 0 .. UINT16 - 1 /\ INODE_COUNT \in 0 .. UINT16 - 1
        /\ 0 \in 0 .. UINT16 - 1
    BY ConstAssumption, SizeAssumption
  <2>2. [i \in Inodes |-> NoInode] \in [Inodes -> Inode]
    BY ZeroInode
  <2>3. [b \in Blocks |-> <<>>] \in [Blocks -> Seq(DirEntry)]
    OBVIOUS
  <2>4. [b \in Blocks |-> 0] \in [Blocks -> 0 .. CAP]
    BY CapType
  <2>. QED BY <2>1, <2>2, <2>3, <2>4 DEF EmptyDisk, Disk
<1>. HIDE DEF e
<1>3. OwnsBlocks(e)
  <2>1. \A i \in Inodes : /\ e.inode_table[i] = NoInode
                          /\ Owned(e.inode_table[i]) = {}
                          /\ e.inode_table[i].block = <<>> /\ e.inode_table[i].sub = <<>>
    <3>1. NoInode.block = <<>> /\ NoInode.sub = <<>>
      BY DEF NoInode
    <3>. QED BY <1>1, <3>1, ZeroInode
  <2>. QED BY <2>1, ZeroInode DEF OwnsBlocks
<1>4. IsClean(e)
  BY <1>1 DEF IsClean, FreeBlocks
<1>5. CanNewInode(e) /\ CanNewBlock(e)
  BY <1>1, ConstAssumption, SizeAssumption, BlocksAreNats
     DEF CanNewInode, CanNewBlock, FreeInodes, FreeBlocks
<1>. QED BY <1>2, <1>3, <1>4, <1>5 DEF Sound, e

LEMMA InitializeDiskSound ==
  ASSUME NEW pw \in Passwords
  PROVE  Sound(initialize_disk(pw))
<1>. DEFINE d == EmptyDisk(pw)
            d1 == new_inode(d)
            d2 == CountDir(d1)
<1>1. Sound(d) /\ CanNewInode(d) /\ CanNewBlock(d)
  BY EmptyDiskSound
<1>. HIDE DEF d
<1>2. Sound(d1) /\ d1.block_bitmap = d.block_bitmap /\ d1.free_blocks = d.free_blocks
  BY <1>1, NewInodeSound
<1>. HIDE DEF d1
<1>3. Sound(d2) /\ d2.block_bitmap = d1.block_bitmap /\ d2.free_blocks = d1.free_blocks
  BY <1>2, CountDirSound
<1>. HIDE DEF d2
<1>4. CanNewBlock(d2)
  BY <1>1, <1>2, <1>3 DEF CanNewBlock, FreeBlocks
<1>5. Sound(NewDirectory(d2, 1, 1))
  BY <1>3, <1>4, NewDirectorySound, BlocksAreNats
<1>. QED BY <1>5 DEF initialize_disk, d2, d1, d

-----------------------------------------------------------------------------
(* The inductive invariant.  TypeOK alone is not inductive: text may only  *)
(* be added to a new block because new blocks are zero, and these are zero *)
(* only because no inode refers to a free block.                           *)

IInv == TypeOK /\ BlockOwnership /\ FreeBlocksClean

MemoryOK == /\ fopen_table \in [1 .. FOPEN_TABLE_MAX -> 0 .. INODE_COUNT]
            /\ current_dir \in Inodes
            /\ current_path \in Seq(AllParts)

LEMMA IInvIsSound ==
  IInv <=> /\ Sound(disk) /\ MemoryOK
           /\ status \in {"off", "login", "shell", "dead", "undefined"}
BY DEF IInv, TypeOK, BlockOwnership, FreeBlocksClean, Sound, MemoryOK

LEMMA InitializeMemory ==
  ASSUME initialize_memory
  PROVE  MemoryOK'
<1>1. NoOpenFiles \in [1 .. FOPEN_TABLE_MAX -> 0 .. INODE_COUNT]
  BY SizeAssumption DEF NoOpenFiles
<1>. QED BY <1>1, BlocksAreNats DEF initialize_memory, MemoryOK

LEMMA SavesInv ==
  ASSUME IInv, NEW d, Sound(d), NEW st \in {"shell", "dead"}, Saves(d, st)
  PROVE  IInv'
<1>1. Sound(disk') /\ status' \in {"shell", "dead"}
  BY DEF Saves
<1>2. MemoryOK'
  <2>1. MemoryOK
    BY IInvIsSound
  <2>. QED BY <2>1, InitializeMemory DEF Saves, memory, MemoryOK
<1>. QED BY <1>1, <1>2 DEF IInv, TypeOK, BlockOwnership, FreeBlocksClean, Sound, MemoryOK

LEMMA UndefinedInv ==
  ASSUME IInv, Undefined
  PROVE  IInv'
BY DEF Undefined, IInv, TypeOK, BlockOwnership, FreeBlocksClean, memory

-----------------------------------------------------------------------------
(* mkdir and create.                                                       *)

LEMMA StoreEntryInv ==
  ASSUME IInv, NEW d, Sound(d), NEW b \in d.block_bitmap, NEW x \in DirEntry,
         StoreEntry(d, b, x)
  PROVE  IInv'
<1>1. Sound(AppendEntry(d, b, x))
  BY AppendEntrySound
<1>. QED BY <1>1, SavesInv, UndefinedInv DEF StoreEntry

LEMMA IndexBlockSound ==
  ASSUME NEW d, Sound(d), NEW i \in Inodes,
         Len(d.inode_table[i].block) = DIRECT => CanNewBlock(d)
  PROVE  Sound(IndexBlock(d, i))
BY AddBlockSound DEF IndexBlock

LEMMA ReachIndexInv ==
  ASSUME IInv, NEW d, Sound(d), NEW i \in Inodes, NEW st \in {"shell", "dead"},
         ReachIndex(d, i, st)
  PROVE  IInv'
<1>. DEFINE d1 == IndexBlock(d, i)
<1>1. CASE Len(d.inode_table[i].block) = DIRECT /\ ~ CanNewBlock(d)
  BY <1>1, UndefinedInv DEF ReachIndex
<1>2. CASE ~ (Len(d.inode_table[i].block) = DIRECT /\ ~ CanNewBlock(d))
  <2>1. Sound(d1)
    BY <1>2, IndexBlockSound
  <2>2. Saves(d1, st) \/ (IF CanNewBlock(d1) THEN Saves(AddSub(d1, i), st) ELSE Undefined)
    BY <1>2 DEF ReachIndex
  <2>. HIDE DEF d1
  <2>3. CanNewBlock(d1) => Sound(AddSub(d1, i))
    BY <2>1, AddSubSound
  <2>. QED BY <2>1, <2>2, <2>3, SavesInv, UndefinedInv
<1>. QED BY <1>1, <1>2

LEMMA FirstWithRoomType ==
  ASSUME NEW d, Sound(d), NEW p \in Inodes, NEW x
  PROVE  FirstWithRoom(d, p, x) \in {0} \cup DOMAIN d.inode_table[p].block
<1>. DEFINE bs == Direct(d.inode_table[p])
            I == {i \in 1 .. Len(bs) : HasRoom(d.dirents[bs[i]], x)}
<1>0. FirstWithRoom(d, p, x) = IF I # {} THEN Min(I) ELSE 0
  BY DEF FirstWithRoom, SelectInSeq
<1>1. I \subseteq Nat
  OBVIOUS
<1>2. I # {} => Min(I) \in 1 .. Len(bs)
  <2>. HIDE DEF I
  <2>1. I # {} => Min(I) \in I
    BY <1>1, MinOfNats
  <2>. QED BY <2>1 DEF I
<1>3. 1 .. Len(bs) \subseteq DOMAIN d.inode_table[p].block
  <2>1. d.inode_table[p] \in Inode /\ d.inode_table[p].block \in Seq(Blocks)
    BY InodeType DEF Sound
  <2>2. Len(bs) <= Len(d.inode_table[p].block) /\ bs \in Seq(Blocks)
    BY <2>1, DirectType
  <2>. HIDE DEF bs
  <2>. QED BY <2>1, <2>2
<1>. HIDE DEF I, bs
<1>. QED BY <1>0, <1>2, <1>3

LEMMA AppendDirectoryInv ==
  ASSUME IInv, NEW d, Sound(d), NEW p \in Inodes, NEW x \in DirEntry,
         handle_append_directory(d, p, x)
  PROVE  IInv'
<1>. DEFINE n == d.inode_table[p]
            k == FirstWithRoom(d, p, x)
<1>1. CASE k > 0 /\ StoreEntry(d, n.block[k], x)
  <2>1. k \in DOMAIN n.block
    BY <1>1, FirstWithRoomType
  <2>2. n.block[k] \in d.block_bitmap
    BY <2>1, WalkedMarked
  <2>. HIDE DEF k, n
  <2>. QED BY <1>1, <2>2, StoreEntryInv
<1>2. CASE IF CanNewBlock(d) THEN StoreEntry(AddBlock(d, p), NextBlock(d), x) ELSE Undefined
  <2>1. CanNewBlock(d) => /\ Sound(AddBlock(d, p))
                          /\ NextBlock(d) \in AddBlock(d, p).block_bitmap
    BY AddBlockSound
  <2>. QED BY <1>2, <2>1, StoreEntryInv, UndefinedInv
<1>3. CASE ReachIndex(d, p, "shell")
  BY <1>3, ReachIndexInv
<1>. QED BY <1>1, <1>2, <1>3 DEF handle_append_directory

LEMMA NewObjectSound ==
  ASSUME NEW d, Sound(d), NEW i \in Inodes, current_dir \in Inodes,
         NEW name, NEW type \in {FT_REG_FILE, FT_DIR}, ~ BlocksRunOut(d, type)
  PROVE  Sound(NewObject(d, i, name, type))
<1>1. CASE type = FT_DIR
  <2>. DEFINE d1 == CountDir(d)
  <2>1. /\ Sound(d1) /\ d1.block_bitmap = d.block_bitmap /\ d1.free_blocks = d.free_blocks
    BY CountDirSound
  <2>2. d.free_blocks \in Nat
    BY DEF Sound, Disk
  <2>. HIDE DEF d1
  <2>3. d1.free_blocks # 0 => CanNewBlock(d1)
    BY <1>1, <2>1, <2>2 DEF BlocksRunOut, CanNewBlock, FreeBlocks
  <2>4. d1.free_blocks # 0 => Sound(NewDirectory(d1, i, current_dir))
    BY <2>1, <2>3, NewDirectorySound
  <2>. QED BY <1>1, <2>1, <2>4 DEF NewObject, d1
<1>2. CASE type # FT_DIR
  <2>1. {4, 2, 1} \in SUBSET Bits
    BY DEF Bits
  <2>. QED BY <1>2, <2>1, ModeSound DEF NewObject, NewFile
<1>. QED BY <1>1, <1>2

LEMMA MakeEntryInv ==
  ASSUME IInv, NEW name \in Names, NEW type \in {FT_REG_FILE, FT_DIR},
         MakeEntry(name, type)
  PROVE  IInv'
<1>. DEFINE grown(d) == AddSize(d, current_dir, RecLen(name))
            i  == NextInode(disk)
            d0 == new_inode(disk)
            d1 == NewObject(d0, i, name, type)
<1>0. Sound(disk) /\ current_dir \in Inodes
  BY IInvIsSound DEF MemoryOK
<1>1. \A d : Sound(d) => Sound(grown(d))
  BY <1>0, NamesType, AddSizeSound
<1>2. CASE Saves(grown(disk), "dead")
  <2>. HIDE DEF grown
  <2>. QED BY <1>0, <1>1, <1>2, SavesInv
<1>3. CASE Undefined
  BY <1>3, UndefinedInv
<1>4. CASE /\ disk.free_inodes > 0 /\ FreeInodes(disk) # {} /\ ~ BlocksRunOut(disk, type)
           /\ handle_append_directory(grown(d1), current_dir, NewEntry(name, type, i))
  <2>1. CanNewInode(disk)
    BY <1>4 DEF CanNewInode
  <2>2. /\ i \in Inodes /\ Sound(d0)
        /\ d0.block_bitmap = disk.block_bitmap /\ d0.free_blocks = disk.free_blocks
    BY <1>0, <2>1, NewInodeSound
  <2>. HIDE DEF d0, i
  <2>3. ~ BlocksRunOut(d0, type)
    BY <1>4, <2>2 DEF BlocksRunOut, FreeBlocks
  <2>4. Sound(d1)
    BY <1>0, <2>2, <2>3, NewObjectSound
  <2>5. NewEntry(name, type, i) \in DirEntry
    BY <2>2, NewEntryType
  <2>. HIDE DEF d1, grown
  <2>. QED BY <1>0, <1>1, <1>4, <2>4, <2>5, AppendDirectoryInv
<1>. QED BY <1>2, <1>3, <1>4 DEF MakeEntry

-----------------------------------------------------------------------------
(* rmdir and delete.                                                       *)

LEMMA FoundInode ==
  ASSUME IInv, NEW name, NEW type, handle_search_inode(disk, current_dir, name, type) # 0
  PROVE  handle_search_inode(disk, current_dir, name, type) \in Inodes
<1>1. disk \in Disk /\ current_dir \in Inodes
  BY IInvIsSound DEF Sound, MemoryOK
<1>2. handle_search_inode(disk, current_dir, name, type) \in 0 .. INODE_COUNT
  BY <1>1, SearchType
<1>. QED BY <1>2, SizeAssumption DEF Inodes

LEMMA RemoveObjectSound ==
  ASSUME NEW d, Sound(d), NEW i \in Inodes, current_dir \in Inodes,
         NEW name \in Names, NEW type
  PROVE  Sound(RemoveObject(d, i, name, type))
<1>1. Sound(FreeObject(d, i))
  BY FreeObjectSound
<1>2. - RecLen(name) \in Int
  BY NamesType
<1>3. Sound(AddSize(FreeObject(d, i), current_dir, - RecLen(name)))
  BY <1>1, <1>2, AddSizeSound
<1>. QED BY <1>3, DeleteEntrySound DEF RemoveObject

LEMMA RmdirInv ==
  ASSUME IInv, NEW name \in Names, rmdir(name)
  PROVE  IInv'
<1>. DEFINE i == handle_search_inode(disk, current_dir, name, FT_DIR)
            d == RemoveObject(UncountDir(disk), i, name, FT_DIR)
<1>1. Sound(disk) /\ current_dir \in Inodes
  BY IInvIsSound DEF MemoryOK
<1>2. i \in Inodes /\ Saves(d, "shell")
  BY FoundInode DEF rmdir
<1>3. Sound(d)
  <2>. HIDE DEF i
  <2>. QED BY <1>1, <1>2, CountDirSound, RemoveObjectSound
<1>. HIDE DEF d
<1>. QED BY <1>2, <1>3, SavesInv

LEMMA DeleteInv ==
  ASSUME IInv, NEW name \in Names, delete(name)
  PROVE  IInv'
<1>. DEFINE i == handle_search_inode(disk, current_dir, name, FT_REG_FILE)
            d == RemoveObject(disk, i, name, FT_REG_FILE)
<1>1. Sound(disk) /\ current_dir \in Inodes
  BY IInvIsSound DEF MemoryOK
<1>2. i \in Inodes /\ Saves(d, "shell")
  BY FoundInode DEF delete
<1>3. Sound(d)
  <2>. HIDE DEF i
  <2>. QED BY <1>1, <1>2, RemoveObjectSound
<1>. HIDE DEF d
<1>. QED BY <1>2, <1>3, SavesInv

-----------------------------------------------------------------------------
(* cd, open, close and chmod.                                              *)

LEMMA PathAfterType ==
  ASSUME current_path \in Seq(AllParts), NEW name \in Names
  PROVE  PathAfter(name) \in Seq(AllParts)
<1>1. Parts[name] \in Seq(AllParts)
  BY ConstAssumption
<1>2. current_path \o Parts[name] \in Seq(AllParts)
  BY <1>1
<1>3. current_path # <<>> => SubSeq(current_path, 1, Len(current_path) - 1) \in Seq(AllParts)
  OBVIOUS
<1>. QED BY <1>2, <1>3 DEF PathAfter

LEMMA CdInv ==
  ASSUME IInv, NEW name \in Names, cd(name)
  PROVE  IInv'
<1>. DEFINE i == handle_search_inode(disk, current_dir, name, FT_DIR)
<1>1. current_path \in Seq(AllParts) /\ current_dir \in Inodes
  BY IInvIsSound DEF MemoryOK
<1>2. i \in Inodes
  BY FoundInode DEF cd
<1>3. CASE Undefined
  BY <1>3, UndefinedInv
<1>4. CASE /\ current_dir' = IF name = Dot THEN current_dir ELSE i
           /\ current_path' = PathAfter(name)
           /\ UNCHANGED <<disk, fopen_table, status>>
  <2>1. current_dir' \in Inodes /\ current_path' \in Seq(AllParts)
    BY <1>1, <1>2, <1>4, PathAfterType
  <2>. QED BY <1>4, <2>1 DEF IInv, TypeOK, BlockOwnership, FreeBlocksClean
<1>. QED BY <1>3, <1>4 DEF cd

LEMMA OpenInv ==
  ASSUME IInv, NEW name \in Names, open(name)
  PROVE  IInv'
<1>. DEFINE i == Named(name)
<1>1. i \in Inodes
  BY FoundInode DEF open, Named
<1>2. i \in 0 .. INODE_COUNT /\ fopen_table \in [1 .. FOPEN_TABLE_MAX -> 0 .. INODE_COUNT]
  BY <1>1, IInvIsSound, SizeAssumption DEF Inodes, MemoryOK
<1>3. fopen_table' = [fopen_table EXCEPT ![Min(FreeSlots)] = i]
  BY DEF open
<1>. HIDE DEF i
<1>4. fopen_table' \in [1 .. FOPEN_TABLE_MAX -> 0 .. INODE_COUNT]
  BY <1>2, <1>3
<1>. QED BY <1>4 DEF open, IInv, TypeOK, BlockOwnership, FreeBlocksClean

LEMMA CloseInv ==
  ASSUME IInv, NEW name \in Names, close(name)
  PROVE  IInv'
<1>. DEFINE s == Min({t \in DOMAIN fopen_table : fopen_table[t] = Named(name)})
<1>1. 0 \in 0 .. INODE_COUNT /\ fopen_table \in [1 .. FOPEN_TABLE_MAX -> 0 .. INODE_COUNT]
  BY IInvIsSound, SizeAssumption DEF MemoryOK
<1>2. fopen_table' = [fopen_table EXCEPT ![s] = 0]
  BY DEF close
<1>. HIDE DEF s
<1>3. fopen_table' \in [1 .. FOPEN_TABLE_MAX -> 0 .. INODE_COUNT]
  BY <1>1, <1>2
<1>. QED BY <1>3 DEF close, IInv, TypeOK, BlockOwnership, FreeBlocksClean

LEMMA ChmodInv ==
  ASSUME IInv, NEW name \in Names, NEW sign, NEW r, NEW w, NEW x, chmod(sign, r, w, x, name)
  PROVE  IInv'
<1>. DEFINE i == Named(name)
            P == IF sign = "+" THEN disk.inode_table[i].perm \cup PermBits(r, w, x)
                               ELSE disk.inode_table[i].perm \ PermBits(r, w, x)
            d == [disk EXCEPT !.inode_table[i].perm = P]
<1>0. Sound(disk) /\ MemoryOK
  BY IInvIsSound
<1>1. i \in Inodes
  BY FoundInode DEF chmod, Named
<1>2. disk.inode_table[i] \in Inode
  BY <1>0, <1>1, InodeType DEF Sound
<1>3. P \in SUBSET Bits
  <2>1. PermBits(r, w, x) \subseteq Bits
    BY DEF PermBits
  <2>2. disk.inode_table[i].perm \in SUBSET Bits
    BY <1>2 DEF Inode
  <2>. HIDE DEF i
  <2>. QED BY <2>1, <2>2
<1>4. disk' = d
  BY DEF chmod
<1>5. Sound(d)
  <2>. HIDE DEF i, P
  <2>. QED BY <1>0, <1>1, <1>3, ModeSound
<1>. HIDE DEF d
<1>. QED BY <1>4, <1>5 DEF chmod, IInv, TypeOK, BlockOwnership, FreeBlocksClean, Sound, memory

-----------------------------------------------------------------------------
(* write.                                                                  *)

(* Where the elements of s \o t come from.                                  *)
LEMMA ConcatParts ==
  ASSUME NEW S, NEW s \in Seq(S), NEW t \in Seq(S)
  PROVE  /\ s \o t \in Seq(S) /\ Len(s) \in Nat /\ Len(s \o t) = Len(s) + Len(t)
         /\ \A j \in 1 .. Len(s) : (s \o t)[j] = s[j]
         /\ \A j \in 1 .. Len(s) + Len(t) : j > Len(s) => (s \o t)[j] = t[j - Len(s)]
OBVIOUS

LEMMA WriteFitsInv ==
  ASSUME IInv, NEW i \in Inodes, NEW n \in Nat, NEW k \in 1 .. DIRECT, WriteFits(i, n, k)
  PROVE  IInv'
<1>. DEFINE ino == disk.inode_table[i]
            L == Len(ino.block)
            g == IF k > L THEN k - L ELSE 0
            room == RoomIn(disk, ino, k)
            held == RoomBefore(disk, ino, k)
<1>0. Sound(disk) /\ disk \in Disk /\ ino \in Inode /\ ino.block \in Seq(Blocks)
  BY IInvIsSound, InodeType DEF Sound
<1>1. L \in Nat /\ k \in Nat /\ k > 0 /\ g \in Nat /\ k <= L + g /\ (k > L => k = L + g)
  <2>1. L \in Nat
    BY <1>0
  <2>. HIDE DEF L
  <2>. QED BY <2>1, ConstAssumption
<1>2. CASE Undefined
  BY <1>2, UndefinedInv
<1>3. CASE /\ CanNewBlocks(disk, g)
           /\ \E rest \in 0 .. room, nb \in NewBlocks(disk, g) :
                Saves(FillBlocks(AddBlocks(disk, i, nb, n + 1), ino.block \o nb, k, rest),
                      AfterWrite(held))
  <2>. HIDE DEF g, L, room, held, ino
  <2>1. PICK rest \in 0 .. room, nb \in NewBlocks(disk, g) :
          Saves(FillBlocks(AddBlocks(disk, i, nb, n + 1), ino.block \o nb, k, rest),
                AfterWrite(held))
    BY <1>3
  <2>. DEFINE e == AddBlocks(disk, i, nb, n + 1)
              bs == ino.block \o nb
  <2>2. /\ nb \in Seq(Blocks) /\ Len(nb) = g /\ Range(nb) \subseteq FreeBlocks(disk)
        /\ \A j \in 1 .. g : nb[j] \in Range(nb)
    BY <1>0, <1>1, NewBlocksType
  <2>3. /\ Sound(e) /\ e.text = disk.text
        /\ e.block_bitmap = disk.block_bitmap \cup Range(nb)
    BY <1>0, <1>1, <1>3, AddBlocksSound DEF CanNewBlocks
  <2>. HIDE DEF e
  <2>4. /\ bs \in Seq(Blocks) /\ Len(bs) = L + g
        /\ \A j \in 1 .. L : bs[j] = ino.block[j]
        /\ \A j \in 1 .. L + g : j > L => bs[j] = nb[j - L]
    <3>1. /\ bs \in Seq(Blocks) /\ Len(bs) = Len(ino.block) + Len(nb)
          /\ \A j \in 1 .. Len(ino.block) : bs[j] = ino.block[j]
          /\ \A j \in 1 .. Len(ino.block) + Len(nb) :
               j > Len(ino.block) => bs[j] = nb[j - Len(ino.block)]
      <4>1. ino.block \in Seq(Blocks) /\ nb \in Seq(Blocks)
        BY <1>0, <2>2
      <4>. QED BY <4>1, ConcatParts, ZenonT(30)
    <3>2. Len(nb) = g
      BY <2>2
    <3>. HIDE DEF bs
    <3>. QED BY <3>1, <3>2, ZenonT(30) DEF L
  <2>. HIDE DEF bs
  <2>5. \A j \in 1 .. Len(bs) : bs[j] \in e.block_bitmap
    <3>1. \A j \in 1 .. L : bs[j] \in disk.block_bitmap
      BY <1>0, <2>4, WalkedMarked, SMTT(30) DEF ino, L
    <3>2. ASSUME NEW j \in 1 .. L + g, j > L
          PROVE  bs[j] \in Range(nb)
      <4>1. j - L \in 1 .. g
        BY <1>1, <2>2, <3>2
      <4>. QED BY <2>2, <2>4, <3>2, <4>1
    <3>3. ASSUME NEW j \in 1 .. L + g
          PROVE  bs[j] \in disk.block_bitmap \cup Range(nb)
      <4>1. CASE j > L
        BY <3>2, <4>1
      <4>2. CASE j \in 1 .. L
        BY <3>1, <4>2
      <4>. QED BY <1>1, <4>1, <4>2
    <3>. QED BY <2>3, <2>4, <3>3
  <2>6. k \in 1 .. Len(bs) + 1
    BY <1>1, <2>4
  <2>7. rest \in Nat /\ e.text[bs[k]] + rest <= CAP
    <3>1. CASE k <= L
      <4>1. ino.block[k] \in Blocks /\ bs[k] = ino.block[k]
        BY <1>0, <1>1, <2>4, <3>1 DEF L
      <4>2. disk.text[ino.block[k]] \in 0 .. CAP
        BY <1>0, <4>1 DEF Disk
      <4>3. room = CAP - disk.text[ino.block[k]]
        BY <3>1 DEF room, RoomIn, L
      <4>. QED BY <2>3, <4>1, <4>2, <4>3, CapType
    <3>2. CASE k > L
      <4>1. k \in 1 .. L + g /\ k - L \in 1 .. g
        BY <1>1, <2>2, <3>2
      <4>2. bs[k] \in FreeBlocks(disk)
        BY <2>2, <2>4, <3>2, <4>1
      <4>3. disk.text[bs[k]] = 0
        BY <1>0, <4>2 DEF Sound, IsClean
      <4>4. room = CAP
        BY <1>1, <3>2 DEF room, RoomIn, L
      <4>. QED BY <2>3, <4>3, <4>4, CapType
    <3>. QED BY <1>1, <3>1, <3>2
  <2>8. Sound(FillBlocks(e, bs, k, rest))
    BY <2>3, <2>4, <2>5, <2>6, <2>7, FillBlocksSound
  <2>9. AfterWrite(held) \in {"shell", "dead"}
    BY DEF AfterWrite
  <2>. QED BY <2>1, <2>8, <2>9, SavesInv DEF e, bs
<1>. QED BY <1>2, <1>3 DEF WriteFits

LEMMA OverflowSound ==
  ASSUME Sound(disk), NEW i \in Inodes, NEW n \in Nat, NEW g,
         g = IF DIRECT > Len(disk.inode_table[i].block)
             THEN DIRECT - Len(disk.inode_table[i].block) ELSE 0,
         CanNewBlocks(disk, g), NEW nb \in NewBlocks(disk, g)
  PROVE  Sound(FillBlocks(AddBlocks(disk, i, nb, n + 1),
                          Direct(disk.inode_table[i]) \o nb, DIRECT + 1, 0))
<1>. DEFINE ino == disk.inode_table[i]
            L == Len(ino.block)
            dir == Direct(ino)
<1>0. disk \in Disk /\ ino \in Inode /\ ino.block \in Seq(Blocks)
  BY InodeType DEF Sound
<1>1. /\ L \in Nat /\ DIRECT \in Nat /\ g \in Nat
      /\ L <= DIRECT => L + g = DIRECT
      /\ L > DIRECT => g = 0
  <2>1. L \in Nat
    BY <1>0
  <2>2. g = IF DIRECT > L THEN DIRECT - L ELSE 0
    OBVIOUS
  <2>3. DIRECT \in Nat
    BY ConstAssumption
  <2>. HIDE DEF L
  <2>4. CASE DIRECT > L
    BY <2>1, <2>2, <2>3, <2>4
  <2>5. CASE ~ (DIRECT > L)
    BY <2>1, <2>2, <2>3, <2>5
  <2>. QED BY <2>4, <2>5
<1>2. /\ dir \in Seq(Blocks) /\ Len(dir) <= L /\ Len(dir) <= DIRECT
      /\ \A j \in 1 .. Len(dir) : dir[j] = ino.block[j]
      /\ L <= DIRECT => Len(dir) = L
      /\ L > DIRECT => Len(dir) = DIRECT
  <2>. HIDE DEF ino
  <2>. QED BY <1>0, DirectType
<1>. HIDE DEF L, ino, dir
<1>. DEFINE e == AddBlocks(disk, i, nb, n + 1)
            bs == dir \o nb
<1>3. /\ nb \in Seq(Blocks) /\ Len(nb) = g /\ Range(nb) \subseteq FreeBlocks(disk)
      /\ \A j \in 1 .. g : nb[j] \in Range(nb)
  BY <1>0, <1>1, NewBlocksType
<1>4. /\ Sound(e) /\ e.text = disk.text
      /\ e.block_bitmap = disk.block_bitmap \cup Range(nb)
  <2>1. disk.free_blocks >= g /\ n + 1 \in Int
    BY DEF CanNewBlocks
  <2>. QED BY <1>1, <2>1, AddBlocksSound
<1>. HIDE DEF e
<1>5. /\ bs \in Seq(Blocks) /\ Len(bs) = Len(dir) + g /\ Len(dir) \in Nat
      /\ \A j \in 1 .. Len(dir) : bs[j] = dir[j]
      /\ \A j \in 1 .. Len(dir) + g : j > Len(dir) => bs[j] = nb[j - Len(dir)]
  <2>1. /\ bs \in Seq(Blocks) /\ Len(dir) \in Nat /\ Len(bs) = Len(dir) + Len(nb)
        /\ \A j \in 1 .. Len(dir) : bs[j] = dir[j]
        /\ \A j \in 1 .. Len(dir) + Len(nb) : j > Len(dir) => bs[j] = nb[j - Len(dir)]
    <3>1. dir \in Seq(Blocks) /\ nb \in Seq(Blocks)
      BY <1>2, <1>3
    <3>. QED BY <3>1, ConcatParts, ZenonT(30)
  <2>2. Len(nb) = g
    BY <1>3
  <2>. HIDE DEF bs
  <2>. QED BY <2>1, <2>2, ZenonT(30)
<1>. HIDE DEF bs
<1>6. \A j \in 1 .. Len(bs) : bs[j] \in e.block_bitmap
  <2>1. \A j \in 1 .. Len(dir) : bs[j] \in disk.block_bitmap
    <3>1. \A j \in 1 .. L : ino.block[j] \in disk.block_bitmap
      BY <1>0, WalkedMarked DEF ino, L
    <3>2. ASSUME NEW j \in 1 .. Len(dir)
          PROVE  bs[j] \in disk.block_bitmap
      <4>1. j \in 1 .. L
        BY <1>1, <1>2, <1>5
      <4>2. bs[j] = dir[j] /\ dir[j] = ino.block[j]
        BY <1>2, <1>5
      <4>. QED BY <3>1, <4>1, <4>2
    <3>. QED BY <3>2
  <2>2. ASSUME NEW j \in 1 .. Len(dir) + g, j > Len(dir)
        PROVE  bs[j] \in Range(nb)
    <3>1. j - Len(dir) \in 1 .. g
      BY <1>1, <1>3, <1>5, <2>2
    <3>. QED BY <1>3, <1>5, <2>2, <3>1
  <2>. QED BY <1>1, <1>4, <1>5, <2>1, <2>2
<1>7. Len(bs) = DIRECT
  <2>1. L <= DIRECT => Len(dir) = L /\ L + g = DIRECT
    BY <1>1, <1>2
  <2>2. L > DIRECT => Len(dir) = DIRECT /\ g = 0
    BY <1>1, <1>2
  <2>3. L \in Nat /\ DIRECT \in Nat /\ Len(bs) = Len(dir) + g
    BY <1>1, <1>5
  <2>. QED BY <2>1, <2>2, <2>3
<1>8. DIRECT + 1 \in 1 .. Len(bs) + 1 /\ ~ (DIRECT + 1 <= Len(bs))
  BY <1>1, <1>7
<1>9. Sound(FillBlocks(e, bs, DIRECT + 1, 0))
  BY <1>4, <1>5, <1>6, <1>8, FillBlocksSound
<1>. QED BY <1>9 DEF e, bs, dir, ino

LEMMA WriteOverflowsInv ==
  ASSUME IInv, NEW i \in Inodes, NEW n \in Nat, WriteOverflows(i, n)
  PROVE  IInv'
<1>. DEFINE ino == disk.inode_table[i]
            g == IF DIRECT > Len(ino.block) THEN DIRECT - Len(ino.block) ELSE 0
            held == RoomBefore(disk, ino, DIRECT + 1)
<1>1. CASE Undefined
  BY <1>1, UndefinedInv
<1>2. CASE /\ CanNewBlocks(disk, g)
           /\ \E nb \in NewBlocks(disk, g) :
                ReachIndex(FillBlocks(AddBlocks(disk, i, nb, n + 1), Direct(ino) \o nb, DIRECT + 1, 0),
                           i, AfterWrite(held))
  <2>. HIDE DEF held
  <2>1. PICK nb \in NewBlocks(disk, g) :
          ReachIndex(FillBlocks(AddBlocks(disk, i, nb, n + 1), Direct(ino) \o nb, DIRECT + 1, 0),
                     i, AfterWrite(held))
    BY <1>2
  <2>2. Sound(disk)
    BY IInvIsSound
  <2>3. g = IF DIRECT > Len(ino.block) THEN DIRECT - Len(ino.block) ELSE 0
    OBVIOUS
  <2>. HIDE DEF g
  <2>4. Sound(FillBlocks(AddBlocks(disk, i, nb, n + 1), Direct(ino) \o nb, DIRECT + 1, 0))
    BY <1>2, <2>2, <2>3, OverflowSound
  <2>5. AfterWrite(held) \in {"shell", "dead"}
    BY DEF AfterWrite
  <2>. QED BY <2>1, <2>4, <2>5, ReachIndexInv
<1>. QED BY <1>1, <1>2 DEF WriteOverflows

LEMMA WriteInv ==
  ASSUME IInv, NEW name \in Names, NEW n \in WriteSizes, write(name, n)
  PROVE  IInv'
<1>1. Named(name) \in Inodes /\ n \in Nat
  BY FoundInode, ConstAssumption DEF write, Named
<1>2. CASE Undefined
  BY <1>2, UndefinedInv
<1>3. CASE \E k \in 1 .. DIRECT : WriteFits(Named(name), n, k)
  BY <1>1, <1>3, WriteFitsInv
<1>4. CASE WriteOverflows(Named(name), n)
  BY <1>1, <1>4, WriteOverflowsInv
<1>. QED BY <1>2, <1>3, <1>4 DEF write

-----------------------------------------------------------------------------
(* The theorems.                                                           *)

LEMMA InitInv == Init => IInv
<1>. SUFFICES ASSUME Init PROVE IInv
  OBVIOUS
<1>1. Sound(disk)
  BY InitializeDiskSound DEF Init
<1>2. NoOpenFiles \in [1 .. FOPEN_TABLE_MAX -> 0 .. INODE_COUNT]
  BY SizeAssumption DEF NoOpenFiles
<1>3. MemoryOK
  BY <1>2, BlocksAreNats DEF Init, MemoryOK
<1>. QED BY <1>1, <1>3, IInvIsSound DEF Init

LEMMA NextInv == IInv /\ [Next]_vars => IInv'
<1>. SUFFICES ASSUME IInv, [Next]_vars PROVE IInv'
  OBVIOUS
<1>0. Sound(disk) /\ MemoryOK
  BY IInvIsSound
<1>1. CASE Start
  <2>1. MemoryOK'
    BY <1>1, InitializeMemory DEF Start
  <2>. QED BY <1>1, <2>1 DEF Start, IInv, TypeOK, BlockOwnership, FreeBlocksClean, MemoryOK
<1>2. CASE quit
  <2>1. MemoryOK'
    BY <1>2, InitializeMemory DEF quit
  <2>. QED BY <1>2, <2>1 DEF quit, IInv, TypeOK, BlockOwnership, FreeBlocksClean, MemoryOK
<1>3. ASSUME NEW pw \in Passwords, login(pw) PROVE IInv'
  BY <1>3 DEF login, IInv, TypeOK, BlockOwnership, FreeBlocksClean, memory
<1>4. ASSUME NEW pw \in Passwords, pwd(pw) PROVE IInv'
  <2>. DEFINE d == [disk EXCEPT !.password = pw]
  <2>1. disk.used_dirs \in 0 .. UINT16 - 1
    BY <1>0 DEF Sound, Disk
  <2>2. Sound(d)
    BY <1>0, <2>1, CountersSound
  <2>3. disk' = d
    BY <1>4 DEF pwd
  <2>. HIDE DEF d
  <2>. QED BY <1>4, <2>2, <2>3 DEF pwd, IInv, TypeOK, BlockOwnership, FreeBlocksClean, Sound, memory
<1>5. ASSUME NEW pw \in Passwords, format(pw) PROVE IInv'
  <2>1. MemoryOK'
    BY <1>5, InitializeMemory DEF format
  <2>2. Sound(disk')
    BY <1>5, InitializeDiskSound DEF format
  <2>. QED BY <1>5, <2>1, <2>2 DEF format, IInv, TypeOK, BlockOwnership, FreeBlocksClean, Sound, MemoryOK
<1>6. ASSUME NEW name \in Names, mkdir(name) \/ create(name) PROVE IInv'
  BY <1>6, MakeEntryInv DEF mkdir, create
<1>7. ASSUME NEW name \in Names, rmdir(name) PROVE IInv'
  BY <1>7, RmdirInv
<1>8. ASSUME NEW name \in Names, delete(name) PROVE IInv'
  BY <1>8, DeleteInv
<1>9. ASSUME NEW name \in Names, cd(name) PROVE IInv'
  BY <1>9, CdInv
<1>10. ASSUME NEW name \in Names, open(name) PROVE IInv'
  BY <1>10, OpenInv
<1>11. ASSUME NEW name \in Names, close(name) PROVE IInv'
  BY <1>11, CloseInv
<1>12. ASSUME NEW name \in Names, NEW n \in WriteSizes, write(name, n) PROVE IInv'
  BY <1>12, WriteInv
<1>13. ASSUME NEW name \in Names, NEW sign \in {"+", "-"}, NEW r, NEW w, NEW x,
              chmod(sign, r, w, x, name)
       PROVE  IInv'
  BY <1>13, ChmodInv
<1>14. CASE UNCHANGED vars
  BY <1>14 DEF vars, IInv, TypeOK, BlockOwnership, FreeBlocksClean
<1>. QED BY <1>1, <1>2, <1>3, <1>4, <1>5, <1>6, <1>7, <1>8, <1>9, <1>10, <1>11, <1>12, <1>13, <1>14
        DEF Next

LEMMA Inductive == Spec => []IInv
BY InitInv, NextInv, PTL DEF Spec

(* No sequence of commands, restarts included, takes the image or the      *)
(* program's memory out of their types: every counter keeps its 16 bits,   *)
(* every block number stays inside the image, no block is overfilled.      *)
THEOREM TypeCorrect == Spec => []TypeOK
<1>1. IInv => TypeOK
  BY DEF IInv
<1>. QED BY <1>1, Inductive, PTL

(* No sequence of commands makes two inodes share a block, or leaves a     *)
(* block that an inode refers to unmarked in the bitmap.                   *)
THEOREM BlocksOwned == Spec => []BlockOwnership
<1>1. IInv => BlockOwnership
  BY DEF IInv
<1>. QED BY <1>1, Inductive, PTL

(* Every block new_block may hand out is zero, so a new directory starts   *)
(* with an empty chain and a new file with no text.                        *)
THEOREM NewBlocksAreZero == Spec => []FreeBlocksClean
<1>1. IInv => FreeBlocksClean
  BY DEF IInv
<1>. QED BY <1>1, Inductive, PTL


-----------------------------------------------------------------------------
(* The chains of the directory blocks.                                     *)

(* ChainEnd is the last prefix sum of the lengths of the entries.          *)
RecLens(c) == [j \in 1 .. Len(c) |-> c[j].rec_len]

LEMMA ChainEndAdds ==
  ASSUME NEW c \in Seq(DirEntry)
  PROVE  /\ RecLens(c) \in [1 .. Len(c) -> Nat]
         /\ \E f \in [0 .. Len(c) -> Nat] : Adds(f, Len(c), RecLens(c)) /\ ChainEnd(c) = f[Len(c)]
<1>. DEFINE n == Len(c)
            upto[k \in 0 .. n] == IF k = 0 THEN 0 ELSE upto[k - 1] + c[k].rec_len
<1>0. \A e \in DirEntry : e.rec_len \in Nat
  BY DEF DirEntry
<1>1. n \in Nat /\ \A k \in 1 .. n : c[k].rec_len \in Nat
  BY <1>0
<1>2. RecLens(c) \in [1 .. n -> Nat] /\ \A k \in 1 .. n : RecLens(c)[k] = c[k].rec_len
  BY <1>1 DEF RecLens
<1>3. PICK f \in [0 .. n -> Nat] : Adds(f, n, RecLens(c))
  BY <1>1, <1>2, Sums
<1>4. f[0] = 0 /\ \A k \in 1 .. n : f[k] = f[k - 1] + c[k].rec_len
  BY <1>2, <1>3 DEF Adds
<1>5. f = [k \in 0 .. n |-> IF k = 0 THEN 0 ELSE f[k - 1] + c[k].rec_len]
  BY <1>1, <1>4
<1>6. upto = [k \in 0 .. n |-> IF k = 0 THEN 0 ELSE upto[k - 1] + c[k].rec_len]
  <2>. HIDE DEF n
  <2>. QED BY <1>5 DEF upto
<1>7. ChainEnd(c) = upto[n]
  BY DEF ChainEnd
<1>. HIDE DEF upto, n
<1>8. Adds(upto, n, RecLens(c))
  <2>1. upto[0] = 0
    BY <1>1, <1>6
  <2>2. ASSUME NEW k \in 1 .. n
        PROVE  upto[k] = upto[k - 1] + RecLens(c)[k]
    <3>1. k \in 0 .. n /\ k # 0
      BY <1>1
    <3>. QED BY <1>2, <1>6, <3>1
  <2>. QED BY <2>1, <2>2 DEF Adds
<1>9. upto[n] = f[n]
  BY <1>1, <1>3, <1>8, AddsOnce
<1>. QED BY <1>2, <1>3, <1>7, <1>9 DEF n

LEMMA ChainEndIs ==
  ASSUME NEW c \in Seq(DirEntry), NEW g, Adds(g, Len(c), RecLens(c))
  PROVE  ChainEnd(c) = g[Len(c)]
<1>1. PICK f \in [0 .. Len(c) -> Nat] : Adds(f, Len(c), RecLens(c)) /\ ChainEnd(c) = f[Len(c)]
  BY ChainEndAdds
<1>2. Len(c) \in Nat
  OBVIOUS
<1>. QED BY <1>1, <1>2, AddsOnce

LEMMA ChainEndType ==
  ASSUME NEW c \in Seq(DirEntry)
  PROVE  ChainEnd(c) \in Nat
<1>1. PICK f \in [0 .. Len(c) -> Nat] : ChainEnd(c) = f[Len(c)]
  BY ChainEndAdds
<1>. QED BY <1>1

LEMMA ChainEndEmpty == ChainEnd(<<>>) = 0 /\ ChainOK(<<>>)
<1>1. <<>> \in Seq(DirEntry) /\ Len(<<>>) = 0
  OBVIOUS
<1>2. PICK f : Adds(f, Len(<<>>), RecLens(<<>>)) /\ ChainEnd(<<>>) = f[Len(<<>>)]
  BY <1>1, ChainEndAdds
<1>3. ChainEnd(<<>>) = 0
  BY <1>1, <1>2 DEF Adds
<1>4. 0 < BLOCK_SIZE
  BY SizeAssumption, ConstAssumption
<1>. QED BY <1>3, <1>4 DEF ChainOK

(* One entry of another length.                                            *)
LEMMA ChainEndEdited ==
  ASSUME NEW c \in Seq(DirEntry), NEW t \in Seq(DirEntry), Len(t) = Len(c),
         NEW k \in 1 .. Len(c), \A j \in 1 .. Len(c) : j # k => t[j].rec_len = c[j].rec_len
  PROVE  ChainEnd(t) = ChainEnd(c) - c[k].rec_len + t[k].rec_len
<1>. DEFINE n == Len(c)
            z == RecLens(c)
            y == RecLens(t)
<1>1. PICK f \in [0 .. n -> Nat] : Adds(f, n, z) /\ ChainEnd(c) = f[n]
  BY ChainEndAdds
<1>2. /\ n \in Nat /\ k \in 1 .. n /\ z \in [1 .. n -> Nat] /\ y \in [1 .. n -> Nat]
      /\ z[k] = c[k].rec_len /\ y[k] = t[k].rec_len
      /\ \A j \in 1 .. n : j # k => y[j] = z[j]
  BY ChainEndAdds DEF RecLens
<1>3. \A g : Adds(g, n, y) => ChainEnd(t) = g[n]
  BY ChainEndIs
<1>. HIDE DEF n, z, y
<1>4. \E g \in [0 .. n -> Int] : Adds(g, n, y) /\ g[n] = f[n] - z[k] + y[k]
  BY <1>1, <1>2, AddsReplaced
<1>. QED BY <1>1, <1>2, <1>3, <1>4

(* One entry less: c is t without its entry k.                             *)
LEMMA ChainEndWithout ==
  ASSUME NEW c \in Seq(DirEntry), NEW t \in Seq(DirEntry), NEW k \in 1 .. Len(t),
         Len(c) = Len(t) - 1, \A j \in 1 .. Len(c) : c[j] = IF j < k THEN t[j] ELSE t[j + 1]
  PROVE  ChainEnd(c) = ChainEnd(t) - t[k].rec_len
<1>. DEFINE n == Len(t)
            z == RecLens(t)
            y == RecLens(c)
<1>1. PICK f \in [0 .. n -> Nat] : Adds(f, n, z) /\ ChainEnd(t) = f[n]
  BY ChainEndAdds
<1>2. /\ n \in Nat /\ k \in 1 .. n /\ z \in [1 .. n -> Nat] /\ y \in [1 .. n - 1 -> Nat]
      /\ z[k] = t[k].rec_len
  BY ChainEndAdds DEF RecLens
<1>3. ASSUME NEW j \in 1 .. n - 1
      PROVE  y[j] = IF j < k THEN z[j] ELSE z[j + 1]
  <2>1. j \in 1 .. Len(c) /\ j \in 1 .. n /\ j + 1 \in 1 .. n
    OBVIOUS
  <2>. QED BY <2>1 DEF RecLens
<1>4. \A g : Adds(g, n - 1, y) => ChainEnd(c) = g[n - 1]
  BY ChainEndIs
<1>. HIDE DEF n, z, y
<1>5. \E g \in [0 .. n - 1 -> Int] : Adds(g, n - 1, y) /\ g[n - 1] = f[n] - z[k]
  BY <1>1, <1>2, <1>3, AddsRemoved
<1>. QED BY <1>1, <1>2, <1>4, <1>5

(* Entries of a block never lose bytes: the chain stays inside its block   *)
(* and does not get shorter.                                               *)
Extends(c, t) == ChainOK(c) => ChainOK(t) /\ ChainEnd(c) <= ChainEnd(t)

LEMMA AppendExtends ==
  ASSUME NEW c \in Seq(DirEntry), NEW e \in DirEntry, Slack(e) = 0,
         Splittable(c, e) > 0 \/ ChainEnd(c) + e.rec_len < BLOCK_SIZE
  PROVE  Extends(c, append_dir_entry(c, e))
<1>. DEFINE k == Splittable(c, e)
            t == append_dir_entry(c, e)
<1>. SUFFICES ASSUME ChainOK(c)
              PROVE  ChainOK(t) /\ ChainEnd(c) <= ChainEnd(t)
  BY DEF Extends
<1>0. t \in Seq(DirEntry)
  BY AppendDirEntryType
<1>1. CASE k > 0
  <2>. DEFINE c1 == [c EXCEPT ![k].rec_len = RecLen(c[k].name)]
              e1 == [e EXCEPT !.rec_len = Slack(c[k])]
  <2>1. k \in 1 .. Len(c) /\ Slack(c[k]) >= e.rec_len
    BY <1>1, SplittableType
  <2>. HIDE DEF k
  <2>2. c[k] \in DirEntry /\ RecLen(c[k].name) \in Nat
    <3>1. c[k] \in DirEntry
      BY <2>1
    <3>2. c[k].name \in Names
      BY <3>1 DEF DirEntry
    <3>. QED BY <3>1, <3>2, NamesType
  <2>3. e.rec_len \in Nat /\ c[k].rec_len \in Nat /\ RecLen(e.name) = e.rec_len
    <3>1. e.name \in Names /\ e.rec_len \in Nat /\ c[k].rec_len \in Nat
      BY <2>2 DEF DirEntry
    <3>. QED BY <3>1, NamesType DEF Slack
  <2>4. Slack(c[k]) = c[k].rec_len - RecLen(c[k].name) /\ Slack(c[k]) \in Nat
    BY <2>1, <2>2, <2>3 DEF Slack
  <2>5. e1 \in DirEntry /\ e1.rec_len = Slack(c[k]) /\ Slack(e1) >= 0
    <3>1. e1 \in DirEntry
      BY <2>4, RecLenType
    <3>2. e1.rec_len = Slack(c[k]) /\ e1.name = e.name
      BY DEF DirEntry
    <3>. HIDE DEF e1
    <3>. QED BY <2>1, <2>3, <2>4, <3>1, <3>2 DEF Slack
  <2>6. /\ c1 \in Seq(DirEntry) /\ Len(c1) = Len(c)
        /\ \A j \in 1 .. Len(c) : j # k => c1[j] = c[j]
        /\ c1[k].rec_len = RecLen(c[k].name) /\ Slack(c1[k]) = 0
    <3>1. [c[k] EXCEPT !.rec_len = RecLen(c[k].name)] \in DirEntry
      BY <2>2, RecLenType
    <3>2. /\ c1 \in Seq(DirEntry) /\ Len(c1) = Len(c)
          /\ \A j \in 1 .. Len(c) : j # k => c1[j] = c[j]
          /\ c1[k] = [c[k] EXCEPT !.rec_len = RecLen(c[k].name)]
      BY <2>1, <3>1
    <3>3. c1[k].rec_len = RecLen(c[k].name) /\ c1[k].name = c[k].name
      BY <2>2, <3>2 DEF DirEntry
    <3>. HIDE DEF c1
    <3>. QED BY <2>2, <3>2, <3>3 DEF Slack
  <2>7. t = InsertAt(c1, k + 1, e1)
    BY <1>1 DEF append_dir_entry, k
  <2>. HIDE DEF t, c1, e1
  <2>8. k + 1 \in 1 .. Len(c1) + 1 /\ k + 1 \in 1 .. Len(c) + 1 /\ Len(c) \in Nat
    BY <2>1, <2>6
  <2>9. /\ Len(t) = Len(c) + 1 /\ t[k + 1] = e1
        /\ \A j \in 1 .. Len(c) : c1[j] = IF j < k + 1 THEN t[j] ELSE t[j + 1]
    <3>. DEFINE m == k + 1
    <3>1. c1 \in Seq(DirEntry) /\ m \in 1 .. Len(c1) + 1 /\ e1 \in DirEntry
      BY <2>5, <2>6, <2>8
    <3>. HIDE DEF m
    <3>2. /\ InsertAt(c1, m, e1)[m] = e1 /\ Len(InsertAt(c1, m, e1)) = Len(c1) + 1
          /\ \A j \in 1 .. Len(c1) :
               c1[j] = IF j < m THEN InsertAt(c1, m, e1)[j] ELSE InsertAt(c1, m, e1)[j + 1]
      BY <3>1, InsertAtAs
    <3>. QED BY <2>6, <2>7, <3>2 DEF m
  <2>10. ChainEnd(c1) = ChainEnd(c) - c[k].rec_len + RecLen(c[k].name)
    <3>1. \A j \in 1 .. Len(c) : j # k => c1[j].rec_len = c[j].rec_len
      BY <2>6
    <3>. QED BY <2>1, <2>6, <3>1, ChainEndEdited
  <2>11. ChainEnd(c1) = ChainEnd(t) - Slack(c[k])
    <3>1. k + 1 \in 1 .. Len(t) /\ Len(c1) = Len(t) - 1
          /\ \A j \in 1 .. Len(c1) : c1[j] = IF j < k + 1 THEN t[j] ELSE t[j + 1]
      BY <2>6, <2>8, <2>9
    <3>. QED BY <1>0, <2>5, <2>6, <2>9, <3>1, ChainEndWithout
  <2>12. ChainEnd(t) = ChainEnd(c)
    <3>1. ChainEnd(t) \in Nat /\ ChainEnd(c) \in Nat /\ ChainEnd(c1) \in Nat
      BY <1>0, <2>6, ChainEndType
    <3>. QED BY <2>2, <2>3, <2>4, <2>10, <2>11, <3>1, SMTT(30)
  <2>13. ASSUME NEW j \in 1 .. Len(t)
         PROVE  Slack(t[j]) >= 0
    <3>1. \A i \in 1 .. Len(c) : Slack(c1[i]) >= 0
      <4>1. \A i \in 1 .. Len(c) : Slack(c[i]) >= 0
        BY DEF ChainOK
      <4>. QED BY <2>6, <4>1
    <3>2. CASE j < k + 1
      <4>1. j \in 1 .. Len(c)
        BY <2>8, <3>2
      <4>. QED BY <2>9, <3>1, <3>2, <4>1
    <3>3. CASE j = k + 1
      BY <2>5, <2>9, <3>3
    <3>4. CASE j > k + 1
      <4>1. j - 1 \in 1 .. Len(c) /\ ~ (j - 1 < k + 1) /\ j - 1 + 1 = j
        BY <2>1, <2>8, <2>9, <3>4
      <4>. QED BY <2>9, <3>1, <4>1
    <3>. QED BY <2>1, <3>2, <3>3, <3>4
  <2>14. ChainEnd(c) < BLOCK_SIZE /\ ChainEnd(c) \in Nat
    BY ChainEndType DEF ChainOK
  <2>15. ChainOK(t)
    BY <1>0, <2>12, <2>13, <2>14 DEF ChainOK
  <2>. QED BY <2>12, <2>14, <2>15
<1>2. CASE k = 0
  <2>1. ChainEnd(c) + e.rec_len < BLOCK_SIZE /\ t = Append(c, e)
    BY <1>2 DEF append_dir_entry
  <2>. HIDE DEF k, t
  <2>2. /\ Len(t) = Len(c) + 1 /\ t[Len(c) + 1] = e /\ Len(c) \in Nat
        /\ \A j \in 1 .. Len(c) : t[j] = c[j]
    BY <2>1
  <2>3. ChainEnd(c) = ChainEnd(t) - e.rec_len
    <3>1. /\ Len(c) + 1 \in 1 .. Len(t) /\ Len(c) = Len(t) - 1
          /\ \A j \in 1 .. Len(c) : c[j] = IF j < Len(c) + 1 THEN t[j] ELSE t[j + 1]
      BY <2>2
    <3>. QED BY <1>0, <2>2, <3>1, ChainEndWithout
  <2>4. ChainEnd(c) \in Nat /\ ChainEnd(t) \in Nat /\ e.rec_len \in Nat
    BY <1>0, ChainEndType DEF DirEntry
  <2>5. ASSUME NEW j \in 1 .. Len(t)
        PROVE  Slack(t[j]) >= 0
    <3>1. CASE j \in 1 .. Len(c)
      BY <2>2, <3>1 DEF ChainOK
    <3>2. CASE j = Len(c) + 1
      BY <2>2, <3>2
    <3>. QED BY <2>2, <3>1, <3>2
  <2>6. ChainEnd(t) < BLOCK_SIZE /\ ChainEnd(c) <= ChainEnd(t)
    <3>1. BLOCK_SIZE \in Nat
      BY SizeAssumption
    <3>. QED BY <2>1, <2>3, <2>4, <3>1
  <2>. QED BY <1>0, <2>5, <2>6 DEF ChainOK
<1>3. k \in Nat
  BY SplittableType
<1>. QED BY <1>1, <1>2, <1>3

LEMMA DeleteExtends ==
  ASSUME NEW c \in Seq(DirEntry), NEW name, NEW type
  PROVE  /\ Extends(c, delete_dir_entry(c, name, type))
         /\ c = <<>> => delete_dir_entry(c, name, type) = <<>>
<1>. DEFINE k == DeletableAt(c, name, type)
            t == delete_dir_entry(c, name, type)
<1>1. CASE k = 0
  <2>1. t = c
    BY <1>1 DEF delete_dir_entry
  <2>2. ChainEnd(c) \in Nat
    BY ChainEndType
  <2>. QED BY <2>1, <2>2 DEF Extends
<1>2. CASE k \in 2 .. Len(c)
  <2>. DEFINE c1 == [c EXCEPT ![k-1].rec_len = @ + c[k].rec_len]
  <2>1. t = RemoveAt(c1, k)
    BY <1>2 DEF delete_dir_entry
  <2>. HIDE DEF k, t
  <2>2. k \in 1 .. Len(c) /\ k - 1 \in 1 .. Len(c) /\ k - 1 # k /\ Len(c) \in Nat /\ c # <<>>
    BY <1>2
  <2>3. /\ c[k] \in DirEntry /\ c[k-1] \in DirEntry
        /\ c[k].rec_len \in Nat /\ c[k-1].rec_len \in Nat /\ RecLen(c[k-1].name) \in Nat
    <3>1. c[k] \in DirEntry /\ c[k-1] \in DirEntry
      BY <2>2
    <3>2. c[k].rec_len \in Nat /\ c[k-1].rec_len \in Nat /\ c[k-1].name \in Names
      BY <3>1 DEF DirEntry
    <3>. QED BY <3>1, <3>2, NamesType
  <2>4. /\ c1 \in Seq(DirEntry) /\ Len(c1) = Len(c)
        /\ \A j \in 1 .. Len(c) : j # k - 1 => c1[j] = c[j]
        /\ c1[k-1].rec_len = c[k-1].rec_len + c[k].rec_len
        /\ c1[k-1].name = c[k-1].name
    <3>1. [c[k-1] EXCEPT !.rec_len = @ + c[k].rec_len] \in DirEntry
      <4>1. c[k-1].rec_len + c[k].rec_len \in Nat
        BY <2>3
      <4>. QED BY <2>3, <4>1, RecLenType
    <3>2. /\ c1 \in Seq(DirEntry) /\ Len(c1) = Len(c)
          /\ \A j \in 1 .. Len(c) : j # k - 1 => c1[j] = c[j]
          /\ c1[k-1] = [c[k-1] EXCEPT !.rec_len = @ + c[k].rec_len]
      BY <2>2, <3>1
    <3>. HIDE DEF c1
    <3>. QED BY <2>3, <3>2 DEF DirEntry
  <2>. HIDE DEF c1
  <2>5. /\ t \in Seq(DirEntry) /\ Len(t) = Len(c1) - 1
        /\ \A j \in 1 .. Len(c1) - 1 : t[j] = IF j < k THEN c1[j] ELSE c1[j + 1]
    BY <2>1, <2>2, <2>4, RemoveAtAs
  <2>6. ChainEnd(c1) = ChainEnd(c) - c[k-1].rec_len + c1[k-1].rec_len
    <3>1. \A j \in 1 .. Len(c) : j # k - 1 => c1[j].rec_len = c[j].rec_len
      BY <2>4
    <3>. QED BY <2>2, <2>4, <3>1, ChainEndEdited
  <2>7. ChainEnd(t) = ChainEnd(c1) - c[k].rec_len
    <3>1. k \in 1 .. Len(c1) /\ c1[k] = c[k]
      BY <2>2, <2>4
    <3>2. \A j \in 1 .. Len(t) : t[j] = IF j < k THEN c1[j] ELSE c1[j + 1]
      BY <2>5
    <3>. QED BY <2>4, <2>5, <3>1, <3>2, ChainEndWithout
  <2>8. ChainEnd(t) \in Nat /\ ChainEnd(c) \in Nat /\ ChainEnd(c1) \in Nat
    BY <2>4, <2>5, ChainEndType
  <2>9. ChainEnd(t) = ChainEnd(c)
    BY <2>3, <2>4, <2>6, <2>7, <2>8
  <2>10. ASSUME ChainOK(c), NEW j \in 1 .. Len(t)
         PROVE  Slack(t[j]) >= 0
    <3>1. \A i \in 1 .. Len(c) : Slack(c[i]) >= 0
      BY <2>10 DEF ChainOK
    <3>2. Slack(c1[k-1]) >= 0
      <4>1. Slack(c[k-1]) >= 0
        BY <2>2, <3>1
      <4>. QED BY <2>3, <2>4, <4>1 DEF Slack
    <3>3. \A i \in 1 .. Len(c) : Slack(c1[i]) >= 0
      BY <2>4, <3>1, <3>2
    <3>4. j \in 1 .. Len(c1) - 1 /\ j \in 1 .. Len(c) /\ j + 1 \in 1 .. Len(c)
      BY <2>2, <2>4, <2>5
    <3>. QED BY <2>5, <3>3, <3>4
  <2>11. ASSUME ChainOK(c)
         PROVE  ChainOK(t)
    <3>1. ChainEnd(c) < BLOCK_SIZE
      BY <2>11 DEF ChainOK
    <3>. QED BY <2>5, <2>9, <2>10, <2>11, <3>1 DEF ChainOK
  <2>12. Extends(c, t)
    BY <2>8, <2>9, <2>11 DEF Extends
  <2>. QED BY <2>2, <2>12 DEF t
<1>. QED BY <1>1, <1>2, DeletableType
-----------------------------------------------------------------------------
(* The operators that leave the directory blocks alone.                    *)
Chains(d, c) == "dirents" \in DOMAIN d /\ d.dirents = c

LEMMA DiskChains ==
  ASSUME NEW d \in Disk
  PROVE  Chains(d, d.dirents)
BY DEF Disk, Chains

LEMMA SameChains ==
  ASSUME NEW d, NEW c, Chains(d, c)
  PROVE  /\ \A i, n : Chains(AddSize(d, i, n), c)
         /\ Chains(CountDir(d), c) /\ Chains(UncountDir(d), c)
         /\ Chains(new_inode(d), c) /\ Chains(new_block(d), c)
         /\ \A i, name : Chains(NewFile(d, i, name), c)
         /\ \A i : Chains(AddBlock(d, i), c) /\ Chains(AddSub(d, i), c)
         /\ \A i, nb, n : Chains(AddBlocks(d, i, nb, n), c)
         /\ \A bs, k, rest : Chains(FillBlocks(d, bs, k, rest), c)
<1>1. \A i, n : Chains(AddSize(d, i, n), c)
  BY DEF AddSize, Chains
<1>2. Chains(CountDir(d), c) /\ Chains(UncountDir(d), c)
  BY DEF CountDir, UncountDir, Chains
<1>3. Chains(new_inode(d), c) /\ Chains(new_block(d), c)
  BY DEF new_inode, new_block, Chains
<1>4. \A i, name : Chains(NewFile(d, i, name), c)
  BY DEF NewFile, Chains
<1>5. \A i : Chains(AddBlock(d, i), c) /\ Chains(AddSub(d, i), c)
  BY <1>3 DEF AddBlock, AddSub, Chains
<1>6. \A i, nb, n : Chains(AddBlocks(d, i, nb, n), c)
  BY DEF AddBlocks, AddSize, Chains
<1>7. \A bs, k, rest : Chains(FillBlocks(d, bs, k, rest), c)
  BY DEF FillBlocks, Chains
<1>. QED BY <1>1, <1>2, <1>3, <1>4, <1>5, <1>6, <1>7

-----------------------------------------------------------------------------
(* What becomes of the directory blocks: no chain leaves its block or gets *)
(* shorter.                                                                *)
Fits(d) == \A b \in Blocks : ChainOK(d.dirents[b])
Grows(c, d) == \A b \in Blocks : Extends(c[b], d.dirents[b])

LEMMA GrowsSame ==
  ASSUME NEW c \in [Blocks -> Seq(DirEntry)], NEW d, d.dirents = c
  PROVE  Grows(c, d)
<1>1. \A b \in Blocks : ChainEnd(c[b]) \in Nat
  BY ChainEndType
<1>. QED BY <1>1 DEF Grows, Extends

LEMMA GrowsOn ==
  ASSUME NEW c \in [Blocks -> Seq(DirEntry)], NEW d \in Disk, NEW e \in Disk,
         Grows(c, d), Grows(d.dirents, e)
  PROVE  Grows(c, e)
<1>. SUFFICES ASSUME NEW b \in Blocks, ChainOK(c[b])
              PROVE  ChainOK(e.dirents[b]) /\ ChainEnd(c[b]) <= ChainEnd(e.dirents[b])
  BY DEF Grows, Extends
<1>1. ChainOK(d.dirents[b]) /\ ChainEnd(c[b]) <= ChainEnd(d.dirents[b])
  BY DEF Grows, Extends
<1>2. ChainOK(e.dirents[b]) /\ ChainEnd(d.dirents[b]) <= ChainEnd(e.dirents[b])
  BY <1>1 DEF Grows, Extends
<1>3. c[b] \in Seq(DirEntry) /\ d.dirents[b] \in Seq(DirEntry) /\ e.dirents[b] \in Seq(DirEntry)
  BY DEF Disk
<1>4. ChainEnd(c[b]) \in Nat /\ ChainEnd(d.dirents[b]) \in Nat /\ ChainEnd(e.dirents[b]) \in Nat
  BY <1>3, ChainEndType
<1>. QED BY <1>1, <1>2, <1>4

LEMMA AppendEntryGrows ==
  ASSUME NEW d \in Disk, NEW b \in Blocks, NEW x \in DirEntry, Slack(x) = 0,
         \/ Splittable(d.dirents[b], x) > 0
         \/ ChainEnd(d.dirents[b]) + x.rec_len < BLOCK_SIZE
  PROVE  Grows(d.dirents, AppendEntry(d, b, x))
<1>. DEFINE e == AppendEntry(d, b, x)
<1>1. d.dirents \in [Blocks -> Seq(DirEntry)] /\ d.dirents[b] \in Seq(DirEntry)
  BY DEF Disk
<1>2. /\ e.dirents[b] = append_dir_entry(d.dirents[b], x)
      /\ \A a \in Blocks : a # b => e.dirents[a] = d.dirents[a]
  BY <1>1 DEF AppendEntry, Disk
<1>3. Extends(d.dirents[b], append_dir_entry(d.dirents[b], x))
  BY <1>1, AppendExtends
<1>4. \A a \in Blocks : ChainEnd(d.dirents[a]) \in Nat
  BY <1>1, ChainEndType
<1>. HIDE DEF e
<1>5. ASSUME NEW a \in Blocks, a # b
      PROVE  Extends(d.dirents[a], e.dirents[a])
  BY <1>2, <1>4, <1>5 DEF Extends
<1>. QED BY <1>2, <1>3, <1>5 DEF Grows, e

(* The entries the commands append are cut to their names.                 *)
LEMMA NewEntryFits ==
  ASSUME NEW name \in Names, NEW type \in {FT_REG_FILE, FT_DIR}, NEW i \in Inodes
  PROVE  /\ NewEntry(name, type, i) \in DirEntry /\ Slack(NewEntry(name, type, i)) = 0
         /\ NewEntry(name, type, i).rec_len = RecLen(name)
         /\ RecLen(name) \in Nat /\ RecLen(name) < BLOCK_SIZE
<1>1. NewEntry(name, type, i).rec_len = RecLen(name) /\ NewEntry(name, type, i).name = name
  BY DEF NewEntry
<1>2. RecLen(name) \in Nat /\ RecLen(name) < BLOCK_SIZE
  BY NameLenAssumption, SizeAssumption DEF RecLen
<1>3. Slack(NewEntry(name, type, i)) = 0
  BY <1>1, <1>2 DEF Slack
<1>. QED BY <1>1, <1>2, <1>3, NewEntryType

(* "." and ".." in a new block.                                            *)
LEMMA DotsGrow ==
  ASSUME NEW d, Sound(d), NEW b \in d.block_bitmap, d.dirents[b] = <<>>,
         NEW i \in Inodes, NEW parent \in Inodes
  PROVE  Grows(d.dirents, AppendDots(d, b, i, parent))
<1>. DEFINE x == NewEntry(Dot, FT_DIR, i)
            y == NewEntry(DotDot, FT_DIR, parent)
            e == AppendEntry(d, b, x)
<1>1. /\ x \in DirEntry /\ Slack(x) = 0 /\ x.rec_len = 8
      /\ y \in DirEntry /\ Slack(y) = 0 /\ y.rec_len = 9
  <2>1. RecLen(Dot) = 8 /\ RecLen(DotDot) = 9 /\ Dot \in Names /\ DotDot \in Names
    BY ConstAssumption DEF RecLen
  <2>. QED BY <2>1, NewEntryFits
<1>. HIDE DEF x, y
<1>2. /\ d \in Disk /\ b \in Blocks /\ d.dirents \in [Blocks -> Seq(DirEntry)]
      /\ 17 < BLOCK_SIZE /\ BLOCK_SIZE \in Nat
  BY SizeAssumption, ConstAssumption DEF Sound, Disk
<1>3. ChainEnd(d.dirents[b]) + x.rec_len < BLOCK_SIZE
  BY <1>1, <1>2, ChainEndEmpty
<1>4. Sound(e) /\ e \in Disk /\ b \in e.block_bitmap
  BY <1>1, AppendEntrySound DEF Sound
<1>5. Grows(d.dirents, e)
  BY <1>1, <1>2, <1>3, AppendEntryGrows
<1>6. e.dirents[b] = Append(<<>>, x)
  <2>1. Splittable(<<>>, x) = 0
    <3>1. <<>> \in Seq(DirEntry) /\ Len(<<>>) = 0
      OBVIOUS
    <3>2. Splittable(<<>>, x) \in 0 .. Len(<<>>)
      BY <1>1, <3>1, SplittableType
    <3>. QED BY <3>1, <3>2
  <2>2. append_dir_entry(<<>>, x) = Append(<<>>, x)
    BY <2>1 DEF append_dir_entry
  <2>3. e.dirents[b] = append_dir_entry(d.dirents[b], x)
    BY <1>2 DEF AppendEntry, Disk
  <2>. QED BY <2>2, <2>3
<1>7. ChainEnd(e.dirents[b]) = 8
  <2>. DEFINE t == e.dirents[b]
              c == d.dirents[b]
  <2>1. /\ c = <<>> /\ c \in Seq(DirEntry) /\ t \in Seq(DirEntry)
        /\ Len(t) = 1 /\ t[1] = x /\ Len(c) = 0
    BY <1>1, <1>2, <1>6
  <2>2. ChainEnd(c) = 0 /\ ChainEnd(t) \in Nat
    BY <2>1, ChainEndEmpty, ChainEndType
  <2>. HIDE DEF t, c
  <2>3. ChainEnd(c) = ChainEnd(t) - t[1].rec_len
    <3>1. 1 \in 1 .. Len(t) /\ Len(c) = Len(t) - 1
          /\ \A j \in 1 .. Len(c) : c[j] = IF j < 1 THEN t[j] ELSE t[j + 1]
      BY <2>1
    <3>. QED BY <2>1, <3>1, ChainEndWithout
  <2>4. ChainEnd(t) = 8
    BY <1>1, <2>1, <2>2, <2>3
  <2>. QED BY <2>4 DEF t
<1>8. ChainEnd(e.dirents[b]) + y.rec_len < BLOCK_SIZE
  BY <1>1, <1>2, <1>7
<1>9. Grows(e.dirents, AppendEntry(e, b, y))
  BY <1>1, <1>2, <1>4, <1>8, AppendEntryGrows
<1>10. AppendEntry(e, b, y) \in Disk
  BY <1>1, <1>4, AppendEntrySound DEF Sound
<1>. QED BY <1>2, <1>4, <1>5, <1>9, <1>10, GrowsOn DEF AppendDots, e, x, y
LEMMA NewDirectoryGrows ==
  ASSUME NEW d, Sound(d), CanNewBlock(d), NEW i \in Inodes, NEW parent \in Inodes
  PROVE  Grows(d.dirents, NewDirectory(d, i, parent))
<1>. DEFINE b == NextBlock(d)
            e == TakeBlock(d, i)
<1>1. Sound(e) /\ b \in e.block_bitmap /\ e.dirents = d.dirents /\ b \notin d.block_bitmap
  BY TakeBlockSound
<1>2. NewDirectory(d, i, parent) = AppendDots(e, b, i, parent)
  BY DEF NewDirectory, TakeBlock
<1>. HIDE DEF e, b
<1>3. b \in FreeBlocks(d)
  BY <1>1 DEF Sound, Disk, FreeBlocks
<1>4. e.dirents[b] = <<>>
  BY <1>1, <1>3 DEF Sound, IsClean
<1>. QED BY <1>1, <1>2, <1>4, DotsGrow

(* The commands.                                                           *)
LEMMA StoreEntryGrows ==
  ASSUME disk \in Disk, NEW d, Sound(d), Grows(disk.dirents, d),
         NEW b \in d.block_bitmap, NEW x \in DirEntry, Slack(x) = 0,
         \/ Splittable(d.dirents[b], x) > 0
         \/ ChainEnd(d.dirents[b]) + x.rec_len < BLOCK_SIZE,
         StoreEntry(d, b, x)
  PROVE  Grows(disk.dirents, disk')
<1>1. d \in Disk /\ b \in Blocks /\ disk.dirents \in [Blocks -> Seq(DirEntry)]
  BY DEF Sound, Disk
<1>2. CASE Saves(AppendEntry(d, b, x), "shell")
  <2>1. Grows(d.dirents, AppendEntry(d, b, x)) /\ AppendEntry(d, b, x) \in Disk
    BY <1>1, AppendEntryGrows, AppendEntrySound DEF Sound
  <2>2. Grows(disk.dirents, AppendEntry(d, b, x))
    BY <1>1, <2>1, GrowsOn
  <2>. QED BY <1>2, <2>2 DEF Saves
<1>3. CASE Undefined
  BY <1>1, <1>3, GrowsSame DEF Undefined
<1>. QED BY <1>2, <1>3 DEF StoreEntry

LEMMA ReachIndexSame ==
  ASSUME disk \in Disk, NEW d, NEW c, Chains(d, c), NEW i, NEW st, ReachIndex(d, i, st)
  PROVE  disk'.dirents = c \/ disk' = disk
<1>1. Chains(IndexBlock(d, i), c) /\ Chains(AddSub(IndexBlock(d, i), i), c)
  BY SameChains DEF IndexBlock
<1>. QED BY <1>1 DEF ReachIndex, Saves, Undefined, Chains

LEMMA AppendDirectoryGrows ==
  ASSUME disk \in Disk, NEW d, Sound(d), Grows(disk.dirents, d), NEW p \in Inodes,
         NEW x \in DirEntry, Slack(x) = 0, x.rec_len < BLOCK_SIZE,
         handle_append_directory(d, p, x)
  PROVE  Grows(disk.dirents, disk')
<1>. DEFINE n == d.inode_table[p]
            bs == Direct(n)
            k == FirstWithRoom(d, p, x)
<1>0. /\ d \in Disk /\ disk.dirents \in [Blocks -> Seq(DirEntry)]
      /\ d.dirents \in [Blocks -> Seq(DirEntry)] /\ Chains(d, d.dirents)
  BY DiskChains DEF Sound, Disk
<1>1. CASE k > 0 /\ StoreEntry(d, n.block[k], x)
  <2>1. k \in 1 .. Len(bs) /\ HasRoom(d.dirents[bs[k]], x)
    <3>. DEFINE I == {i \in 1 .. Len(bs) : HasRoom(d.dirents[bs[i]], x)}
    <3>1. k = IF I # {} THEN Min(I) ELSE 0
      BY DEF FirstWithRoom, SelectInSeq
    <3>2. I \subseteq Nat
      OBVIOUS
    <3>3. I # {} => Min(I) \in I
      <4>. HIDE DEF I
      <4>. QED BY <3>2, MinOfNats
    <3>. HIDE DEF k, I
    <3>4. k \in I
      BY <1>1, <3>1, <3>3
    <3>. QED BY <3>4 DEF I
  <2>2. n.block \in Seq(Blocks) /\ bs[k] = n.block[k] /\ k \in DOMAIN n.block
    <3>1. n \in Inode /\ n.block \in Seq(Blocks)
      BY InodeType DEF Sound
    <3>2. /\ bs \in Seq(Blocks) /\ Len(bs) <= Len(n.block)
          /\ \A j \in 1 .. Len(bs) : bs[j] = n.block[j]
      BY <3>1, DirectType
    <3>. HIDE DEF bs, n, k
    <3>. QED BY <2>1, <3>1, <3>2
  <2>. HIDE DEF bs, k
  <2>3. n.block[k] \in d.block_bitmap
    BY <2>2, WalkedMarked
  <2>. HIDE DEF n
  <2>4. ChainEnd(d.dirents[n.block[k]]) \in Nat /\ x.rec_len \in Nat /\ BLOCK_SIZE \in Nat
    <3>1. d.dirents[n.block[k]] \in Seq(DirEntry)
      BY <1>0, <2>3 DEF Disk
    <3>. QED BY <3>1, ChainEndType, SizeAssumption DEF DirEntry
  <2>5. \/ Splittable(d.dirents[n.block[k]], x) > 0
        \/ ChainEnd(d.dirents[n.block[k]]) + x.rec_len < BLOCK_SIZE
    <3>1. \/ Splittable(d.dirents[n.block[k]], x) > 0
          \/ BLOCK_SIZE - ChainEnd(d.dirents[n.block[k]]) > x.rec_len
      BY <2>1, <2>2 DEF HasRoom
    <3>. QED BY <2>4, <3>1
  <2>. QED BY <1>1, <2>3, <2>5, StoreEntryGrows
<1>2. CASE IF CanNewBlock(d) THEN StoreEntry(AddBlock(d, p), NextBlock(d), x) ELSE Undefined
  <2>. DEFINE b == NextBlock(d)
              e == AddBlock(d, p)
  <2>1. CASE CanNewBlock(d)
    <3>1. Sound(e) /\ b \in e.block_bitmap
      BY <2>1, AddBlockSound
    <3>2. e.dirents = d.dirents
      <4>1. Chains(e, d.dirents)
        BY <1>0, SameChains
      <4>. QED BY <4>1 DEF Chains
    <3>3. b \in FreeBlocks(d)
      BY <2>1, NextBlockFree DEF Sound
    <3>4. d.dirents[b] = <<>>
      BY <3>3 DEF Sound, IsClean
    <3>5. StoreEntry(e, b, x)
      BY <1>2, <2>1
    <3>. HIDE DEF e, b
    <3>6. Grows(disk.dirents, e)
      BY <3>2 DEF Grows
    <3>7. ChainEnd(e.dirents[b]) + x.rec_len < BLOCK_SIZE
      <4>1. x.rec_len \in Nat /\ BLOCK_SIZE \in Nat
        BY SizeAssumption DEF DirEntry
      <4>. QED BY <3>2, <3>4, <4>1, ChainEndEmpty
    <3>. QED BY <3>1, <3>5, <3>6, <3>7, StoreEntryGrows
  <2>2. CASE ~ CanNewBlock(d)
    BY <1>0, <1>2, <2>2, GrowsSame DEF Undefined
  <2>. QED BY <2>1, <2>2
<1>3. CASE ReachIndex(d, p, "shell")
  <2>1. disk'.dirents = d.dirents \/ disk' = disk
    BY <1>0, <1>3, ReachIndexSame
  <2>2. disk'.dirents = d.dirents => Grows(disk.dirents, disk')
    BY DEF Grows
  <2>. QED BY <1>0, <2>1, <2>2, GrowsSame
<1>. QED BY <1>1, <1>2, <1>3 DEF handle_append_directory

LEMMA NewObjectGrows ==
  ASSUME NEW d, Sound(d), NEW i \in Inodes, current_dir \in Inodes,
         NEW name, NEW type \in {FT_REG_FILE, FT_DIR}, ~ BlocksRunOut(d, type)
  PROVE  Grows(d.dirents, NewObject(d, i, name, type))
<1>0. d.dirents \in [Blocks -> Seq(DirEntry)] /\ Chains(d, d.dirents)
  BY DiskChains DEF Sound, Disk
<1>1. CASE type = FT_DIR
  <2>. DEFINE d1 == CountDir(d)
  <2>1. /\ Sound(d1) /\ d1.block_bitmap = d.block_bitmap /\ d1.free_blocks = d.free_blocks
        /\ d1.dirents = d.dirents
    BY <1>0, CountDirSound, SameChains DEF Chains
  <2>2. d.free_blocks \in Nat
    BY DEF Sound, Disk
  <2>. HIDE DEF d1
  <2>3. d1.free_blocks # 0 => CanNewBlock(d1)
    BY <1>1, <2>1, <2>2 DEF BlocksRunOut, CanNewBlock, FreeBlocks
  <2>4. d1.free_blocks # 0 => Grows(d.dirents, NewDirectory(d1, i, current_dir))
    BY <2>1, <2>3, NewDirectoryGrows
  <2>5. Grows(d.dirents, d1)
    BY <1>0, <2>1, GrowsSame
  <2>. QED BY <1>1, <2>4, <2>5 DEF NewObject, d1
<1>2. CASE type # FT_DIR
  <2>1. NewFile(d, i, name).dirents = d.dirents
    BY <1>0, SameChains DEF Chains
  <2>. QED BY <1>0, <1>2, <2>1, GrowsSame DEF NewObject
<1>. QED BY <1>1, <1>2

LEMMA MakeEntryGrows ==
  ASSUME IInv, NEW name \in Names, NEW type \in {FT_REG_FILE, FT_DIR},
         MakeEntry(name, type)
  PROVE  Grows(disk.dirents, disk')
<1>. DEFINE grown(d) == AddSize(d, current_dir, RecLen(name))
            i  == NextInode(disk)
            d0 == new_inode(disk)
            d1 == NewObject(d0, i, name, type)
<1>0. /\ Sound(disk) /\ disk \in Disk /\ current_dir \in Inodes
      /\ disk.dirents \in [Blocks -> Seq(DirEntry)] /\ Chains(disk, disk.dirents)
  BY IInvIsSound, DiskChains DEF MemoryOK, Sound, Disk
<1>1. \A d : Sound(d) => Sound(grown(d)) /\ grown(d).dirents = d.dirents
  <2>. SUFFICES ASSUME NEW d, Sound(d)
                PROVE  Sound(grown(d)) /\ grown(d).dirents = d.dirents
    OBVIOUS
  <2>1. Chains(d, d.dirents)
    BY DiskChains DEF Sound
  <2>2. Chains(grown(d), d.dirents)
    BY <2>1, SameChains
  <2>3. Sound(grown(d))
    BY <1>0, NamesType, AddSizeSound
  <2>. QED BY <2>2, <2>3 DEF Chains
<1>2. CASE Saves(grown(disk), "dead")
  <2>1. disk'.dirents = disk.dirents
    BY <1>0, <1>1, <1>2 DEF Saves
  <2>. QED BY <1>0, <2>1, GrowsSame
<1>3. CASE Undefined
  BY <1>0, <1>3, GrowsSame DEF Undefined
<1>4. CASE /\ disk.free_inodes > 0 /\ FreeInodes(disk) # {} /\ ~ BlocksRunOut(disk, type)
           /\ handle_append_directory(grown(d1), current_dir, NewEntry(name, type, i))
  <2>1. CanNewInode(disk)
    BY <1>4 DEF CanNewInode
  <2>2. /\ i \in Inodes /\ Sound(d0)
        /\ d0.block_bitmap = disk.block_bitmap /\ d0.free_blocks = disk.free_blocks
        /\ d0.dirents = disk.dirents
    BY <1>0, <2>1, NewInodeSound, SameChains DEF Chains
  <2>. HIDE DEF d0, i
  <2>3. ~ BlocksRunOut(d0, type)
    BY <1>4, <2>2 DEF BlocksRunOut, FreeBlocks
  <2>4. Sound(d1) /\ Grows(disk.dirents, d1)
    BY <1>0, <2>2, <2>3, NewObjectSound, NewObjectGrows
  <2>. HIDE DEF d1
  <2>5. Sound(grown(d1)) /\ Grows(disk.dirents, grown(d1))
    BY <1>1, <2>4 DEF Grows
  <2>6. /\ NewEntry(name, type, i) \in DirEntry /\ Slack(NewEntry(name, type, i)) = 0
        /\ NewEntry(name, type, i).rec_len < BLOCK_SIZE
    BY <2>2, NewEntryFits
  <2>. HIDE DEF grown
  <2>. QED BY <1>0, <1>4, <2>5, <2>6, AppendDirectoryGrows
<1>. QED BY <1>2, <1>3, <1>4 DEF MakeEntry

(* A removal: a block is cleared, or it keeps its chain.                   *)
GrowsOrClears(c, d) == \A b \in Blocks : Extends(c[b], d.dirents[b]) \/ d.dirents[b] = <<>>

LEMMA FreeObjectClears ==
  ASSUME NEW d, Sound(d), NEW i \in Inodes
  PROVE  \A b \in Blocks : \/ FreeObject(d, i).dirents[b] = d.dirents[b]
                           \/ FreeObject(d, i).dirents[b] = <<>>
<1>. DEFINE bs == Range(DataBlocks(d.inode_table[i]))
            d1 == reset_block_entry(d, bs)
            d2 == reset_inode_table(d1, i)
<1>1. d1.dirents = [b \in Blocks |-> IF b \in bs THEN <<>> ELSE d.dirents[b]]
      /\ "dirents" \in DOMAIN d1
  BY DEF reset_block_entry, Sound, Disk
<1>. HIDE DEF d1, bs
<1>2. d2.dirents = d1.dirents /\ "dirents" \in DOMAIN d2
  BY <1>1 DEF reset_inode_table
<1>3. FreeObject(d, i).dirents = d2.dirents
  <2>1. FreeObject(d, i) = [d2 EXCEPT !.free_blocks = (@ + Len(d.inode_table[i].block)) % UINT16,
                                      !.free_inodes = (@ + 1) % UINT16]
    BY DEF FreeObject, d1, bs
  <2>. HIDE DEF d2
  <2>. QED BY <1>2, <2>1
<1>. QED BY <1>1, <1>2, <1>3

LEMMA DeleteEntryGrows ==
  ASSUME NEW d, Sound(d), NEW p \in Inodes, NEW name, NEW type
  PROVE  \A b \in Blocks : LET c == DeleteEntry(d, p, name, type).dirents[b]
                           IN  Extends(d.dirents[b], c) /\ (d.dirents[b] = <<>> => c = <<>>)
<1>. DEFINE bs == DataBlocks(d.inode_table[p])
            I == {i \in 1 .. Len(bs) : DeletableAt(d.dirents[bs[i]], name, type) # 0}
            k == IF I # {} THEN Min(I) ELSE 0
            a == bs[k]
            e == [d EXCEPT !.dirents[a] = delete_dir_entry(@, name, type)]
<1>0. DeleteEntry(d, p, name, type) = IF k = 0 THEN d ELSE e
  BY DEF DeleteEntry, SelectInSeq
<1>1. \A b \in Blocks : d.dirents[b] \in Seq(DirEntry) /\ ChainEnd(d.dirents[b]) \in Nat
  BY ChainEndType DEF Sound, Disk
<1>2. \A b \in Blocks : e.dirents[b] = IF b = a THEN delete_dir_entry(d.dirents[b], name, type)
                                                ELSE d.dirents[b]
  <2>. HIDE DEF a
  <2>. QED BY DEF Sound, Disk
<1>. HIDE DEF e, k
<1>3. ASSUME NEW b \in Blocks
      PROVE  /\ Extends(d.dirents[b], d.dirents[b])
             /\ Extends(d.dirents[b], delete_dir_entry(d.dirents[b], name, type))
             /\ d.dirents[b] = <<>> => delete_dir_entry(d.dirents[b], name, type) = <<>>
  <2>1. Extends(d.dirents[b], d.dirents[b])
    BY <1>1 DEF Extends
  <2>. QED BY <1>1, <2>1, DeleteExtends
<1>. QED BY <1>0, <1>2, <1>3

LEMMA RemoveObjectGrows ==
  ASSUME NEW d, Sound(d), NEW i \in Inodes, current_dir \in Inodes,
         NEW name \in Names, NEW type
  PROVE  GrowsOrClears(d.dirents, RemoveObject(d, i, name, type))
<1>. DEFINE d1 == FreeObject(d, i)
            d2 == AddSize(d1, current_dir, - RecLen(name))
            d3 == DeleteEntry(d2, current_dir, name, type)
<1>1. Sound(d1)
  BY FreeObjectSound
<1>2. \A b \in Blocks : d1.dirents[b] = d.dirents[b] \/ d1.dirents[b] = <<>>
  BY FreeObjectClears
<1>. HIDE DEF d1
<1>3. Sound(d2)
  <2>1. - RecLen(name) \in Int
    BY NamesType
  <2>. QED BY <1>1, <2>1, AddSizeSound
<1>4. d2.dirents = d1.dirents
  <2>1. Chains(d1, d1.dirents)
    BY <1>1, DiskChains DEF Sound
  <2>2. Chains(d2, d1.dirents)
    BY <2>1, SameChains
  <2>. QED BY <2>2 DEF Chains
<1>. HIDE DEF d2
<1>5. \A b \in Blocks : /\ Extends(d2.dirents[b], d3.dirents[b])
                        /\ d2.dirents[b] = <<>> => d3.dirents[b] = <<>>
  BY <1>3, DeleteEntryGrows
<1>6. d3 = RemoveObject(d, i, name, type)
  BY DEF RemoveObject, d2, d1
<1>. HIDE DEF d3
<1>. QED BY <1>2, <1>4, <1>5, <1>6 DEF GrowsOrClears

(* A write leaves the directory blocks alone.                              *)
LEMMA WriteSame ==
  ASSUME disk \in Disk, NEW name, NEW n, write(name, n)
  PROVE  disk'.dirents = disk.dirents
<1>. DEFINE i == Named(name)
            ino == disk.inode_table[i]
            c == disk.dirents
<1>0. Chains(disk, c)
  BY DiskChains
<1>1. \A bs, nb, k, rest : /\ Chains(FillBlocks(AddBlocks(disk, i, nb, n + 1), bs, k, rest), c)
                           /\ FillBlocks(AddBlocks(disk, i, nb, n + 1), bs, k, rest).dirents = c
  <2>. SUFFICES ASSUME NEW bs, NEW nb, NEW k, NEW rest
                PROVE  Chains(FillBlocks(AddBlocks(disk, i, nb, n + 1), bs, k, rest), c)
    BY DEF Chains
  <2>1. Chains(AddBlocks(disk, i, nb, n + 1), c)
    BY <1>0, SameChains
  <2>. QED BY <2>1, SameChains
<1>2. CASE Undefined
  BY <1>2 DEF Undefined
<1>3. ASSUME NEW k, WriteFits(i, n, k)
      PROVE  disk'.dirents = c
  <2>1. CASE Undefined
    BY <2>1 DEF Undefined
  <2>2. CASE \E rest, nb, st :
               Saves(FillBlocks(AddBlocks(disk, i, nb, n + 1), ino.block \o nb, k, rest), st)
    BY <1>1, <2>2 DEF Saves
  <2>. QED BY <1>3, <2>1, <2>2 DEF WriteFits
<1>4. CASE WriteOverflows(i, n)
  <2>1. CASE Undefined
    BY <2>1 DEF Undefined
  <2>2. CASE \E nb, st :
               ReachIndex(FillBlocks(AddBlocks(disk, i, nb, n + 1), Direct(ino) \o nb, DIRECT + 1, 0), i, st)
    BY <1>1, <2>2, ReachIndexSame
  <2>. QED BY <1>4, <2>1, <2>2 DEF WriteOverflows
<1>. QED BY <1>2, <1>3, <1>4 DEF write

(* Every step: the image stays one of chains that fit, and none but a      *)
(* cleared one gets shorter.                                               *)
LEMMA GrowsKeeps ==
  ASSUME disk \in Disk, disk' \in Disk, Fits(disk), GrowsOrClears(disk.dirents, disk')
  PROVE  Fits(disk') /\ KeepsChains
<1>. SUFFICES ASSUME NEW b \in Blocks
              PROVE  /\ ChainOK(disk'.dirents[b])
                     /\ ChainEnd(disk'.dirents[b]) < ChainEnd(disk.dirents[b]) =>
                          disk'.dirents[b] = <<>>
  BY DEF Fits, KeepsChains
<1>1. CASE disk'.dirents[b] = <<>>
  BY <1>1, ChainEndEmpty
<1>2. CASE Extends(disk.dirents[b], disk'.dirents[b])
  <2>1. ChainOK(disk'.dirents[b]) /\ ChainEnd(disk.dirents[b]) <= ChainEnd(disk'.dirents[b])
    BY <1>2 DEF Extends, Fits
  <2>2. disk.dirents[b] \in Seq(DirEntry) /\ disk'.dirents[b] \in Seq(DirEntry)
    BY DEF Disk
  <2>3. ChainEnd(disk.dirents[b]) \in Nat /\ ChainEnd(disk'.dirents[b]) \in Nat
    BY <2>2, ChainEndType
  <2>. QED BY <2>1, <2>3
<1>. QED BY <1>1, <1>2 DEF GrowsOrClears

LEMMA InitializeDiskGrows ==
  ASSUME NEW pw \in Passwords
  PROVE  Fits(initialize_disk(pw)) /\ initialize_disk(pw).password = pw
<1>. DEFINE d == EmptyDisk(pw)
            d1 == new_inode(d)
            d2 == CountDir(d1)
            c == [b \in Blocks |-> <<>>]
<1>1. Sound(d) /\ CanNewInode(d) /\ CanNewBlock(d)
  BY EmptyDiskSound
<1>2. Chains(d, c) /\ d.password = pw
  BY DEF EmptyDisk, Chains
<1>. HIDE DEF d
<1>3. Sound(d1) /\ d1.block_bitmap = d.block_bitmap /\ d1.free_blocks = d.free_blocks
  BY <1>1, NewInodeSound
<1>4. Chains(d1, c) /\ d1.password = pw
  <2>1. d1.password = pw
    BY <1>1, <1>2 DEF new_inode, Sound, Disk
  <2>. QED BY <1>2, <2>1, SameChains
<1>. HIDE DEF d1
<1>5. Sound(d2) /\ d2.block_bitmap = d1.block_bitmap /\ d2.free_blocks = d1.free_blocks
  BY <1>3, CountDirSound
<1>6. Chains(d2, c) /\ d2.password = pw
  <2>1. d2.password = pw
    BY <1>3, <1>4 DEF CountDir, Sound, Disk
  <2>. QED BY <1>4, <2>1, SameChains
<1>. HIDE DEF d2
<1>7. CanNewBlock(d2)
  BY <1>1, <1>3, <1>5 DEF CanNewBlock, FreeBlocks
<1>8. Grows(c, NewDirectory(d2, 1, 1))
  <2>1. d2.dirents = c
    BY <1>6 DEF Chains
  <2>2. Grows(d2.dirents, NewDirectory(d2, 1, 1))
    BY <1>5, <1>7, NewDirectoryGrows, BlocksAreNats
  <2>. QED BY <2>1, <2>2
<1>9. Fits(NewDirectory(d2, 1, 1))
  <2>1. \A b \in Blocks : ChainOK(c[b])
    BY ChainEndEmpty
  <2>. QED BY <1>8, <2>1 DEF Fits, Grows, Extends
<1>10. NewDirectory(d2, 1, 1).password = pw
  <2>1. "password" \in DOMAIN d2
    BY <1>5 DEF Sound, Disk
  <2>. QED BY <1>6, <2>1 DEF NewDirectory, AppendDots, AppendEntry, new_block
<1>. QED BY <1>9, <1>10 DEF initialize_disk, d2, d1, d

LEMMA ChainsInit == Init => ChainsFit
BY InitializeDiskGrows DEF Init, ChainsFit, Fits

LEMMA ChainsNext == IInv /\ ChainsFit /\ [Next]_vars => ChainsFit' /\ KeepsChains
<1>. SUFFICES ASSUME IInv, ChainsFit, [Next]_vars
              PROVE  Fits(disk') /\ KeepsChains
  BY DEF ChainsFit, Fits
<1>0. /\ Sound(disk) /\ disk \in Disk /\ current_dir \in Inodes
      /\ disk.dirents \in [Blocks -> Seq(DirEntry)] /\ Fits(disk)
  BY IInvIsSound DEF Sound, MemoryOK, Disk, ChainsFit, Fits
<1>1. IInv' /\ disk' \in Disk
  BY NextInv DEF IInv, TypeOK
<1>2. CASE disk'.dirents = disk.dirents
  <2>1. Grows(disk.dirents, disk')
    BY <1>0, <1>2, GrowsSame
  <2>. QED BY <1>0, <1>1, <2>1, GrowsKeeps DEF Grows, GrowsOrClears
<1>3. CASE Grows(disk.dirents, disk')
  BY <1>0, <1>1, <1>3, GrowsKeeps DEF Grows, GrowsOrClears
<1>4. CASE GrowsOrClears(disk.dirents, disk')
  BY <1>0, <1>1, <1>4, GrowsKeeps
<1>5. ASSUME NEW pw \in Passwords, format(pw) PROVE Fits(disk') /\ KeepsChains
  <2>1. disk' = initialize_disk(pw)
    BY <1>5 DEF format
  <2>2. Reformatted
    BY <2>1, InitializeDiskGrows DEF Reformatted
  <2>. QED BY <2>1, <2>2, InitializeDiskGrows DEF KeepsChains
<1>6. ASSUME NEW name \in Names, mkdir(name) \/ create(name) PROVE Grows(disk.dirents, disk')
  BY <1>6, MakeEntryGrows DEF mkdir, create
<1>7. ASSUME NEW name \in Names, rmdir(name) PROVE GrowsOrClears(disk.dirents, disk')
  <2>. DEFINE i == handle_search_inode(disk, current_dir, name, FT_DIR)
              d == UncountDir(disk)
  <2>1. i \in Inodes /\ disk' = RemoveObject(d, i, name, FT_DIR)
    BY <1>7, FoundInode DEF rmdir, Saves
  <2>2. Sound(d)
    BY <1>0, CountDirSound
  <2>3. d.dirents = disk.dirents
    <3>1. Chains(d, disk.dirents)
      BY <1>0, DiskChains, SameChains
    <3>. QED BY <3>1 DEF Chains
  <2>. HIDE DEF i, d
  <2>4. GrowsOrClears(d.dirents, RemoveObject(d, i, name, FT_DIR))
    BY <1>0, <2>1, <2>2, RemoveObjectGrows
  <2>. QED BY <2>1, <2>3, <2>4
<1>8. ASSUME NEW name \in Names, delete(name) PROVE GrowsOrClears(disk.dirents, disk')
  <2>. DEFINE i == handle_search_inode(disk, current_dir, name, FT_REG_FILE)
  <2>1. i \in Inodes /\ disk' = RemoveObject(disk, i, name, FT_REG_FILE)
    BY <1>8, FoundInode DEF delete, Saves
  <2>. HIDE DEF i
  <2>2. GrowsOrClears(disk.dirents, RemoveObject(disk, i, name, FT_REG_FILE))
    BY <1>0, <2>1, RemoveObjectGrows
  <2>. QED BY <2>1, <2>2
<1>9. ASSUME NEW name \in Names, NEW n \in WriteSizes, write(name, n) PROVE disk'.dirents = disk.dirents
  BY <1>0, <1>9, WriteSame
<1>10. ASSUME NEW name \in Names, NEW sign, NEW r, NEW w, NEW x, chmod(sign, r, w, x, name)
       PROVE  disk'.dirents = disk.dirents
  BY <1>0, <1>10 DEF chmod, Disk
<1>11. ASSUME NEW pw \in Passwords, pwd(pw) PROVE disk'.dirents = disk.dirents
  BY <1>0, <1>11 DEF pwd, Disk
<1>12. ASSUME \/ Start \/ quit \/ UNCHANGED vars
              \/ \E pw \in Passwords : login(pw)
              \/ \E name \in Names : cd(name) \/ open(name) \/ close(name)
       PROVE  disk'.dirents = disk.dirents
  BY <1>12 DEF Start, quit, login, cd, open, close, Undefined, vars
<1>. QED BY <1>2, <1>3, <1>4, <1>5, <1>6, <1>7, <1>8, <1>9, <1>10, <1>11, <1>12 DEF Next

(* No sequence of splits and merges makes a chain leave its block or an    *)
(* entry too short for its name (append_dir_entry, delete_dir_entry).      *)
THEOREM ChainsAlwaysFit == Spec => []ChainsFit
BY ChainsInit, ChainsNext, Inductive, PTL DEF Spec

(* No command loses bytes of a directory block: a chain gets shorter only  *)
(* when its block is reset or the disk formatted.                          *)
THEOREM ChainsAreKept == Spec => [][KeepsChains]_vars
<1>1. IInv /\ ChainsFit /\ [Next]_vars => [KeepsChains]_vars
  BY ChainsNext
<1>. QED BY <1>1, Inductive, ChainsAlwaysFit, PTL DEF Spec

-----------------------------------------------------------------------------
(* The file system as FSTree sees it, as MCFileWorlds maps it.             *)
objects == Objects(disk)
cwd == current_dir
opened == {i \in Inodes : is_open(i)}
Tree == INSTANCE FSTree WITH root <- 1

(* An object is no directory of its own, so a removal from cwd never takes *)
(* cwd itself.                                                             *)
NamesInv == objects \subseteq Tree!Object /\ (\A o \in objects : o.parent # o.inode) /\ Tree!NamesSound

LEMMA NamesInit == Tree!Init => NamesInv
BY DEF Tree!Init, NamesInv, Tree!NamesSound, Tree!IsDirectory

LEMMA NamesNext == NamesInv /\ [Tree!Next]_(Tree!vars) => NamesInv'
<1> SUFFICES ASSUME NamesInv, [Tree!Next]_(Tree!vars) PROVE NamesInv' OBVIOUS
<1>0. FT_DIR # FT_REG_FILE BY DEF FT_DIR, FT_REG_FILE
<1>1. ASSUME NEW o \in Tree!Object, Tree!Make(o) PROVE NamesInv'
  <2>1. cwd # o.inode BY <1>1 DEF Tree!Make, NamesInv, Tree!NamesSound, Tree!IsDirectory, Tree!Object
  <2>2. objects' = objects \cup {o} /\ cwd' = cwd /\ opened' = opened /\ o.parent = cwd
    BY <1>1 DEF Tree!Make
  <2>3. \A i : Tree!IsDirectory(i) => Tree!IsDirectory(i)' BY <2>2 DEF Tree!IsDirectory
  <2>4. \A p \in objects : ~ (p.inode = o.inode \/ (p.parent = o.parent /\ p.name = o.name /\ p.type = o.type))
    BY <1>1 DEF Tree!Make, Tree!In
  <2> QED BY <2>1, <2>2, <2>3, <2>4 DEF NamesInv, Tree!NamesSound
<1>2. ASSUME NEW o \in Tree!In(cwd), Tree!Remove(o) PROVE NamesInv'
  <2>1. o \in objects /\ o.parent = cwd /\ cwd # o.inode BY DEF Tree!In, NamesInv
  <2>2. objects' = objects \ {o} /\ cwd' = cwd /\ opened' = opened BY <1>2 DEF Tree!Remove
  <2>3. ASSUME NEW i, Tree!IsDirectory(i), i # o.inode PROVE Tree!IsDirectory(i)'
    BY <2>2, <2>3 DEF Tree!IsDirectory
  <2>4. o.type = FT_DIR => \A p \in objects : p.parent # o.inode BY <1>2 DEF Tree!Remove, Tree!In
  <2>5. ASSUME NEW p \in objects, p # o PROVE Tree!IsDirectory(p.parent)'
    <3>1. CASE o.type = FT_DIR BY <2>3, <2>4, <3>1 DEF NamesInv, Tree!NamesSound
    <3>2. CASE o.type # FT_DIR
      <4>1. Tree!IsDirectory(p.parent) BY DEF NamesInv, Tree!NamesSound
      <4> QED BY <2>1, <2>2, <3>2, <4>1 DEF Tree!IsDirectory
    <3> QED BY <3>1, <3>2
  <2>6. ASSUME NEW i \in opened PROVE \E p \in objects' : p.inode = i /\ p.type = FT_REG_FILE
    BY <1>0, <1>2, <2>1, <2>2 DEF Tree!Remove, NamesInv, Tree!NamesSound
  <2> QED BY <2>1, <2>2, <2>3, <2>5, <2>6 DEF NamesInv, Tree!NamesSound
<1>3. ASSUME NEW o \in Tree!In(cwd), Tree!Enter(o) \/ Tree!Open(o) \/ Tree!Close(o) PROVE NamesInv'
  <2>1. o \in objects /\ objects' = objects BY <1>3 DEF Tree!In, Tree!Enter, Tree!Open, Tree!Close
  <2>2. \A i : Tree!IsDirectory(i)' = Tree!IsDirectory(i) BY <2>1 DEF Tree!IsDirectory
  <2>3. Tree!IsDirectory(cwd')
    BY <1>3, <2>1 DEF Tree!Enter, Tree!Open, Tree!Close, NamesInv, Tree!NamesSound, Tree!IsDirectory
  <2>4. \A i \in opened' : i \in opened \/ (i = o.inode /\ o.type = FT_REG_FILE)
    BY <1>3 DEF Tree!Enter, Tree!Open, Tree!Close
  <2> QED BY <2>1, <2>2, <2>3, <2>4 DEF NamesInv, Tree!NamesSound
<1>4. ASSUME NEW o \in objects, Tree!Leave(o) PROVE NamesInv'
  BY <1>4 DEF Tree!Leave, NamesInv, Tree!NamesSound, Tree!IsDirectory
<1>5. CASE Tree!Restart BY <1>5 DEF Tree!Restart, NamesInv, Tree!NamesSound, Tree!IsDirectory
<1>6. CASE Tree!Format BY <1>6 DEF Tree!Format, NamesInv, Tree!NamesSound, Tree!IsDirectory
<1>7. CASE UNCHANGED Tree!vars BY <1>7 DEF Tree!vars, NamesInv, Tree!NamesSound, Tree!IsDirectory
<1> QED BY <1>1, <1>2, <1>3, <1>4, <1>5, <1>6, <1>7 DEF Tree!Next

(* Commands that keep to FSTree keep a tree of names: whatever has a name  *)
(* lies in a directory there is, no two of a kind share one, and neither   *)
(* the user's directory nor an open file is ever removed.                  *)
THEOREM NamesStaySound == Tree!Spec => []Tree!NamesSound
<1>1. NamesInv => Tree!NamesSound BY DEF NamesInv
<1> QED BY <1>1, NamesInit, NamesNext, PTL DEF Tree!Spec

-----------------------------------------------------------------------------
(* FSCrash.  Every image a command leaves on its way shows of all inodes    *)
(* but its own what the image before it showed; the lemmas follow the       *)
(* writes of each helper and of each command.                               *)

(* The images between two writes.  Near(c, d, i): what d shows of any inode *)
(* but i is what c shows of it.                                             *)
Near(c, d, i) ==
  \A j \in Inodes : j # i =>
    /\ d.inode_table[j].type = c.inode_table[j].type
    /\ d.inode_table[j].block = c.inode_table[j].block
    /\ d.inode_table[j].sub = c.inode_table[j].sub
    /\ \A b \in Owned(c.inode_table[j]) : d.dirents[b] = c.dirents[b] /\ d.text[b] = c.text[b]

Around(c, i) == {d \in Disk : Sound(d) /\ Near(c, d, i)}

LEMMA NearSelf ==
  ASSUME NEW c, Sound(c), NEW i
  PROVE  c \in Around(c, i)
BY DEF Around, Near, Sound

LEMMA NearTrans ==
  ASSUME NEW c, NEW d, NEW e, NEW i, Near(c, d, i), Near(d, e, i)
  PROVE  Near(c, e, i)
<1>. SUFFICES ASSUME NEW j \in Inodes, j # i
              PROVE  /\ e.inode_table[j].type = c.inode_table[j].type
                     /\ e.inode_table[j].block = c.inode_table[j].block
                     /\ e.inode_table[j].sub = c.inode_table[j].sub
                     /\ \A b \in Owned(c.inode_table[j]) :
                          e.dirents[b] = c.dirents[b] /\ e.text[b] = c.text[b]
  BY DEF Near
<1>1. Owned(d.inode_table[j]) = Owned(c.inode_table[j])
  BY DEF Near, Owned
<1>. QED BY <1>1 DEF Near

(* Whoever changes the blocks F only, which no other inode owns, and of the *)
(* other inodes at most size and permissions, stays near.                   *)
SameKind(d, e, i) ==
  \A j \in Inodes : j # i => /\ e.inode_table[j].type = d.inode_table[j].type
                             /\ e.inode_table[j].block = d.inode_table[j].block
                             /\ e.inode_table[j].sub = d.inode_table[j].sub

LEMMA NearOutside ==
  ASSUME NEW d, NEW e, NEW i, NEW F, SameKind(d, e, i),
         \A j \in Inodes : j # i => Owned(d.inode_table[j]) \subseteq Blocks \ F,
         \A b \in Blocks \ F : e.dirents[b] = d.dirents[b] /\ e.text[b] = d.text[b]
  PROVE  Near(d, e, i)
BY DEF Near, SameKind

LEMMA Stays ==
  ASSUME NEW c, NEW i, NEW d \in Around(c, i), NEW e, Sound(e), NEW F, SameKind(d, e, i),
         \A j \in Inodes : j # i => Owned(d.inode_table[j]) \cap F = {},
         \A b \in Blocks \ F : e.dirents[b] = d.dirents[b] /\ e.text[b] = d.text[b]
  PROVE  e \in Around(c, i)
<1>1. \A j \in Inodes : Owned(d.inode_table[j]) \subseteq Blocks
  BY DEF Around, Sound, OwnsBlocks, Disk
<1>2. Near(d, e, i)
  BY <1>1, NearOutside
<1>3. Near(c, e, i)
  BY <1>2, NearTrans DEF Around
<1>. QED BY <1>3 DEF Around, Sound

(* Whoever leaves the blocks alone stays near.                              *)
LEMMA StaysSame ==
  ASSUME NEW c, NEW i, NEW d \in Around(c, i), NEW e, Sound(e), SameKind(d, e, i),
         e.dirents = d.dirents, e.text = d.text
  PROVE  e \in Around(c, i)
<1>1. \A j \in Inodes : j # i => Owned(d.inode_table[j]) \cap {} = {}
  OBVIOUS
<1>2. \A b \in Blocks \ {} : e.dirents[b] = d.dirents[b] /\ e.text[b] = d.text[b]
  OBVIOUS
<1>. QED BY <1>1, <1>2, Stays

(* The blocks no inode may refer to.                                        *)
LEMMA UnmarkedUnowned ==
  ASSUME NEW d, Sound(d), NEW b, b \notin d.block_bitmap
  PROVE  \A j \in Inodes : Owned(d.inode_table[j]) \cap {b} = {}
BY DEF Sound, OwnsBlocks

LEMMA MarkBlockSound ==
  ASSUME NEW d, Sound(d), NEW b \in Blocks
  PROVE  /\ Sound(MarkBlock(d, b))
         /\ MarkBlock(d, b).inode_table = d.inode_table
         /\ MarkBlock(d, b).dirents = d.dirents /\ MarkBlock(d, b).text = d.text
         /\ MarkBlock(d, b).block_bitmap = d.block_bitmap \cup {b}
<1>. DEFINE e == MarkBlock(d, b)
<1>1. /\ e \in Disk /\ e.inode_table = d.inode_table /\ e.dirents = d.dirents
      /\ e.text = d.text /\ e.block_bitmap = d.block_bitmap \cup {b}
  <2>1. d \in Disk
    BY DEF Sound
  <2>. QED BY <2>1 DEF MarkBlock, Disk
<1>. HIDE DEF e
<1>2. OwnsBlocks(e)
  BY <1>1 DEF OwnsBlocks, Sound
<1>3. IsClean(e)
  BY <1>1 DEF IsClean, Sound, FreeBlocks
<1>. QED BY <1>1, <1>2, <1>3 DEF Sound, e

LEMMA NewBlockSound ==
  ASSUME NEW d, Sound(d), CanNewBlock(d)
  PROVE  /\ Sound(new_block(d)) /\ NextBlock(d) \in Blocks /\ NextBlock(d) \notin d.block_bitmap
         /\ new_block(d).inode_table = d.inode_table
         /\ new_block(d).dirents = d.dirents /\ new_block(d).text = d.text
         /\ new_block(d).block_bitmap = d.block_bitmap \cup {NextBlock(d)}
<1>. DEFINE e == new_block(d)
            b == NextBlock(d)
<1>0. d \in Disk /\ e \in Disk /\ b \in Blocks /\ b \notin d.block_bitmap
  BY NewBlockType DEF Sound
<1>1. /\ e.inode_table = d.inode_table /\ e.dirents = d.dirents
      /\ e.text = d.text /\ e.block_bitmap = d.block_bitmap \cup {b}
  <2>. HIDE DEF b
  <2>. QED BY <1>0 DEF new_block, Disk, b
<1>. HIDE DEF e, b
<1>2. OwnsBlocks(e)
  BY <1>0, <1>1 DEF OwnsBlocks, Sound
<1>3. IsClean(e)
  BY <1>1 DEF IsClean, Sound, FreeBlocks
<1>. QED BY <1>0, <1>1, <1>2, <1>3 DEF Sound, e, b

(* A list of images of G, the last of them e.                               *)
Leaves(s, G, e) == s \in Seq(G) /\ s # <<>> /\ Last(s) = e

LEMMA LeavesOne ==
  ASSUME NEW G, NEW d \in G, NEW e \in G
  PROVE  Leaves(<<e>>, G, e) /\ Leaves(<<d, e>>, G, e)
BY DEF Leaves, Last

LEMMA LeavesThen ==
  ASSUME NEW G, NEW s, NEW t, NEW d, NEW e, Leaves(s, G, d), Leaves(t, G, e)
  PROVE  Leaves(s \o t, G, e) /\ d \in G
<1>1. /\ s \in Seq(G) /\ Len(s) \in Nat /\ Len(s) # 0 /\ d = s[Len(s)]
      /\ t \in Seq(G) /\ Len(t) \in Nat /\ Len(t) # 0 /\ e = t[Len(t)]
  BY DEF Leaves, Last
<1>2. /\ s \o t \in Seq(G) /\ Len(s \o t) = Len(s) + Len(t)
      /\ (s \o t)[Len(s) + Len(t)] = t[Len(t)]
  BY <1>1
<1>3. s \o t # <<>>
  BY <1>1, <1>2
<1>. QED BY <1>1, <1>2, <1>3 DEF Leaves, Last

LEMMA NewBlockWrites ==
  ASSUME NEW c, NEW i, NEW d \in Around(c, i), CanNewBlock(d)
  PROVE  Leaves(new_block_writes(d), Around(c, i), new_block(d))
<1>. DEFINE b == NextBlock(d)
<1>0. Sound(d)
  BY DEF Around
<1>1. /\ b \in Blocks /\ Sound(new_block(d)) /\ new_block(d).inode_table = d.inode_table
      /\ new_block(d).dirents = d.dirents /\ new_block(d).text = d.text
  BY <1>0, NewBlockSound
<1>2. /\ Sound(MarkBlock(d, b)) /\ MarkBlock(d, b).inode_table = d.inode_table
      /\ MarkBlock(d, b).dirents = d.dirents /\ MarkBlock(d, b).text = d.text
  BY <1>0, <1>1, MarkBlockSound
<1>. HIDE DEF b
<1>3. MarkBlock(d, b) \in Around(c, i)
  <2>1. SameKind(d, MarkBlock(d, b), i)
    BY <1>2 DEF SameKind
  <2>. QED BY <1>2, <2>1, StaysSame
<1>4. new_block(d) \in Around(c, i)
  <2>1. SameKind(d, new_block(d), i)
    BY <1>1 DEF SameKind
  <2>. QED BY <1>1, <2>1, StaysSame
<1>. QED BY <1>3, <1>4, LeavesOne DEF new_block_writes, b

LEMMA NewInodeWrites ==
  ASSUME NEW d, Sound(d), CanNewInode(d)
  PROVE  Leaves(new_inode_writes(d), Around(d, NextInode(d)), new_inode(d))
<1>. DEFINE i == NextInode(d)
            m == MarkInode(d, i)
            z == [MarkInode(d, i) EXCEPT !.inode_table[i] = init_inode]
            e == new_inode(d)
<1>0. d \in Disk /\ i \in Inodes /\ Sound(e) /\ init_inode \in Inode
  BY NewInodeSound, ZeroInode DEF Sound
<1>1. /\ m \in Disk /\ m.inode_table = d.inode_table /\ m.dirents = d.dirents
      /\ m.text = d.text /\ m.block_bitmap = d.block_bitmap
  <2>. HIDE DEF i
  <2>. QED BY <1>0 DEF MarkInode, Disk
<1>2. /\ z \in Disk /\ z.inode_table = [d.inode_table EXCEPT ![i] = init_inode]
      /\ z.dirents = d.dirents /\ z.text = d.text /\ z.block_bitmap = d.block_bitmap
  <2>. HIDE DEF i
  <2>1. z = [m EXCEPT !.inode_table = [@ EXCEPT ![i] = init_inode]]
    BY <1>0, <1>1 DEF Disk
  <2>. HIDE DEF m, z
  <2>. QED BY <1>0, <1>1, <2>1 DEF Disk
<1>3. /\ e.inode_table = [d.inode_table EXCEPT ![i] = init_inode]
      /\ e.dirents = d.dirents /\ e.text = d.text /\ e.block_bitmap = d.block_bitmap
  <2>. HIDE DEF i
  <2>. QED BY <1>0 DEF new_inode, Disk, i
<1>. HIDE DEF i, m, z, e
<1>4. d \in Around(d, i)
  BY NearSelf
<1>5. m \in Around(d, i)
  <2>1. Sound(m)
    BY <1>1, SameBlocks, SameData DEF Sound
  <2>2. SameKind(d, m, i)
    BY <1>1 DEF SameKind
  <2>. QED BY <1>1, <1>4, <2>1, <2>2, StaysSame
<1>6. \A j \in Inodes : j # i => [d.inode_table EXCEPT ![i] = init_inode][j] = d.inode_table[j]
  BY <1>0 DEF Disk
<1>7. z \in Around(d, i)
  <2>1. OwnsBlocks(z)
    BY <1>0, <1>2, <1>3, SameBlocks DEF Sound
  <2>2. IsClean(z)
    BY <1>0, <1>2, SameData DEF Sound
  <2>3. SameKind(d, z, i)
    BY <1>2, <1>6 DEF SameKind
  <2>4. Sound(z)
    BY <1>2, <2>1, <2>2 DEF Sound
  <2>. QED BY <1>2, <1>4, <2>3, <2>4, StaysSame
<1>8. e \in Around(d, i)
  <2>1. SameKind(d, e, i)
    BY <1>3, <1>6 DEF SameKind
  <2>. QED BY <1>0, <1>3, <1>4, <2>1, StaysSame
<1>9. new_inode_writes(d) = <<m, z>> \o <<e>>
  BY DEF new_inode_writes, i, m, z, e
<1>10. Leaves(<<m, z>>, Around(d, i), z) /\ Leaves(<<e>>, Around(d, i), e)
  BY <1>5, <1>7, <1>8, LeavesOne
<1>. QED BY <1>9, <1>10, LeavesThen DEF i, e

LEMMA AppendStays ==
  ASSUME NEW c, NEW i, NEW d \in Around(c, i), NEW b \in d.block_bitmap, NEW x \in DirEntry,
         \A j \in Inodes : j # i => Owned(d.inode_table[j]) \cap {b} = {}
  PROVE  /\ AppendEntry(d, b, x) \in Around(c, i)
         /\ AppendEntry(d, b, x).inode_table = d.inode_table
         /\ AppendEntry(d, b, x).block_bitmap = d.block_bitmap
<1>. DEFINE e == AppendEntry(d, b, x)
<1>0. Sound(d) /\ d \in Disk /\ b \in Blocks
  BY DEF Around, Disk
<1>1. Sound(e) /\ e.block_bitmap = d.block_bitmap
  BY <1>0, AppendEntrySound
<1>2. /\ e.inode_table = d.inode_table /\ e.text = d.text
      /\ \A a \in Blocks \ {b} : e.dirents[a] = d.dirents[a]
  BY <1>0 DEF AppendEntry, Disk
<1>. HIDE DEF e
<1>3. SameKind(d, e, i)
  BY <1>2 DEF SameKind
<1>4. e \in Around(c, i)
  BY <1>1, <1>2, <1>3, Stays
<1>. QED BY <1>1, <1>2, <1>4 DEF e

(* A list of images of G, but for the last one, which is e.                 *)
Runs(s, G, e) ==
  s \in Seq(G \cup {e}) /\ s # <<>> /\ Last(s) = e /\ \A k \in 1 .. Len(s) - 1 : s[k] \in G

LEMMA RunsOne ==
  ASSUME NEW G, NEW e
  PROVE  Runs(<<e>>, G, e) /\ \A d \in G : Runs(<<d, e>>, G, e)
BY DEF Runs, Last

LEMMA RunsThen ==
  ASSUME NEW G, NEW s, NEW t, NEW d, NEW e, Leaves(s, G, d), Runs(t, G, e)
  PROVE  Runs(s \o t, G, e)
<1>. DEFINE H == G \cup {e}
<1>1. /\ s \in Seq(G) /\ Len(s) \in Nat /\ Len(s) # 0
      /\ t \in Seq(H) /\ Len(t) \in Nat /\ Len(t) # 0 /\ e = t[Len(t)]
      /\ \A k \in 1 .. Len(t) - 1 : t[k] \in G
  BY DEF Leaves, Runs, Last
<1>2. s \in Seq(H) /\ \A k \in 1 .. Len(s) : s[k] \in G
  BY <1>1
<1>. HIDE DEF H
<1>3. /\ s \o t \in Seq(H) /\ Len(s \o t) = Len(s) + Len(t)
      /\ \A j \in 1 .. Len(s) : (s \o t)[j] = s[j]
      /\ \A j \in 1 .. Len(s) + Len(t) : j > Len(s) => (s \o t)[j] = t[j - Len(s)]
  BY <1>1, <1>2, ConcatParts
<1>4. (s \o t)[Len(s) + Len(t)] = t[Len(t)] /\ s \o t # <<>>
  BY <1>1, <1>3
<1>5. ASSUME NEW k \in 1 .. Len(s \o t) - 1
      PROVE  (s \o t)[k] \in G
  <2>1. CASE k <= Len(s)
    BY <1>1, <1>2, <1>3, <2>1
  <2>2. CASE k > Len(s)
    <3>1. k \in 1 .. Len(s) + Len(t) /\ k - Len(s) \in 1 .. Len(t) - 1
      BY <1>1, <1>3, <2>2
    <3>. QED BY <1>1, <1>3, <2>2, <3>1
  <2>. QED BY <1>1, <1>3, <2>1, <2>2
<1>. QED BY <1>1, <1>3, <1>4, <1>5 DEF Runs, Last, H

LEMMA RunsOf ==
  ASSUME NEW G, NEW s, NEW e, Leaves(s, G, e)
  PROVE  Runs(s, G, e) /\ e \in G
<1>1. /\ s \in Seq(G) /\ Len(s) \in Nat /\ Len(s) # 0 /\ e = s[Len(s)]
  BY DEF Leaves, Last
<1>2. s \in Seq(G \cup {e})
  BY <1>1
<1>. QED BY <1>1, <1>2 DEF Runs, Last, Leaves

-----------------------------------------------------------------------------
(* Sizes and counters show nothing.                                         *)
LEMMA AddSizeStays ==
  ASSUME NEW c, NEW i, NEW d \in Around(c, i), NEW p \in Inodes, NEW n \in Int
  PROVE  AddSize(d, p, n) \in Around(c, i)
<1>. DEFINE e == AddSize(d, p, n)
            m == [d.inode_table[p] EXCEPT !.size = (@ + n) % UINT32]
<1>0. Sound(d) /\ d \in Disk /\ d.inode_table[p] \in Inode
  BY InodeType DEF Around
<1>1. Sound(e)
  BY <1>0, AddSizeSound
<1>2. /\ m.type = d.inode_table[p].type /\ m.block = d.inode_table[p].block
      /\ m.sub = d.inode_table[p].sub
  BY <1>0 DEF Inode
<1>3. e = [d EXCEPT !.inode_table = [@ EXCEPT ![p] = m]]
  BY <1>0 DEF AddSize, Disk
<1>. HIDE DEF m, e
<1>4. /\ e.dirents = d.dirents /\ e.text = d.text
      /\ e.inode_table = [d.inode_table EXCEPT ![p] = m]
  BY <1>0, <1>3 DEF Disk
<1>5. SameKind(d, e, i)
  <2>1. \A j \in Inodes : e.inode_table[j] = IF j = p THEN m ELSE d.inode_table[j]
    BY <1>0, <1>4 DEF Disk
  <2>. QED BY <1>2, <2>1 DEF SameKind
<1>. QED BY <1>1, <1>4, <1>5, StaysSame DEF e

LEMMA CountDirStays ==
  ASSUME NEW c, NEW i, NEW d \in Around(c, i)
  PROVE  CountDir(d) \in Around(c, i)
<1>1. Sound(d) /\ d \in Disk
  BY DEF Around
<1>2. Sound(CountDir(d))
  BY <1>1, CountDirSound
<1>3. /\ CountDir(d).dirents = d.dirents /\ CountDir(d).text = d.text
      /\ CountDir(d).inode_table = d.inode_table
  BY <1>1 DEF CountDir, Disk
<1>4. SameKind(d, CountDir(d), i)
  BY <1>3 DEF SameKind
<1>. QED BY <1>2, <1>3, <1>4, StaysSame

LEMMA NewFileStays ==
  ASSUME NEW c, NEW i \in Inodes, NEW d \in Around(c, i), NEW name
  PROVE  NewFile(d, i, name) \in Around(c, i)
<1>. DEFINE e == [d EXCEPT !.inode_table[i].type = FT_REG_FILE, !.inode_table[i].perm = {4, 2, 1}]
<1>0. Sound(d) /\ d \in Disk /\ {4, 2, 1} \in SUBSET Bits
  BY DEF Around, Bits
<1>1. Sound(e)
  BY <1>0, ModeSound
<1>2. /\ e.dirents = d.dirents /\ e.text = d.text
      /\ \A j \in Inodes : j # i => e.inode_table[j] = d.inode_table[j]
  BY <1>0 DEF Disk
<1>3. SameKind(d, e, i)
  BY <1>2 DEF SameKind
<1>4. e \in Around(c, i)
  BY <1>1, <1>2, <1>3, StaysSame
<1>. QED BY <1>4 DEF NewFile

-----------------------------------------------------------------------------
(* A directory's entries go into a block that nothing names yet.            *)
LEMMA NewDirectoryWritesLeave ==
  ASSUME NEW c, NEW i \in Inodes, NEW d \in Around(c, i), CanNewBlock(d), NEW parent \in Inodes
  PROVE  Leaves(NewDirectoryWrites(d, i, parent), Around(c, i), NewDirectory(d, i, parent))
<1>. DEFINE b  == NextBlock(d)
            s  == new_block_writes(d)
            x1 == NewEntry(Dot, FT_DIR, i)
            x2 == NewEntry(DotDot, FT_DIR, parent)
            d0 == new_block(d)
            d1 == AppendEntry(d0, b, x1)
            d2 == AppendEntry(d1, b, x2)
            e  == NewDirectory(d, i, parent)
            t  == TakeBlock(d, i)
<1>0. Sound(d) /\ d \in Disk /\ x1 \in DirEntry /\ x2 \in DirEntry
  BY ConstAssumption, NewEntryType DEF Around
<1>1. Leaves(s, Around(c, i), d0)
  BY NewBlockWrites
<1>2. d0 \in Around(c, i) /\ s # <<>> /\ Last(s) = d0
  <2>. HIDE DEF s, d0
  <2>. QED BY <1>1, RunsOf DEF Leaves
<1>3. /\ b \in d0.block_bitmap /\ b \in Blocks /\ d0.inode_table = d.inode_table
      /\ b \notin d.block_bitmap
  BY <1>0, NewBlockSound
<1>4. \A j \in Inodes : Owned(d.inode_table[j]) \cap {b} = {}
  BY <1>0, <1>3, UnmarkedUnowned
<1>5. NewDirectoryWrites(d, i, parent) = s \o <<d1, d2, e>>
  <2>. HIDE DEF s, d0, d1, d2, e, x1, x2, b
  <2>. QED BY <1>2 DEF NewDirectoryWrites, s, b, x1, x2, d1, d2, e
<1>. HIDE DEF b, s, x1, x2, d0
<1>6. d1 \in Around(c, i) /\ d1.inode_table = d.inode_table /\ b \in d1.block_bitmap
  BY <1>0, <1>2, <1>3, <1>4, AppendStays
<1>. HIDE DEF d1
<1>7. d2 \in Around(c, i)
  BY <1>0, <1>4, <1>6, AppendStays
<1>8. e \in Around(c, i)
  <2>1. Sound(e)
    BY <1>0, NewDirectorySound
  <2>2. /\ Sound(t) /\ b \in t.block_bitmap /\ t.dirents = d.dirents /\ t.text = d.text
        /\ \A j \in Inodes : j # i => t.inode_table[j] = d.inode_table[j]
    <3>1. /\ Sound(t) /\ b \in t.block_bitmap /\ t.dirents = d.dirents /\ t.text = d.text
      BY <1>0, TakeBlockSound DEF b
    <3>2. new_block(d).inode_table = d.inode_table /\ new_block(d) \in Disk
      BY <1>0, NewBlockSound DEF Sound
    <3>3. \A j \in Inodes : j # i => t.inode_table[j] = d.inode_table[j]
      BY <3>2 DEF TakeBlock, Disk
    <3>. QED BY <3>1, <3>3
  <2>3. e = AppendEntry(AppendEntry(t, b, x1), b, x2)
    BY DEF NewDirectory, TakeBlock, AppendDots, x1, x2, b
  <2>. HIDE DEF t, e
  <2>4. t \in Around(c, i)
    <3>1. SameKind(d, t, i)
      BY <2>2 DEF SameKind
    <3>. QED BY <2>2, <3>1, StaysSame
  <2>5. \A j \in Inodes : j # i => Owned(t.inode_table[j]) \cap {b} = {}
    BY <1>4, <2>2
  <2>6. /\ AppendEntry(t, b, x1) \in Around(c, i)
        /\ AppendEntry(t, b, x1).inode_table = t.inode_table
        /\ b \in AppendEntry(t, b, x1).block_bitmap
    BY <1>0, <2>2, <2>4, <2>5, AppendStays
  <2>. QED BY <1>0, <2>3, <2>5, <2>6, AppendStays
<1>. HIDE DEF d2, e
<1>9. Leaves(<<d1, d2, e>>, Around(c, i), e)
  BY <1>6, <1>7, <1>8 DEF Leaves, Last
<1>. QED BY <1>1, <1>5, <1>9, LeavesThen DEF e

LEMMA ObjectWritesLeave ==
  ASSUME NEW c, NEW i \in Inodes, NEW d \in Around(c, i), NEW parent \in Inodes,
         NEW name, NEW type, ~ BlocksRunOut(d, type)
  PROVE  Leaves(ObjectWrites(d, i, name, type, parent), Around(c, i),
                IF type # FT_DIR THEN NewFile(d, i, name)
                ELSE IF d.free_blocks = 0 THEN CountDir(d)
                ELSE NewDirectory(CountDir(d), i, parent))
<1>. DEFINE d1 == CountDir(d)
<1>0. Sound(d) /\ d1 \in Around(c, i)
  BY CountDirStays DEF Around
<1>1. CASE type # FT_DIR
  <2>1. Leaves(<<NewFile(d, i, name)>>, Around(c, i), NewFile(d, i, name))
    BY NewFileStays, LeavesOne
  <2>. QED BY <1>1, <2>1 DEF ObjectWrites
<1>2. CASE type = FT_DIR /\ d.free_blocks = 0
  <2>1. Leaves(<<d1>>, Around(c, i), d1)
    BY <1>0, LeavesOne
  <2>. QED BY <1>2, <2>1 DEF ObjectWrites
<1>3. CASE type = FT_DIR /\ d.free_blocks # 0
  <2>1. d1.block_bitmap = d.block_bitmap /\ d1.free_blocks = d.free_blocks
    BY <1>0, CountDirSound
  <2>2. d.free_blocks \in Nat
    BY <1>0 DEF Sound, Disk
  <2>. HIDE DEF d1
  <2>3. CanNewBlock(d1)
    BY <1>3, <2>1, <2>2 DEF BlocksRunOut, CanNewBlock, FreeBlocks
  <2>4. Leaves(NewDirectoryWrites(d1, i, parent), Around(c, i), NewDirectory(d1, i, parent))
    BY <1>0, <2>3, NewDirectoryWritesLeave
  <2>5. Leaves(<<d1>>, Around(c, i), d1)
    BY <1>0, LeavesOne
  <2>6. Leaves(<<d1>> \o NewDirectoryWrites(d1, i, parent), Around(c, i), NewDirectory(d1, i, parent))
    BY <2>4, <2>5, LeavesThen
  <2>7. ObjectWrites(d, i, name, type, parent) = <<d1>> \o NewDirectoryWrites(d1, i, parent)
    BY <1>3 DEF ObjectWrites, d1
  <2>. QED BY <1>3, <2>6, <2>7 DEF d1
<1>. QED BY <1>1, <1>2, <1>3

(* Whoever reaches the index block leaves its mark in the inode.            *)
LEMMA IndexReached ==
  ASSUME NEW d, Sound(d), NEW p \in Inodes, NEW st, ReachIndex(d, p, st),
         Len(d.inode_table[p].block) >= DIRECT, status' # "undefined"
  PROVE  Len(disk'.inode_table[p].block) > DIRECT \/ disk'.inode_table[p].sub # <<>>
<1>. DEFINE n  == d.inode_table[p]
            d1 == IndexBlock(d, p)
<1>0. d \in Disk /\ n \in Inode /\ n.block \in Seq(Blocks) /\ DIRECT \in Nat
  BY InodeType, ConstAssumption DEF Sound
<1>1. /\ Len(n.block) = DIRECT => CanNewBlock(d)
      /\ \/ disk' = d1
         \/ CanNewBlock(d1) /\ disk' = AddSub(d1, p)
  BY DEF ReachIndex, Saves, Undefined
<1>2. Sound(d1) /\ Len(d1.inode_table[p].block) > DIRECT
  <2>1. Sound(d1)
    BY <1>1, IndexBlockSound
  <2>2. CASE Len(n.block) = DIRECT
    <3>1. d1.inode_table[p].block = Append(n.block, NextBlock(d))
      BY <1>1, <2>2, AddBlockSound DEF IndexBlock
    <3>. QED BY <1>0, <2>1, <2>2, <3>1
  <2>3. CASE Len(n.block) # DIRECT
    BY <1>0, <2>1, <2>3 DEF IndexBlock
  <2>. QED BY <2>2, <2>3
<1>. HIDE DEF d1
<1>3. CASE disk' = d1
  BY <1>2, <1>3
<1>4. CASE CanNewBlock(d1) /\ disk' = AddSub(d1, p)
  <2>. DEFINE b == NextBlock(d1)
  <2>1. d1 \in Disk /\ b \in Blocks /\ new_block(d1).inode_table = d1.inode_table
    BY <1>2, <1>4, NewBlockSound DEF Sound
  <2>2. new_block(d1) \in Disk /\ d1.inode_table[p] \in Inode
    BY <1>2, <1>4, <2>1, NewBlockSound, InodeType DEF Sound
  <2>. HIDE DEF b
  <2>3. disk'.inode_table[p].block = d1.inode_table[p].block
    BY <1>4, <2>1, <2>2 DEF AddSub, Disk, Inode, b
  <2>. QED BY <1>2, <2>3
<1>. QED BY <1>1, <1>3, <1>4

(* The last image of AppendWrites is the first that shows the entry.        *)
LEMMA AppendWritesRun ==
  ASSUME NEW c, NEW i, NEW d \in Around(c, i), NEW p \in Inodes, NEW x \in DirEntry,
         handle_append_directory(d, p, x), status' # "undefined",
         Len(disk'.inode_table[p].block) <= DIRECT, disk'.inode_table[p].sub = <<>>
  PROVE  Runs(AppendWrites(d, p, x), Around(c, i), disk')
<1>. DEFINE k == FirstWithRoom(d, p, x)
            b == NextBlock(d)
            s == new_block_writes(d)
            n == d.inode_table[p]
<1>0. Sound(d) /\ d \in Disk /\ n \in Inode /\ n.block \in Seq(Blocks) /\ DIRECT \in Nat
  BY InodeType, ConstAssumption DEF Around
<1>1. k \in Nat
  <2>1. k \in {0} \cup DOMAIN n.block
    BY <1>0, FirstWithRoomType
  <2>. QED BY <1>0, <2>1
<1>2. CASE k > 0
  <2>1. disk' = AppendEntry(d, n.block[k], x)
    BY <1>2 DEF handle_append_directory, StoreEntry, Saves, Undefined
  <2>2. AppendWrites(d, p, x) = <<disk'>>
    BY <1>2, <2>1 DEF AppendWrites
  <2>. QED BY <2>2, RunsOne
<1>3. CASE k = 0 /\ Len(n.block) < DIRECT
  <2>. DEFINE d1 == AppendEntry(new_block(d), b, x)
  <2>1. CanNewBlock(d) /\ disk' = AppendEntry(AddBlock(d, p), b, x)
    BY <1>0, <1>3 DEF handle_append_directory, StoreEntry, Saves, Undefined
  <2>2. Leaves(s, Around(c, i), new_block(d))
    BY <2>1, NewBlockWrites
  <2>3. new_block(d) \in Around(c, i) /\ Last(s) = new_block(d)
    <3>. HIDE DEF s
    <3>. QED BY <2>2, RunsOf DEF Leaves
  <2>4. d1 \in Around(c, i)
    <3>1. /\ b \in new_block(d).block_bitmap /\ new_block(d).inode_table = d.inode_table
          /\ b \notin d.block_bitmap
      BY <1>0, <2>1, NewBlockSound
    <3>2. \A j \in Inodes : Owned(d.inode_table[j]) \cap {b} = {}
      BY <1>0, <3>1, UnmarkedUnowned
    <3>. HIDE DEF b
    <3>. QED BY <2>3, <3>1, <3>2, AppendStays
  <2>5. AppendWrites(d, p, x) = s \o <<d1, disk'>>
    <3>. HIDE DEF s
    <3>. QED BY <1>3, <2>1, <2>3 DEF AppendWrites, s
  <2>. HIDE DEF s, d1
  <2>6. Runs(<<d1, disk'>>, Around(c, i), disk')
    BY <2>4, RunsOne
  <2>. QED BY <2>2, <2>5, <2>6, RunsThen
<1>4. CASE k = 0 /\ Len(n.block) >= DIRECT
  <2>1. ReachIndex(d, p, "shell")
    BY <1>0, <1>4 DEF handle_append_directory
  <2>2. FALSE
    BY <1>0, <1>4, <2>1, IndexReached
  <2>. QED BY <2>2
<1>. QED BY <1>0, <1>1, <1>2, <1>3, <1>4

(* mkdir and create.                                                        *)
LEMMA MakeWritesRun ==
  ASSUME IInv, NEW name \in Names, NEW type \in {FT_REG_FILE, FT_DIR}, MakeEntry(name, type),
         status' # "undefined", NoIndex(current_dir)
  PROVE  Runs(MakeWrites(name, type), Around(disk, NewInode), disk')
<1>. DEFINE p  == current_dir
            i  == NextInode(disk)
            x  == NewEntry(name, type, i)
            G  == Around(disk, i)
            d0 == new_inode(disk)
            d1 == NewObject(d0, i, name, type)
            d2 == AddSize(d1, p, RecLen(name))
            s0 == new_inode_writes(disk)
            t1 == ObjectWrites(d0, i, name, type, p)
            t3 == AppendWrites(d2, p, x)
<1>0. Sound(disk) /\ p \in Inodes /\ RecLen(name) \in Int
  BY IInvIsSound, NamesType DEF MemoryOK
<1>1. CASE disk.free_inodes = 0
  <2>1. disk' = AddSize(disk, p, RecLen(name))
    BY <1>0, <1>1 DEF MakeEntry, Saves, Sound, Disk
  <2>2. MakeWrites(name, type) = <<disk'>>
    BY <1>1, <2>1 DEF MakeWrites
  <2>. QED BY <2>2, RunsOne
<1>2. CASE disk.free_inodes # 0
  <2>1. /\ FreeInodes(disk) # {} /\ ~ BlocksRunOut(disk, type)
        /\ handle_append_directory(d2, p, x)
    BY <1>2 DEF MakeEntry, Undefined
  <2>2. CanNewInode(disk)
    BY <1>0, <1>2, <2>1 DEF CanNewInode, Sound, Disk
  <2>3. /\ i \in Inodes /\ Sound(d0)
        /\ d0.block_bitmap = disk.block_bitmap /\ d0.free_blocks = disk.free_blocks
    BY <1>0, <2>2, NewInodeSound
  <2>4. Leaves(s0, G, d0)
    BY <1>0, <2>2, NewInodeWrites
  <2>5. x \in DirEntry /\ ~ BlocksRunOut(d0, type)
    BY <2>1, <2>3, NewEntryType DEF BlocksRunOut, FreeBlocks
  <2>6. NewInode = i
    BY <1>2 DEF NewInode
  <2>. HIDE DEF i, x, d0, s0, p
  <2>7. d0 \in Around(disk, i)
    BY <2>4, RunsOf
  <2>8. Leaves(t1, G, d1)
    <3>1. CountDir(d0).free_blocks = d0.free_blocks
      BY <2>3, CountDirSound
    <3>2. d1 = IF type # FT_DIR THEN NewFile(d0, i, name)
               ELSE IF d0.free_blocks = 0 THEN CountDir(d0)
               ELSE NewDirectory(CountDir(d0), i, p)
      BY <3>1 DEF NewObject, p
    <3>. HIDE DEF d1
    <3>. QED BY <1>0, <2>3, <2>5, <2>7, <3>2, ObjectWritesLeave
  <2>. HIDE DEF d1, t1
  <2>9. d2 \in Around(disk, i) /\ Leaves(<<d2>>, G, d2)
    <3>1. d1 \in Around(disk, i)
      BY <2>8, RunsOf
    <3>2. d2 \in Around(disk, i)
      BY <1>0, <3>1, AddSizeStays
    <3>. QED BY <3>2, LeavesOne
  <2>. HIDE DEF d2
  <2>10. Runs(t3, G, disk')
    <3>1. Len(disk'.inode_table[p].block) <= DIRECT /\ disk'.inode_table[p].sub = <<>>
      BY DEF NoIndex, p
    <3>. QED BY <1>0, <2>1, <2>5, <2>9, <3>1, AppendWritesRun
  <2>. HIDE DEF t3, G
  <2>11. Leaves(s0 \o t1, G, d1)
    BY <2>4, <2>8, LeavesThen
  <2>12. Leaves((s0 \o t1) \o <<d2>>, G, d2)
    BY <2>9, <2>11, LeavesThen
  <2>13. MakeWrites(name, type) = ((s0 \o t1) \o <<d2>>) \o t3
    <3>1. Last(s0) = d0 /\ Last(s0 \o t1) = d1 /\ Last((s0 \o t1) \o <<d2>>) = d2
      BY <2>4, <2>11, <2>12 DEF Leaves
    <3>2. MakeWrites(name, type) =
            LET s1 == s0
                s2 == s1 \o ObjectWrites(Last(s1), i, name, type, p)
                s3 == s2 \o <<AddSize(Last(s2), p, RecLen(name))>>
            IN  s3 \o AppendWrites(Last(s3), p, x)
      BY <1>2 DEF MakeWrites, Then, s0, i, x, p
    <3>3. s0 \o ObjectWrites(Last(s0), i, name, type, p) = s0 \o t1
      BY <3>1 DEF t1
    <3>4. <<AddSize(Last(s0 \o t1), p, RecLen(name))>> = <<d2>>
      BY <3>1 DEF d2
    <3>5. AppendWrites(Last((s0 \o t1) \o <<d2>>), p, x) = t3
      BY <3>1 DEF t3
    <3>. QED BY <3>2, <3>3, <3>4, <3>5
  <2>. QED BY <2>6, <2>10, <2>12, <2>13, RunsThen DEF G
<1>. QED BY <1>1, <1>2

-----------------------------------------------------------------------------
(* Removals.  The inode keeps block numbers whose bits are clear already,   *)
(* so its own blocks may be handed out again; no other inode is touched.    *)
Cut(c, i) == {d \in Disk : IsClean(d) /\ Near(c, d, i)}

LEMMA AroundIsCut ==
  ASSUME NEW c, NEW i
  PROVE  Around(c, i) \subseteq Cut(c, i)
BY DEF Around, Cut, Sound

LEMMA StaysCut ==
  ASSUME NEW c, NEW i, NEW d \in Cut(c, i), NEW e \in Disk, IsClean(e), SameKind(d, e, i),
         e.dirents = d.dirents, e.text = d.text
  PROVE  e \in Cut(c, i)
<1>1. Near(d, e, i)
  BY DEF Near, SameKind
<1>2. Near(c, e, i)
  BY <1>1, NearTrans DEF Cut
<1>. QED BY <1>2 DEF Cut

LEMMA ResetStays ==
  ASSUME NEW c, Sound(c), NEW i \in Inodes, NEW B, B \subseteq Owned(c.inode_table[i])
  PROVE  /\ reset_block_entry(c, B) \in Cut(c, i)
         /\ B \subseteq Blocks
<1>. DEFINE e == reset_block_entry(c, B)
            D == [b \in Blocks |-> IF b \in B THEN <<>> ELSE c.dirents[b]]
            T == [b \in Blocks |-> IF b \in B THEN 0 ELSE c.text[b]]
<1>0. c \in Disk /\ B \subseteq Blocks
  BY DEF Sound, OwnsBlocks, Disk
<1>1. D \in [Blocks -> Seq(DirEntry)] /\ T \in [Blocks -> 0 .. CAP]
  <2>1. <<>> \in Seq(DirEntry) /\ 0 \in 0 .. CAP
    BY CapType
  <2>2. c.dirents \in [Blocks -> Seq(DirEntry)] /\ c.text \in [Blocks -> 0 .. CAP]
    BY <1>0 DEF Disk
  <2>. QED BY <2>1, <2>2
<1>2. e = [c EXCEPT !.block_bitmap = @ \ B, !.dirents = D, !.text = T]
  BY <1>0 DEF reset_block_entry, Disk
<1>. HIDE DEF e
<1>3. /\ e \in Disk /\ e.block_bitmap = c.block_bitmap \ B /\ e.inode_table = c.inode_table
      /\ e.dirents = D /\ e.text = T
  <2>. HIDE DEF D, T
  <2>. QED BY <1>0, <1>1, <1>2 DEF Disk
<1>4. IsClean(e)
  BY <1>0, <1>3 DEF IsClean, FreeBlocks, Sound
<1>5. Near(c, e, i)
  <2>1. SameKind(c, e, i)
    BY <1>3 DEF SameKind
  <2>2. \A j \in Inodes : j # i => Owned(c.inode_table[j]) \subseteq Blocks \ B
    BY <1>0 DEF Sound, OwnsBlocks, Disk
  <2>3. \A b \in Blocks \ B : e.dirents[b] = c.dirents[b] /\ e.text[b] = c.text[b]
    BY <1>3
  <2>. HIDE DEF D, T
  <2>. QED BY <2>1, <2>2, <2>3, NearOutside
<1>. QED BY <1>0, <1>3, <1>4, <1>5 DEF Cut, e

LEMMA ResetMore ==
  ASSUME NEW d \in Disk, NEW B \in SUBSET Blocks, NEW b \in Blocks
  PROVE  reset_block_entry(reset_block_entry(d, B), {b}) = reset_block_entry(d, B \cup {b})
<1>. DEFINE e == reset_block_entry(d, B)
            f == reset_block_entry(e, {b})
            g == reset_block_entry(d, B \cup {b})
<1>1. /\ f.block_bitmap = g.block_bitmap
  BY DEF reset_block_entry, Disk
<1>2. f.dirents = g.dirents
  <2>1. e.dirents = [a \in Blocks |-> IF a \in B THEN <<>> ELSE d.dirents[a]]
    BY DEF reset_block_entry, Disk
  <2>2. "dirents" \in DOMAIN e
    BY DEF reset_block_entry, Disk
  <2>. HIDE DEF e
  <2>3. f.dirents = [a \in Blocks |-> IF a \in {b} THEN <<>> ELSE e.dirents[a]]
    BY <2>2 DEF reset_block_entry
  <2>4. g.dirents = [a \in Blocks |-> IF a \in B \cup {b} THEN <<>> ELSE d.dirents[a]]
    BY DEF reset_block_entry, Disk
  <2>. QED BY <2>1, <2>3, <2>4
<1>3. f.text = g.text
  <2>1. e.text = [a \in Blocks |-> IF a \in B THEN 0 ELSE d.text[a]]
    BY DEF reset_block_entry, Disk
  <2>2. "text" \in DOMAIN e
    BY DEF reset_block_entry, Disk
  <2>. HIDE DEF e
  <2>3. f.text = [a \in Blocks |-> IF a \in {b} THEN 0 ELSE e.text[a]]
    BY <2>2 DEF reset_block_entry
  <2>4. g.text = [a \in Blocks |-> IF a \in B \cup {b} THEN 0 ELSE d.text[a]]
    BY DEF reset_block_entry, Disk
  <2>. QED BY <2>1, <2>3, <2>4
<1>4. /\ f = [d EXCEPT !.block_bitmap = f.block_bitmap, !.dirents = f.dirents, !.text = f.text]
      /\ g = [d EXCEPT !.block_bitmap = g.block_bitmap, !.dirents = g.dirents, !.text = g.text]
  BY DEF reset_block_entry, Disk
<1>. QED BY <1>1, <1>2, <1>3, <1>4

LEMMA MarkStaysCut ==
  ASSUME NEW c, NEW i, NEW d \in Cut(c, i), NEW b \in Blocks
  PROVE  MarkBlock(d, b) \in Cut(c, i)
<1>. DEFINE e == MarkBlock(d, b)
<1>1. d \in Disk /\ IsClean(d)
  BY DEF Cut
<1>2. /\ e \in Disk /\ e.inode_table = d.inode_table /\ e.dirents = d.dirents
      /\ e.text = d.text /\ e.block_bitmap = d.block_bitmap \cup {b}
  BY <1>1 DEF MarkBlock, Disk
<1>. HIDE DEF e
<1>3. IsClean(e)
  BY <1>1, <1>2 DEF IsClean, FreeBlocks
<1>4. SameKind(d, e, i)
  BY <1>2 DEF SameKind
<1>. QED BY <1>2, <1>3, <1>4, StaysCut DEF e

(* A step of a list of writes.                                              *)
LEMMA LeavesNext ==
  ASSUME NEW G, NEW s, NEW d, NEW e \in G, Leaves(s, G, d)
  PROVE  Leaves(s \o <<e>>, G, e) /\ \A x \in G : Leaves(s \o <<x, e>>, G, e)
<1>1. Leaves(<<e>>, G, e) /\ \A x \in G : Leaves(<<x, e>>, G, e)
  BY LeavesOne
<1>. QED BY <1>1, LeavesThen

LEMMA ResetInodeStays ==
  ASSUME NEW c, NEW i \in Inodes, NEW d \in Cut(c, i)
  PROVE  /\ reset_inode_table(d, i) \in Cut(c, i)
         /\ MarkInode(reset_inode_table(d, i), i) \in Cut(c, i)
<1>. DEFINE e == reset_inode_table(d, i)
            m == MarkInode(e, i)
<1>1. d \in Disk /\ IsClean(d)
  BY DEF Cut
<1>2. e = [d EXCEPT !.inode_table = [@ EXCEPT ![i] = NoInode], !.inode_bitmap = @ \ {i}]
  BY <1>1 DEF reset_inode_table, Disk
<1>. HIDE DEF e
<1>3. /\ e \in Disk /\ e.inode_table = [d.inode_table EXCEPT ![i] = NoInode]
      /\ e.dirents = d.dirents /\ e.text = d.text /\ e.block_bitmap = d.block_bitmap
  BY <1>1, <1>2, ZeroInode DEF Disk
<1>4. /\ m \in Disk /\ m.inode_table = e.inode_table
      /\ m.dirents = e.dirents /\ m.text = e.text /\ m.block_bitmap = e.block_bitmap
  BY <1>3 DEF MarkInode, Disk
<1>. HIDE DEF m
<1>5. IsClean(e) /\ IsClean(m)
  BY <1>1, <1>3, <1>4, SameData
<1>6. SameKind(d, e, i) /\ SameKind(d, m, i)
  <2>1. \A j \in Inodes : j # i => e.inode_table[j] = d.inode_table[j]
    BY <1>1, <1>3 DEF Disk
  <2>. QED BY <1>4, <2>1 DEF SameKind
<1>7. e \in Cut(c, i)
  BY <1>3, <1>5, <1>6, StaysCut
<1>8. m \in Cut(c, i)
  BY <1>3, <1>4, <1>5, <1>6, StaysCut
<1>. QED BY <1>7, <1>8 DEF e, m

(* Block after block is zeroed and its bit cleared.                         *)
Reset(bs, k) == reset_block_entry(disk, {bs[m] : m \in 1 .. k})

LEMMA ResetWritesLeave ==
  ASSUME Sound(disk), NEW i \in Inodes, NEW bs \in Seq(Blocks),
         \A m \in 1 .. Len(bs) : bs[m] \in Owned(disk.inode_table[i]),
         NEW k \in 1 .. Len(bs), NEW s, Leaves(s, Cut(disk, i), Reset(bs, k - 1))
  PROVE  Leaves(Then(s, LAMBDA d : reset_block_writes(d, bs[k])), Cut(disk, i), Reset(bs, k))
<1>. DEFINE G == Cut(disk, i)
            B == {bs[m] : m \in 1 .. k - 1}
            d == Reset(bs, k - 1)
            e == Reset(bs, k)
<1>0. disk \in Disk /\ k \in Nat /\ bs[k] \in Blocks /\ B \in SUBSET Blocks
  BY DEF Sound
<1>1. B \cup {bs[k]} = {bs[m] : m \in 1 .. k}
  OBVIOUS
<1>2. reset_block_entry(d, {bs[k]}) = e
  <2>1. d = reset_block_entry(disk, B) /\ e = reset_block_entry(disk, B \cup {bs[k]})
    BY <1>1 DEF Reset
  <2>. HIDE DEF B, d, e
  <2>. QED BY <1>0, <2>1, ResetMore
<1>3. e \in G /\ MarkBlock(e, bs[k]) \in G
  <2>1. {bs[m] : m \in 1 .. k} \subseteq Owned(disk.inode_table[i])
    BY <1>0
  <2>2. e \in G
    BY <2>1, ResetStays DEF Reset
  <2>. HIDE DEF e
  <2>. QED BY <1>0, <2>2, MarkStaysCut
<1>. HIDE DEF d, e, G
<1>4. Last(s) = d
  BY DEF Leaves, d
<1>5. Then(s, LAMBDA x : reset_block_writes(x, bs[k])) = s \o <<MarkBlock(e, bs[k]), e>>
  BY <1>2, <1>4 DEF Then, reset_block_writes
<1>. QED BY <1>3, <1>5, LeavesNext DEF d, e, G

Freed(i) ==
  reset_inode_table(reset_block_entry(disk, Range(DataBlocks(disk.inode_table[i]))), i)

LEMMA FreeWritesLeave ==
  ASSUME Sound(disk), NEW i \in Inodes
  PROVE  Leaves(FreeWrites(i), Cut(disk, i), Freed(i))
<1>. DEFINE bs == DataBlocks(disk.inode_table[i])
            n  == Len(bs)
            G  == Cut(disk, i)
            R  == [k \in 0 .. n |-> {s \in Seq(G) : Leaves(s, G, Reset(bs, k))}]
            after[k \in 0 .. n] ==
              IF k = 0 THEN <<disk>> ELSE Then(after[k - 1], LAMBDA d : reset_block_writes(d, bs[k]))
            step == [k \in 1 .. n |-> [s \in Seq(G) |-> Then(s, LAMBDA d : reset_block_writes(d, bs[k]))]]
<1>0. /\ disk \in Disk /\ bs \in Seq(Blocks) /\ n \in Nat
      /\ \A m \in 1 .. n : bs[m] \in Owned(disk.inode_table[i])
  <2>1. disk \in Disk /\ disk.inode_table[i] \in Inode
    BY InodeType DEF Sound
  <2>. QED BY <2>1, DataBlocksType
<1>1. \A k \in 1 .. n : \A x \in R[k - 1] : step[k][x] \in R[k]
  <2>. SUFFICES ASSUME NEW k \in 1 .. n, NEW x \in R[k - 1]
                PROVE  step[k][x] \in R[k]
    OBVIOUS
  <2>0. k - 1 \in 0 .. n /\ k \in 0 .. n
    BY <1>0
  <2>1. x \in Seq(G) /\ Leaves(x, G, Reset(bs, k - 1))
    BY <2>0
  <2>2. step[k][x] = Then(x, LAMBDA d : reset_block_writes(d, bs[k]))
    BY <2>1
  <2>3. Leaves(step[k][x], G, Reset(bs, k))
    <3>. HIDE DEF bs, step
    <3>. QED BY <1>0, <2>1, <2>2, ResetWritesLeave DEF G
  <2>. HIDE DEF step
  <2>. QED BY <2>0, <2>3 DEF Leaves
<1>2. <<disk>> \in R[0]
  <2>1. {bs[m] : m \in 1 .. 0} = {}
    OBVIOUS
  <2>2. Reset(bs, 0) = disk
    BY <1>0, <2>1 DEF Reset, reset_block_entry, Disk
  <2>3. disk \in G
    BY NearSelf, AroundIsCut
  <2>4. Leaves(<<disk>>, G, disk)
    BY <2>3, LeavesOne
  <2>. QED BY <1>0, <2>2, <2>4 DEF Leaves
<1>3. Staged(n, R, <<disk>>, step)
  <2>. HIDE DEF R, n, step
  <2>. QED BY <1>0, <1>1, <1>2, Stages
<1>4. PICK f : /\ f = [k \in 0 .. n |-> IF k = 0 THEN <<disk>> ELSE step[k][f[k - 1]]]
               /\ \A k \in 0 .. n : f[k] \in R[k]
  BY <1>3 DEF Staged
<1>5. f = [k \in 0 .. n |-> IF k = 0 THEN <<disk>>
                            ELSE Then(f[k - 1], LAMBDA d : reset_block_writes(d, bs[k]))]
  <2>1. ASSUME NEW k \in 0 .. n, k # 0
        PROVE  step[k][f[k - 1]] = Then(f[k - 1], LAMBDA d : reset_block_writes(d, bs[k]))
    <3>1. k \in 1 .. n /\ k - 1 \in 0 .. n
      BY <1>0, <2>1
    <3>2. f[k - 1] \in Seq(G)
      BY <1>4, <3>1
    <3>. QED BY <3>1, <3>2
  <2>. HIDE DEF step, R
  <2>. QED BY <1>4, <2>1
<1>6. after = [k \in 0 .. n |-> IF k = 0 THEN <<disk>>
                                ELSE Then(after[k - 1], LAMBDA d : reset_block_writes(d, bs[k]))]
  <2>. HIDE DEF n, bs
  <2>. QED BY <1>5, Zenon DEF after
<1>7. FreeWrites(i) = Then(after[n], LAMBDA d : reset_inode_writes(d, i))
  BY Zenon DEF FreeWrites
<1>. HIDE DEF after, step
<1>8. \A k \in 0 .. n : after[k] \in R[k]
  <2>1. after[0] \in R[0]
    BY <1>0, <1>2, <1>6
  <2>2. ASSUME NEW k \in 1 .. n, after[k - 1] \in R[k - 1]
        PROVE  after[k] \in R[k]
    <3>1. k - 1 \in 0 .. n /\ k \in 0 .. n /\ k # 0
      BY <1>0
    <3>2. after[k - 1] \in Seq(G) /\ Leaves(after[k - 1], G, Reset(bs, k - 1))
      BY <2>2, <3>1
    <3>3. after[k] = Then(after[k - 1], LAMBDA d : reset_block_writes(d, bs[k]))
      BY <1>6, <3>1
    <3>4. Leaves(after[k], G, Reset(bs, k))
      <4>. HIDE DEF bs
      <4>. QED BY <1>0, <3>2, <3>3, ResetWritesLeave DEF G
    <3>. QED BY <3>1, <3>4 DEF Leaves
  <2>. HIDE DEF R, n
  <2>. QED BY <1>0, <2>1, <2>2, StagesHold
<1>9. Leaves(after[n], G, Reset(bs, n))
  BY <1>0, <1>8
<1>10. Reset(bs, n) = reset_block_entry(disk, Range(bs))
  <2>1. Range(bs) = {bs[m] : m \in 1 .. n}
    BY <1>0 DEF Range
  <2>. QED BY <2>1 DEF Reset
<1>. DEFINE d == Reset(bs, n)
            e == reset_inode_table(d, i)
<1>11. e \in G /\ MarkInode(e, i) \in G
  <2>1. d \in Cut(disk, i)
    BY <1>9, RunsOf
  <2>. HIDE DEF d
  <2>. QED BY <2>1, ResetInodeStays
<1>12. e = Freed(i)
  BY <1>10 DEF Freed
<1>13. FreeWrites(i) = after[n] \o <<MarkInode(e, i), e>>
  <2>1. Last(after[n]) = d
    BY <1>9 DEF Leaves
  <2>. QED BY <1>7, <2>1 DEF Then, reset_inode_writes
<1>. HIDE DEF d, e, G, R, n, bs
<1>. QED BY <1>9, <1>11, <1>12, <1>13, LeavesNext DEF d, G

LEMMA AddSizeCut ==
  ASSUME NEW c, NEW i, NEW d \in Cut(c, i), NEW p \in Inodes, NEW n \in Int
  PROVE  AddSize(d, p, n) \in Cut(c, i)
<1>. DEFINE e == AddSize(d, p, n)
            m == [d.inode_table[p] EXCEPT !.size = (@ + n) % UINT32]
<1>0. d \in Disk /\ IsClean(d) /\ d.inode_table[p] \in Inode
  BY InodeType DEF Cut
<1>1. /\ m \in Inode /\ m.type = d.inode_table[p].type /\ m.block = d.inode_table[p].block
      /\ m.sub = d.inode_table[p].sub
  <2>1. (d.inode_table[p].size + n) % UINT32 \in 0 .. UINT32 - 1
    <3>1. d.inode_table[p].size + n \in Int
      BY <1>0, ModuliType DEF Inode
    <3>. QED BY <3>1, ModuliType, Modulo
  <2>. QED BY <1>0, <2>1 DEF Inode
<1>2. e = [d EXCEPT !.inode_table = [@ EXCEPT ![p] = m]]
  BY <1>0 DEF AddSize, Disk
<1>. HIDE DEF m, e
<1>3. /\ e \in Disk /\ e.dirents = d.dirents /\ e.text = d.text /\ e.block_bitmap = d.block_bitmap
      /\ e.inode_table = [d.inode_table EXCEPT ![p] = m]
  BY <1>0, <1>1, <1>2 DEF Disk
<1>4. IsClean(e)
  BY <1>0, <1>3, SameData
<1>5. SameKind(d, e, i)
  <2>1. \A j \in Inodes : e.inode_table[j] = IF j = p THEN m ELSE d.inode_table[j]
    BY <1>0, <1>3 DEF Disk
  <2>. QED BY <1>1, <2>1 DEF SameKind
<1>. QED BY <1>3, <1>4, <1>5, StaysCut DEF e

LEMMA CountFreedCut ==
  ASSUME NEW c, NEW i, NEW d \in Cut(c, i), NEW n \in Inode, NEW type
  PROVE  CountFreed(d, n, type) \in Cut(c, i)
<1>. DEFINE e  == CountFreed(d, n, type)
            fb == (d.free_blocks + Len(n.block)) % UINT16
            fi == (d.free_inodes + 1) % UINT16
            ud == IF type = FT_DIR THEN (d.used_dirs - 1) % UINT16 ELSE d.used_dirs
<1>0. d \in Disk /\ IsClean(d) /\ Len(n.block) \in Nat
  BY DEF Cut, Inode
<1>1. fb \in 0 .. UINT16 - 1 /\ fi \in 0 .. UINT16 - 1 /\ ud \in 0 .. UINT16 - 1
  <2>1. /\ d.free_blocks \in 0 .. UINT16 - 1 /\ d.free_inodes \in 0 .. UINT16 - 1
        /\ d.used_dirs \in 0 .. UINT16 - 1
    BY <1>0 DEF Disk
  <2>2. /\ d.free_blocks + Len(n.block) \in Int /\ d.free_inodes + 1 \in Int
        /\ d.used_dirs - 1 \in Int
    BY <1>0, <2>1, ModuliType
  <2>. QED BY <2>1, <2>2, ModuliType, Modulo
<1>2. e = [d EXCEPT !.free_blocks = fb, !.free_inodes = fi, !.used_dirs = ud]
  BY <1>0 DEF CountFreed, Disk
<1>. HIDE DEF e, fb, fi, ud
<1>3. /\ e \in Disk /\ e.dirents = d.dirents /\ e.text = d.text /\ e.block_bitmap = d.block_bitmap
      /\ e.inode_table = d.inode_table
  BY <1>0, <1>1, <1>2 DEF Disk
<1>4. IsClean(e) /\ SameKind(d, e, i)
  BY <1>0, <1>3, SameData DEF SameKind
<1>. QED BY <1>3, <1>4, StaysCut DEF e

(* What rmdir and delete hand to RemoveObject.                              *)
Counted(type) == IF type = FT_DIR THEN UncountDir(disk) ELSE disk

(* The order of the counters, the inode and the size does not matter.       *)
LEMMA CountFreedLast ==
  ASSUME Sound(disk), NEW i \in Inodes, NEW p \in Inodes, NEW x \in Int, NEW type
  PROVE  CountFreed(AddSize(Freed(i), p, x), disk.inode_table[i], type)
           = AddSize(FreeObject(Counted(type), i), p, x)
<1>. DEFINE c == Counted(type)
            n == disk.inode_table[i]
            R == Range(DataBlocks(n))
            D == [b \in Blocks |-> IF b \in R THEN <<>> ELSE disk.dirents[b]]
            T == [b \in Blocks |-> IF b \in R THEN 0 ELSE disk.text[b]]
            t0 == [disk.inode_table EXCEPT ![i] = NoInode]
            t1 == [t0 EXCEPT ![p].size = (@ + x) % UINT32]
            fb == (disk.free_blocks + Len(n.block)) % UINT16
            fi == (disk.free_inodes + 1) % UINT16
            ud == IF type = FT_DIR THEN (disk.used_dirs - 1) % UINT16 ELSE disk.used_dirs
            final == [disk EXCEPT !.block_bitmap = @ \ R, !.dirents = D, !.text = T,
                                  !.inode_table = t1, !.inode_bitmap = @ \ {i},
                                  !.free_blocks = fb, !.free_inodes = fi, !.used_dirs = ud]
<1>0. disk \in Disk
  BY DEF Sound
<1>1. Freed(i) = [disk EXCEPT !.block_bitmap = @ \ R, !.dirents = D, !.text = T,
                              !.inode_table = t0, !.inode_bitmap = @ \ {i}]
  <2>. HIDE DEF n, R
  <2>. QED BY <1>0 DEF Freed, reset_inode_table, reset_block_entry, Disk, n, R
<1>2. CountFreed(AddSize(Freed(i), p, x), n, type) = final
  <2>. HIDE DEF n, R, D, T, t0
  <2>1. AddSize(Freed(i), p, x) =
          [disk EXCEPT !.block_bitmap = @ \ R, !.dirents = D, !.text = T,
                       !.inode_table = t1, !.inode_bitmap = @ \ {i}]
    BY <1>0, <1>1 DEF AddSize, Disk
  <2>. HIDE DEF t1
  <2>. QED BY <1>0, <2>1 DEF CountFreed, Disk
<1>3. c.inode_table[i] = n /\ c \in Disk
  <2>1. UncountDir(disk) \in Disk
    BY CountDirSound DEF Sound
  <2>. QED BY <1>0, <2>1 DEF UncountDir, Disk, Counted
<1>4. FreeObject(c, i) = [disk EXCEPT !.block_bitmap = @ \ R, !.dirents = D, !.text = T,
                                  !.inode_table = t0, !.inode_bitmap = @ \ {i},
                                  !.free_blocks = fb, !.free_inodes = fi, !.used_dirs = ud]
  <2>1. FreeObject(c, i) =
          [reset_inode_table(reset_block_entry(c, R), i) EXCEPT
             !.free_blocks = (@ + Len(n.block)) % UINT16,
             !.free_inodes = (@ + 1) % UINT16]
    BY <1>3 DEF FreeObject
  <2>2. c = [disk EXCEPT !.used_dirs = ud]
    BY <1>0 DEF UncountDir, Disk, Counted
  <2>. HIDE DEF c
  <2>3. reset_inode_table(reset_block_entry(c, R), i) =
          [disk EXCEPT !.block_bitmap = @ \ R, !.dirents = D, !.text = T,
                       !.inode_table = t0, !.inode_bitmap = @ \ {i}, !.used_dirs = ud]
    <3>. HIDE DEF n, R, ud
    <3>. QED BY <1>0, <2>2, ZenonT(30) DEF reset_inode_table, reset_block_entry, Disk
  <2>. HIDE DEF n, R, D, T, t0, ud
  <2>4. /\ reset_inode_table(reset_block_entry(c, R), i).free_blocks = disk.free_blocks
        /\ reset_inode_table(reset_block_entry(c, R), i).free_inodes = disk.free_inodes
    BY <1>0, <2>3 DEF Disk
  <2>5. FreeObject(c, i) =
          [reset_inode_table(reset_block_entry(c, R), i) EXCEPT !.free_blocks = fb, !.free_inodes = fi]
    BY <2>1, <2>4
  <2>. HIDE DEF fb, fi
  <2>. QED BY <1>0, <2>3, <2>5 DEF Disk
<1>5. AddSize(FreeObject(c, i), p, x) = final
  <2>. HIDE DEF c, n, R, D, T, t0, fb, fi, ud
  <2>. QED BY <1>0, <1>4 DEF AddSize, Disk
<1>. QED BY <1>2, <1>5

(* rmdir and delete: the entry, which the last write removes, hides all.    *)
LEMMA RemoveWritesRun ==
  ASSUME Sound(disk), NEW i \in Inodes, current_dir \in Inodes, NEW name \in Names, NEW type
  PROVE  Runs(RemoveWrites(i, name, type), Cut(disk, i), RemoveObject(Counted(type), i, name, type))
<1>. DEFINE c  == Counted(type)
            G  == Cut(disk, i)
            n  == disk.inode_table[i]
            s0 == FreeWrites(i)
            d0 == Freed(i)
            d1 == AddSize(d0, current_dir, - RecLen(name))
            d2 == CountFreed(d1, n, type)
            e  == DeleteEntry(d2, current_dir, name, type)
<1>0. n \in Inode /\ - RecLen(name) \in Int
  BY InodeType, NamesType DEF Sound
<1>1. Leaves(s0, G, d0)
  BY FreeWritesLeave
<1>2. e = RemoveObject(c, i, name, type)
  <2>1. d2 = AddSize(FreeObject(c, i), current_dir, - RecLen(name))
    <3>. DEFINE x == - RecLen(name)
    <3>1. x \in Int
      BY <1>0
    <3>. HIDE DEF x
    <3>2. CountFreed(AddSize(Freed(i), current_dir, x), disk.inode_table[i], type)
            = AddSize(FreeObject(Counted(type), i), current_dir, x)
      BY <3>1, CountFreedLast
    <3>. QED BY <3>2 DEF x
  <2>. HIDE DEF d2, c
  <2>. QED BY <2>1 DEF RemoveObject
<1>3. RemoveWrites(i, name, type) =
        LET s1 == s0 \o <<AddSize(Last(s0), current_dir, - RecLen(name))>>
            s2 == s1 \o <<CountFreed(Last(s1), n, type)>>
        IN  s2 \o <<DeleteEntry(Last(s2), current_dir, name, type)>>
  BY DEF RemoveWrites, Then
<1>. HIDE DEF s0, d0, n, e, c
<1>4. d1 \in G
  <2>1. d0 \in Cut(disk, i)
    BY <1>1, RunsOf
  <2>. QED BY <1>0, <2>1, AddSizeCut
<1>. HIDE DEF d1
<1>5. d2 \in G
  BY <1>0, <1>4, CountFreedCut
<1>. HIDE DEF d2, G
<1>6. Leaves(s0 \o <<d1>>, G, d1)
  BY <1>1, <1>4, LeavesNext
<1>7. Leaves((s0 \o <<d1>>) \o <<d2>>, G, d2)
  BY <1>5, <1>6, LeavesNext
<1>8. Runs(((s0 \o <<d1>>) \o <<d2>>) \o <<e>>, G, e)
  BY <1>7, RunsOne, RunsThen
<1>9. RemoveWrites(i, name, type) = ((s0 \o <<d1>>) \o <<d2>>) \o <<e>>
  <2>1. Last(s0) = d0 /\ Last(s0 \o <<d1>>) = d1 /\ Last((s0 \o <<d1>>) \o <<d2>>) = d2
    BY <1>1, <1>6, <1>7 DEF Leaves
  <2>2. <<AddSize(Last(s0), current_dir, - RecLen(name))>> = <<d1>>
    BY <2>1 DEF d1
  <2>3. <<CountFreed(Last(s0 \o <<d1>>), n, type)>> = <<d2>>
    BY <2>1 DEF d2
  <2>4. <<DeleteEntry(Last((s0 \o <<d1>>) \o <<d2>>), current_dir, name, type)>> = <<e>>
    BY <2>1 DEF e
  <2>. QED BY <1>3, <2>2, <2>3, <2>4
<1>. QED BY <1>2, <1>8, <1>9 DEF G, c

-----------------------------------------------------------------------------
(* Format.  With the counters zeroed first, what is left of the old data    *)
(* can not be handed out.                                                   *)
Bare == {d \in Disk : d.free_blocks > 0 => IsClean(d)}
Zeroed == {d \in Disk : d.free_blocks = 0}

LEMMA CutIsBare ==
  ASSUME NEW c, NEW i
  PROVE  Cut(c, i) \subseteq Bare /\ Around(c, i) \subseteq Bare
BY DEF Cut, Around, Sound, Bare

LEMMA LeavesMore ==
  ASSUME NEW G, NEW H, G \subseteq H, NEW s, NEW e, Leaves(s, G, e)
  PROVE  Leaves(s, H, e)
<1>1. s \in Seq(G) /\ s # <<>> /\ Last(s) = e
  BY DEF Leaves
<1>2. s \in Seq(H)
  BY <1>1
<1>. QED BY <1>1, <1>2 DEF Leaves

LEMMA ZeroBlockStays ==
  ASSUME NEW d \in Zeroed, NEW b \in Blocks
  PROVE  [d EXCEPT !.dirents[b] = <<>>, !.text[b] = 0] \in Zeroed
<1>. DEFINE e == [d EXCEPT !.dirents[b] = <<>>, !.text[b] = 0]
<1>0. d \in Disk /\ d.free_blocks = 0
  BY DEF Zeroed
<1>1. e = [d EXCEPT !.dirents = [@ EXCEPT ![b] = <<>>], !.text = [@ EXCEPT ![b] = 0]]
  BY <1>0 DEF Disk
<1>2. /\ [d.dirents EXCEPT ![b] = <<>>] \in [Blocks -> Seq(DirEntry)]
      /\ [d.text EXCEPT ![b] = 0] \in [Blocks -> 0 .. CAP]
  <2>1. <<>> \in Seq(DirEntry) /\ 0 \in 0 .. CAP
    BY CapType
  <2>2. d.dirents \in [Blocks -> Seq(DirEntry)] /\ d.text \in [Blocks -> 0 .. CAP]
    BY <1>0 DEF Disk
  <2>. QED BY <2>1, <2>2
<1>. HIDE DEF e
<1>3. e \in Disk /\ e.free_blocks = 0
  BY <1>0, <1>1, <1>2 DEF Disk
<1>. QED BY <1>3 DEF Zeroed, e

(* The four writes before the data blocks.                                  *)
LEMMA ZeroTablesStay ==
  ASSUME NEW d \in Disk, NEW pw \in Passwords, NEW t \in [Inodes -> Inode]
  PROVE  LET z1 == [d EXCEPT !.free_blocks = 0, !.free_inodes = 0, !.used_dirs = 0,
                             !.password = pw]
             z2 == [z1 EXCEPT !.block_bitmap = {}]
             z3 == [z2 EXCEPT !.inode_bitmap = {}]
             z4 == [z3 EXCEPT !.inode_table = t]
         IN  z1 \in Zeroed /\ z2 \in Zeroed /\ z3 \in Zeroed /\ z4 \in Zeroed
<1>. DEFINE z1 == [d EXCEPT !.free_blocks = 0, !.free_inodes = 0, !.used_dirs = 0,
                            !.password = pw]
            z2 == [z1 EXCEPT !.block_bitmap = {}]
            z3 == [z2 EXCEPT !.inode_bitmap = {}]
            z4 == [z3 EXCEPT !.inode_table = t]
<1>0. 0 \in 0 .. UINT16 - 1
  BY ModuliType
<1>1. z1 \in Disk /\ z1.free_blocks = 0
  BY <1>0 DEF Disk
<1>. HIDE DEF z1
<1>2. z2 \in Disk /\ z2.free_blocks = 0
  BY <1>1 DEF Disk
<1>. HIDE DEF z2
<1>3. z3 \in Disk /\ z3.free_blocks = 0
  BY <1>2 DEF Disk
<1>. HIDE DEF z3
<1>4. z4 \in Disk /\ z4.free_blocks = 0
  BY <1>3 DEF Disk
<1>. HIDE DEF z4
<1>5. z1 \in Zeroed /\ z2 \in Zeroed /\ z3 \in Zeroed /\ z4 \in Zeroed
  BY <1>1, <1>2, <1>3, <1>4 DEF Zeroed
<1>. QED BY <1>5 DEF z1, z2, z3, z4

LEMMA RootWritesLeave ==
  ASSUME NEW pw \in Passwords
  PROVE  /\ Leaves(new_inode_writes(EmptyDisk(pw)), Bare, new_inode(EmptyDisk(pw)))
         /\ Leaves(ObjectWrites(new_inode(EmptyDisk(pw)), 1, Dot, FT_DIR, 1),
                   Bare, initialize_disk(pw))
<1>. DEFINE z == EmptyDisk(pw)
            d == new_inode(z)
<1>1. Sound(z) /\ CanNewInode(z) /\ CanNewBlock(z)
  BY EmptyDiskSound
<1>2. /\ Sound(d) /\ d.block_bitmap = z.block_bitmap /\ d.free_blocks = z.free_blocks
  BY <1>1, NewInodeSound
<1>3. 1 \in Inodes
  BY BlocksAreNats
<1>. HIDE DEF z
<1>4. Leaves(new_inode_writes(z), Bare, d)
  <2>1. Leaves(new_inode_writes(z), Around(z, NextInode(z)), d)
    BY <1>1, NewInodeWrites
  <2>. HIDE DEF d
  <2>. QED BY <2>1, CutIsBare, LeavesMore
<1>. HIDE DEF d
<1>5. d.free_blocks # 0 /\ ~ BlocksRunOut(d, FT_DIR)
  <2>1. z.free_blocks \in Nat
    BY <1>1 DEF Sound, Disk
  <2>. QED BY <1>1, <1>2, <2>1 DEF CanNewBlock, BlocksRunOut, FreeBlocks
<1>6. Leaves(ObjectWrites(d, 1, Dot, FT_DIR, 1), Bare, NewDirectory(CountDir(d), 1, 1))
  <2>1. d \in Around(d, 1)
    BY <1>2, NearSelf
  <2>2. Leaves(ObjectWrites(d, 1, Dot, FT_DIR, 1), Around(d, 1), NewDirectory(CountDir(d), 1, 1))
    BY <1>3, <1>5, <2>1, ObjectWritesLeave
  <2>. QED BY <2>2, CutIsBare, LeavesMore
<1>7. initialize_disk(pw) = NewDirectory(CountDir(d), 1, 1)
  BY DEF initialize_disk, d, z
<1>. QED BY <1>4, <1>6, <1>7 DEF d, z

LEMMA FormatWritesRun ==
  ASSUME Sound(disk), EmptyPassword \in Passwords, NEW pw \in Passwords
  PROVE  Leaves(FormatWrites(pw), Bare, initialize_disk(pw))
<1>. DEFINE n  == DATA_BLOCK_COUNT
            z1 == [disk EXCEPT !.free_blocks = 0, !.free_inodes = 0, !.used_dirs = 0,
                               !.password = EmptyPassword]
            z2 == [z1 EXCEPT !.block_bitmap = {}]
            z3 == [z2 EXCEPT !.inode_bitmap = {}]
            z4 == [z3 EXCEPT !.inode_table = EmptyDisk(pw).inode_table]
            base == <<z1, z2, z3, z4>>
            wiped(d, b) == [d EXCEPT !.dirents[b - 1] = <<>>, !.text[b - 1] = 0]
            zeroed[b \in 0 .. n] ==
              IF b = 0 THEN base
              ELSE Then(zeroed[b - 1], LAMBDA d : <<[d EXCEPT !.dirents[b - 1] = <<>>, !.text[b - 1] = 0]>>)
            S  == {s \in Seq(Zeroed) : s # <<>>}
            R  == [k \in 0 .. n |-> S]
            step == [k \in 1 .. n |-> [s \in S |-> s \o <<wiped(Last(s), k)>>]]
<1>0. n \in Nat /\ disk \in Disk /\ Sound(EmptyDisk(pw)) /\ Blocks = 0 .. n - 1
  BY ConstAssumption, EmptyDiskSound DEF Sound, Blocks
<1>1. base \in S
  <2>1. EmptyDisk(pw).inode_table \in [Inodes -> Inode]
    BY <1>0 DEF Sound, Disk
  <2>2. z1 \in Zeroed /\ z2 \in Zeroed /\ z3 \in Zeroed /\ z4 \in Zeroed
    <3>. DEFINE t == EmptyDisk(pw).inode_table
    <3>1. t \in [Inodes -> Inode]
      BY <2>1
    <3>. HIDE DEF t
    <3>. QED BY <1>0, <3>1, ZeroTablesStay DEF t
  <2>. HIDE DEF z1, z2, z3, z4
  <2>. QED BY <2>2
<1>2. ASSUME NEW k \in 1 .. n, NEW s \in S
      PROVE  s \o <<wiped(Last(s), k)>> \in S
  <2>1. Last(s) \in Zeroed /\ k - 1 \in Blocks
    BY <1>0 DEF Last
  <2>2. wiped(Last(s), k) \in Zeroed
    BY <2>1, ZeroBlockStays
  <2>. HIDE DEF wiped
  <2>. QED BY <2>2
<1>. HIDE DEF base, S
<1>3. Staged(n, R, base, step)
  <2>1. base \in R[0]
    BY <1>0, <1>1
  <2>2. \A k \in 1 .. n : \A x \in R[k - 1] : step[k][x] \in R[k]
    <3>. SUFFICES ASSUME NEW k \in 1 .. n, NEW x \in R[k - 1]
                  PROVE  step[k][x] \in R[k]
      OBVIOUS
    <3>1. R[k] = S /\ R[k - 1] = S
      BY <1>0
    <3>2. step[k][x] = x \o <<wiped(Last(x), k)>>
      BY <3>1
    <3>. HIDE DEF step, R
    <3>. QED BY <1>2, <3>1, <3>2
  <2>. HIDE DEF R, n, step
  <2>. QED BY <1>0, <2>1, <2>2, Stages
<1>4. PICK f : /\ f = [k \in 0 .. n |-> IF k = 0 THEN base ELSE step[k][f[k - 1]]]
               /\ \A k \in 0 .. n : f[k] \in R[k]
  BY <1>3 DEF Staged
<1>5. f = [b \in 0 .. n |-> IF b = 0 THEN base ELSE
             Then(f[b - 1], LAMBDA d : <<[d EXCEPT !.dirents[b - 1] = <<>>, !.text[b - 1] = 0]>>)]
  <2>1. ASSUME NEW k \in 0 .. n, k # 0
        PROVE  step[k][f[k - 1]]
                 = Then(f[k - 1], LAMBDA d : <<[d EXCEPT !.dirents[k - 1] = <<>>, !.text[k - 1] = 0]>>)
    <3>1. k \in 1 .. n /\ k - 1 \in 0 .. n
      BY <1>0, <2>1
    <3>2. f[k - 1] \in S
      BY <1>4, <3>1
    <3>3. step[k][f[k - 1]] = f[k - 1] \o <<wiped(Last(f[k - 1]), k)>>
      BY <3>1, <3>2
    <3>. QED BY <3>3 DEF Then
  <2>. HIDE DEF step, R
  <2>. QED BY <1>4, <2>1
<1>6. zeroed = [b \in 0 .. n |-> IF b = 0 THEN base ELSE
             Then(zeroed[b - 1], LAMBDA d : <<[d EXCEPT !.dirents[b - 1] = <<>>, !.text[b - 1] = 0]>>)]
  <2>. HIDE DEF n
  <2>. QED BY <1>5, Zenon DEF zeroed
<1>7. zeroed[n] \in S
  <2>. HIDE DEF zeroed, step
  <2>1. zeroed[0] \in R[0]
    <3>1. 0 \in 0 .. n
      BY <1>0
    <3>2. R[0] = S
      BY <3>1
    <3>3. zeroed[0] = base
      <4>. HIDE DEF R, n
      <4>. QED BY <1>6, <3>1 DEF Then
    <3>. QED BY <1>1, <3>2, <3>3
  <2>2. ASSUME NEW k \in 1 .. n, zeroed[k - 1] \in R[k - 1]
        PROVE  zeroed[k] \in R[k]
    <3>1. k - 1 \in 0 .. n /\ k \in 0 .. n /\ k # 0
      BY <1>0
    <3>2. zeroed[k - 1] \in S
      BY <2>2, <3>1
    <3>3. zeroed[k] = zeroed[k - 1] \o <<wiped(Last(zeroed[k - 1]), k)>>
      BY <1>6, <3>1 DEF Then
    <3>. QED BY <1>2, <3>1, <3>2, <3>3
  <2>3. \A k \in 0 .. n : zeroed[k] \in R[k]
    <3>. HIDE DEF R, n
    <3>. QED BY <1>0, <2>1, <2>2, StagesHold
  <2>. QED BY <1>0, <2>3
<1>. DEFINE z == EmptyDisk(pw)
            s0 == Append(zeroed[n], z)
            s1 == new_inode_writes(z)
            s2 == ObjectWrites(new_inode(z), 1, Dot, FT_DIR, 1)
<1>8. FormatWrites(pw) = Then(Then(s0, new_inode_writes), LAMBDA d : ObjectWrites(d, 1, Dot, FT_DIR, 1))
  BY Zenon DEF FormatWrites, base
<1>. HIDE DEF zeroed
<1>9. Leaves(s0, Bare, z)
  <2>1. zeroed[n] \in Seq(Bare) /\ z \in Bare
    BY <1>0, <1>7 DEF S, Zeroed, Bare, Sound
  <2>. QED BY <2>1 DEF Leaves, Last
<1>10. Last(s0) = z
  BY <1>9 DEF Leaves
<1>. HIDE DEF s0, z
<1>11. Leaves(s1, Bare, new_inode(z)) /\ Leaves(s2, Bare, initialize_disk(pw))
  BY RootWritesLeave DEF z
<1>. HIDE DEF s1, s2
<1>12. Leaves(s0 \o s1, Bare, new_inode(z))
  BY <1>9, <1>11, LeavesThen
<1>13. FormatWrites(pw) = (s0 \o s1) \o s2
  <2>1. Last(s0 \o s1) = new_inode(z)
    BY <1>12 DEF Leaves
  <2>. QED BY <1>8, <1>10, <2>1 DEF Then, s1, s2
<1>. QED BY <1>11, <1>12, <1>13, LeavesThen

-----------------------------------------------------------------------------
(* The blocks of a write are those new_block hands out one after the other. *)
LEMMA NextOfNew ==
  ASSUME NEW d, NEW g \in Nat, NEW nb \in NewBlocks(d, g), NEW m \in 1 .. g
  PROVE  nb[m] = Min(FreeBlocks(d) \ {nb[q] : q \in 1 .. m - 1})
<1>. DEFINE S == FreeBlocks(d) \ {nb[q] : q \in 1 .. m - 1}
<1>1. /\ nb \in [1 .. g -> FreeBlocks(d)]
      /\ \A j, k \in 1 .. g : j < k => nb[j] < nb[k]
      /\ \A j \in 1 .. g, b \in FreeBlocks(d) : b < nb[j] => b \in Range(nb)
  BY DEF NewBlocks
<1>2. FreeBlocks(d) \subseteq Nat
  BY BlocksAreNats DEF FreeBlocks
<1>3. nb[m] \in S
  <2>1. ASSUME NEW q \in 1 .. m - 1
        PROVE  nb[q] # nb[m]
    <3>1. q \in 1 .. g /\ q < m
      OBVIOUS
    <3>2. nb[q] < nb[m] /\ nb[q] \in Nat /\ nb[m] \in Nat
      BY <1>1, <1>2, <3>1
    <3>. QED BY <3>2
  <2>. QED BY <1>1, <2>1
<1>4. /\ Min(S) \in S
      /\ \A y \in S : Min(S) <= y
  <2>1. S \subseteq Nat /\ S # {}
    BY <1>2, <1>3
  <2>. HIDE DEF S
  <2>. QED BY <2>1, MinOfNats
<1>5. Min(S) \in FreeBlocks(d) /\ Min(S) \in Nat /\ nb[m] \in Nat /\ Min(S) <= nb[m]
  BY <1>2, <1>3, <1>4
<1>6. ASSUME Min(S) < nb[m]
      PROVE  FALSE
  <2>1. Min(S) \in Range(nb)
    <3>. HIDE DEF S
    <3>. QED BY <1>1, <1>5, <1>6
  <2>2. PICK q \in 1 .. g : Min(S) = nb[q]
    <3>. HIDE DEF S
    <3>. QED BY <1>1, <2>1 DEF Range
  <2>3. nb[q] \in Nat /\ nb[q] < nb[m]
    BY <1>5, <1>6, <2>2
  <2>4. ~ (m < q) /\ q # m
    <3>1. m < q => nb[m] < nb[q]
      BY <1>1
    <3>. QED BY <1>5, <2>3, <3>1
  <2>5. q \in 1 .. m - 1
    BY <2>4
  <2>6. Min(S) \notin S
    BY <2>2, <2>5
  <2>. QED BY <1>4, <2>6
<1>. HIDE DEF S
<1>7. Min(S) = nb[m]
  BY <1>5, <1>6
<1>. QED BY <1>7 DEF S

LEMMA OneNew ==
  ASSUME NEW d, NEW g \in Nat, NEW nb \in NewBlocks(d, g), NEW nc \in NewBlocks(d, g)
  PROVE  nb = nc
<1>. DEFINE T == {k \in 0 .. g : \A q \in 1 .. k : nb[q] = nc[q]}
<1>1. nb \in [1 .. g -> FreeBlocks(d)] /\ nc \in [1 .. g -> FreeBlocks(d)]
  BY DEF NewBlocks
<1>2. 0 \in T
  OBVIOUS
<1>3. ASSUME NEW k \in 0 .. g - 1, k \in T
      PROVE  k + 1 \in T
  <2>1. k + 1 \in 1 .. g /\ k + 1 \in 0 .. g /\ (k + 1) - 1 = k
    OBVIOUS
  <2>2. \A q \in 1 .. k : nb[q] = nc[q]
    BY <1>3
  <2>3. {nb[q] : q \in 1 .. k} = {nc[q] : q \in 1 .. k}
    BY <2>2
  <2>4. nb[k + 1] = Min(FreeBlocks(d) \ {nb[q] : q \in 1 .. (k + 1) - 1})
    BY <2>1, NextOfNew
  <2>5. nc[k + 1] = Min(FreeBlocks(d) \ {nc[q] : q \in 1 .. (k + 1) - 1})
    BY <2>1, NextOfNew
  <2>6. nb[k + 1] = nc[k + 1]
    BY <2>1, <2>3, <2>4, <2>5
  <2>7. \A q \in 1 .. k + 1 : nb[q] = nc[q]
    BY <2>1, <2>2, <2>6
  <2>. QED BY <2>1, <2>7
<1>. HIDE DEF T
<1>4. 0 \in Int /\ g \in Int /\ g \in 0 .. g
  OBVIOUS
<1>5. g \in T
  BY <1>2, <1>3, <1>4, Induction
<1>6. \A q \in 1 .. g : nb[q] = nc[q]
  BY <1>5 DEF T
<1>. QED BY <1>1, <1>6

(* The room before a block grows from block to block.                       *)
Rooms(d, n, k) == [j \in 1 .. k |-> RoomIn(d, n, j)]

LEMMA RoomInType ==
  ASSUME NEW d \in Disk, NEW n \in Inode, NEW j \in Nat, j # 0
  PROVE  RoomIn(d, n, j) \in Nat
<1>1. CASE j <= Len(n.block)
  <2>1. n.block[j] \in Blocks
    BY <1>1 DEF Inode
  <2>2. d.text[n.block[j]] \in 0 .. CAP
    BY <2>1 DEF Disk
  <2>. QED BY <1>1, <2>2, CapType DEF RoomIn
<1>2. CASE ~ (j <= Len(n.block))
  BY <1>2, CapType DEF RoomIn
<1>. QED BY <1>1, <1>2

LEMMA RoomBeforeAdds ==
  ASSUME NEW d \in Disk, NEW n \in Inode, NEW k \in Nat
  PROVE  /\ Rooms(d, n, k) \in [1 .. k -> Nat]
         /\ \E f \in [0 .. k -> Nat] : Adds(f, k, Rooms(d, n, k)) /\ RoomBefore(d, n, k + 1) = f[k]
<1>. DEFINE room[j \in 0 .. (k + 1) - 1] == IF j = 0 THEN 0 ELSE room[j - 1] + RoomIn(d, n, j)
            z == Rooms(d, n, k)
<1>1. z \in [1 .. k -> Nat] /\ \A j \in 1 .. k : z[j] = RoomIn(d, n, j)
  BY RoomInType DEF Rooms
<1>2. PICK f \in [0 .. k -> Nat] : Adds(f, k, z)
  BY <1>1, Sums
<1>3. f[0] = 0 /\ \A j \in 1 .. k : f[j] = f[j - 1] + RoomIn(d, n, j)
  BY <1>1, <1>2 DEF Adds
<1>4. (k + 1) - 1 = k
  OBVIOUS
<1>5. f = [j \in 0 .. k |-> IF j = 0 THEN 0 ELSE f[j - 1] + RoomIn(d, n, j)]
  BY <1>3
<1>6. f = [j \in 0 .. (k + 1) - 1 |-> IF j = 0 THEN 0 ELSE f[j - 1] + RoomIn(d, n, j)]
  BY <1>4, <1>5
<1>7. room = [j \in 0 .. (k + 1) - 1 |-> IF j = 0 THEN 0 ELSE room[j - 1] + RoomIn(d, n, j)]
  BY <1>6, Zenon DEF room
<1>8. RoomBefore(d, n, k + 1) = room[(k + 1) - 1]
  BY Zenon DEF RoomBefore
<1>. HIDE DEF room
<1>9. Adds(room, k, z)
  <2>1. room[0] = 0
    BY <1>4, <1>7
  <2>2. ASSUME NEW j \in 1 .. k
        PROVE  room[j] = room[j - 1] + z[j]
    <3>1. j \in 0 .. k /\ j # 0
      OBVIOUS
    <3>. QED BY <1>1, <1>4, <1>7, <3>1
  <2>. QED BY <2>1, <2>2 DEF Adds
<1>10. room[k] = f[k]
  BY <1>2, <1>9, AddsOnce
<1>. QED BY <1>1, <1>2, <1>4, <1>8, <1>10

LEMMA RoomGrows ==
  ASSUME NEW d \in Disk, NEW n \in Inode, NEW j \in Nat, NEW k \in Nat, j <= k
  PROVE  /\ RoomBefore(d, n, j + 1) \in Nat
         /\ RoomBefore(d, n, j + 1) <= RoomBefore(d, n, k + 1)
         /\ j # 0 => RoomBefore(d, n, j + 1) = RoomBefore(d, n, j) + RoomIn(d, n, j)
<1>. DEFINE z == Rooms(d, n, k)
<1>1. PICK f \in [0 .. k -> Nat] : Adds(f, k, z) /\ RoomBefore(d, n, k + 1) = f[k]
  BY RoomBeforeAdds
<1>2. z \in [1 .. k -> Nat]
  BY RoomBeforeAdds
<1>3. \A i \in 1 .. k : f[i] = f[i - 1] + RoomIn(d, n, i)
  BY <1>1 DEF Adds, Rooms
<1>4. ASSUME NEW i \in 0 .. k
      PROVE  RoomBefore(d, n, i + 1) = f[i]
  <2>0. i \in Nat
    OBVIOUS
  <2>1. PICK h \in [0 .. i -> Nat] : Adds(h, i, Rooms(d, n, i)) /\ RoomBefore(d, n, i + 1) = h[i]
    BY <2>0, RoomBeforeAdds
  <2>2. Adds(f, i, Rooms(d, n, i))
    BY <1>1, <1>3 DEF Adds, Rooms
  <2>. QED BY <2>0, <2>1, <2>2, AddsOnce
<1>5. f[j] <= f[k]
  <2>1. j \in 0 .. k /\ k \in j .. k
    OBVIOUS
  <2>. HIDE DEF z
  <2>. QED BY <1>1, <1>2, <2>1, AddsMonotone
<1>6. j # 0 => f[j] = f[j - 1] + RoomIn(d, n, j) /\ RoomBefore(d, n, (j - 1) + 1) = f[j - 1]
  BY <1>3, <1>4
<1>. QED BY <1>1, <1>4, <1>5, <1>6

(* So the characters end in one block only.                                 *)
EndsIn(d, n, size, k) == /\ size <= RoomBefore(d, n, k) + RoomIn(d, n, k)
                         /\ k > 1 => size > RoomBefore(d, n, k)

LEMMA OneEnd ==
  ASSUME NEW d \in Disk, NEW n \in Inode, NEW size \in Nat, NEW k \in 1 .. DIRECT,
         NEW m \in 1 .. DIRECT, EndsIn(d, n, size, k), EndsIn(d, n, size, m)
  PROVE  ~ (m < k)
<1>1. k \in Nat /\ m \in Nat /\ k - 1 \in Nat /\ m # 0 /\ (k - 1) + 1 = k
  BY ConstAssumption
<1>2. SUFFICES ASSUME m <= k - 1
               PROVE  FALSE
  BY <1>1
<1>3. /\ RoomBefore(d, n, m + 1) \in Nat /\ RoomBefore(d, n, m + 1) <= RoomBefore(d, n, (k - 1) + 1)
      /\ RoomBefore(d, n, m + 1) = RoomBefore(d, n, m) + RoomIn(d, n, m)
  BY <1>1, <1>2, RoomGrows
<1>4. RoomBefore(d, n, (k - 1) + 1) \in Nat
  <2>1. ASSUME NEW q \in Nat
        PROVE  RoomBefore(d, n, q + 1) \in Nat
    BY RoomGrows
  <2>. QED BY <1>1, <2>1
<1>5. size > RoomBefore(d, n, k)
  BY <1>1, <1>2 DEF EndsIn
<1>6. size <= RoomBefore(d, n, m + 1)
  BY <1>3 DEF EndsIn
<1>. QED BY <1>1, <1>3, <1>4, <1>5, <1>6

-----------------------------------------------------------------------------
(* The images of a write: after j of its blocks the bitmap has the first j  *)
(* of bs and each of them is full, but for the last of all.                 *)
Passed(i, j) == IF j > Len(disk.inode_table[i].block) THEN j - Len(disk.inode_table[i].block) ELSE 0
Filled(bs, k, rest, j) ==
  [b \in Blocks |-> IF \E m \in 1 .. j : m < k /\ bs[m] = b THEN CAP
                    ELSE IF j = k /\ bs[k] = b THEN disk.text[b] + rest ELSE disk.text[b]]
Written(i, k, bs, rest, j) ==
  [disk EXCEPT !.block_bitmap = @ \cup {bs[m] : m \in 1 .. j},
               !.free_blocks = @ - Passed(i, j),
               !.text = Filled(bs, k, rest, j)]

(* What the steps need to know of the blocks.                               *)
Target(i, k, bs, rest) ==
  /\ bs \in Seq(Blocks) /\ k \in 1 .. Len(bs)
  /\ \A j, m \in 1 .. Len(bs) : bs[j] = bs[m] => j = m
  /\ \A j \in 1 .. k, q \in Inodes : q # i => bs[j] \notin Owned(disk.inode_table[q])
  /\ \A j \in 1 .. k : j <= Len(disk.inode_table[i].block) => bs[j] \in disk.block_bitmap
  /\ \A j \in 1 .. k : j > Len(disk.inode_table[i].block) =>
       /\ bs[j] = Min(FreeBlocks(disk) \ {bs[m] : m \in 1 .. j - 1})
       /\ bs[j] \in FreeBlocks(disk)
  /\ Passed(i, k) <= disk.free_blocks
  /\ \A j \in 1 .. k - 1 : disk.text[bs[j]] + RoomIn(disk, disk.inode_table[i], j) = CAP
  /\ disk.text[bs[k]] + rest \in 0 .. CAP

LEMMA FillStays ==
  ASSUME NEW c, NEW i, NEW d \in Around(c, i), NEW b \in d.block_bitmap, NEW t \in 0 .. CAP,
         \A j \in Inodes : j # i => Owned(d.inode_table[j]) \cap {b} = {}
  PROVE  [d EXCEPT !.text[b] = t] \in Around(c, i)
<1>. DEFINE e == [d EXCEPT !.text[b] = t]
<1>0. Sound(d) /\ d \in Disk /\ b \in Blocks
  BY DEF Around, Disk
<1>1. e = [d EXCEPT !.text = [@ EXCEPT ![b] = t]]
  BY <1>0 DEF Disk
<1>. HIDE DEF e
<1>2. /\ e \in Disk /\ e.block_bitmap = d.block_bitmap /\ e.inode_table = d.inode_table
      /\ e.dirents = d.dirents /\ \A a \in Blocks \ {b} : e.text[a] = d.text[a]
  BY <1>0, <1>1 DEF Disk
<1>3. OwnsBlocks(e)
  BY <1>0, <1>2, SameBlocks DEF Sound
<1>4. IsClean(e)
  BY <1>0, <1>2 DEF Sound, IsClean, FreeBlocks
<1>5. Sound(e) /\ SameKind(d, e, i)
  BY <1>2, <1>3, <1>4 DEF Sound, SameKind
<1>6. \A a \in Blocks \ {b} : e.dirents[a] = d.dirents[a] /\ e.text[a] = d.text[a]
  BY <1>2
<1>. QED BY <1>5, <1>6, Stays DEF e

LEMMA WrittenIs ==
  ASSUME Sound(disk), NEW i, NEW k, NEW bs, NEW rest, NEW j
  PROVE  LET d == Written(i, k, bs, rest, j)
         IN  /\ d.block_bitmap = disk.block_bitmap \cup {bs[m] : m \in 1 .. j}
             /\ d.free_blocks = disk.free_blocks - Passed(i, j)
             /\ d.text = Filled(bs, k, rest, j)
             /\ d.inode_table = disk.inode_table
             /\ d.dirents = disk.dirents
<1>1. disk \in Disk
  BY DEF Sound
<1>. QED BY <1>1 DEF Written, Disk

(* The text that the j-th fill leaves.                                      *)
LEMMA FilledNext ==
  ASSUME Sound(disk), NEW i \in Inodes, NEW k, NEW bs, NEW rest, Target(i, k, bs, rest),
         NEW j \in 1 .. k, NEW u,
         u = IF j < k THEN RoomIn(disk, disk.inode_table[i], j) ELSE rest
  PROVE  /\ Filled(bs, k, rest, j - 1)[bs[j]] = disk.text[bs[j]]
         /\ disk.text[bs[j]] + u \in 0 .. CAP
         /\ [Filled(bs, k, rest, j - 1) EXCEPT ![bs[j]] = disk.text[bs[j]] + u]
              = Filled(bs, k, rest, j)
<1>. DEFINE t == disk.text[bs[j]] + u
<1>0. /\ bs \in Seq(Blocks) /\ k \in Nat /\ j \in Nat /\ j # 0 /\ j <= k /\ k <= Len(bs)
      /\ \A a, m \in 1 .. Len(bs) : bs[a] = bs[m] => a = m
  BY DEF Target
<1>1. bs[j] \in Blocks /\ \A m \in 1 .. k : m # j => bs[m] # bs[j]
  BY <1>0
<1>2. Filled(bs, k, rest, j - 1)[bs[j]] = disk.text[bs[j]]
  <2>1. ~ \E m \in 1 .. j - 1 : m < k /\ bs[m] = bs[j]
    BY <1>0, <1>1
  <2>2. j - 1 # k
    BY <1>0
  <2>. QED BY <1>1, <2>1, <2>2 DEF Filled
<1>3. /\ j < k => t = CAP
      /\ j = k => t = disk.text[bs[k]] + rest
      /\ t \in 0 .. CAP
  <2>1. CASE j < k
    <3>1. j \in 1 .. k - 1
      BY <1>0, <2>1
    <3>. QED BY <2>1, <3>1, CapType DEF Target
  <2>2. CASE j = k
    BY <2>2 DEF Target
  <2>. QED BY <1>0, <2>1, <2>2
<1>. HIDE DEF t
<1>4. ASSUME NEW b \in Blocks
      PROVE  [Filled(bs, k, rest, j - 1) EXCEPT ![bs[j]] = t][b] = Filled(bs, k, rest, j)[b]
  <2>0. /\ Filled(bs, k, rest, j - 1)[b] =
             IF \E m \in 1 .. j - 1 : m < k /\ bs[m] = b THEN CAP
             ELSE IF j - 1 = k /\ bs[k] = b THEN disk.text[b] + rest ELSE disk.text[b]
        /\ Filled(bs, k, rest, j)[b] =
             IF \E m \in 1 .. j : m < k /\ bs[m] = b THEN CAP
             ELSE IF j = k /\ bs[k] = b THEN disk.text[b] + rest ELSE disk.text[b]
        /\ DOMAIN Filled(bs, k, rest, j - 1) = Blocks
    BY DEF Filled
  <2>1. CASE b = bs[j]
    <3>1. [Filled(bs, k, rest, j - 1) EXCEPT ![bs[j]] = t][b] = t
      BY <2>0, <2>1
    <3>2. CASE j < k
      <4>1. \E m \in 1 .. j : m < k /\ bs[m] = b
        BY <1>0, <2>1, <3>2
      <4>. QED BY <1>3, <2>0, <3>1, <3>2, <4>1
    <3>3. CASE j = k
      <4>1. ~ \E m \in 1 .. j : m < k /\ bs[m] = b
        BY <1>0, <1>1, <2>1, <3>3
      <4>. QED BY <1>3, <2>0, <2>1, <3>1, <3>3, <4>1
    <3>. QED BY <1>0, <3>2, <3>3
  <2>2. CASE b # bs[j]
    <3>1. [Filled(bs, k, rest, j - 1) EXCEPT ![bs[j]] = t][b] = Filled(bs, k, rest, j - 1)[b]
      BY <2>0, <2>2
    <3>2. (\E m \in 1 .. j : m < k /\ bs[m] = b) <=> (\E m \in 1 .. j - 1 : m < k /\ bs[m] = b)
      <4>1. \A m \in 1 .. j : m # j => m \in 1 .. j - 1
        BY <1>0
      <4>2. 1 .. j - 1 \subseteq 1 .. j
        BY <1>0
      <4>. QED BY <2>2, <4>1, <4>2
    <3>3. j - 1 # k /\ (j = k => bs[k] # b)
      BY <1>0, <2>2
    <3>. QED BY <2>0, <3>1, <3>2, <3>3
  <2>. QED BY <2>1, <2>2
<1>5. /\ Filled(bs, k, rest, j) = [b \in Blocks |-> Filled(bs, k, rest, j)[b]]
      /\ [Filled(bs, k, rest, j - 1) EXCEPT ![bs[j]] = t]
           = [b \in Blocks |-> [Filled(bs, k, rest, j - 1) EXCEPT ![bs[j]] = t][b]]
  BY DEF Filled
<1>6. [Filled(bs, k, rest, j - 1) EXCEPT ![bs[j]] = t] = Filled(bs, k, rest, j)
  BY <1>4, <1>5
<1>. QED BY <1>2, <1>3, <1>6 DEF t

(* The image with block j of a write allocated, but not yet filled.         *)
Allocated(i, k, bs, rest, j) ==
  [disk EXCEPT !.block_bitmap = @ \cup {bs[m] : m \in 1 .. j},
               !.free_blocks = @ - Passed(i, j),
               !.text = Filled(bs, k, rest, j - 1)]

LEMMA AllocateNew ==
  ASSUME Sound(disk), NEW i \in Inodes, NEW k, NEW bs, NEW rest, Target(i, k, bs, rest),
         NEW j \in 1 .. k, j > Len(disk.inode_table[i].block)
  PROVE  /\ CanNewBlock(Written(i, k, bs, rest, j - 1))
         /\ new_block(Written(i, k, bs, rest, j - 1)) = Allocated(i, k, bs, rest, j)
<1>. DEFINE L == Len(disk.inode_table[i].block)
            B == {bs[m] : m \in 1 .. j - 1}
            d == Written(i, k, bs, rest, j - 1)
            T == Filled(bs, k, rest, j - 1)
            p == Passed(i, j - 1)
            q == Passed(i, j)
<1>0. /\ disk \in Disk /\ L \in Nat /\ j \in Nat /\ k \in Nat /\ j <= k /\ j > L
  <2>1. disk.inode_table[i].block \in Seq(Blocks)
    BY InodeType DEF Sound
  <2>. QED BY <2>1 DEF Target, Sound
<1>1. p + 1 = q /\ q <= Passed(i, k) /\ p \in Nat
  <2>1. /\ q = IF j > L THEN j - L ELSE 0
        /\ p = IF j - 1 > L THEN (j - 1) - L ELSE 0
        /\ Passed(i, k) = IF k > L THEN k - L ELSE 0
    BY DEF Passed
  <2>. HIDE DEF L, p, q
  <2>. QED BY <1>0, <2>1
<1>2. /\ d.block_bitmap = disk.block_bitmap \cup B /\ d.free_blocks = disk.free_blocks - p
      /\ d.text = T /\ d.inode_table = disk.inode_table /\ d.dirents = disk.dirents
  BY WrittenIs
<1>3. bs[j] = Min(FreeBlocks(disk) \ B) /\ bs[j] \in FreeBlocks(disk) \ B
  <2>1. bs[j] = Min(FreeBlocks(disk) \ B) /\ bs[j] \in FreeBlocks(disk)
    BY <1>0 DEF Target
  <2>2. bs[j] \notin B
    <3>1. j \in 1 .. Len(bs) /\ \A m \in 1 .. j - 1 : m \in 1 .. Len(bs) /\ m # j
      BY DEF Target
    <3>. QED BY <3>1 DEF Target
  <2>. QED BY <2>1, <2>2
<1>4. FreeBlocks(d) = FreeBlocks(disk) \ B
  <2>. HIDE DEF B, d
  <2>. QED BY <1>2 DEF FreeBlocks
<1>5. disk.free_blocks \in Nat /\ Passed(i, k) <= disk.free_blocks /\ Passed(i, k) \in Nat
  <2>1. disk.free_blocks \in Nat
    BY <1>0 DEF Disk
  <2>2. Passed(i, k) \in Nat
    <3>1. Passed(i, k) = IF k > L THEN k - L ELSE 0
      BY DEF Passed
    <3>. HIDE DEF L
    <3>. QED BY <1>0, <3>1
  <2>. QED BY <2>1, <2>2 DEF Target
<1>6. CanNewBlock(d) /\ NextBlock(d) = bs[j]
  <2>1. disk.free_blocks - p > 0
    <3>. HIDE DEF p, q
    <3>1. p \in Nat /\ p + 1 <= Passed(i, k)
      BY <1>1
    <3>2. Passed(i, k) <= disk.free_blocks /\ disk.free_blocks \in Nat /\ Passed(i, k) \in Nat
      BY <1>5
    <3>. QED BY <3>1, <3>2
  <2>. HIDE DEF d, B, p
  <2>. QED BY <1>2, <1>3, <1>4, <2>1 DEF CanNewBlock, NextBlock
<1>7. {bs[m] : m \in 1 .. j} = B \cup {bs[j]}
  <2>1. 1 .. j = (1 .. j - 1) \cup {j}
    BY <1>0
  <2>. QED BY <2>1
<1>8. new_block(d) = [disk EXCEPT !.block_bitmap = @ \cup {bs[m] : m \in 1 .. j},
                                  !.free_blocks = @ - q, !.text = T]
  <2>1. (disk.free_blocks - p) - 1 = disk.free_blocks - q
    <3>. HIDE DEF p, q
    <3>. QED BY <1>1, <1>5
  <2>2. d = [disk EXCEPT !.block_bitmap = disk.block_bitmap \cup B,
                         !.free_blocks = disk.free_blocks - p, !.text = T]
    BY DEF Written
  <2>. HIDE DEF B, T, p, q
  <2>3. new_block(d) = [d EXCEPT !.block_bitmap = (disk.block_bitmap \cup B) \cup {bs[j]},
                                 !.free_blocks = (disk.free_blocks - p) - 1]
    <3>. HIDE DEF d
    <3>. QED BY <1>2, <1>6 DEF new_block
  <2>4. new_block(d) = [d EXCEPT !.block_bitmap = disk.block_bitmap \cup {bs[m] : m \in 1 .. j},
                                 !.free_blocks = disk.free_blocks - q]
    <3>1. (disk.block_bitmap \cup B) \cup {bs[j]} = disk.block_bitmap \cup {bs[m] : m \in 1 .. j}
      BY <1>7
    <3>. QED BY <2>1, <2>3, <3>1
  <2>. HIDE DEF d
  <2>. QED BY <1>0, <2>2, <2>4 DEF Disk
<1>. QED BY <1>6, <1>8 DEF Allocated

LEMMA AllocateOld ==
  ASSUME Sound(disk), NEW i \in Inodes, NEW k, NEW bs, NEW rest, Target(i, k, bs, rest),
         NEW j \in 1 .. k, ~ (j > Len(disk.inode_table[i].block))
  PROVE  Written(i, k, bs, rest, j - 1) = Allocated(i, k, bs, rest, j)
<1>. DEFINE L == Len(disk.inode_table[i].block)
            B == {bs[m] : m \in 1 .. j - 1}
            C == {bs[m] : m \in 1 .. j}
<1>0. L \in Nat /\ j \in Nat /\ k \in Nat /\ j <= k /\ j <= L
  <2>1. disk.inode_table[i].block \in Seq(Blocks)
    BY InodeType DEF Sound
  <2>. QED BY <2>1 DEF Target
<1>1. Passed(i, j) = 0 /\ Passed(i, j - 1) = 0
  BY <1>0 DEF Passed
<1>2. disk.block_bitmap \cup B = disk.block_bitmap \cup C
  <2>1. \A m \in 1 .. j : bs[m] \in disk.block_bitmap
    <3>1. \A m \in 1 .. j : m \in 1 .. k /\ m <= L
      BY <1>0
    <3>. QED BY <3>1 DEF Target
  <2>2. \A m \in 1 .. j - 1 : bs[m] \in disk.block_bitmap
    BY <1>0, <2>1
  <2>. QED BY <2>1, <2>2
<1>. HIDE DEF B, C
<1>. QED BY <1>1, <1>2 DEF Written, Allocated, B, C

LEMMA FillNext ==
  ASSUME Sound(disk), NEW i \in Inodes, NEW k, NEW bs, NEW rest, Target(i, k, bs, rest),
         NEW j \in 1 .. k, NEW u,
         u = IF j < k THEN RoomIn(disk, disk.inode_table[i], j) ELSE rest,
         Allocated(i, k, bs, rest, j) \in Around(disk, i)
  PROVE  /\ Written(i, k, bs, rest, j) \in Around(disk, i)
         /\ [Allocated(i, k, bs, rest, j) EXCEPT !.text[bs[j]] = @ + u] = Written(i, k, bs, rest, j)
<1>. DEFINE a == Allocated(i, k, bs, rest, j)
            T == Filled(bs, k, rest, j - 1)
            U == Filled(bs, k, rest, j)
            t == disk.text[bs[j]] + u
            C == {bs[m] : m \in 1 .. j}
<1>0. disk \in Disk /\ bs[j] \in C
  BY DEF Sound
<1>1. /\ a.block_bitmap = disk.block_bitmap \cup C /\ a.text = T
      /\ a.inode_table = disk.inode_table
  <2>. HIDE DEF C, T
  <2>. QED BY <1>0 DEF Allocated, Disk, C, T
<1>2. T[bs[j]] = disk.text[bs[j]] /\ t \in 0 .. CAP /\ [T EXCEPT ![bs[j]] = t] = U
  BY FilledNext
<1>. HIDE DEF C
<1>3. a.text[bs[j]] + u = t
  BY <1>1, <1>2
<1>4. [a EXCEPT !.text[bs[j]] = t] \in Around(disk, i)
  <2>1. \A q \in Inodes : q # i => Owned(a.inode_table[q]) \cap {bs[j]} = {}
    BY <1>1 DEF Target
  <2>2. bs[j] \in a.block_bitmap
    BY <1>0, <1>1
  <2>. HIDE DEF a, t
  <2>. QED BY <1>2, <2>1, <2>2, FillStays DEF a
<1>5. [a EXCEPT !.text[bs[j]] = t] = Written(i, k, bs, rest, j)
  <2>1. [a EXCEPT !.text[bs[j]] = t] = [a EXCEPT !.text = [T EXCEPT ![bs[j]] = t]]
    <3>. HIDE DEF t, T
    <3>. QED BY <1>1
  <2>2. [a EXCEPT !.text[bs[j]] = t] = [a EXCEPT !.text = U]
    BY <1>2, <2>1
  <2>3. Written(i, k, bs, rest, j) = [disk EXCEPT !.block_bitmap = @ \cup C,
               !.free_blocks = @ - Passed(i, j), !.text = U]
    BY DEF Written, C
  <2>4. a = [disk EXCEPT !.block_bitmap = @ \cup C,
               !.free_blocks = @ - Passed(i, j), !.text = T]
    BY DEF Allocated, C
  <2>. HIDE DEF a, t, T, U
  <2>. QED BY <1>0, <2>2, <2>3, <2>4 DEF Disk
<1>6. [a EXCEPT !.text[bs[j]] = @ + u] = [a EXCEPT !.text[bs[j]] = t]
  <2>. HIDE DEF a, t
  <2>. QED BY <1>3
<1>. QED BY <1>4, <1>5, <1>6

LEMMA LeavesLonger ==
  ASSUME NEW G, NEW s, NEW t, NEW d, NEW e, NEW j \in Nat, Leaves(s, G, d), Len(s) > j - 1,
         Leaves(t, G, e)
  PROVE  Leaves(s \o t, G, e) /\ Len(s \o t) > j
<1>1. Leaves(s \o t, G, e)
  BY LeavesThen
<1>2. s \in Seq(G) /\ t \in Seq(G) /\ t # <<>>
  BY DEF Leaves
<1>3. Len(s \o t) = Len(s) + Len(t) /\ Len(t) \in Nat /\ Len(t) # 0 /\ Len(s) \in Nat
  BY <1>2
<1>. QED BY <1>1, <1>3

(* The writes of one block.                                                 *)
FillBlock(i, k, bs, rest, j, s) ==
  LET u == IF j < k THEN RoomIn(disk, disk.inode_table[i], j) ELSE rest
  IN  IF j > Len(disk.inode_table[i].block)
      THEN Then(Then(s, new_block_writes), LAMBDA d : <<[d EXCEPT !.text[bs[j]] = @ + u]>>)
      ELSE Then(s, LAMBDA d : <<[d EXCEPT !.text[bs[j]] = @ + u]>>)

LEMMA FillBlockLeaves ==
  ASSUME Sound(disk), NEW i \in Inodes, NEW k, NEW bs, NEW rest, Target(i, k, bs, rest),
         NEW j \in 1 .. k, NEW s, Len(s) > j - 1,
         Leaves(s, Around(disk, i), Written(i, k, bs, rest, j - 1))
  PROVE  /\ Leaves(FillBlock(i, k, bs, rest, j, s), Around(disk, i), Written(i, k, bs, rest, j))
         /\ Len(FillBlock(i, k, bs, rest, j, s)) > j
<1>. DEFINE G == Around(disk, i)
            u == IF j < k THEN RoomIn(disk, disk.inode_table[i], j) ELSE rest
            d == Written(i, k, bs, rest, j - 1)
            a == Allocated(i, k, bs, rest, j)
            e == Written(i, k, bs, rest, j)
            f(x) == <<[x EXCEPT !.text[bs[j]] = @ + u]>>
<1>0. j \in Nat /\ d \in Around(disk, i) /\ Last(s) = d
  <2>1. d \in Around(disk, i)
    <3>. HIDE DEF d
    <3>. QED BY RunsOf DEF d
  <2>. HIDE DEF d
  <2>. QED BY <2>1 DEF Leaves, d
<1>1. ASSUME a \in Around(disk, i)
      PROVE  f(a) = <<e>> /\ Leaves(<<e>>, G, e)
  <2>1. e \in Around(disk, i) /\ [a EXCEPT !.text[bs[j]] = @ + u] = e
    <3>. HIDE DEF u
    <3>1. u = IF j < k THEN RoomIn(disk, disk.inode_table[i], j) ELSE rest
      BY DEF u
    <3>. QED BY <1>1, <3>1, FillNext
  <2>. HIDE DEF a, e, u
  <2>. QED BY <2>1, LeavesOne
<1>2. CASE j > Len(disk.inode_table[i].block)
  <2>1. CanNewBlock(d) /\ new_block(d) = a
    BY <1>2, AllocateNew
  <2>2. FillBlock(i, k, bs, rest, j, s) =
          (s \o new_block_writes(Last(s))) \o f(Last(s \o new_block_writes(Last(s))))
    BY <1>2 DEF FillBlock, Then
  <2>. HIDE DEF d, a, e, f
  <2>3. Leaves(new_block_writes(d), G, a)
    BY <1>0, <2>1, NewBlockWrites
  <2>4. a \in Around(disk, i)
    BY <2>3, RunsOf
  <2>5. Leaves(s, G, d)
    BY DEF d
  <2>6. Leaves(s \o new_block_writes(d), G, a) /\ Len(s \o new_block_writes(d)) > j
    <3>. HIDE DEF G
    <3>. QED BY <1>0, <2>3, <2>5, LeavesLonger
  <2>7. Last(s \o new_block_writes(d)) = a
    BY <2>6 DEF Leaves
  <2>8. FillBlock(i, k, bs, rest, j, s) = (s \o new_block_writes(d)) \o <<e>>
    BY <1>0, <1>1, <2>2, <2>4, <2>7
  <2>9. Len(s \o new_block_writes(d)) > j - 1
    <3>1. Len(s \o new_block_writes(d)) \in Nat
      BY <2>6 DEF Leaves
    <3>. QED BY <1>0, <2>6, <3>1
  <2>. HIDE DEF G
  <2>10. Leaves((s \o new_block_writes(d)) \o <<e>>, G, e) /\ Len((s \o new_block_writes(d)) \o <<e>>) > j
    BY <1>0, <1>1, <2>4, <2>6, <2>9, LeavesLonger DEF G
  <2>. QED BY <2>8, <2>10 DEF G, e
<1>3. CASE ~ (j > Len(disk.inode_table[i].block))
  <2>1. d = a
    BY <1>3, AllocateOld
  <2>2. FillBlock(i, k, bs, rest, j, s) = s \o f(Last(s))
    BY <1>3 DEF FillBlock, Then
  <2>. HIDE DEF d, a, e, f
  <2>3. FillBlock(i, k, bs, rest, j, s) = s \o <<e>>
    BY <1>0, <1>1, <2>1, <2>2
  <2>4. Leaves(s, G, d)
    BY DEF d
  <2>5. Leaves(<<e>>, G, e)
    BY <1>0, <1>1, <2>1
  <2>. HIDE DEF G
  <2>6. Leaves(s \o <<e>>, G, e) /\ Len(s \o <<e>>) > j
    BY <1>0, <2>4, <2>5, LeavesLonger
  <2>. QED BY <2>3, <2>6 DEF G, e
<1>. QED BY <1>2, <1>3

(* The writes of the blocks, and then that of the inode.                    *)
LEMMA TailLeaves ==
  ASSUME NEW G, NEW s, NEW d, Leaves(s, G, d), Len(s) > 1
  PROVE  Leaves(Tail(s), G, d)
<1>1. s \in Seq(G) /\ Len(s) \in Nat /\ d = s[Len(s)] /\ s # <<>>
  BY DEF Leaves, Last
<1>2. Tail(s) \in Seq(G) /\ Len(Tail(s)) = Len(s) - 1
  BY <1>1
<1>3. \A k \in 1 .. Len(s) - 1 : Tail(s)[k] = s[k + 1]
  BY <1>1
<1>4. Tail(s)[Len(s) - 1] = s[Len(s)]
  <2>1. Len(s) - 1 \in 1 .. Len(s) - 1 /\ (Len(s) - 1) + 1 = Len(s)
    BY <1>1
  <2>. QED BY <1>3, <2>1
<1>5. Tail(s) # <<>>
  <2>1. Len(Tail(s)) # 0
    BY <1>1, <1>2
  <2>2. Len(<<>>) = 0
    OBVIOUS
  <2>. QED BY <2>1, <2>2, Zenon
<1>. QED BY <1>1, <1>2, <1>4, <1>5 DEF Leaves, Last

(* The image of a write: its blocks filled and the inode saved.             *)
FilledDisk(i, n, k, bs, rest) ==
  AddSize([Written(i, k, bs, rest, k) EXCEPT !.inode_table[i].block = bs], i, n + 1)

LEMMA FillWritesRun ==
  ASSUME Sound(disk), NEW i \in Inodes, NEW n, NEW k, NEW bs, NEW rest, Target(i, k, bs, rest),
         rest = n - RoomBefore(disk, disk.inode_table[i], k)
  PROVE  Runs(FillWrites(i, n, k, bs), Around(disk, i), FilledDisk(i, n, k, bs, rest))
<1>. DEFINE ino == disk.inode_table[i]
            upto(j) == IF j < k THEN RoomIn(disk, ino, j) ELSE n - RoomBefore(disk, ino, k)
            fill(d, j) == <<[d EXCEPT !.text[bs[j]] = @ + upto(j)]>>
            after[j \in 0 .. k] ==
              IF j = 0 THEN <<disk>>
              ELSE IF j > Len(ino.block)
                   THEN Then(Then(after[j - 1], new_block_writes), LAMBDA d : fill(d, j))
                   ELSE Then(after[j - 1], LAMBDA d : fill(d, j))
            G == Around(disk, i)
            R == [j \in 0 .. k |-> {s \in Seq(G) : /\ Leaves(s, G, Written(i, k, bs, rest, j))
                                                  /\ Len(s) > j}]
            step == [j \in 1 .. k |-> [s \in Seq(G) |-> FillBlock(i, k, bs, rest, j, s)]]
<1>0. k \in Nat /\ k # 0 /\ bs \in Seq(Blocks) /\ Len(bs) \in Nat
  BY DEF Target
<1>1. <<disk>> \in R[0]
  <2>1. {bs[m] : m \in 1 .. 0} = {}
    OBVIOUS
  <2>2. disk \in Disk /\ disk.text = [b \in Blocks |-> disk.text[b]]
    BY DEF Sound, Disk
  <2>3. Passed(i, 0) = 0
    <3>1. Len(ino.block) \in Nat
      BY InodeType DEF Sound
    <3>. QED BY <3>1 DEF Passed
  <2>4. Filled(bs, k, rest, 0) = disk.text
    BY <1>0, <2>2 DEF Filled
  <2>5. disk.free_blocks - 0 = disk.free_blocks
    BY <2>2 DEF Disk
  <2>6. Written(i, k, bs, rest, 0) = disk
    BY <2>1, <2>2, <2>3, <2>4, <2>5 DEF Written, Disk
  <2>7. disk \in G
    BY NearSelf
  <2>8. Leaves(<<disk>>, G, disk)
    BY <2>7, LeavesOne
  <2>9. Len(<<disk>>) > 0 /\ 0 \in 0 .. k
    BY <1>0
  <2>. QED BY <2>6, <2>8, <2>9 DEF Leaves
<1>2. ASSUME NEW j \in 1 .. k, NEW s, Leaves(s, G, Written(i, k, bs, rest, j - 1)), Len(s) > j - 1
      PROVE  FillBlock(i, k, bs, rest, j, s) \in R[j]
  <2>1. /\ Leaves(FillBlock(i, k, bs, rest, j, s), G, Written(i, k, bs, rest, j))
        /\ Len(FillBlock(i, k, bs, rest, j, s)) > j
    BY <1>2, FillBlockLeaves
  <2>2. j \in 0 .. k
    OBVIOUS
  <2>. HIDE DEF G
  <2>. QED BY <2>1, <2>2 DEF Leaves
<1>3. ASSUME NEW j \in 1 .. k, NEW s
      PROVE  FillBlock(i, k, bs, rest, j, s) =
               IF j > Len(ino.block)
               THEN Then(Then(s, new_block_writes), LAMBDA d : fill(d, j))
               ELSE Then(s, LAMBDA d : fill(d, j))
  <2>1. upto(j) = IF j < k THEN RoomIn(disk, ino, j) ELSE rest
    OBVIOUS
  <2>. HIDE DEF upto, ino
  <2>. QED BY <2>1 DEF FillBlock, Then, fill, ino
<1>4. Staged(k, R, <<disk>>, step)
  <2>1. \A j \in 1 .. k : \A s \in R[j - 1] : step[j][s] \in R[j]
    <3>. SUFFICES ASSUME NEW j \in 1 .. k, NEW s \in R[j - 1]
                  PROVE  step[j][s] \in R[j]
      OBVIOUS
    <3>1. j - 1 \in 0 .. k
      BY <1>0
    <3>2. s \in Seq(G) /\ Leaves(s, G, Written(i, k, bs, rest, j - 1)) /\ Len(s) > j - 1
      BY <3>1
    <3>3. step[j][s] = FillBlock(i, k, bs, rest, j, s)
      BY <3>2
    <3>. HIDE DEF step, R, G
    <3>. QED BY <1>2, <3>2, <3>3
  <2>. HIDE DEF R, step
  <2>. QED BY <1>0, <1>1, <2>1, Stages
<1>5. PICK f : /\ f = [j \in 0 .. k |-> IF j = 0 THEN <<disk>> ELSE step[j][f[j - 1]]]
               /\ \A j \in 0 .. k : f[j] \in R[j]
  BY <1>4 DEF Staged
<1>6. f = [j \in 0 .. k |->
            IF j = 0 THEN <<disk>>
            ELSE IF j > Len(ino.block)
                 THEN Then(Then(f[j - 1], new_block_writes), LAMBDA d : fill(d, j))
                 ELSE Then(f[j - 1], LAMBDA d : fill(d, j))]
  <2>1. ASSUME NEW j \in 0 .. k, j # 0
        PROVE  step[j][f[j - 1]] =
                 IF j > Len(ino.block)
                 THEN Then(Then(f[j - 1], new_block_writes), LAMBDA d : fill(d, j))
                 ELSE Then(f[j - 1], LAMBDA d : fill(d, j))
    <3>1. j \in 1 .. k /\ j - 1 \in 0 .. k
      BY <1>0, <2>1
    <3>2. f[j - 1] \in Seq(G)
      BY <1>5, <3>1
    <3>3. step[j][f[j - 1]] = FillBlock(i, k, bs, rest, j, f[j - 1])
      BY <3>1, <3>2
    <3>. HIDE DEF step, R, fill
    <3>. QED BY <1>3, <3>1, <3>3
  <2>. HIDE DEF step, R, fill, ino
  <2>. QED BY <1>5, <2>1
<1>7. after = [j \in 0 .. k |->
                IF j = 0 THEN <<disk>>
                ELSE IF j > Len(ino.block)
                     THEN Then(Then(after[j - 1], new_block_writes), LAMBDA d : fill(d, j))
                     ELSE Then(after[j - 1], LAMBDA d : fill(d, j))]
  <2>. HIDE DEF fill, ino
  <2>. QED BY <1>6, Zenon DEF after
<1>8. FillWrites(i, n, k, bs) =
        Then(Tail(after[k]), LAMBDA d : <<AddSize([d EXCEPT !.inode_table[i].block = bs], i, n + 1)>>)
  BY Zenon DEF FillWrites
<1>. HIDE DEF after, step
<1>9. \A j \in 0 .. k : after[j] \in R[j]
  <2>1. after[0] = <<disk>>
    <3>1. 0 \in 0 .. k
      BY <1>0
    <3>. HIDE DEF fill, ino, R
    <3>. QED BY <1>7, <3>1
  <2>2. ASSUME NEW j \in 1 .. k, after[j - 1] \in R[j - 1]
        PROVE  after[j] \in R[j]
    <3>1. j - 1 \in 0 .. k /\ j \in 0 .. k /\ j # 0
      BY <1>0
    <3>2. Leaves(after[j - 1], G, Written(i, k, bs, rest, j - 1)) /\ Len(after[j - 1]) > j - 1
      BY <2>2, <3>1
    <3>3. after[j] = FillBlock(i, k, bs, rest, j, after[j - 1])
      <4>. HIDE DEF R, G, fill, ino
      <4>. QED BY <1>3, <1>7, <3>1
    <3>. HIDE DEF R, G
    <3>. QED BY <1>2, <3>2, <3>3
  <2>. HIDE DEF R
  <2>. QED BY <1>0, <1>1, <2>1, <2>2, StagesHold
<1>. DEFINE d == Written(i, k, bs, rest, k)
            e == FilledDisk(i, n, k, bs, rest)
<1>10. Leaves(after[k], G, d) /\ Len(after[k]) > k
  <2>1. k \in 0 .. k /\ after[k] \in R[k]
    BY <1>0, <1>9
  <2>. HIDE DEF G
  <2>. QED BY <2>1
<1>. HIDE DEF G
<1>11. Leaves(Tail(after[k]), G, d)
  <2>1. Len(after[k]) \in Nat /\ Len(after[k]) > 1
    BY <1>0, <1>10 DEF Leaves
  <2>. QED BY <1>10, <2>1, TailLeaves
<1>12. FillWrites(i, n, k, bs) = Tail(after[k]) \o <<e>>
  <2>1. Last(Tail(after[k])) = d
    BY <1>11 DEF Leaves
  <2>. QED BY <1>8, <2>1 DEF Then, FilledDisk
<1>. HIDE DEF d, e
<1>. QED BY <1>11, <1>12, RunsOne, RunsThen DEF G, e

(* The blocks of a write that fits are what its steps need them to be.      *)
LEMMA NewBlocksNext ==
  ASSUME Sound(disk), NEW i \in Inodes, NEW g \in Nat, NEW nb \in NewBlocks(disk, g),
         NEW j \in Nat, j > Len(disk.inode_table[i].block),
         j <= Len(disk.inode_table[i].block) + g
  PROVE  LET bs == disk.inode_table[i].block \o nb
         IN  /\ bs[j] = Min(FreeBlocks(disk) \ {bs[m] : m \in 1 .. j - 1})
             /\ bs[j] \in FreeBlocks(disk)
<1>. DEFINE ino == disk.inode_table[i]
            L == Len(ino.block)
            bs == ino.block \o nb
<1>0. /\ disk \in Disk /\ ino.block \in Seq(Blocks) /\ L \in Nat
      /\ \A m \in 1 .. L : ino.block[m] \in disk.block_bitmap
  BY InodeType, WalkedMarked DEF Sound
<1>1. /\ nb \in Seq(Blocks) /\ Len(nb) = g /\ Range(nb) \subseteq FreeBlocks(disk)
      /\ \A m \in 1 .. g : nb[m] \in Range(nb)
  BY <1>0, NewBlocksType
<1>2. /\ \A m \in 1 .. L : bs[m] = ino.block[m]
      /\ \A m \in 1 .. L + g : m > L => bs[m] = nb[m - L]
  <2>. HIDE DEF ino
  <2>. QED BY <1>0, <1>1, ConcatParts
<1>. HIDE DEF bs, L, ino
<1>3. j - L \in 1 .. g /\ j \in 1 .. L + g /\ j > L
  BY <1>0, <1>1 DEF L, ino
<1>4. bs[j] = nb[j - L] /\ bs[j] \in FreeBlocks(disk)
  BY <1>1, <1>2, <1>3
<1>5. nb[j - L] = Min(FreeBlocks(disk) \ {nb[q] : q \in 1 .. (j - L) - 1})
  BY <1>3, NextOfNew
<1>6. FreeBlocks(disk) \ {nb[q] : q \in 1 .. (j - L) - 1}
        = FreeBlocks(disk) \ {bs[m] : m \in 1 .. j - 1}
  <2>1. ASSUME NEW q \in 1 .. (j - L) - 1
        PROVE  nb[q] \in {bs[m] : m \in 1 .. j - 1}
    <3>1. q + L \in 1 .. j - 1 /\ q + L \in 1 .. L + g /\ q + L > L /\ (q + L) - L = q
      BY <1>0, <1>3
    <3>2. bs[q + L] = nb[q]
      BY <1>2, <3>1
    <3>. QED BY <3>1, <3>2
  <2>2. ASSUME NEW m \in 1 .. j - 1
        PROVE  bs[m] \notin FreeBlocks(disk) \/ bs[m] \in {nb[q] : q \in 1 .. (j - L) - 1}
    <3>1. CASE m <= L
      BY <1>0, <1>2, <3>1 DEF FreeBlocks
    <3>2. CASE m > L
      <4>1. m \in 1 .. L + g /\ m - L \in 1 .. (j - L) - 1
        BY <1>0, <1>3, <3>2
      <4>. QED BY <1>2, <3>2, <4>1
    <3>. QED BY <1>0, <3>1, <3>2
  <2>. QED BY <2>1, <2>2
<1>. QED BY <1>4, <1>5, <1>6 DEF bs, ino

LEMMA WriteTarget ==
  ASSUME Sound(disk), NEW i \in Inodes, NEW k \in 1 .. DIRECT,
         NEW nb \in NewBlocks(disk, Passed(i, k)), CanNewBlocks(disk, Passed(i, k)),
         NEW rest \in 0 .. RoomIn(disk, disk.inode_table[i], k)
  PROVE  Target(i, k, disk.inode_table[i].block \o nb, rest)
<1>. DEFINE ino == disk.inode_table[i]
            L == Len(ino.block)
            g == Passed(i, k)
            bs == ino.block \o nb
<1>0. /\ disk \in Disk /\ ino.block \in Seq(Blocks) /\ L \in Nat /\ k \in Nat /\ k # 0
      /\ \A j \in 1 .. L : /\ ino.block[j] \in disk.block_bitmap
                           /\ ino.block[j] \in Owned(ino)
  <2>1. disk \in Disk /\ ino.block \in Seq(Blocks)
    BY InodeType DEF Sound
  <2>2. \A j \in 1 .. L : ino.block[j] \in disk.block_bitmap
    BY <2>1, WalkedMarked
  <2>3. \A j \in 1 .. L : ino.block[j] \in Owned(ino)
    BY <2>1 DEF Owned, Range
  <2>. QED BY <2>1, <2>2, <2>3, ConstAssumption
<1>1. g \in Nat /\ k <= L + g /\ (k > L => k = L + g)
  <2>1. g = IF k > L THEN k - L ELSE 0
    BY DEF Passed
  <2>. HIDE DEF L, g
  <2>. QED BY <1>0, <2>1
<1>. HIDE DEF g
<1>2. /\ nb \in Seq(Blocks) /\ Len(nb) = g /\ Range(nb) \subseteq FreeBlocks(disk)
      /\ \A m \in 1 .. g : nb[m] \in Range(nb)
      /\ IsInjective(nb)
  BY <1>0, <1>1, NewBlocksType DEF g
<1>3. /\ bs \in Seq(Blocks) /\ Len(bs) = L + g
      /\ \A m \in 1 .. L : bs[m] = ino.block[m]
  <2>. HIDE DEF ino
  <2>. QED BY <1>0, <1>2, ConcatParts, ZenonT(30)
<1>4. \A j, m \in 1 .. Len(bs) : bs[j] = bs[m] => j = m
  <2>1. IsInjective(ino.block) /\ Range(ino.block) \cap Range(nb) = {}
    BY <1>0, <1>2 DEF Sound, OwnsBlocks, Owned, FreeBlocks
  <2>2. IsInjective(bs)
    <3>. HIDE DEF ino
    <3>. QED BY <1>0, <1>2, <2>1, ConcatRange
  <2>. HIDE DEF bs
  <2>. QED BY <1>3, <2>2 DEF IsInjective
<1>5. ASSUME NEW j \in 1 .. k, j > L
      PROVE  /\ bs[j] = Min(FreeBlocks(disk) \ {bs[m] : m \in 1 .. j - 1})
             /\ bs[j] \in FreeBlocks(disk)
  <2>1. j \in Nat /\ j <= L + g
    BY <1>0, <1>1
  <2>. QED BY <1>1, <1>5, <2>1, NewBlocksNext DEF g
<1>6. ASSUME NEW j \in 1 .. k, j <= L
      PROVE  /\ bs[j] = ino.block[j] /\ bs[j] \in disk.block_bitmap
             /\ bs[j] \in Owned(ino)
  BY <1>0, <1>3, <1>6
<1>. HIDE DEF bs, L
<1>7. ASSUME NEW j \in 1 .. k, NEW q \in Inodes, q # i
      PROVE  bs[j] \notin Owned(disk.inode_table[q])
  <2>1. CASE j <= L
    <3>1. Owned(ino) \cap Owned(disk.inode_table[q]) = {}
      BY <1>7 DEF Sound, OwnsBlocks
    <3>. QED BY <1>6, <2>1, <3>1
  <2>2. CASE j > L
    <3>1. Owned(disk.inode_table[q]) \subseteq disk.block_bitmap
      BY DEF Sound, OwnsBlocks
    <3>. QED BY <1>5, <2>2, <3>1 DEF FreeBlocks
  <2>. QED BY <1>0, <2>1, <2>2
<1>8. ASSUME NEW j \in 1 .. k
      PROVE  /\ disk.text[bs[j]] \in 0 .. CAP
             /\ disk.text[bs[j]] + RoomIn(disk, ino, j) = CAP
             /\ RoomIn(disk, ino, j) \in 0 .. CAP
  <2>1. CASE j <= L
    <3>1. bs[j] = ino.block[j] /\ bs[j] \in Blocks
      BY <1>0, <1>6, <2>1 DEF Disk
    <3>2. disk.text[bs[j]] \in 0 .. CAP
      BY <1>0, <3>1 DEF Disk
    <3>3. RoomIn(disk, ino, j) = CAP - disk.text[bs[j]]
      BY <2>1, <3>1 DEF RoomIn, L
    <3>. QED BY <3>2, <3>3, CapType
  <2>2. CASE j > L
    <3>1. disk.text[bs[j]] = 0
      BY <1>5, <2>2 DEF Sound, IsClean
    <3>2. RoomIn(disk, ino, j) = CAP
      BY <1>0, <2>2 DEF RoomIn, L
    <3>. QED BY <3>1, <3>2, CapType
  <2>. QED BY <1>0, <2>1, <2>2
<1>9. disk.text[bs[k]] + rest \in 0 .. CAP
  <2>1. k \in 1 .. k
    BY <1>0
  <2>2. rest \in 0 .. RoomIn(disk, ino, k)
    OBVIOUS
  <2>. HIDE DEF ino
  <2>. QED BY <1>8, <2>1, <2>2, CapType
<1>10. \A j \in 1 .. k - 1 : disk.text[bs[j]] + RoomIn(disk, ino, j) = CAP
  <2>1. 1 .. k - 1 \subseteq 1 .. k
    BY <1>0
  <2>. QED BY <1>8, <2>1
<1>11. g <= disk.free_blocks
  <2>1. disk.free_blocks \in Nat
    BY <1>0 DEF Disk
  <2>. QED BY <1>1, <2>1 DEF CanNewBlocks, g
<1>12. k \in 1 .. Len(bs)
  BY <1>0, <1>1, <1>3
<1>. HIDE DEF ino
<1>13. Target(i, k, bs, rest)
  <2>1. \A j \in 1 .. k : j <= L => bs[j] \in disk.block_bitmap
    BY <1>6
  <2>2. \A j \in 1 .. k : j > L => /\ bs[j] = Min(FreeBlocks(disk) \ {bs[m] : m \in 1 .. j - 1})
                                   /\ bs[j] \in FreeBlocks(disk)
    BY <1>5
  <2>3. \A j \in 1 .. k, q \in Inodes : q # i => bs[j] \notin Owned(disk.inode_table[q])
    BY <1>7
  <2>. QED BY <1>3, <1>4, <1>9, <1>10, <1>11, <1>12, <2>1, <2>2, <2>3, Zenon DEF Target, L, ino, g
<1>. QED BY <1>13 DEF bs, ino

(* What the last of them leaves is what FileSystem's write stores.          *)
Image(d, B, F, T, M) ==
  [d EXCEPT !.block_bitmap = B, !.free_blocks = F, !.text = T, !.inode_table = M]
Sized(M, i, n) == [M EXCEPT ![i] = [M[i] EXCEPT !.size = (M[i].size + n) % UINT32]]

LEMMA AddSizeIs ==
  ASSUME NEW d \in Disk, NEW B, NEW F, NEW T, NEW M \in [Inodes -> Inode], NEW i \in Inodes,
         NEW n
  PROVE  AddSize(Image(d, B, F, T, M), i, n) = Image(d, B, F, T, Sized(M, i, n))
<1>. DEFINE e == Image(d, B, F, T, M)
<1>1. e.inode_table = M /\ M[i] \in Inode
  BY DEF Disk, Image
<1>. DEFINE m == [M[i] EXCEPT !.size = (M[i].size + n) % UINT32]
<1>2. AddSize(e, i, n) = [e EXCEPT !.inode_table = [M EXCEPT ![i] = m]]
  BY <1>1 DEF AddSize
<1>. HIDE DEF m
<1>3. [e EXCEPT !.inode_table = [M EXCEPT ![i] = m]] =
        [d EXCEPT !.block_bitmap = B, !.free_blocks = F, !.text = T,
                  !.inode_table = [M EXCEPT ![i] = m]]
  BY DEF Disk, Image
<1>. QED BY <1>2, <1>3 DEF m, Image, Sized

LEMMA FilledDiskIs ==
  ASSUME Sound(disk), NEW i \in Inodes, NEW n \in Nat, NEW k \in 1 .. DIRECT,
         NEW nb \in NewBlocks(disk, Passed(i, k)), CanNewBlocks(disk, Passed(i, k)),
         NEW rest \in 0 .. RoomIn(disk, disk.inode_table[i], k)
  PROVE  FilledDisk(i, n, k, disk.inode_table[i].block \o nb, rest) =
           FillBlocks(AddBlocks(disk, i, nb, n + 1), disk.inode_table[i].block \o nb, k, rest)
<1>. DEFINE ino == disk.inode_table[i]
            L == Len(ino.block)
            g == Passed(i, k)
            bs == ino.block \o nb
            F == disk.free_blocks - g
            B == disk.block_bitmap \cup Range(nb)
            T == Filled(bs, k, rest, k)
            m == [ino EXCEPT !.block = bs]
            M == [disk.inode_table EXCEPT ![i] = m]
            N == [M EXCEPT ![i] = [m EXCEPT !.size = (m.size + (n + 1)) % UINT32]]
<1>0. /\ disk \in Disk /\ ino \in Inode /\ ino.block \in Seq(Blocks) /\ L \in Nat
      /\ k \in Nat /\ k # 0 /\ disk.inode_table \in [Inodes -> Inode]
  <2>1. disk \in Disk
    BY DEF Sound
  <2>2. ino \in Inode /\ ino.block \in Seq(Blocks)
    BY <2>1, InodeType
  <2>3. disk.inode_table \in [Inodes -> Inode]
    BY <2>1 DEF Disk
  <2>. HIDE DEF ino
  <2>. QED BY <2>1, <2>2, <2>3, ConstAssumption
<1>1. g \in Nat /\ k <= L + g /\ (k > L => k = L + g) /\ (k <= L => g = 0)
  <2>1. g = IF k > L THEN k - L ELSE 0
    BY DEF Passed
  <2>. HIDE DEF L, g
  <2>. QED BY <1>0, <2>1
<1>2. Target(i, k, bs, rest)
  BY WriteTarget
<1>. HIDE DEF g
<1>3. nb \in Seq(Blocks) /\ Len(nb) = g /\ \A b \in Range(nb) : \E j \in 1 .. g : b = nb[j]
  <2>1. nb \in Seq(Blocks) /\ Len(nb) = g
    BY <1>0, <1>1, NewBlocksType DEF g
  <2>. QED BY <2>1 DEF Range
<1>4. /\ bs \in Seq(Blocks) /\ Len(bs) = L + g
      /\ \A j \in 1 .. L : bs[j] = ino.block[j]
      /\ \A j \in 1 .. L + g : j > L => bs[j] = nb[j - L]
  <2>1. /\ bs \in Seq(Blocks) /\ Len(bs) = Len(ino.block) + Len(nb)
        /\ \A j \in 1 .. Len(ino.block) : bs[j] = ino.block[j]
        /\ \A j \in 1 .. Len(ino.block) + Len(nb) :
             j > Len(ino.block) => bs[j] = nb[j - Len(ino.block)]
    <3>1. ino.block \in Seq(Blocks) /\ nb \in Seq(Blocks)
      BY <1>0, <1>3
    <3>. HIDE DEF ino
    <3>. QED BY <3>1, ConcatParts, ZenonT(30)
  <2>2. Len(nb) = g
    BY <1>3
  <2>. HIDE DEF bs, ino
  <2>. QED BY <2>1, <2>2, ZenonT(30) DEF L
<1>5. \A j \in 1 .. g : nb[j] \in Range(nb)
  BY <1>3 DEF Range
<1>6. m \in Inode /\ M \in [Inodes -> Inode] /\ M[i] = m
  <2>1. m \in Inode
    <3>. HIDE DEF ino, bs
    <3>. QED BY <1>0, <1>4 DEF Inode
  <2>. HIDE DEF m
  <2>. QED BY <1>0, <2>1
<1>. HIDE DEF bs
<1>7. disk.block_bitmap \cup {bs[j] : j \in 1 .. k} = B
  <2>1. ASSUME NEW j \in 1 .. k
        PROVE  bs[j] \in B
    <3>1. CASE j <= L
      BY <1>2, <3>1 DEF Target
    <3>2. CASE j > L
      <4>1. j \in 1 .. L + g /\ j - L \in 1 .. g
        <5>. HIDE DEF L
        <5>. QED BY <1>0, <1>1, <3>2
      <4>. QED BY <1>4, <1>5, <3>2, <4>1
    <3>. QED BY <1>0, <3>1, <3>2
  <2>2. ASSUME NEW b \in Range(nb)
        PROVE  b \in {bs[j] : j \in 1 .. k}
    <3>1. PICK j \in 1 .. g : b = nb[j]
      BY <1>3
    <3>2. j + L \in 1 .. L + g /\ j + L \in 1 .. k /\ j + L > L /\ (j + L) - L = j
      <4>. HIDE DEF L
      <4>. QED BY <1>0, <1>1
    <3>3. bs[j + L] = nb[j]
      BY <1>4, <3>2
    <3>. QED BY <3>1, <3>2, <3>3
  <2>. QED BY <2>1, <2>2
<1>8. [b \in Blocks |->
         IF \E j \in 1 .. k - 1 : bs[j] = b THEN CAP
         ELSE IF k <= Len(bs) /\ bs[k] = b THEN disk.text[b] + rest ELSE disk.text[b]] = T
  <2>1. \A b \in Blocks : (\E j \in 1 .. k - 1 : bs[j] = b) <=> (\E j \in 1 .. k : j < k /\ bs[j] = b)
    <3>1. \A j \in 1 .. k - 1 : j \in 1 .. k /\ j < k
      BY <1>0
    <3>2. \A j \in 1 .. k : j < k => j \in 1 .. k - 1
      BY <1>0
    <3>. QED BY <3>1, <3>2
  <2>2. k <= Len(bs)
    BY <1>1, <1>4
  <2>. QED BY <2>1, <2>2 DEF Filled
<1>. HIDE DEF T, B, M, m
<1>9. [Written(i, k, bs, rest, k) EXCEPT !.inode_table[i].block = bs] =
        [disk EXCEPT !.block_bitmap = B, !.free_blocks = F, !.text = T, !.inode_table = M]
  <2>1. Written(i, k, bs, rest, k) =
          [disk EXCEPT !.block_bitmap = B, !.free_blocks = F, !.text = T]
    BY <1>7 DEF Written, g, T
  <2>2. Written(i, k, bs, rest, k).inode_table = disk.inode_table
    BY <1>0, <2>1 DEF Disk
  <2>3. [Written(i, k, bs, rest, k) EXCEPT !.inode_table[i].block = bs]
          = [Written(i, k, bs, rest, k) EXCEPT !.inode_table = M]
    BY <2>2 DEF M, m
  <2>. HIDE DEF F, ino
  <2>. QED BY <1>0, <2>1, <2>3 DEF Disk
<1>10. FilledDisk(i, n, k, bs, rest) =
         [disk EXCEPT !.block_bitmap = B, !.free_blocks = F, !.text = T, !.inode_table = N]
  <2>1. n + 1 \in Int /\ [Written(i, k, bs, rest, k) EXCEPT !.inode_table[i].block = bs] =
        [disk EXCEPT !.block_bitmap = B, !.free_blocks = F, !.text = T, !.inode_table = M]
    BY <1>9
  <2>. DEFINE e == [Written(i, k, bs, rest, k) EXCEPT !.inode_table[i].block = bs]
  <2>2. FilledDisk(i, n, k, bs, rest) = AddSize(e, i, n + 1)
    BY DEF FilledDisk
  <2>. HIDE DEF e, F, N, ino
  <2>3. AddSize(e, i, n + 1) = Image(disk, B, F, T, Sized(M, i, n + 1))
    <3>1. disk \in Disk /\ M \in [Inodes -> Inode]
      BY <1>0, <1>6
    <3>2. e = Image(disk, B, F, T, M)
      BY <2>1 DEF e, Image
    <3>. QED BY <3>1, <3>2, AddSizeIs
  <2>. QED BY <1>6, <2>2, <2>3 DEF N, Image, Sized
<1>11. AddBlocks(disk, i, nb, n + 1) =
         [disk EXCEPT !.block_bitmap = B, !.free_blocks = F, !.text = disk.text, !.inode_table = N]
  <2>1. [disk EXCEPT !.block_bitmap = @ \cup Range(nb), !.free_blocks = @ - Len(nb),
                     !.inode_table[i].block = @ \o nb]
          = [disk EXCEPT !.block_bitmap = B, !.free_blocks = F, !.text = disk.text,
                         !.inode_table = M]
    <3>1. [disk EXCEPT !.block_bitmap = @ \cup Range(nb), !.free_blocks = @ - Len(nb),
                       !.inode_table[i].block = @ \o nb]
            = [disk EXCEPT !.block_bitmap = B, !.free_blocks = F, !.inode_table = M]
      BY <1>3 DEF B, M, m, bs
    <3>. HIDE DEF F
    <3>. QED BY <1>0, <3>1 DEF Disk
  <2>. DEFINE e == [disk EXCEPT !.block_bitmap = @ \cup Range(nb), !.free_blocks = @ - Len(nb),
                                !.inode_table[i].block = @ \o nb]
  <2>2. AddBlocks(disk, i, nb, n + 1) = AddSize(e, i, n + 1)
    BY DEF AddBlocks
  <2>. HIDE DEF e, F, N, ino
  <2>3. AddSize(e, i, n + 1) = Image(disk, B, F, disk.text, Sized(M, i, n + 1))
    <3>1. disk \in Disk /\ M \in [Inodes -> Inode]
      BY <1>0, <1>6
    <3>2. e = Image(disk, B, F, disk.text, M)
      BY <2>1 DEF e, Image
    <3>. QED BY <3>1, <3>2, AddSizeIs
  <2>. QED BY <1>6, <2>2, <2>3 DEF N, Image, Sized
<1>. HIDE DEF N, F, ino
<1>12. FillBlocks(AddBlocks(disk, i, nb, n + 1), bs, k, rest) =
         [disk EXCEPT !.block_bitmap = B, !.free_blocks = F, !.text = T, !.inode_table = N]
  <2>. DEFINE e == AddBlocks(disk, i, nb, n + 1)
  <2>1. e.text = disk.text
    BY <1>0, <1>11 DEF Disk
  <2>. HIDE DEF e
  <2>2. FillBlocks(e, bs, k, rest) = [e EXCEPT !.text = T]
    BY <1>8, <2>1 DEF FillBlocks
  <2>3. e = [disk EXCEPT !.block_bitmap = B, !.free_blocks = F, !.text = disk.text, !.inode_table = N]
    BY <1>11 DEF e
  <2>. QED BY <1>0, <2>2, <2>3 DEF Disk, e
<1>. QED BY <1>10, <1>12 DEF bs, ino

LEMMA AddBlocksGrow ==
  ASSUME NEW d \in Disk, NEW i \in Inodes, NEW nb \in Seq(Blocks), NEW size
  PROVE  AddBlocks(d, i, nb, size).inode_table[i].block = d.inode_table[i].block \o nb
<1>. DEFINE n == d.inode_table[i]
            m == [n EXCEPT !.block = @ \o nb]
            M == [d.inode_table EXCEPT ![i] = m]
            e == [d EXCEPT !.block_bitmap = @ \cup Range(nb), !.free_blocks = @ - Len(nb),
                           !.inode_table[i].block = @ \o nb]
<1>1. n \in Inode /\ n.block \o nb \in Seq(Blocks) /\ d.inode_table \in [Inodes -> Inode]
  <2>1. n \in Inode /\ n.block \in Seq(Blocks)
    BY InodeType
  <2>. HIDE DEF n
  <2>. QED BY <2>1 DEF Disk
<1>2. m \in Inode /\ m.block = n.block \o nb
  <2>. HIDE DEF n
  <2>. QED BY <1>1 DEF Inode
<1>3. e.inode_table = M
  BY DEF Disk
<1>4. "inode_table" \in DOMAIN e
  BY DEF Disk
<1>5. AddBlocks(d, i, nb, size) = AddSize(e, i, size)
  BY DEF AddBlocks
<1>. HIDE DEF m, e
<1>6. AddSize(e, i, size).inode_table = [M EXCEPT ![i].size = (@ + size) % UINT32]
  <2>. HIDE DEF M
  <2>. QED BY <1>3, <1>4 DEF AddSize
<1>7. i \in DOMAIN M /\ M[i] = m
  BY <1>1
<1>. HIDE DEF M
<1>8. AddSize(e, i, size).inode_table[i] = [m EXCEPT !.size = (@ + size) % UINT32]
  BY <1>6, <1>7
<1>9. [m EXCEPT !.size = (@ + size) % UINT32].block = m.block
  BY <1>2 DEF Inode
<1>. QED BY <1>2, <1>5, <1>8, <1>9

LEMMA NoOverflow ==
  ASSUME Sound(disk), NEW i \in Inodes, NEW n \in Nat, WriteOverflows(i, n),
         status' # "undefined", NoIndex(i)
  PROVE  FALSE
<1>. DEFINE ino == disk.inode_table[i]
            L == Len(ino.block)
            g == IF DIRECT > L THEN DIRECT - L ELSE 0
            held == RoomBefore(disk, ino, DIRECT + 1)
<1>. HIDE DEF held
<1>1. CanNewBlocks(disk, g)
  BY DEF WriteOverflows, Undefined
<1>2. PICK nb \in NewBlocks(disk, g) :
        ReachIndex(FillBlocks(AddBlocks(disk, i, nb, n + 1), Direct(ino) \o nb, DIRECT + 1, 0),
                   i, AfterWrite(held))
  BY <1>1 DEF WriteOverflows, held
<1>3. g = IF DIRECT > Len(ino.block) THEN DIRECT - Len(ino.block) ELSE 0
  OBVIOUS
<1>4. /\ disk \in Disk /\ ino.block \in Seq(Blocks) /\ L \in Nat /\ DIRECT \in Nat
      /\ g \in Nat /\ L + g >= DIRECT
  <2>1. disk \in Disk /\ ino.block \in Seq(Blocks)
    BY InodeType DEF Sound
  <2>2. L \in Nat
    BY <2>1
  <2>3. g = IF DIRECT > L THEN DIRECT - L ELSE 0
    OBVIOUS
  <2>. HIDE DEF L, g
  <2>4. DIRECT \in Nat
    BY ConstAssumption
  <2>. QED BY <2>1, <2>2, <2>3, <2>4
<1>. HIDE DEF g
<1>. DEFINE a == AddBlocks(disk, i, nb, n + 1)
            e == FillBlocks(a, Direct(ino) \o nb, DIRECT + 1, 0)
<1>5. Sound(e)
  BY <1>1, <1>3, OverflowSound
<1>6. nb \in Seq(Blocks) /\ Len(nb) = g
  BY <1>4, NewBlocksType
<1>7. e.inode_table = a.inode_table
  <2>1. Sound(a)
    <3>1. disk.free_blocks >= g /\ n + 1 \in Int
      BY <1>1 DEF CanNewBlocks
    <3>. QED BY <1>4, <3>1, AddBlocksSound
  <2>. HIDE DEF a
  <2>. QED BY <2>1 DEF FillBlocks, Sound, Disk
<1>8. e.inode_table[i].block = ino.block \o nb
  <2>1. a.inode_table[i].block = disk.inode_table[i].block \o nb
    BY <1>4, <1>6, AddBlocksGrow
  <2>. HIDE DEF a, e
  <2>. QED BY <1>7, <2>1
<1>. HIDE DEF e, a
<1>9. Len(e.inode_table[i].block) >= DIRECT
  <2>1. Len(ino.block \o nb) = L + g
    <3>1. Len(ino.block \o nb) = Len(ino.block) + Len(nb)
      <4>1. ino.block \in Seq(Blocks) /\ nb \in Seq(Blocks)
        BY <1>4, <1>6
      <4>. HIDE DEF ino
      <4>. QED BY <4>1
    <3>. QED BY <1>6, <3>1
  <2>. HIDE DEF L, ino
  <2>. QED BY <1>4, <1>8, <2>1
<1>10. Len(disk'.inode_table[i].block) > DIRECT \/ disk'.inode_table[i].sub # <<>>
  BY <1>2, <1>5, <1>9, IndexReached DEF e, a
<1>11. Len(disk'.inode_table[i].block) <= DIRECT /\ disk'.inode_table[i].sub = <<>>
       /\ Len(disk'.inode_table[i].block) \in Int
  BY <1>10 DEF NoIndex
<1>. QED BY <1>4, <1>10, <1>11

(* write.  Its last block and its new blocks are determined.                *)
LEMMA WriteWritesAre ==
  ASSUME Sound(disk), NEW i \in Inodes, NEW n \in Nat, NEW k \in 1 .. DIRECT,
         EndsIn(disk, disk.inode_table[i], n, k), NEW nb \in NewBlocks(disk, Passed(i, k))
  PROVE  WriteWrites(i, n) = FillWrites(i, n, k, disk.inode_table[i].block \o nb)
<1>. DEFINE ino == disk.inode_table[i]
            k0 == CHOOSE m \in 1 .. DIRECT : /\ n <= RoomBefore(disk, ino, m) + RoomIn(disk, ino, m)
                                             /\ m > 1 => n > RoomBefore(disk, ino, m)
            g0 == IF k0 > Len(ino.block) THEN k0 - Len(ino.block) ELSE 0
            nb0 == CHOOSE x \in NewBlocks(disk, g0) : TRUE
<1>0. disk \in Disk /\ ino \in Inode /\ ino.block \in Seq(Blocks) /\ Len(ino.block) \in Nat
  <2>1. disk \in Disk /\ ino \in Inode /\ ino.block \in Seq(Blocks)
    BY InodeType DEF Sound
  <2>. HIDE DEF ino
  <2>. QED BY <2>1
<1>1. k0 \in 1 .. DIRECT /\ EndsIn(disk, ino, n, k0)
  <2>1. /\ n <= RoomBefore(disk, ino, k) + RoomIn(disk, ino, k)
        /\ k > 1 => n > RoomBefore(disk, ino, k)
    BY DEF EndsIn
  <2>2. /\ k0 \in 1 .. DIRECT
        /\ n <= RoomBefore(disk, ino, k0) + RoomIn(disk, ino, k0)
        /\ k0 > 1 => n > RoomBefore(disk, ino, k0)
    <3>. HIDE DEF ino
    <3>. QED BY <2>1, ZenonT(30)
  <2>. HIDE DEF k0
  <2>. QED BY <2>2 DEF EndsIn
<1>2. WriteWrites(i, n) = FillWrites(i, n, k0, ino.block \o nb0)
  BY Zenon DEF WriteWrites
<1>. HIDE DEF k0
<1>3. k0 = k
  <2>1. EndsIn(disk, ino, n, k)
    OBVIOUS
  <2>. HIDE DEF ino
  <2>2. ~ (k0 < k) /\ ~ (k < k0)
    BY <1>0, <1>1, <2>1, OneEnd
  <2>. QED BY <1>1, <2>2, ConstAssumption
<1>4. g0 = Passed(i, k)
  BY <1>3 DEF Passed
<1>5. Passed(i, k) \in Nat
  <2>1. Passed(i, k) = IF k > Len(ino.block) THEN k - Len(ino.block) ELSE 0
    BY DEF Passed
  <2>. HIDE DEF ino
  <2>. QED BY <1>0, <2>1, ConstAssumption
<1>. HIDE DEF g0
<1>6. nb0 \in NewBlocks(disk, Passed(i, k))
  BY <1>4
<1>. HIDE DEF nb0
<1>7. nb0 = nb
  BY <1>5, <1>6, OneNew
<1>. QED BY <1>2, <1>3, <1>7

LEMMA WriteWritesRun ==
  ASSUME IInv, NEW name \in Names, NEW n \in WriteSizes, write(name, n),
         status' # "undefined", NoIndex(Named(name))
  PROVE  Runs(WriteWrites(Named(name), n), Around(disk, Named(name)), disk')
<1>. DEFINE i == Named(name)
            ino == disk.inode_table[i]
<1>0. Sound(disk) /\ i \in Inodes /\ n \in Nat
  BY IInvIsSound, FoundInode, ConstAssumption DEF write, Named
<1>1. (\E k \in 1 .. DIRECT : WriteFits(i, n, k)) \/ WriteOverflows(i, n)
  BY DEF write, Undefined
<1>. HIDE DEF i
<1>2. ~ WriteOverflows(i, n)
  <2>1. NoIndex(i)
    BY DEF i
  <2>. QED BY <1>0, <2>1, NoOverflow
<1>3. PICK k \in 1 .. DIRECT : WriteFits(i, n, k)
  BY <1>1, <1>2
<1>. DEFINE g == IF k > Len(ino.block) THEN k - Len(ino.block) ELSE 0
            held == RoomBefore(disk, ino, k)
<1>4. CanNewBlocks(disk, g) /\ EndsIn(disk, ino, n, k)
  BY <1>3 DEF WriteFits, Undefined, EndsIn
<1>5. PICK rest \in 0 .. RoomIn(disk, ino, k), nb \in NewBlocks(disk, g) :
        /\ rest = n - held
        /\ Saves(FillBlocks(AddBlocks(disk, i, nb, n + 1), ino.block \o nb, k, rest),
                 AfterWrite(held))
  BY <1>3, <1>4 DEF WriteFits
<1>6. g = Passed(i, k)
  BY DEF Passed
<1>. HIDE DEF g
<1>7. CanNewBlocks(disk, Passed(i, k)) /\ nb \in NewBlocks(disk, Passed(i, k))
  BY <1>4, <1>5, <1>6
<1>. DEFINE e == FillBlocks(AddBlocks(disk, i, nb, n + 1), ino.block \o nb, k, rest)
            bs == ino.block \o nb
<1>8. disk' = e
  BY <1>5 DEF Saves
<1>9. FilledDisk(i, n, k, bs, rest) = e
  BY <1>0, <1>5, <1>7, FilledDiskIs
<1>10. Runs(FillWrites(i, n, k, bs), Around(disk, i), FilledDisk(i, n, k, bs, rest))
  <2>1. Target(i, k, bs, rest)
    BY <1>0, <1>5, <1>7, WriteTarget
  <2>2. rest = n - RoomBefore(disk, disk.inode_table[i], k)
    BY <1>5
  <2>. HIDE DEF bs
  <2>. QED BY <1>0, <2>1, <2>2, FillWritesRun
<1>11. WriteWrites(i, n) = FillWrites(i, n, k, bs)
  BY <1>0, <1>4, <1>7, WriteWritesAre
<1>. HIDE DEF e, bs
<1>. QED BY <1>8, <1>9, <1>10, <1>11 DEF i

-----------------------------------------------------------------------------
(* Crashes.  What the image may be while a command is under way, and when   *)
(* none is: bare after a format or a removal was cut, sound otherwise.      *)
Hidden(c, what) == IF what[1] = "format" THEN Bare
                   ELSE IF what[1] \in Removing THEN Cut(c, what[2])
                   ELSE Around(c, what[2])

Resting == /\ trail = <<>> /\ image = disk /\ doing = Idle /\ image \in Bare
           /\ ~ harmed => Sound(disk)
Running == /\ trail # <<>> /\ ~ harmed /\ Sound(disk) /\ Sound(before)
           /\ image \in Hidden(before, doing) /\ Runs(trail, Hidden(before, doing), disk)

CInv == /\ MemoryOK
        /\ status \in {"off", "login", "shell", "dead", "undefined"}
        /\ Resting \/ Running

LEMMA HiddenBare ==
  ASSUME NEW c, NEW what
  PROVE  /\ Hidden(c, what) \subseteq Bare
         /\ what[1] \notin Removing => \A d \in Hidden(c, what) : Sound(d)
<1>1. Hidden(c, what) \subseteq Bare
  BY CutIsBare DEF Hidden
<1>2. what[1] \notin Removing => Hidden(c, what) = Around(c, what[2])
  BY DEF Hidden, Removing
<1>. QED BY <1>1, <1>2 DEF Around

LEMMA SoundHidden ==
  ASSUME NEW c, Sound(c), NEW what
  PROVE  c \in Hidden(c, what)
<1>1. c \in Around(c, what[2])
  BY NearSelf
<1>. QED BY <1>1, AroundIsCut, CutIsBare DEF Hidden

LEMMA RunsTail ==
  ASSUME NEW G, NEW s, NEW e, Runs(s, G, e)
  PROVE  /\ Tail(s) = <<>> => Head(s) = e
         /\ Tail(s) # <<>> => Head(s) \in G /\ Runs(Tail(s), G, e)
<1>. DEFINE H == G \cup {e}
            n == Len(s)
<1>1. s \in Seq(H) /\ n \in Nat /\ n # 0 /\ s[n] = e /\ \A k \in 1 .. n - 1 : s[k] \in G
  BY DEF Runs, Last
<1>. HIDE DEF H
<1>2. Tail(s) \in Seq(H) /\ Len(Tail(s)) = n - 1 /\ \A k \in 1 .. n - 1 : Tail(s)[k] = s[k + 1]
  BY <1>1
<1>3. Head(s) = s[1]
  BY <1>1
<1>4. ASSUME Tail(s) = <<>>
      PROVE  Head(s) = e
  <2>1. Len(<<>>) = 0
    OBVIOUS
  <2>3. Len(Tail(s)) = 0
    BY <1>4, <2>1, Zenon
  <2>2. n = 1
    <3>1. n - 1 = 0 /\ n \in Nat
      BY <1>1, <1>2, <2>3
    <3>. HIDE DEF n
    <3>. QED BY <3>1
  <2>. QED BY <1>1, <1>3, <2>2
<1>5. ASSUME Tail(s) # <<>>
      PROVE  Head(s) \in G /\ Runs(Tail(s), G, e)
  <2>1. n - 1 # 0
    BY <1>2, <1>5
  <2>2. 1 \in 1 .. n - 1 /\ n - 1 \in 1 .. n - 1 /\ (n - 1) + 1 = n
    <3>1. n - 1 # 0 /\ n \in Nat /\ n # 0
      BY <1>1, <2>1
    <3>. HIDE DEF n
    <3>. QED BY <3>1
  <2>3. Head(s) \in G /\ Tail(s)[n - 1] = e
    BY <1>1, <1>2, <1>3, <2>2
  <2>4. ASSUME NEW k \in 1 .. (n - 1) - 1
        PROVE  Tail(s)[k] \in G
    <3>1. k \in 1 .. n - 1 /\ k + 1 \in 1 .. n - 1
      BY <1>1
    <3>. QED BY <1>1, <1>2, <3>1
  <2>. HIDE DEF n
  <2>. QED BY <1>2, <1>5, <2>3, <2>4 DEF Runs, Last, H
<1>. QED BY <1>4, <1>5

LEMMA CInvReady ==
  ASSUME CInv, Ready
  PROVE  IInv /\ Resting /\ Sound(disk)
<1>1. Resting /\ Sound(disk)
  BY DEF CInv, Ready, Resting, Running
<1>. QED BY <1>1, IInvIsSound DEF CInv

LEMMA BeginInv ==
  ASSUME CInv, IInv', NEW what, NEW i, NEW s, Begin(what, i, s),
         Runs(s, Hidden(disk, <<what, i>>), disk')
  PROVE  CInv'
<1>. DEFINE w == <<what, i>>
<1>1. /\ trail' = s /\ before' = disk /\ doing' = w /\ image' = image /\ harmed' = harmed
      /\ Ready
  BY DEF Begin
<1>2. Sound(disk) /\ image = disk /\ ~ harmed
  BY <1>1, CInvReady DEF Resting, Ready
<1>3. image' \in Hidden(before', doing')
  BY <1>1, <1>2, SoundHidden
<1>4. Runs(trail', Hidden(before', doing'), disk')
  BY <1>1
<1>5. Sound(disk)' /\ MemoryOK' /\ (status \in {"off", "login", "shell", "dead", "undefined"})'
  BY DEF IInv, TypeOK, BlockOwnership, FreeBlocksClean, Sound, MemoryOK
<1>6. trail' # <<>>
  BY <1>4 DEF Runs
<1>7. Sound(before')
  BY <1>1, <1>2
<1>8. Running'
  BY <1>1, <1>2, <1>3, <1>4, <1>5, <1>6, <1>7 DEF Running
<1>. QED BY <1>5, <1>8 DEF CInv

LEMMA ShortInv ==
  ASSUME CInv, Short
  PROVE  CInv'
<1>1. Ready /\ Next
  BY DEF Short, Next
<1>2. IInv /\ Resting
  BY <1>1, CInvReady
<1>3. IInv'
  BY <1>1, <1>2, NextInv
<1>4. Sound(disk') /\ MemoryOK' /\ status' \in {"off", "login", "shell", "dead", "undefined"}
  BY <1>3 DEF IInv, TypeOK, BlockOwnership, FreeBlocksClean, Sound, MemoryOK
<1>5. image' = disk' /\ trail' = <<>> /\ doing' = Idle
  BY <1>1, <1>2 DEF Short, Ready, Resting
<1>6. image' \in Bare
  BY <1>4, <1>5 DEF Bare, Sound
<1>7. Resting'
  BY <1>4, <1>5, <1>6 DEF Resting
<1>. QED BY <1>4, <1>7 DEF CInv

LEMMA MakeInv ==
  ASSUME CInv, NEW name \in Names, Make(name)
  PROVE  CInv'
<1>1. ASSUME NEW type \in {FT_REG_FILE, FT_DIR}, NEW what, what \notin Removing,
             MakeEntry(name, type), NoIndex(current_dir),
             Begin(what, NewInode, MakeWrites(name, type))
      PROVE  CInv'
  <2>1. IInv /\ status' # "undefined"
    BY <1>1, CInvReady DEF Begin
  <2>2. IInv'
    BY <1>1, <2>1, MakeEntryInv
  <2>3. Runs(MakeWrites(name, type), Around(disk, NewInode), disk')
    BY <1>1, <2>1, MakeWritesRun
  <2>4. Hidden(disk, <<what, NewInode>>) = Around(disk, NewInode)
    BY <1>1 DEF Hidden, Removing
  <2>. QED BY <1>1, <2>2, <2>3, <2>4, BeginInv
<1>2. "mkdir" \notin Removing /\ "create" \notin Removing
  BY DEF Removing
<1>. QED BY <1>1, <1>2 DEF Make, mkdir, create

LEMMA UnlinkInv ==
  ASSUME CInv, NEW name \in Names, Unlink(name)
  PROVE  CInv'
<1>1. ASSUME NEW type, NEW what \in {"rmdir", "delete"}, NEW i \in Inodes, IInv', current_dir \in Inodes,
             disk' = RemoveObject(Counted(type), i, name, type),
             Begin(what, i, RemoveWrites(i, name, type))
      PROVE  CInv'
  <2>1. Sound(disk)
    BY <1>1, CInvReady DEF Begin
  <2>2. Runs(RemoveWrites(i, name, type), Cut(disk, i), disk')
    BY <1>1, <2>1, RemoveWritesRun
  <2>3. Hidden(disk, <<what, i>>) = Cut(disk, i)
    BY DEF Hidden, Removing
  <2>. QED BY <1>1, <2>2, <2>3, BeginInv
<1>2. Ready
  BY DEF Unlink, Begin
<1>3. IInv /\ current_dir \in Inodes
  BY <1>2, CInvReady DEF CInv, MemoryOK
<1>4. ASSUME NEW i, i = handle_search_inode(disk, current_dir, name, FT_DIR),
             rmdir(name), Begin("rmdir", i, RemoveWrites(i, name, FT_DIR))
      PROVE  CInv'
  <2>1. IInv'
    BY <1>3, <1>4, RmdirInv
  <2>2. i \in Inodes
    BY <1>3, <1>4, FoundInode DEF rmdir
  <2>3. disk' = RemoveObject(Counted(FT_DIR), i, name, FT_DIR)
    BY <1>4 DEF rmdir, Saves, Counted
  <2>. QED BY <1>1, <1>3, <1>4, <2>1, <2>2, <2>3
<1>5. ASSUME NEW i, i = Named(name),
             delete(name), Begin("delete", i, RemoveWrites(i, name, FT_REG_FILE))
      PROVE  CInv'
  <2>1. IInv'
    BY <1>3, <1>5, DeleteInv
  <2>2. i \in Inodes
    BY <1>3, <1>5, FoundInode DEF delete, Named
  <2>3. disk' = RemoveObject(Counted(FT_REG_FILE), i, name, FT_REG_FILE)
    BY <1>5 DEF delete, Saves, Counted, Named, FT_DIR, FT_REG_FILE
  <2>. QED BY <1>1, <1>3, <1>5, <2>1, <2>2, <2>3
<1>. QED BY <1>4, <1>5 DEF Unlink

LEMMA StoreInv ==
  ASSUME CInv, NEW name \in Names, NEW n \in WriteSizes, Store(name, n)
  PROVE  CInv'
<1>. DEFINE i == Named(name)
<1>1. write(name, n) /\ NoIndex(i) /\ Begin("write", i, WriteWrites(i, n))
  BY DEF Store
<1>2. IInv /\ status' # "undefined"
  BY <1>1, CInvReady DEF Begin
<1>3. IInv'
  BY <1>1, <1>2, WriteInv
<1>4. Runs(WriteWrites(i, n), Around(disk, i), disk')
  BY <1>1, <1>2, WriteWritesRun
<1>. HIDE DEF i
<1>5. Hidden(disk, <<"write", i>>) = Around(disk, i)
  BY DEF Hidden, Removing
<1>. QED BY <1>1, <1>3, <1>4, <1>5, BeginInv

LEMMA FormatInv ==
  ASSUME EmptyPassword \in Passwords, CInv, NEW pw \in Passwords, Format(pw)
  PROVE  CInv'
<1>1. format(pw) /\ Begin("format", 1, FormatWrites(pw))
  BY DEF Format
<1>2. IInv /\ Sound(disk)
  BY <1>1, CInvReady DEF Begin
<1>3. IInv'
  <2>1. Next
    BY <1>1 DEF Next
  <2>. QED BY <1>2, <2>1, NextInv
<1>4. Runs(FormatWrites(pw), Bare, disk')
  <2>1. Leaves(FormatWrites(pw), Bare, initialize_disk(pw))
    BY <1>2, FormatWritesRun
  <2>. QED BY <1>1, <2>1, RunsOf DEF format
<1>5. Hidden(disk, <<"format", 1>>) = Bare
  BY DEF Hidden
<1>. QED BY <1>1, <1>3, <1>4, <1>5, BeginInv

LEMMA fflushInv ==
  ASSUME CInv, fflush
  PROVE  CInv'
<1>. DEFINE G == Hidden(before, doing)
<1>1. /\ MemoryOK /\ status \in {"off", "login", "shell", "dead", "undefined"}
      /\ ~ harmed /\ Sound(disk) /\ Sound(before) /\ Runs(trail, G, disk)
  BY DEF CInv, fflush, Resting, Running
<1>2. /\ image' = Head(trail) /\ trail' = Tail(trail) /\ disk' = disk /\ harmed' = harmed
      /\ MemoryOK' /\ status' = status
  BY <1>1 DEF fflush, vars, memory, MemoryOK
<1>3. CASE trail' = <<>>
  <2>1. image' = disk
    BY <1>1, <1>2, <1>3, RunsTail
  <2>2. doing' = Idle
    BY <1>3 DEF fflush
  <2>3. Resting'
    BY <1>1, <1>2, <1>3, <2>1, <2>2 DEF Resting, Bare, Sound
  <2>. QED BY <1>1, <1>2, <2>3 DEF CInv
<1>4. CASE trail' # <<>>
  <2>1. before' = before /\ doing' = doing
    BY <1>4 DEF fflush
  <2>2. Head(trail) \in G /\ Runs(Tail(trail), G, disk)
    <3>. HIDE DEF G
    <3>. QED BY <1>1, <1>2, <1>4, RunsTail
  <2>3. Running'
    <3>1. image' \in Hidden(before', doing') /\ Runs(trail', Hidden(before', doing'), disk')
      BY <1>2, <2>1, <2>2
    <3>. QED BY <1>1, <1>2, <1>4, <2>1, <3>1 DEF Running
  <2>. QED BY <1>1, <1>2, <2>3 DEF CInv
<1>. QED BY <1>3, <1>4

LEMMA CrashInv ==
  ASSUME CInv, Crash
  PROVE  CInv'
<1>1. Running
  BY DEF CInv, Crash, Resting
<1>2. /\ disk' = image /\ image' = image /\ trail' = <<>> /\ doing' = Idle
      /\ ~ harmed' => doing[1] \notin Removing
      /\ status' = "off" /\ initialize_memory
  BY DEF Crash
<1>3. image \in Bare /\ (doing[1] \notin Removing => Sound(image))
  BY <1>1, HiddenBare DEF Running
<1>4. Resting'
  BY <1>2, <1>3 DEF Resting
<1>5. MemoryOK'
  BY <1>2, InitializeMemory
<1>. QED BY <1>2, <1>4, <1>5 DEF CInv

LEMMA CrashStart == InitCrash => CInv
<1>. SUFFICES ASSUME InitCrash PROVE CInv
  OBVIOUS
<1>1. IInv
  BY InitInv DEF InitCrash
<1>2. Sound(disk)
  BY <1>1, IInvIsSound
<1>3. Resting
  BY <1>2 DEF InitCrash, Resting, Bare, Sound
<1>. QED BY <1>1, <1>3, IInvIsSound DEF CInv

LEMMA CrashNext ==
  ASSUME EmptyPassword \in Passwords
  PROVE  CInv /\ [NextCrash]_crashvars => CInv'
<1>. SUFFICES ASSUME CInv, [NextCrash]_crashvars PROVE CInv'
  OBVIOUS
<1>1. ASSUME NEW name \in Names, NEW n \in WriteSizes, Store(name, n)
      PROVE  CInv'
  BY <1>1, StoreInv
<1>2. CASE UNCHANGED crashvars
  <2>1. /\ disk' = disk /\ status' = status /\ image' = image /\ trail' = trail /\ before' = before
        /\ doing' = doing /\ harmed' = harmed /\ MemoryOK'
    BY <1>2 DEF crashvars, progress, vars, memory, CInv, MemoryOK
  <2>2. Resting => Resting'
    BY <2>1 DEF Resting
  <2>3. Running => Running'
    BY <2>1 DEF Running
  <2>. QED BY <2>1, <2>2, <2>3 DEF CInv
<1>. QED BY <1>1, <1>2, ShortInv, fflushInv, CrashInv, MakeInv, UnlinkInv, FormatInv DEF NextCrash

LEMMA CrashInductive ==
  ASSUME EmptyPassword \in Passwords
  PROVE  SpecCrash => []CInv
BY CrashStart, CrashNext, PTL DEF SpecCrash

(* Whatever was cut short, and however often, the image is a possible one.  *)
THEOREM ImageStaysTyped ==
  ASSUME EmptyPassword \in Passwords
  PROVE  SpecCrash => []ImageTyped
<1>1. CInv => ImageTyped
  BY HiddenBare DEF CInv, Resting, Running, ImageTyped, Bare
<1>. QED BY <1>1, CrashInductive, PTL

(* The writes of every command add up to what the command is to do.         *)
THEOREM EveryWriteCounts ==
  ASSUME EmptyPassword \in Passwords
  PROVE  SpecCrash => []WritesAddUp
<1>1. CInv => WritesAddUp
  BY DEF CInv, Resting, Running, WritesAddUp, Runs
<1>. QED BY <1>1, CrashInductive, PTL

(* No crash leaves old data in a block that new_block would hand out.       *)
THEOREM CrashesLeaveNoOldData ==
  ASSUME EmptyPassword \in Passwords
  PROVE  SpecCrash => []FreeBlocksStayClean
<1>1. CInv => FreeBlocksStayClean
  BY HiddenBare DEF CInv, Resting, Running, FreeBlocksStayClean, Bare
<1>. QED BY <1>1, CrashInductive, PTL

(* Crashes in mkdir, create and write never let two inodes share a block.   *)
THEOREM CrashesKeepOwnership ==
  ASSUME EmptyPassword \in Passwords
  PROVE  SpecCrash => []OwnershipSurvives
<1>1. CInv => OwnershipSurvives
  BY HiddenBare DEF CInv, Resting, Running, OwnershipSurvives, Intact, Sound
<1>. QED BY <1>1, CrashInductive, PTL

(* What is shown of an inode depends on its type, its blocks and what they  *)
(* hold.                                                                    *)
LEMMA NearShown ==
  ASSUME NEW c \in Disk, NEW d, NEW i, Near(c, d, i), NEW j \in Inodes, j # i
  PROVE  Shown(d, j) = Shown(c, j)
<1>. DEFINE n == c.inode_table[j]
            m == d.inode_table[j]
<1>1. /\ m.type = n.type /\ m.block = n.block /\ m.sub = n.sub
      /\ \A b \in Owned(n) : d.dirents[b] = c.dirents[b] /\ d.text[b] = c.text[b]
  BY DEF Near
<1>2. n.block \in Seq(Blocks) /\ n.sub \in Seq(Blocks) /\ n \in Inode
  BY InodeType
<1>3. DataBlocks(m) = DataBlocks(n)
  BY <1>1 DEF DataBlocks, Direct
<1>4. Range(DataBlocks(n)) \subseteq Owned(n)
  <2>. HIDE DEF n
  <2>. QED BY <1>2, DataBlocksType DEF Range
<1>5. Children(d, j) = Children(c, j)
  <2>1. \A b \in Range(DataBlocks(n)) : d.dirents[b] = c.dirents[b]
    BY <1>1, <1>4
  <2>2. ChildPlaces(d, j) = ChildPlaces(c, j)
    BY <1>3, <2>1 DEF ChildPlaces, EntryAt
  <2>3. \A at \in ChildPlaces(c, j) : EntryAt(d, at) = EntryAt(c, at)
    BY <2>1 DEF ChildPlaces, EntryAt
  <2>. QED BY <2>2, <2>3 DEF Children
<1>6. Contents(d, j) = Contents(c, j)
  <2>1. \A k \in DOMAIN n.block : n.block[k] \in Owned(n)
    BY <1>2 DEF Owned, Range
  <2>. QED BY <1>1, <2>1 DEF Contents
<1>. QED BY <1>1, <1>5, <1>6 DEF Shown

LEMMA NamedInodes ==
  ASSUME NEW c \in Disk
  PROVE  NamedBy(c) \subseteq Inodes
<1>1. ASSUME NEW p \in LiveDirs(c), NEW at \in ChildPlaces(c, p)
      PROVE  EntryAt(c, at).inode \in Inodes
  <2>1. p \in Inodes
    BY DEF LiveDirs, Disk
  <2>2. Range(DataBlocks(c.inode_table[p])) \subseteq Blocks
    BY <2>1, InodeType, DataBlocksType DEF Range
  <2>3. PICK b \in Range(DataBlocks(c.inode_table[p])) : at \in {b} \X DOMAIN c.dirents[b]
    BY DEF ChildPlaces
  <2>4. at[1] = b /\ at[2] \in DOMAIN c.dirents[b]
    BY <2>3
  <2>5. c.dirents[b] \in Seq(DirEntry)
    BY <2>2 DEF Disk
  <2>6. c.dirents[b][at[2]] \in DirEntry
    BY <2>4, <2>5
  <2>. QED BY <2>4, <2>6 DEF EntryAt, DirEntry
<1>. QED BY <1>1, BlocksAreNats DEF NamedBy, Entries, Children

(* Until the last write of a command, and after any crash in it, everything *)
(* but the inode it is about shows what it showed before.                   *)
THEOREM CrashesAreLocal ==
  ASSUME EmptyPassword \in Passwords
  PROVE  SpecCrash => []CrashIsLocal
<1>1. CInv => CrashIsLocal
  <2>. SUFFICES ASSUME CInv, trail # <<>>, doing[1] # "format",
                       NEW i \in NamedBy(before) \ {doing[2]}
                PROVE  Shown(image, i) = Shown(before, i)
    BY DEF CrashIsLocal
  <2>1. before \in Disk /\ image \in Hidden(before, doing)
    BY DEF CInv, Resting, Running, Sound
  <2>2. Near(before, image, doing[2])
    BY <2>1 DEF Hidden, Cut, Around
  <2>. QED BY <2>1, <2>2, NamedInodes, NearShown
<1>. QED BY <1>1, CrashInductive, PTL

-----------------------------------------------------------------------------
(* What is lost, and what is left alone.  Besides IInv this needs that the  *)
(* working directory is always there: no removal frees it, because no       *)
(* directory has an entry, but its dots, that names the directory itself.   *)

Other(e, p) == IsDots(e) \/ e.inode \notin {1, p}
Selfless(c, p) == \A k \in DOMAIN c : Other(c[k], p)

LEMMA AppendSelfless ==
  ASSUME NEW c \in Seq(DirEntry), NEW e \in DirEntry
  PROVE  /\ \E j \in DOMAIN append_dir_entry(c, e) : append_dir_entry(c, e)[j].inode = e.inode
         /\ \A p : Selfless(c, p) /\ Other(e, p) =>
                   Selfless(append_dir_entry(c, e), p)
<1>. DEFINE k == Splittable(c, e)
            t == append_dir_entry(c, e)
<1>1. CASE k > 0
  <2>. DEFINE c1 == [c EXCEPT ![k].rec_len = RecLen(c[k].name)]
              e1 == [e EXCEPT !.rec_len = Slack(c[k])]
  <2>1. k \in 1 .. Len(c) /\ Slack(c[k]) >= e.rec_len
    BY <1>1, SplittableType
  <2>2. t = InsertAt(c1, k + 1, e1)
    BY <1>1 DEF append_dir_entry
  <2>. HIDE DEF k, t
  <2>3. c[k] \in DirEntry /\ RecLen(c[k].name) \in Nat
    <3>1. c[k] \in DirEntry
      BY <2>1
    <3>2. c[k].name \in Names
      BY <3>1 DEF DirEntry
    <3>. QED BY <3>1, <3>2, NamesType
  <2>4. e1 \in DirEntry /\ e1.inode = e.inode /\ e1.name = e.name /\ e1.file_type = e.file_type
    <3>1. Slack(c[k]) \in Nat
      BY <2>1, <2>3 DEF Slack, DirEntry
    <3>2. e1 \in DirEntry
      BY <3>1, RecLenType
    <3>. QED BY <3>2 DEF DirEntry
  <2>5. /\ c1 \in Seq(DirEntry) /\ Len(c1) = Len(c)
        /\ \A j \in 1 .. Len(c) : /\ c1[j].inode = c[j].inode
                                  /\ c1[j].name = c[j].name
                                  /\ c1[j].file_type = c[j].file_type
    <3>1. [c[k] EXCEPT !.rec_len = RecLen(c[k].name)] \in DirEntry
      BY <2>3, RecLenType
    <3>2. /\ c1 \in Seq(DirEntry) /\ Len(c1) = Len(c)
          /\ \A j \in 1 .. Len(c) : j # k => c1[j] = c[j]
          /\ c1[k] = [c[k] EXCEPT !.rec_len = RecLen(c[k].name)]
      BY <2>1, <3>1
    <3>3. /\ c1[k].inode = c[k].inode /\ c1[k].name = c[k].name
          /\ c1[k].file_type = c[k].file_type
      BY <2>3, <3>2 DEF DirEntry
    <3>. HIDE DEF c1
    <3>. QED BY <3>2, <3>3
  <2>. HIDE DEF c1, e1
  <2>. DEFINE m == k + 1
  <2>6. m \in 1 .. Len(c1) + 1 /\ Len(c) \in Nat
    BY <2>1, <2>5
  <2>. HIDE DEF m
  <2>7. /\ t \in Seq(DirEntry) /\ Len(t) = Len(c1) + 1 /\ t[m] = e1
        /\ \A j \in 1 .. Len(c1) : c1[j] = IF j < m THEN t[j] ELSE t[j + 1]
    <3>1. /\ InsertAt(c1, m, e1) \in Seq(DirEntry) /\ Len(InsertAt(c1, m, e1)) = Len(c1) + 1
          /\ InsertAt(c1, m, e1)[m] = e1
          /\ \A j \in 1 .. Len(c1) :
               c1[j] = IF j < m THEN InsertAt(c1, m, e1)[j] ELSE InsertAt(c1, m, e1)[j + 1]
      BY <2>4, <2>5, <2>6, InsertAtAs
    <3>. QED BY <2>2, <3>1 DEF m
  <2>8. m \in DOMAIN t
    BY <2>5, <2>6, <2>7
  <2>9. ASSUME NEW j \in DOMAIN t
        PROVE  t[j] = e1 \/ \E i \in 1 .. Len(c) : t[j] = c1[i]
    <3>0. j \in 1 .. Len(c) + 1 /\ m \in 1 .. Len(c) + 1
      BY <2>5, <2>6, <2>7
    <3>1. CASE j < m
      <4>1. j \in 1 .. Len(c)
        BY <2>6, <3>0, <3>1
      <4>. QED BY <2>5, <2>7, <3>1, <4>1
    <3>2. CASE j = m
      BY <2>7, <3>2
    <3>3. CASE j > m
      <4>1. j - 1 \in 1 .. Len(c) /\ ~ (j - 1 < m) /\ (j - 1) + 1 = j
        BY <2>6, <3>0, <3>3
      <4>2. c1[j - 1] = t[(j - 1) + 1]
        BY <2>5, <2>7, <4>1
      <4>. QED BY <4>1, <4>2
    <3>. QED BY <3>0, <3>1, <3>2, <3>3
  <2>10. ASSUME NEW p, Selfless(c, p), Other(e, p)
         PROVE  Selfless(t, p)
    <3>1. ASSUME NEW i \in 1 .. Len(c)
          PROVE  Other(c1[i], p)
      <4>1. Other(c[i], p)
        BY <2>10 DEF Selfless
      <4>. QED BY <2>5, <4>1 DEF Other, IsDots
    <3>2. Other(e1, p)
      BY <2>4, <2>10 DEF Other, IsDots
    <3>. QED BY <2>9, <3>1, <3>2 DEF Selfless
  <2>. QED BY <2>4, <2>7, <2>8, <2>10 DEF t
<1>2. CASE k = 0
  <2>1. t = Append(c, e)
    BY <1>2 DEF append_dir_entry
  <2>. HIDE DEF t, k
  <2>2. /\ DOMAIN t = 1 .. Len(c) + 1 /\ t[Len(c) + 1] = e /\ Len(c) \in Nat
        /\ \A j \in 1 .. Len(c) : t[j] = c[j]
    BY <2>1
  <2>3. \A j \in 1 .. Len(c) + 1 : j \in 1 .. Len(c) \/ j = Len(c) + 1
    BY <2>2
  <2>4. DOMAIN c = 1 .. Len(c) /\ Len(c) + 1 \in DOMAIN t
    BY <2>2
  <2>5. ASSUME NEW p, Selfless(c, p), Other(e, p)
        PROVE  Selfless(t, p)
    <3>. SUFFICES ASSUME NEW j \in DOMAIN t
                  PROVE  Other(t[j], p)
      BY DEF Selfless
    <3>1. CASE j \in 1 .. Len(c)
      BY <2>2, <2>4, <2>5, <3>1 DEF Selfless
    <3>2. CASE j = Len(c) + 1
      BY <2>2, <2>5, <3>2
    <3>. QED BY <2>2, <2>3, <3>1, <3>2
  <2>. QED BY <2>2, <2>4, <2>5 DEF t
<1>. QED BY <1>1, <1>2, SplittableType

LEMMA DeleteSelfless ==
  ASSUME NEW c \in Seq(DirEntry), NEW name, NEW type, NEW p, Selfless(c, p)
  PROVE  Selfless(delete_dir_entry(c, name, type), p)
<1>. DEFINE k == DeletableAt(c, name, type)
            t == delete_dir_entry(c, name, type)
<1>1. CASE k = 0
  BY <1>1 DEF delete_dir_entry
<1>2. CASE k \in 2 .. Len(c)
  <2>. DEFINE c1 == [c EXCEPT ![k-1].rec_len = @ + c[k].rec_len]
  <2>1. t = RemoveAt(c1, k)
    BY <1>2 DEF delete_dir_entry
  <2>. HIDE DEF k, t
  <2>2. k \in 1 .. Len(c) /\ k - 1 \in 1 .. Len(c) /\ Len(c) \in Nat
    BY <1>2
  <2>3. c[k] \in DirEntry /\ c[k-1] \in DirEntry
    BY <2>2
  <2>4. /\ c1 \in Seq(DirEntry) /\ Len(c1) = Len(c)
        /\ \A j \in 1 .. Len(c) : /\ c1[j].inode = c[j].inode
                                  /\ c1[j].name = c[j].name
                                  /\ c1[j].file_type = c[j].file_type
    <3>1. [c[k-1] EXCEPT !.rec_len = @ + c[k].rec_len] \in DirEntry
      <4>1. c[k-1].rec_len + c[k].rec_len \in Nat
        BY <2>3 DEF DirEntry
      <4>. QED BY <2>3, <4>1, RecLenType
    <3>2. /\ c1 \in Seq(DirEntry) /\ Len(c1) = Len(c)
          /\ \A j \in 1 .. Len(c) : j # k - 1 => c1[j] = c[j]
          /\ c1[k-1] = [c[k-1] EXCEPT !.rec_len = @ + c[k].rec_len]
      BY <2>2, <3>1
    <3>3. /\ c1[k-1].inode = c[k-1].inode /\ c1[k-1].name = c[k-1].name
          /\ c1[k-1].file_type = c[k-1].file_type
      BY <2>3, <3>2 DEF DirEntry
    <3>. HIDE DEF c1
    <3>. QED BY <3>2, <3>3
  <2>. HIDE DEF c1
  <2>5. /\ t \in Seq(DirEntry) /\ Len(t) = Len(c1) - 1
        /\ \A j \in 1 .. Len(c1) - 1 : t[j] = IF j < k THEN c1[j] ELSE c1[j + 1]
    BY <2>1, <2>2, <2>4, RemoveAtAs
  <2>6. ASSUME NEW j \in DOMAIN t
        PROVE  Other(t[j], p)
    <3>1. j \in 1 .. Len(c) - 1
      BY <2>4, <2>5
    <3>2. \E i \in 1 .. Len(c) : t[j] = c1[i]
      <4>1. j \in 1 .. Len(c) /\ j + 1 \in 1 .. Len(c)
        BY <2>2, <3>1
      <4>. QED BY <2>4, <2>5, <3>1, <4>1
    <3>3. PICK i \in 1 .. Len(c) : t[j] = c1[i]
      BY <3>2
    <3>4. Other(c[i], p)
      BY DEF Selfless
    <3>. QED BY <2>4, <3>3, <3>4 DEF Other, IsDots
  <2>. QED BY <2>6 DEF Selfless, t
<1>. QED BY <1>1, <1>2, DeletableType

(* What the helpers leave alone.                                            *)
Kept(c, d) == /\ d.inode_bitmap = c.inode_bitmap
              /\ d.text = c.text
              /\ d.block_bitmap = c.block_bitmap
              /\ d.dirents = c.dirents

LEMMA AddSizeKeeps ==
  ASSUME NEW d \in Disk, NEW i \in Inodes, NEW n
  PROVE  /\ Kept(d, AddSize(d, i, n))
         /\ \A j \in Inodes : j # i => AddSize(d, i, n).inode_table[j] = d.inode_table[j]
         /\ AddSize(d, i, n).inode_table[i].type = d.inode_table[i].type
         /\ AddSize(d, i, n).inode_table[i].block = d.inode_table[i].block
         /\ AddSize(d, i, n).inode_table[i].sub = d.inode_table[i].sub
         /\ AddSize(d, i, n).inode_table[i].size = (d.inode_table[i].size + n) % UINT32
BY DEF AddSize, Kept, Disk, Inode

LEMMA NewInodeKeeps ==
  ASSUME NEW d \in Disk, CanNewInode(d)
  PROVE  /\ new_inode(d).inode_bitmap = d.inode_bitmap \cup {NextInode(d)}
         /\ new_inode(d).text = d.text /\ new_inode(d).dirents = d.dirents
         /\ \A j \in Inodes : j # NextInode(d) => new_inode(d).inode_table[j] = d.inode_table[j]
         /\ NextInode(d) \notin d.inode_bitmap
<1>1. NextInode(d) \in FreeInodes(d)
  <2>1. FreeInodes(d) \subseteq Nat /\ FreeInodes(d) # {}
    BY BlocksAreNats DEF FreeInodes, CanNewInode
  <2>. QED BY <2>1, MinOfNats DEF NextInode
<1>2. NextInode(d) \in Inodes /\ NextInode(d) \notin d.inode_bitmap
  BY <1>1 DEF FreeInodes
<1>. DEFINE i == NextInode(d)
<1>3. new_inode(d) = [d EXCEPT !.inode_bitmap = @ \cup {i}, !.inode_table[i] = init_inode,
                              !.free_inodes = @ - 1]
  BY DEF new_inode
<1>. HIDE DEF i
<1>. QED BY <1>2, <1>3 DEF Disk, i

LEMMA CountDirKeeps ==
  ASSUME NEW d \in Disk
  PROVE  /\ Kept(d, CountDir(d)) /\ Kept(d, UncountDir(d))
         /\ CountDir(d).inode_table = d.inode_table /\ UncountDir(d).inode_table = d.inode_table
BY DEF CountDir, UncountDir, Kept, Disk

LEMMA NewFileKeeps ==
  ASSUME NEW d \in Disk, NEW i \in Inodes, NEW name
  PROVE  /\ Kept(d, NewFile(d, i, name))
         /\ \A j \in Inodes : j # i => NewFile(d, i, name).inode_table[j] = d.inode_table[j]
         /\ NewFile(d, i, name).inode_table[i].type \in {FT_REG_FILE, d.inode_table[i].type}
BY DEF NewFile, Kept, Disk, Inode

LEMMA AppendEntryKeeps ==
  ASSUME NEW d \in Disk, NEW b \in Blocks, NEW x
  PROVE  /\ AppendEntry(d, b, x).inode_bitmap = d.inode_bitmap
         /\ AppendEntry(d, b, x).text = d.text
         /\ AppendEntry(d, b, x).inode_table = d.inode_table
         /\ AppendEntry(d, b, x).block_bitmap = d.block_bitmap
         /\ AppendEntry(d, b, x).dirents[b] = append_dir_entry(d.dirents[b], x)
         /\ \A a \in Blocks : a # b => AppendEntry(d, b, x).dirents[a] = d.dirents[a]
BY DEF AppendEntry, Disk

LEMMA TakeBlockKeeps ==
  ASSUME NEW d, Sound(d), CanNewBlock(d), NEW i \in Inodes
  PROVE  /\ TakeBlock(d, i).inode_bitmap = d.inode_bitmap
         /\ TakeBlock(d, i).block_bitmap = d.block_bitmap \cup {NextBlock(d)}
         /\ \A j \in Inodes : j # i => TakeBlock(d, i).inode_table[j] = d.inode_table[j]
         /\ TakeBlock(d, i).inode_table[i].type = FT_DIR
         /\ TakeBlock(d, i).inode_table[i].block = <<NextBlock(d)>>
         /\ TakeBlock(d, i).inode_table[i].sub = d.inode_table[i].sub
         /\ TakeBlock(d, i).inode_table[i].size = RecLen(Dot) + RecLen(DotDot)
<1>1. /\ new_block(d) \in Disk /\ d \in Disk
      /\ new_block(d).inode_bitmap = d.inode_bitmap
      /\ new_block(d).block_bitmap = d.block_bitmap \cup {NextBlock(d)}
      /\ new_block(d).inode_table = d.inode_table
  BY NewBlockType DEF new_block, Sound, Disk
<1>. DEFINE a == new_block(d)
            b == NextBlock(d)
            n == a.inode_table[i]
            m == [[[n EXCEPT !.type = FT_DIR] EXCEPT !.block = <<b>>]
                     EXCEPT !.size = RecLen(Dot) + RecLen(DotDot)]
<1>2. n = d.inode_table[i] /\ n \in Inode /\ a.inode_table \in [Inodes -> Inode]
  BY <1>1 DEF Disk
<1>3. /\ m.type = FT_DIR /\ m.block = <<b>> /\ m.sub = n.sub
      /\ m.size = RecLen(Dot) + RecLen(DotDot)
  <2>. HIDE DEF n, b
  <2>. QED BY <1>2 DEF Inode
<1>4. TakeBlock(d, i) = [a EXCEPT !.inode_table = [@ EXCEPT ![i] = m]]
  <2>. HIDE DEF a, b
  <2>1. TakeBlock(d, i) = [a EXCEPT !.inode_table[i].type = FT_DIR,
                                    !.inode_table[i].block = <<b>>,
                                    !.inode_table[i].size = RecLen(Dot) + RecLen(DotDot)]
    BY DEF TakeBlock, a, b
  <2>2. a \in Disk
    BY <1>1 DEF a
  <2>. QED BY <1>2, <2>1, <2>2 DEF Disk
<1>. HIDE DEF m, a
<1>5. /\ TakeBlock(d, i).inode_bitmap = a.inode_bitmap
      /\ TakeBlock(d, i).block_bitmap = a.block_bitmap
      /\ TakeBlock(d, i).inode_table = [a.inode_table EXCEPT ![i] = m]
  BY <1>1, <1>4 DEF Disk, a
<1>. HIDE DEF n, b
<1>. QED BY <1>1, <1>2, <1>3, <1>5 DEF a, b

LEMMA AddBlockKeeps ==
  ASSUME NEW d, Sound(d), CanNewBlock(d), NEW i \in Inodes
  PROVE  /\ AddBlock(d, i).inode_bitmap = d.inode_bitmap /\ AddSub(d, i).inode_bitmap = d.inode_bitmap
         /\ AddBlock(d, i).text = d.text /\ AddSub(d, i).text = d.text
         /\ AddBlock(d, i).dirents = d.dirents /\ AddSub(d, i).dirents = d.dirents
         /\ \A j \in Inodes : j # i => /\ AddBlock(d, i).inode_table[j] = d.inode_table[j]
                                       /\ AddSub(d, i).inode_table[j] = d.inode_table[j]
         /\ AddBlock(d, i).inode_table[i].block = Append(d.inode_table[i].block, NextBlock(d))
         /\ AddBlock(d, i).inode_table[i].sub = d.inode_table[i].sub
         /\ AddSub(d, i).inode_table[i].block = d.inode_table[i].block
         /\ AddSub(d, i).inode_table[i].sub = Append(d.inode_table[i].sub, NextBlock(d))
         /\ AddBlock(d, i).inode_table[i].type = d.inode_table[i].type
         /\ AddBlock(d, i).inode_table[i].size = d.inode_table[i].size
         /\ AddSub(d, i).inode_table[i].type = d.inode_table[i].type
         /\ AddSub(d, i).inode_table[i].size = d.inode_table[i].size
<1>1. /\ new_block(d) \in Disk /\ d \in Disk
      /\ new_block(d).inode_bitmap = d.inode_bitmap
      /\ new_block(d).text = d.text /\ new_block(d).dirents = d.dirents
      /\ new_block(d).inode_table = d.inode_table
  BY NewBlockType DEF new_block, Sound, Disk
<1>. DEFINE a == new_block(d)
            b == NextBlock(d)
<1>. HIDE DEF a, b
<1>2. AddBlock(d, i) = [a EXCEPT !.inode_table[i].block = Append(@, b)]
      /\ AddSub(d, i) = [a EXCEPT !.inode_table[i].sub = Append(@, b)]
  BY DEF AddBlock, AddSub, a, b
<1>3. a \in Disk
  BY <1>1 DEF a
<1>4. /\ AddBlock(d, i).inode_bitmap = a.inode_bitmap /\ AddSub(d, i).inode_bitmap = a.inode_bitmap
      /\ AddBlock(d, i).text = a.text /\ AddSub(d, i).text = a.text
      /\ AddBlock(d, i).dirents = a.dirents /\ AddSub(d, i).dirents = a.dirents
  BY <1>2, <1>3 DEF Disk
<1>5. /\ AddBlock(d, i).inode_table =
           [a.inode_table EXCEPT ![i] = [a.inode_table[i] EXCEPT !.block = Append(@, b)]]
      /\ AddSub(d, i).inode_table =
           [a.inode_table EXCEPT ![i] = [a.inode_table[i] EXCEPT !.sub = Append(@, b)]]
  BY <1>2, <1>3 DEF Disk
<1>6. a.inode_table = d.inode_table /\ d.inode_table \in [Inodes -> Inode]
  BY <1>1 DEF a, Disk
<1>7. a.inode_bitmap = d.inode_bitmap /\ a.text = d.text /\ a.dirents = d.dirents
  BY <1>1 DEF a
<1>8. d.inode_table[i] \in Inode
  BY <1>1 DEF Disk
<1>9. /\ AddBlock(d, i).inode_table[i] = [d.inode_table[i] EXCEPT !.block = Append(@, b)]
      /\ AddSub(d, i).inode_table[i] = [d.inode_table[i] EXCEPT !.sub = Append(@, b)]
      /\ \A j \in Inodes : j # i => /\ AddBlock(d, i).inode_table[j] = d.inode_table[j]
                                    /\ AddSub(d, i).inode_table[j] = d.inode_table[j]
  BY <1>5, <1>6
<1>10. ASSUME NEW n \in Inode, NEW x
       PROVE  /\ [n EXCEPT !.block = Append(@, x)].block = Append(n.block, x)
              /\ [n EXCEPT !.block = Append(@, x)].sub = n.sub
              /\ [n EXCEPT !.block = Append(@, x)].type = n.type
              /\ [n EXCEPT !.block = Append(@, x)].size = n.size
              /\ [n EXCEPT !.sub = Append(@, x)].block = n.block
              /\ [n EXCEPT !.sub = Append(@, x)].sub = Append(n.sub, x)
              /\ [n EXCEPT !.sub = Append(@, x)].type = n.type
              /\ [n EXCEPT !.sub = Append(@, x)].size = n.size
  BY DEF Inode
<1>11. /\ AddBlock(d, i).inode_table[i].block = Append(d.inode_table[i].block, b)
       /\ AddBlock(d, i).inode_table[i].sub = d.inode_table[i].sub
       /\ AddBlock(d, i).inode_table[i].type = d.inode_table[i].type
       /\ AddBlock(d, i).inode_table[i].size = d.inode_table[i].size
  BY <1>8, <1>9, <1>10
<1>12. /\ AddSub(d, i).inode_table[i].block = d.inode_table[i].block
       /\ AddSub(d, i).inode_table[i].sub = Append(d.inode_table[i].sub, b)
       /\ AddSub(d, i).inode_table[i].type = d.inode_table[i].type
       /\ AddSub(d, i).inode_table[i].size = d.inode_table[i].size
  BY <1>8, <1>9, <1>10
<1>. QED BY <1>4, <1>7, <1>9, <1>11, <1>12 DEF b

(* Directories that hold no entry for themselves.                           *)
NoSelf(d) ==
  \A p \in Inodes : d.inode_table[p].type = FT_DIR =>
    /\ p \in d.inode_bitmap
    /\ \A b \in Owned(d.inode_table[p]) : Selfless(d.dirents[b], p)

LEMMA StaysSelfless ==
  ASSUME NEW c, NEW d, NoSelf(c),
         \A p \in Inodes : d.inode_table[p].type = FT_DIR =>
           /\ c.inode_table[p].type = FT_DIR
           /\ p \in c.inode_bitmap => p \in d.inode_bitmap
           /\ \A b \in Owned(d.inode_table[p]) :
                \/ d.dirents[b] = <<>>
                \/ /\ b \in Owned(c.inode_table[p])
                   /\ Selfless(c.dirents[b], p) => Selfless(d.dirents[b], p)
  PROVE  NoSelf(d)
<1>. SUFFICES ASSUME NEW p \in Inodes, d.inode_table[p].type = FT_DIR
              PROVE  /\ p \in d.inode_bitmap
                     /\ \A b \in Owned(d.inode_table[p]) : Selfless(d.dirents[b], p)
  BY DEF NoSelf
<1>1. Selfless(<<>>, p)
  BY DEF Selfless
<1>2. /\ p \in c.inode_bitmap
      /\ \A b \in Owned(c.inode_table[p]) : Selfless(c.dirents[b], p)
  BY DEF NoSelf
<1>. QED BY <1>1, <1>2

(* The same inodes and entries.                                             *)
LEMMA StaysSelflessSame ==
  ASSUME NEW c, NEW d, NoSelf(c), d.dirents = c.dirents, c.inode_bitmap \subseteq d.inode_bitmap,
         \A p \in Inodes : d.inode_table[p].type = FT_DIR =>
           /\ c.inode_table[p].type = FT_DIR
           /\ Owned(d.inode_table[p]) \subseteq Owned(c.inode_table[p])
  PROVE  NoSelf(d)
BY StaysSelfless

(* A new block is clean.                                                    *)
LEMMA BlockSelfless ==
  ASSUME NEW d, Sound(d), CanNewBlock(d), NoSelf(d), NEW i \in Inodes
  PROVE  /\ NoSelf(AddBlock(d, i)) /\ NoSelf(AddSub(d, i))
         /\ d.dirents[NextBlock(d)] = <<>> /\ d.text[NextBlock(d)] = 0
<1>1. d.dirents[NextBlock(d)] = <<>> /\ d.text[NextBlock(d)] = 0 /\ NextBlock(d) \in Blocks
  BY NextBlockFree DEF Sound, IsClean, FreeBlocks
<1>. DEFINE b == NextBlock(d)
            n == d.inode_table[i]
<1>2. n \in Inode /\ n.block \in Seq(Blocks) /\ n.sub \in Seq(Blocks)
  BY InodeType DEF Sound
<1>3. /\ Range(Append(n.block, b)) = Range(n.block) \cup {b}
      /\ Range(Append(n.sub, b)) = Range(n.sub) \cup {b}
  BY <1>1, <1>2, AppendRange
<1>4. ASSUME NEW e, e.dirents = d.dirents, e.inode_bitmap = d.inode_bitmap,
             \A j \in Inodes : j # i => e.inode_table[j] = d.inode_table[j],
             e.inode_table[i].type = n.type, Owned(e.inode_table[i]) \subseteq Owned(n) \cup {b}
      PROVE  NoSelf(e)
  <2>1. ASSUME NEW p \in Inodes, e.inode_table[p].type = FT_DIR
        PROVE  /\ d.inode_table[p].type = FT_DIR
               /\ p \in d.inode_bitmap => p \in e.inode_bitmap
               /\ \A a \in Owned(e.inode_table[p]) :
                    \/ e.dirents[a] = <<>>
                    \/ /\ a \in Owned(d.inode_table[p])
                       /\ Selfless(d.dirents[a], p) => Selfless(e.dirents[a], p)
    <3>1. CASE p # i
      BY <1>4, <2>1, <3>1
    <3>2. CASE p = i
      BY <1>1, <1>4, <2>1, <3>2
    <3>. QED BY <3>1, <3>2
  <2>. QED BY <2>1, StaysSelfless
<1>. HIDE DEF n, b
<1>5. NoSelf(AddBlock(d, i))
  <2>. DEFINE e == AddBlock(d, i)
  <2>1. /\ e.dirents = d.dirents /\ e.inode_bitmap = d.inode_bitmap
        /\ \A j \in Inodes : j # i => e.inode_table[j] = d.inode_table[j]
        /\ e.inode_table[i].type = d.inode_table[i].type
    BY AddBlockKeeps
  <2>2. Owned(e.inode_table[i]) \subseteq Owned(n) \cup {b}
    <3>1. e.inode_table[i].block \in {n.block, Append(n.block, b)}
          /\ e.inode_table[i].sub \in {n.sub, Append(n.sub, b)}
      BY AddBlockKeeps DEF n, b
    <3>. QED BY <1>3, <3>1 DEF Owned
  <2>. HIDE DEF e
  <2>3. NoSelf(e)
    BY <1>4, <2>1, <2>2 DEF n
  <2>. QED BY <2>3 DEF e
<1>6. NoSelf(AddSub(d, i))
  <2>. DEFINE e == AddSub(d, i)
  <2>1. /\ e.dirents = d.dirents /\ e.inode_bitmap = d.inode_bitmap
        /\ \A j \in Inodes : j # i => e.inode_table[j] = d.inode_table[j]
        /\ e.inode_table[i].type = d.inode_table[i].type
    BY AddBlockKeeps
  <2>2. Owned(e.inode_table[i]) \subseteq Owned(n) \cup {b}
    <3>1. e.inode_table[i].block \in {n.block, Append(n.block, b)}
          /\ e.inode_table[i].sub \in {n.sub, Append(n.sub, b)}
      BY AddBlockKeeps DEF n, b
    <3>. QED BY <1>3, <3>1 DEF Owned
  <2>. HIDE DEF e
  <2>3. NoSelf(e)
    BY <1>4, <2>1, <2>2 DEF n
  <2>. QED BY <2>3 DEF e
<1>. QED BY <1>1, <1>5, <1>6

(* An entry goes into a block of p only.                                    *)
LEMMA EntrySelfless ==
  ASSUME NEW d, Sound(d), NoSelf(d), NEW p \in Inodes, NEW b \in Owned(d.inode_table[p]),
         NEW x \in DirEntry, Other(x, p)
  PROVE  NoSelf(AppendEntry(d, b, x))
<1>1. d \in Disk /\ b \in Blocks /\ d.dirents[b] \in Seq(DirEntry)
  <2>1. b \in d.block_bitmap
    BY DEF Sound, OwnsBlocks
  <2>. QED BY <2>1 DEF Sound, Disk
<1>. DEFINE e == AppendEntry(d, b, x)
<1>2. /\ e.inode_bitmap = d.inode_bitmap /\ e.inode_table = d.inode_table
      /\ e.dirents[b] = append_dir_entry(d.dirents[b], x)
      /\ \A a \in Blocks : a # b => e.dirents[a] = d.dirents[a]
  BY <1>1, AppendEntryKeeps
<1>. HIDE DEF e
<1>3. \A q \in Inodes : q # p => b \notin Owned(d.inode_table[q])
  BY DEF Sound, OwnsBlocks
<1>4. \A q \in Inodes : Owned(d.inode_table[q]) \subseteq Blocks
  BY <1>1 DEF Sound, OwnsBlocks, Disk
<1>5. Selfless(d.dirents[b], p) => Selfless(e.dirents[b], p)
  BY <1>1, <1>2, AppendSelfless
<1>6. ASSUME NEW q \in Inodes, NEW a \in Owned(d.inode_table[q])
      PROVE  Selfless(d.dirents[a], q) => Selfless(e.dirents[a], q)
  <2>1. CASE a = b
    BY <1>3, <1>5, <2>1
  <2>2. CASE a # b
    BY <1>2, <1>4, <2>2
  <2>. QED BY <2>1, <2>2
<1>7. NoSelf(e)
  BY <1>2, <1>6, StaysSelfless
<1>. QED BY <1>7 DEF e

LEMMA NewDirectoryKeeps ==
  ASSUME NEW d, Sound(d), CanNewBlock(d), NoSelf(d), NEW i \in d.inode_bitmap, i \in Inodes,
         d.inode_table[i].sub = <<>>, NEW parent \in Inodes
  PROVE  /\ NoSelf(NewDirectory(d, i, parent))
         /\ NewDirectory(d, i, parent).text = d.text
         /\ NewDirectory(d, i, parent).inode_bitmap = d.inode_bitmap
         /\ NewDirectory(d, i, parent).inode_table[i].type = FT_DIR
         /\ \A j \in Inodes : j # i => NewDirectory(d, i, parent).inode_table[j] = d.inode_table[j]
         /\ \A a \in d.block_bitmap : NewDirectory(d, i, parent).dirents[a] = d.dirents[a]
<1>. DEFINE b == NextBlock(d)
            e == TakeBlock(d, i)
            x == NewEntry(Dot, FT_DIR, i)
            y == NewEntry(DotDot, FT_DIR, parent)
            f == AppendEntry(e, b, x)
<1>1. /\ Sound(e) /\ b \in e.block_bitmap /\ b \notin d.block_bitmap
      /\ e.dirents = d.dirents /\ e.text = d.text
  BY TakeBlockSound
<1>2. /\ e.inode_bitmap = d.inode_bitmap
      /\ \A j \in Inodes : j # i => e.inode_table[j] = d.inode_table[j]
      /\ e.inode_table[i].block = <<b>> /\ e.inode_table[i].type = FT_DIR
      /\ e.inode_table[i].sub = d.inode_table[i].sub
  BY TakeBlockKeeps
<1>3. b \in Blocks /\ d.dirents[b] = <<>> /\ d.block_bitmap \subseteq Blocks
  BY NextBlockFree, BlockSelfless DEF FreeBlocks, Sound, Disk
<1>4. NewDirectory(d, i, parent) = AppendEntry(f, b, y)
  BY DEF NewDirectory, TakeBlock, AppendDots
<1>5. x \in DirEntry /\ y \in DirEntry /\ Other(x, i) /\ Other(y, i)
  <2>1. Dot \in Names /\ DotDot \in Names
    BY ConstAssumption
  <2>2. x \in DirEntry /\ y \in DirEntry
    BY <2>1, NewEntryType
  <2>. QED BY <2>2 DEF Other, IsDots, NewEntry
<1>. HIDE DEF e, b, x, y
<1>6. Owned(e.inode_table[i]) = {b}
  <2>1. Range(<<b>>) = {b} /\ Range(<<>>) = {}
    BY DEF Range
  <2>. QED BY <1>2, <2>1 DEF Owned
<1>7. NoSelf(e)
  <2>. SUFFICES ASSUME NEW p \in Inodes, e.inode_table[p].type = FT_DIR
                PROVE  /\ p \in e.inode_bitmap
                       /\ \A a \in Owned(e.inode_table[p]) : Selfless(e.dirents[a], p)
    BY DEF NoSelf
  <2>1. CASE p = i
    BY <1>1, <1>2, <1>3, <1>6, <2>1 DEF Selfless
  <2>2. CASE p # i
    BY <1>1, <1>2, <2>2 DEF NoSelf
  <2>. QED BY <2>1, <2>2
<1>8. /\ Sound(f) /\ f.inode_bitmap = e.inode_bitmap /\ f.text = e.text
      /\ f.inode_table = e.inode_table
      /\ \A a \in Blocks : a # b => f.dirents[a] = e.dirents[a]
  BY <1>1, <1>3, <1>5, AppendEntrySound, AppendEntryKeeps DEF Sound
<1>9. NoSelf(f)
  BY <1>1, <1>5, <1>6, <1>7, EntrySelfless
<1>. HIDE DEF f
<1>10. NoSelf(AppendEntry(f, b, y))
  BY <1>5, <1>6, <1>8, <1>9, EntrySelfless
<1>11. /\ AppendEntry(f, b, y).inode_bitmap = f.inode_bitmap /\ AppendEntry(f, b, y).text = f.text
       /\ AppendEntry(f, b, y).inode_table = f.inode_table
       /\ \A a \in Blocks : a # b => AppendEntry(f, b, y).dirents[a] = f.dirents[a]
  BY <1>3, <1>8, AppendEntryKeeps DEF Sound
<1>. QED BY <1>1, <1>2, <1>3, <1>4, <1>8, <1>10, <1>11

LEMMA NewObjectKeeps ==
  ASSUME NEW d, Sound(d), NoSelf(d), NEW i \in d.inode_bitmap, i \in Inodes,
         d.inode_table[i].sub = <<>>, current_dir \in Inodes,
         NEW name, NEW type \in {FT_REG_FILE, FT_DIR}, ~ BlocksRunOut(d, type)
  PROVE  /\ NoSelf(NewObject(d, i, name, type))
         /\ NewObject(d, i, name, type).text = d.text
         /\ NewObject(d, i, name, type).inode_bitmap = d.inode_bitmap
         /\ \A j \in Inodes : j # i => NewObject(d, i, name, type).inode_table[j] = d.inode_table[j]
         /\ \A a \in d.block_bitmap : NewObject(d, i, name, type).dirents[a] = d.dirents[a]
         /\ \/ NewObject(d, i, name, type).inode_table[i].type = FT_DIR
            \/ NewObject(d, i, name, type).inode_table[i].block = d.inode_table[i].block
<1>0. d \in Disk
  BY DEF Sound
<1>1. CASE type = FT_DIR
  <2>. DEFINE d1 == CountDir(d)
  <2>1. Sound(d1) /\ d1.block_bitmap = d.block_bitmap /\ d1.free_blocks = d.free_blocks
    BY CountDirSound
  <2>2. Kept(d, d1) /\ d1.inode_table = d.inode_table
    BY <1>0, CountDirKeeps
  <2>. HIDE DEF d1
  <2>3. NoSelf(d1)
    BY <2>2, StaysSelflessSame DEF Kept
  <2>4. d1.free_blocks # 0 => CanNewBlock(d1)
    <3>1. d.free_blocks \in Nat
      BY <1>0 DEF Disk
    <3>. QED BY <1>1, <2>1, <3>1 DEF BlocksRunOut, CanNewBlock, FreeBlocks
  <2>5. CASE d1.free_blocks = 0
    <3>1. NewObject(d, i, name, type) = d1
      BY <1>1, <2>5 DEF NewObject, d1
    <3>. QED BY <2>2, <2>3, <3>1 DEF Kept
  <2>6. CASE d1.free_blocks # 0
    <3>1. NewObject(d, i, name, type) = NewDirectory(d1, i, current_dir)
      BY <1>1, <2>6 DEF NewObject, d1
    <3>2. i \in d1.inode_bitmap /\ d1.inode_table[i].sub = <<>>
      BY <2>2 DEF Kept
    <3>. DEFINE e == NewDirectory(d1, i, current_dir)
    <3>3. /\ NoSelf(e) /\ e.text = d1.text /\ e.inode_bitmap = d1.inode_bitmap
          /\ \A j \in Inodes : j # i => e.inode_table[j] = d1.inode_table[j]
          /\ \A a \in d1.block_bitmap : e.dirents[a] = d1.dirents[a]
          /\ e.inode_table[i].type = FT_DIR
      BY <2>1, <2>3, <2>4, <2>6, <3>2, NewDirectoryKeeps
    <3>. HIDE DEF e
    <3>. QED BY <2>2, <3>1, <3>3 DEF Kept, e
  <2>. QED BY <2>5, <2>6
<1>2. CASE type # FT_DIR
  <2>. DEFINE e == NewFile(d, i, name)
  <2>1. NewObject(d, i, name, type) = e
    BY <1>2 DEF NewObject
  <2>2. /\ Kept(d, e) /\ \A j \in Inodes : j # i => e.inode_table[j] = d.inode_table[j]
        /\ e.inode_table[i].type \in {FT_REG_FILE, d.inode_table[i].type}
    BY <1>0, NewFileKeeps
  <2>3. /\ Owned(e.inode_table[i]) = Owned(d.inode_table[i])
        /\ e.inode_table[i].block = d.inode_table[i].block
    BY <1>0 DEF NewFile, Owned, Disk, Inode
  <2>. HIDE DEF e
  <2>4. NoSelf(e)
    <3>1. ASSUME NEW p \in Inodes, e.inode_table[p].type = FT_DIR
          PROVE  /\ d.inode_table[p].type = FT_DIR
                 /\ Owned(e.inode_table[p]) \subseteq Owned(d.inode_table[p])
      BY <2>2, <2>3, <3>1 DEF FT_DIR, FT_REG_FILE
    <3>. QED BY <2>2, <3>1, StaysSelflessSame DEF Kept
  <2>. QED BY <2>1, <2>2, <2>3, <2>4 DEF Kept
<1>. QED BY <1>1, <1>2

(* FirstWithRoom finds a direct block with room if there is one.            *)
LEMMA FirstWithRoomIs ==
  ASSUME NEW d, Sound(d), NEW p \in Inodes, NEW x
  PROVE  LET k  == FirstWithRoom(d, p, x)
             bs == Direct(d.inode_table[p])
         IN  IF k = 0 THEN \A b \in Range(bs) : ~ HasRoom(d.dirents[b], x)
             ELSE k \in 1 .. Len(bs) /\ bs[k] = d.inode_table[p].block[k]
<1>. DEFINE bs == Direct(d.inode_table[p])
            I == {j \in 1 .. Len(bs) : HasRoom(d.dirents[bs[j]], x)}
            k == FirstWithRoom(d, p, x)
<1>1. k = IF I # {} THEN Min(I) ELSE 0
  BY DEF FirstWithRoom, SelectInSeq
<1>2. bs \in Seq(Blocks) /\ \A j \in 1 .. Len(bs) : bs[j] = d.inode_table[p].block[j]
  <2>1. d.inode_table[p] \in Inode
    BY InodeType DEF Sound
  <2>. QED BY <2>1, DirectType
<1>3. I \subseteq Nat /\ 0 \notin I
  OBVIOUS
<1>. HIDE DEF bs, k
<1>4. I # {} => Min(I) \in I
  <2>. HIDE DEF I
  <2>. QED BY <1>3, MinOfNats
<1>5. CASE I = {}
  <2>1. k = 0
    BY <1>1, <1>5
  <2>2. ASSUME NEW b \in Range(bs)
        PROVE  ~ HasRoom(d.dirents[b], x)
    <3>1. PICK j \in DOMAIN bs : bs[j] = b
      BY DEF Range
    <3>2. j \in 1 .. Len(bs)
      BY <1>2
    <3>. QED BY <1>5, <3>1, <3>2
  <2>. QED BY <2>1, <2>2 DEF k, bs
<1>6. CASE I # {}
  <2>1. k \in I /\ k # 0
    BY <1>1, <1>3, <1>4, <1>6
  <2>. QED BY <1>2, <2>1 DEF k, bs
<1>. QED BY <1>5, <1>6

(* A walked block is one of the inode's blocks.                             *)
LEMMA WalkedBlocks ==
  ASSUME NEW n \in Inode
  PROVE  /\ Range(DataBlocks(n)) = Range(Direct(n)) \cup Range(n.sub)
         /\ Range(Direct(n)) \subseteq Range(n.block)
         /\ Len(n.block) <= DIRECT => Range(Direct(n)) = Range(n.block)
<1>. DEFINE dir == Direct(n)
<1>1. n.block \in Seq(Blocks) /\ n.sub \in Seq(Blocks)
  BY DEF Inode
<1>2. /\ dir \in Seq(Blocks) /\ Len(dir) <= Len(n.block)
      /\ \A k \in 1 .. Len(dir) : dir[k] = n.block[k]
      /\ Len(n.block) <= DIRECT => Len(dir) = Len(n.block)
  BY DirectType
<1>3. DataBlocks(n) = dir \o n.sub
  BY DEF DataBlocks
<1>. HIDE DEF dir
<1>4. Range(DataBlocks(n)) = Range(dir) \cup Range(n.sub)
  BY <1>1, <1>2, <1>3, ConcatRange
<1>5. \A k \in 1 .. Len(dir) : k \in 1 .. Len(n.block)
  BY <1>1, <1>2
<1>6. DOMAIN dir = 1 .. Len(dir) /\ DOMAIN n.block = 1 .. Len(n.block)
  BY <1>1, <1>2
<1>7. Range(dir) \subseteq Range(n.block)
  BY <1>2, <1>5, <1>6 DEF Range
<1>8. Len(n.block) <= DIRECT => Range(dir) = Range(n.block)
  BY <1>2, <1>6 DEF Range
<1>. QED BY <1>4, <1>7, <1>8 DEF dir

(* An entry stored in a block of the directory p is listed there.           *)
LEMMA StoreEntryKeeps ==
  ASSUME NEW d, Sound(d), NoSelf(d), NEW p \in Inodes, NEW b \in Range(DataBlocks(d.inode_table[p])),
         NEW x \in DirEntry, Other(x, p), StoreEntry(d, b, x), status' # "undefined"
  PROVE  /\ Saves(disk', "shell") /\ NoSelf(disk')
         /\ disk'.inode_bitmap = d.inode_bitmap /\ disk'.inode_table = d.inode_table
         /\ disk'.text = d.text
         /\ NamedIn(disk', p, x.inode)
<1>. DEFINE e == AppendEntry(d, b, x)
<1>1. disk' = e /\ Saves(e, "shell")
  BY DEF StoreEntry, Undefined, Saves
<1>2. d.inode_table[p] \in Inode /\ d \in Disk
  BY InodeType DEF Sound
<1>3. b \in Owned(d.inode_table[p])
  BY <1>2, WalkedBlocks DEF Owned
<1>4. b \in Blocks /\ d.dirents[b] \in Seq(DirEntry)
  <2>1. b \in d.block_bitmap
    BY <1>3 DEF Sound, OwnsBlocks
  <2>. QED BY <1>2, <2>1 DEF Disk
<1>5. /\ e.inode_bitmap = d.inode_bitmap /\ e.inode_table = d.inode_table /\ e.text = d.text
      /\ e.dirents[b] = append_dir_entry(d.dirents[b], x)
  BY <1>2, <1>4, AppendEntryKeeps
<1>6. NoSelf(e)
  BY <1>3, EntrySelfless
<1>. HIDE DEF e
<1>7. \E j \in DOMAIN e.dirents[b] : e.dirents[b][j].inode = x.inode
  BY <1>4, <1>5, AppendSelfless
<1>8. NamedIn(e, p, x.inode)
  BY <1>5, <1>7 DEF NamedIn
<1>. QED BY <1>1, <1>5, <1>6, <1>8

(* What reaching the index block of an inode does.                          *)
LEMMA ReachIndexKeeps ==
  ASSUME NEW d, Sound(d), NoSelf(d), NEW i \in Inodes, NEW st, ReachIndex(d, i, st),
         status' # "undefined"
  PROVE  /\ Saves(disk', st) /\ NoSelf(disk')
         /\ disk'.inode_bitmap = d.inode_bitmap /\ disk'.text = d.text
         /\ \A j \in Inodes : j # i => disk'.inode_table[j] = d.inode_table[j]
         /\ disk'.inode_table[i].type = d.inode_table[i].type
         /\ disk'.inode_table[i].size = d.inode_table[i].size
         /\ \/ disk'.inode_table[i].block = d.inode_table[i].block
            \/ /\ Len(d.inode_table[i].block) = DIRECT
               /\ \E b \in FreeBlocks(d) : disk'.inode_table[i].block = Append(d.inode_table[i].block, b)
<1>. DEFINE d1 == IndexBlock(d, i)
            d2 == AddSub(d1, i)
<1>1. Len(d.inode_table[i].block) = DIRECT => CanNewBlock(d)
  BY DEF ReachIndex, Undefined
<1>2. /\ Sound(d1) /\ NoSelf(d1) /\ d1.inode_bitmap = d.inode_bitmap /\ d1.text = d.text
      /\ \A j \in Inodes : j # i => d1.inode_table[j] = d.inode_table[j]
      /\ d1.inode_table[i].type = d.inode_table[i].type
      /\ d1.inode_table[i].size = d.inode_table[i].size
      /\ \/ d1.inode_table[i].block = d.inode_table[i].block
         \/ /\ Len(d.inode_table[i].block) = DIRECT
            /\ \E b \in FreeBlocks(d) : d1.inode_table[i].block = Append(d.inode_table[i].block, b)
  <2>1. CASE Len(d.inode_table[i].block) = DIRECT
    <3>1. d1 = AddBlock(d, i)
      BY <2>1 DEF IndexBlock
    <3>2. Sound(d1) /\ NoSelf(d1)
      BY <1>1, <2>1, <3>1, AddBlockSound, BlockSelfless
    <3>3. /\ d1.inode_bitmap = d.inode_bitmap /\ d1.text = d.text
          /\ \A j \in Inodes : j # i => d1.inode_table[j] = d.inode_table[j]
          /\ d1.inode_table[i].type = d.inode_table[i].type
          /\ d1.inode_table[i].size = d.inode_table[i].size
          /\ d1.inode_table[i].block = Append(d.inode_table[i].block, NextBlock(d))
      <4>. HIDE DEF d1
      <4>. QED BY <1>1, <2>1, <3>1, AddBlockKeeps
    <3>4. NextBlock(d) \in FreeBlocks(d)
      BY <1>1, <2>1, NextBlockFree
    <3>. HIDE DEF d1
    <3>. QED BY <2>1, <3>2, <3>3, <3>4
  <2>2. CASE Len(d.inode_table[i].block) # DIRECT
    <3>1. d1 = d
      BY <2>2 DEF IndexBlock
    <3>. QED BY <3>1
  <2>. QED BY <2>1, <2>2
<1>3. Saves(d1, st) \/ (CanNewBlock(d1) /\ Saves(d2, st))
  BY <1>1 DEF ReachIndex, Undefined
<1>. HIDE DEF d1
<1>4. CASE Saves(d1, st)
  <2>1. disk' = d1
    BY <1>4 DEF Saves
  <2>. QED BY <1>2, <1>4, <2>1
<1>5. CASE CanNewBlock(d1) /\ Saves(d2, st)
  <2>1. disk' = d2
    BY <1>5 DEF Saves
  <2>2. /\ d2.inode_bitmap = d1.inode_bitmap /\ d2.text = d1.text
        /\ \A j \in Inodes : j # i => d2.inode_table[j] = d1.inode_table[j]
        /\ d2.inode_table[i].type = d1.inode_table[i].type
        /\ d2.inode_table[i].size = d1.inode_table[i].size
        /\ d2.inode_table[i].block = d1.inode_table[i].block
    <3>1. Sound(d1) /\ CanNewBlock(d1)
      BY <1>2, <1>5
    <3>. HIDE DEF d2
    <3>2. d2 = AddSub(d1, i)
      BY DEF d2
    <3>. QED BY <3>1, <3>2, AddBlockKeeps
  <2>3. NoSelf(d2)
    BY <1>2, <1>5, BlockSelfless
  <2>. HIDE DEF d2
  <2>. QED BY <1>2, <1>5, <2>1, <2>2, <2>3
<1>. QED BY <1>3, <1>4, <1>5

(* handle_append_directory stores the entry, or every direct block is there *)
(* and full.                                                                *)
LEMMA AppendDirectoryKeeps ==
  ASSUME NEW d, Sound(d), NoSelf(d), NEW p \in Inodes, NEW x \in DirEntry, Other(x, p),
         handle_append_directory(d, p, x), status' # "undefined"
  PROVE  /\ Saves(disk', "shell") /\ NoSelf(disk')
         /\ disk'.inode_bitmap = d.inode_bitmap /\ disk'.text = d.text
         /\ \A j \in Inodes : j # p => disk'.inode_table[j] = d.inode_table[j]
         /\ disk'.inode_table[p].type = d.inode_table[p].type
         /\ \/ NamedIn(disk', p, x.inode)
            \/ /\ Len(d.inode_table[p].block) >= DIRECT
               /\ \A b \in Range(Direct(d.inode_table[p])) : ~ HasRoom(d.dirents[b], x)
<1>. DEFINE n == d.inode_table[p]
            k == FirstWithRoom(d, p, x)
<1>0. d \in Disk /\ n \in Inode /\ n.block \in Seq(Blocks)
  BY InodeType DEF Sound
<1>1. IF k = 0 THEN \A b \in Range(Direct(n)) : ~ HasRoom(d.dirents[b], x)
      ELSE k \in 1 .. Len(Direct(n)) /\ Direct(n)[k] = n.block[k]
  BY FirstWithRoomIs
<1>2. \/ k > 0 /\ StoreEntry(d, n.block[k], x)
      \/ /\ k = 0 /\ Len(n.block) < DIRECT /\ CanNewBlock(d)
         /\ StoreEntry(AddBlock(d, p), NextBlock(d), x)
      \/ k = 0 /\ Len(n.block) >= DIRECT /\ ReachIndex(d, p, "shell")
  BY DEF handle_append_directory, Undefined
<1>. HIDE DEF k
<1>3. CASE k > 0 /\ StoreEntry(d, n.block[k], x)
  <2>1. k # 0
    BY <1>3, FirstWithRoomType
  <2>2. Direct(n) \in Seq(Blocks) /\ k \in 1 .. Len(Direct(n)) /\ Direct(n)[k] = n.block[k]
    BY <1>0, <1>1, <2>1, DirectType
  <2>3. n.block[k] \in Range(Direct(n))
    BY <2>2 DEF Range
  <2>4. n.block[k] \in Range(DataBlocks(n))
    BY <1>0, <2>3, WalkedBlocks
  <2>. DEFINE b == n.block[k]
  <2>5. b \in Range(DataBlocks(d.inode_table[p])) /\ StoreEntry(d, b, x)
    BY <1>3, <2>4
  <2>. HIDE DEF b, n
  <2>. QED BY <2>5, StoreEntryKeeps
<1>4. CASE /\ k = 0 /\ Len(n.block) < DIRECT /\ CanNewBlock(d)
           /\ StoreEntry(AddBlock(d, p), NextBlock(d), x)
  <2>. DEFINE e == AddBlock(d, p)
              b == NextBlock(d)
              m == e.inode_table[p]
  <2>1. Sound(e) /\ NoSelf(e)
    BY <1>4, AddBlockSound, BlockSelfless
  <2>2. /\ e.inode_bitmap = d.inode_bitmap /\ e.text = d.text
        /\ \A j \in Inodes : j # p => e.inode_table[j] = d.inode_table[j]
        /\ m.type = n.type /\ m.block = Append(n.block, b)
    BY <1>4, AddBlockKeeps
  <2>3. b \in Blocks
    BY <1>4, NextBlockFree DEF FreeBlocks
  <2>. HIDE DEF e, b, n
  <2>4. m \in Inode
    BY <2>1, InodeType DEF Sound
  <2>. HIDE DEF m
  <2>5. Len(m.block) <= DIRECT
    <3>1. Len(n.block) \in Nat /\ Len(m.block) = Len(n.block) + 1 /\ DIRECT \in Nat
      BY <1>0, <2>2, <2>3, ConstAssumption
    <3>. QED BY <1>4, <3>1
  <2>6. b \in Range(m.block)
    BY <1>0, <2>2, <2>3, AppendRange
  <2>7. b \in Range(DataBlocks(m))
    BY <2>4, <2>5, <2>6, WalkedBlocks
  <2>8. StoreEntry(e, b, x)
    BY <1>4 DEF e, b
  <2>9. /\ Saves(disk', "shell") /\ NoSelf(disk')
        /\ disk'.inode_bitmap = e.inode_bitmap /\ disk'.inode_table = e.inode_table
        /\ disk'.text = e.text
        /\ NamedIn(disk', p, x.inode)
    BY <2>1, <2>7, <2>8, StoreEntryKeeps DEF m
  <2>. QED BY <2>2, <2>9 DEF m, n
<1>5. CASE k = 0 /\ Len(n.block) >= DIRECT /\ ReachIndex(d, p, "shell")
  <2>. HIDE DEF n
  <2>1. \A b \in Range(Direct(n)) : ~ HasRoom(d.dirents[b], x)
    BY <1>1, <1>5
  <2>. QED BY <1>5, <2>1, ReachIndexKeeps DEF n
<1>. QED BY <1>2, <1>3, <1>4, <1>5

(* The root and the working directory are there.                            *)
Homed == /\ NoSelf(disk)
         /\ disk.inode_table[1].type = FT_DIR
         /\ disk.inode_table[current_dir].type = FT_DIR

Untouched(j) ==
  /\ disk'.inode_table[j].type = disk.inode_table[j].type
  /\ disk'.inode_table[j].block = disk.inode_table[j].block
  /\ disk'.inode_table[j].size = disk.inode_table[j].size
  /\ \A b \in Range(disk.inode_table[j].block) : disk'.text[b] = disk.text[b]

LEMMA HomedSaves ==
  ASSUME Homed, MemoryOK, NEW st, Saves(disk', st), NoSelf(disk'),
         \A j \in {1, current_dir} : disk'.inode_table[j].type = disk.inode_table[j].type
  PROVE  Homed'
BY DEF Homed, Saves, initialize_memory, memory

(* A new inode is neither the root nor the working directory.               *)
LEMMA HomeInUse ==
  ASSUME Homed, MemoryOK
  PROVE  1 \in disk.inode_bitmap /\ current_dir \in disk.inode_bitmap
BY BlocksAreNats DEF Homed, NoSelf, MemoryOK

(* mkdir and create take an inode for their object and leave the others.    *)
LEMMA ObjectMade ==
  ASSUME NEW d, Sound(d), NoSelf(d), CanNewInode(d), current_dir \in Inodes,
         NEW name, NEW type \in {FT_REG_FILE, FT_DIR}, ~ BlocksRunOut(d, type),
         NEW i, i = NextInode(d), NEW e, e = NewObject(new_inode(d), i, name, type)
  PROVE  /\ i \in Inodes \ d.inode_bitmap /\ Sound(e) /\ NoSelf(e)
         /\ e.inode_bitmap = d.inode_bitmap \cup {i} /\ e.text = d.text
         /\ \A j \in Inodes : j # i => e.inode_table[j] = d.inode_table[j]
         /\ \A a \in d.block_bitmap : e.dirents[a] = d.dirents[a]
         /\ e.inode_table[i].type = FT_DIR \/ e.inode_table[i].block = <<>>
<1>. DEFINE d0 == new_inode(d)
<1>1. /\ i \in Inodes /\ Sound(d0) /\ d0.inode_table[i] = init_inode
      /\ d0.block_bitmap = d.block_bitmap /\ d0.free_blocks = d.free_blocks
  BY NewInodeSound
<1>2. /\ d0.inode_bitmap = d.inode_bitmap \cup {i} /\ i \notin d.inode_bitmap
      /\ d0.text = d.text /\ d0.dirents = d.dirents
      /\ \A j \in Inodes : j # i => d0.inode_table[j] = d.inode_table[j]
  BY NewInodeKeeps DEF Sound
<1>. HIDE DEF d0
<1>3. init_inode.type = FT_UNKNOWN /\ init_inode.sub = <<>> /\ init_inode.block = <<>>
  BY DEF init_inode, NoInode
<1>4. NoSelf(d0)
  <2>1. ASSUME NEW q \in Inodes, d0.inode_table[q].type = FT_DIR
        PROVE  /\ d.inode_table[q].type = FT_DIR
               /\ Owned(d0.inode_table[q]) \subseteq Owned(d.inode_table[q])
    <3>1. q # i
      BY <1>1, <1>3, <2>1 DEF FT_UNKNOWN, FT_DIR
    <3>. QED BY <1>2, <2>1, <3>1
  <2>. QED BY <1>2, <2>1, StaysSelflessSame
<1>5. ~ BlocksRunOut(d0, type)
  BY <1>1 DEF BlocksRunOut, FreeBlocks
<1>6. Sound(e)
  BY <1>1, <1>5, NewObjectSound DEF d0
<1>7. /\ NoSelf(e) /\ e.text = d0.text /\ e.inode_bitmap = d0.inode_bitmap
      /\ \A j \in Inodes : j # i => e.inode_table[j] = d0.inode_table[j]
      /\ \A a \in d0.block_bitmap : e.dirents[a] = d0.dirents[a]
      /\ e.inode_table[i].type = FT_DIR \/ e.inode_table[i].block = d0.inode_table[i].block
  <2>1. i \in d0.inode_bitmap /\ d0.inode_table[i].sub = <<>>
    BY <1>1, <1>2, <1>3
  <2>2. e = NewObject(d0, i, name, type)
    BY DEF d0
  <2>. QED BY <1>1, <1>4, <1>5, <2>1, <2>2, NewObjectKeeps
<1>. QED BY <1>1, <1>2, <1>3, <1>6, <1>7

LEMMA MakeEntryKeeps ==
  ASSUME IInv, Homed, NEW name \in Made, NEW type \in {FT_REG_FILE, FT_DIR},
         MakeEntry(name, type), status' # "undefined"
  PROVE  /\ Homed'
         /\ \A j \in disk.inode_bitmap : j # current_dir => Untouched(j)
         /\ \A j \in LiveFiles(disk') \ LiveFiles(disk) : disk'.inode_table[j].block = <<>>
         /\ NamesUpToDirect
<1>. DEFINE p == current_dir
            i == NextInode(disk)
            d1 == NewObject(new_inode(disk), i, name, type)
            d2 == AddSize(d1, p, RecLen(name))
            x == NewEntry(name, type, i)
<1>0. /\ Sound(disk) /\ disk \in Disk /\ p \in Inodes /\ name \in Names /\ MemoryOK
      /\ disk.inode_bitmap \subseteq Inodes
  BY IInvIsSound, ConstAssumption DEF MemoryOK, Sound, Disk
<1>1. 1 \in disk.inode_bitmap /\ p \in disk.inode_bitmap /\ 1 \in Inodes
  BY <1>0, HomeInUse, BlocksAreNats
<1>2. RecLen(name) \in Int
  BY <1>0, NamesType
<1>3. \/ Saves(AddSize(disk, p, RecLen(name)), "dead")
      \/ /\ disk.free_inodes > 0 /\ FreeInodes(disk) # {} /\ ~ BlocksRunOut(disk, type)
         /\ handle_append_directory(d2, p, x)
  BY DEF MakeEntry, Undefined
<1>4. CASE Saves(AddSize(disk, p, RecLen(name)), "dead")
  <2>1. disk' = AddSize(disk, p, RecLen(name)) /\ Saves(disk', "dead")
    BY <1>4 DEF Saves
  <2>2. /\ Kept(disk, disk')
        /\ \A j \in Inodes : j # p => disk'.inode_table[j] = disk.inode_table[j]
        /\ disk'.inode_table[p].type = disk.inode_table[p].type
        /\ disk'.inode_table[p].block = disk.inode_table[p].block
        /\ disk'.inode_table[p].sub = disk.inode_table[p].sub
    BY <1>0, <2>1, AddSizeKeeps
  <2>3. \A j \in Inodes : /\ disk'.inode_table[j].type = disk.inode_table[j].type
                          /\ Owned(disk'.inode_table[j]) = Owned(disk.inode_table[j])
    BY <2>2 DEF Owned
  <2>4. NoSelf(disk')
    BY <2>2, <2>3, StaysSelflessSame DEF Kept, Homed
  <2>5. Homed'
    BY <1>0, <1>1, <2>1, <2>3, <2>4, HomedSaves
  <2>6. \A j \in disk.inode_bitmap : j # p => Untouched(j)
    BY <1>0, <2>2 DEF Untouched, Kept
  <2>7. NamesUpToDirect
    BY <2>2 DEF NamesUpToDirect, Kept
  <2>8. LiveFiles(disk') \subseteq LiveFiles(disk)
    BY <1>0, <2>2, <2>3 DEF LiveFiles, Kept
  <2>. QED BY <2>5, <2>6, <2>7, <2>8
<1>5. CASE /\ disk.free_inodes > 0 /\ FreeInodes(disk) # {} /\ ~ BlocksRunOut(disk, type)
           /\ handle_append_directory(d2, p, x)
  <2>1. /\ i \in Inodes \ disk.inode_bitmap /\ Sound(d1) /\ NoSelf(d1)
        /\ d1.inode_bitmap = disk.inode_bitmap \cup {i} /\ d1.text = disk.text
        /\ \A j \in Inodes : j # i => d1.inode_table[j] = disk.inode_table[j]
        /\ \A b \in disk.block_bitmap : d1.dirents[b] = disk.dirents[b]
        /\ d1.inode_table[i].type = FT_DIR \/ d1.inode_table[i].block = <<>>
    <3>1. CanNewInode(disk)
      BY <1>5 DEF CanNewInode
    <3>. QED BY <1>0, <1>5, <3>1, ObjectMade DEF Homed
  <2>. HIDE DEF d1, i
  <2>2. Sound(d2)
    BY <1>0, <1>2, <2>1, AddSizeSound
  <2>3. /\ d2.inode_bitmap = d1.inode_bitmap /\ d2.text = d1.text /\ d2.dirents = d1.dirents
        /\ \A j \in Inodes : j # p => d2.inode_table[j] = d1.inode_table[j]
        /\ d2.inode_table[p].type = d1.inode_table[p].type
        /\ d2.inode_table[p].block = d1.inode_table[p].block
        /\ d2.inode_table[p].sub = d1.inode_table[p].sub
    BY <1>0, <2>1, AddSizeKeeps DEF Kept, Sound
  <2>. HIDE DEF d2
  <2>4. NoSelf(d2)
    <3>1. \A j \in Inodes : /\ d2.inode_table[j].type = d1.inode_table[j].type
                            /\ Owned(d2.inode_table[j]) = Owned(d1.inode_table[j])
      BY <2>3 DEF Owned
    <3>. QED BY <2>1, <2>3, <3>1, StaysSelflessSame
  <2>5. x \in DirEntry /\ x.inode = i /\ Other(x, p)
    <3>1. x \in DirEntry
      BY <1>0, <2>1, NewEntryType
    <3>2. x.inode = i
      BY DEF NewEntry
    <3>. QED BY <1>1, <2>1, <3>1, <3>2 DEF Other
  <2>6. /\ Saves(disk', "shell") /\ NoSelf(disk')
        /\ disk'.inode_bitmap = d2.inode_bitmap /\ disk'.text = d2.text
        /\ \A j \in Inodes : j # p => disk'.inode_table[j] = d2.inode_table[j]
        /\ disk'.inode_table[p].type = d2.inode_table[p].type
        /\ \/ NamedIn(disk', p, i)
           \/ /\ Len(d2.inode_table[p].block) >= DIRECT
              /\ \A b \in Range(Direct(d2.inode_table[p])) : ~ HasRoom(d2.dirents[b], x)
    <3>. HIDE DEF x
    <3>. QED BY <1>0, <1>5, <2>2, <2>4, <2>5, AppendDirectoryKeeps
  <2>7. p # i /\ 1 # i
    BY <1>1, <2>1
  <2>8. Homed'
    <3>1. \A j \in {1, p} : disk'.inode_table[j].type = disk.inode_table[j].type
      BY <1>0, <1>1, <2>1, <2>3, <2>6, <2>7
    <3>. QED BY <1>0, <2>6, <3>1, HomedSaves
  <2>9. \A j \in disk.inode_bitmap : j # p => Untouched(j)
    BY <1>0, <2>1, <2>3, <2>6 DEF Untouched
  <2>10. disk'.inode_bitmap \ disk.inode_bitmap \subseteq {i}
    BY <2>1, <2>3, <2>6
  <2>13. ASSUME NEW j \in LiveFiles(disk') \ LiveFiles(disk)
         PROVE  disk'.inode_table[j].block = <<>>
    <3>0. disk'.inode_table[p].type = disk.inode_table[p].type
      BY <1>0, <2>1, <2>3, <2>6, <2>7
    <3>1. j = i /\ disk'.inode_table[j].type # FT_DIR
      BY <2>9, <2>10, <3>0 DEF LiveFiles, Untouched
    <3>2. disk'.inode_table[i] = d1.inode_table[i]
      BY <2>1, <2>3, <2>6, <2>7
    <3>. QED BY <2>1, <3>1, <3>2
  <2>11. CASE NamedIn(disk', p, i)
    BY <2>8, <2>9, <2>10, <2>11, <2>13 DEF NamesUpToDirect
  <2>12. CASE /\ Len(d2.inode_table[p].block) >= DIRECT
              /\ \A b \in Range(Direct(d2.inode_table[p])) : ~ HasRoom(d2.dirents[b], x)
    <3>1. d2.inode_table[p].block = disk.inode_table[p].block
      BY <1>0, <2>1, <2>3, <2>7
    <3>2. Direct(d2.inode_table[p]) = Direct(disk.inode_table[p])
      BY <3>1 DEF Direct
    <3>3. ASSUME NEW b \in Range(Direct(disk.inode_table[p]))
          PROVE  ~ HasRoom(disk.dirents[b], NewEntry(name, FT_DIR, i))
      <4>1. b \in disk.block_bitmap
        <5>1. disk.inode_table[p] \in Inode
          BY <1>0, InodeType
        <5>2. b \in Owned(disk.inode_table[p])
          BY <3>3, <5>1, WalkedBlocks DEF Owned
        <5>. QED BY <1>0, <5>2 DEF Sound, OwnsBlocks
      <4>2. d2.dirents[b] = disk.dirents[b]
        BY <2>1, <2>3, <4>1
      <4>3. ~ HasRoom(disk.dirents[b], x)
        BY <2>12, <3>2, <3>3, <4>2
      <4>4. x.rec_len = NewEntry(name, FT_DIR, i).rec_len
        BY DEF NewEntry
      <4>. QED BY <4>3, <4>4 DEF HasRoom, Splittable
    <3>. QED BY <2>8, <2>9, <2>10, <2>12, <2>13, <3>1, <3>3 DEF NamesUpToDirect
  <2>. QED BY <2>6, <2>8, <2>9, <2>11, <2>12, <2>13
<1>. QED BY <1>3, <1>4, <1>5

-----------------------------------------------------------------------------
(* rmdir and delete: the inode found is not the directory it was found in.  *)

LEMMA SearchFileFound ==
  ASSUME NEW c \in Seq(DirEntry), NEW name, NEW type, search_file_name(c, name, type) # 0
  PROVE  \E k \in DOMAIN c : /\ c[k].name = name /\ c[k].file_type = type
                             /\ c[k].inode = search_file_name(c, name, type)
<1>. DEFINE I == {i \in 1 .. Len(c) : c[i].name = name /\ c[i].file_type = type}
            k == IF I # {} THEN Min(I) ELSE 0
<1>0. search_file_name(c, name, type) = IF k = 0 THEN 0 ELSE c[k].inode
  BY DEF search_file_name, SelectInSeq
<1>1. I \subseteq Nat
  OBVIOUS
<1>2. I # {} => Min(I) \in I
  <2>. HIDE DEF I
  <2>. QED BY <1>1, MinOfNats
<1>3. k # 0 => k \in I
  <2>. HIDE DEF I
  <2>. QED BY <1>2
<1>. HIDE DEF k
<1>4. k # 0 /\ search_file_name(c, name, type) = c[k].inode
  BY <1>0
<1>5. k \in DOMAIN c /\ c[k].name = name /\ c[k].file_type = type
  BY <1>3, <1>4
<1>. QED BY <1>4, <1>5

LEMMA SearchFound ==
  ASSUME NEW d \in Disk, NEW p \in Inodes, NEW name, NEW type,
         handle_search_inode(d, p, name, type) # 0
  PROVE  \E b \in Owned(d.inode_table[p]) : \E k \in DOMAIN d.dirents[b] :
           /\ d.dirents[b][k].name = name /\ d.dirents[b][k].file_type = type
           /\ d.dirents[b][k].inode = handle_search_inode(d, p, name, type)
<1>. DEFINE bs == DataBlocks(d.inode_table[p])
            I == {i \in 1 .. Len(bs) : search_file_name(d.dirents[bs[i]], name, type) # 0}
            k == IF I # {} THEN Min(I) ELSE 0
            b == bs[k]
<1>0. handle_search_inode(d, p, name, type)
        = IF k = 0 THEN 0 ELSE search_file_name(d.dirents[b], name, type)
  BY DEF handle_search_inode, SelectInSeq
<1>1. bs \in Seq(Blocks) /\ \A m \in 1 .. Len(bs) : bs[m] \in Owned(d.inode_table[p])
  BY InodeType, DataBlocksType
<1>2. I \subseteq Nat
  OBVIOUS
<1>3. I # {} => Min(I) \in I
  <2>. HIDE DEF I
  <2>. QED BY <1>2, MinOfNats
<1>4. k # 0 => k \in 1 .. Len(bs)
  BY <1>3
<1>. HIDE DEF k, bs
<1>5. k # 0 /\ handle_search_inode(d, p, name, type) = search_file_name(d.dirents[b], name, type)
  BY <1>0
<1>6. b \in Owned(d.inode_table[p]) /\ b \in Blocks
  BY <1>1, <1>4, <1>5
<1>7. d.dirents[b] \in Seq(DirEntry)
  BY <1>6 DEF Disk
<1>. HIDE DEF b
<1>. QED BY <1>5, <1>6, <1>7, SearchFileFound

LEMMA FoundElsewhere ==
  ASSUME IInv, Homed, NEW name, NEW type, ~ (name \in {Dot, DotDot} /\ type = FT_DIR),
         handle_search_inode(disk, current_dir, name, type) # 0
  PROVE  handle_search_inode(disk, current_dir, name, type) \in Inodes \ {1, current_dir}
<1>. DEFINE i == handle_search_inode(disk, current_dir, name, type)
<1>1. disk \in Disk /\ current_dir \in Inodes
  BY IInvIsSound DEF Sound, MemoryOK
<1>2. PICK b \in Owned(disk.inode_table[current_dir]) : \E k \in DOMAIN disk.dirents[b] :
           /\ disk.dirents[b][k].name = name /\ disk.dirents[b][k].file_type = type
           /\ disk.dirents[b][k].inode = i
  BY <1>1, SearchFound
<1>3. PICK k \in DOMAIN disk.dirents[b] :
           /\ disk.dirents[b][k].name = name /\ disk.dirents[b][k].file_type = type
           /\ disk.dirents[b][k].inode = i
  BY <1>2
<1>4. i \in Inodes
  BY FoundInode
<1>. HIDE DEF i
<1>5. Selfless(disk.dirents[b], current_dir)
  BY <1>1 DEF Homed, NoSelf
<1>. QED BY <1>3, <1>4, <1>5 DEF Selfless, Other, IsDots, i

LEMMA FreeObjectKeeps ==
  ASSUME NEW d, Sound(d), NEW i \in Inodes
  PROVE  LET e == FreeObject(d, i)
         IN  /\ e.inode_bitmap = d.inode_bitmap \ {i}
             /\ e.inode_table[i] = NoInode
             /\ \A j \in Inodes : j # i =>
                  /\ e.inode_table[j] = d.inode_table[j]
                  /\ \A b \in Owned(d.inode_table[j]) :
                       e.text[b] = d.text[b] /\ e.dirents[b] = d.dirents[b]
             /\ \A b \in Blocks : e.dirents[b] \in {d.dirents[b], <<>>}
<1>. DEFINE n == d.inode_table[i]
            R == Range(DataBlocks(n))
            e == FreeObject(d, i)
<1>0. /\ d \in Disk /\ n \in Inode /\ OwnsBlocks(d) /\ d.inode_table \in [Inodes -> Inode]
      /\ \A j \in Inodes : Owned(d.inode_table[j]) \subseteq Blocks
  BY InodeType DEF Sound, Disk, OwnsBlocks
<1>1. R \subseteq Owned(n)
  BY <1>0, WalkedBlocks DEF Owned
<1>2. \A j \in Inodes : j # i => Owned(d.inode_table[j]) \cap R = {}
  BY <1>0, <1>1 DEF OwnsBlocks
<1>3. e = [d EXCEPT !.block_bitmap = d.block_bitmap \ R,
                    !.dirents = [b \in Blocks |-> IF b \in R THEN <<>> ELSE d.dirents[b]],
                    !.text = [b \in Blocks |-> IF b \in R THEN 0 ELSE d.text[b]],
                    !.inode_table = [@ EXCEPT ![i] = NoInode],
                    !.inode_bitmap = d.inode_bitmap \ {i},
                    !.free_blocks = (d.free_blocks + Len(n.block)) % UINT16,
                    !.free_inodes = (d.free_inodes + 1) % UINT16]
  <2>. HIDE DEF n, R
  <2>. QED BY <1>0 DEF FreeObject, reset_inode_table, reset_block_entry, Disk, n, R
<1>. HIDE DEF n, R, e
<1>4. /\ e.inode_bitmap = d.inode_bitmap \ {i}
      /\ e.dirents = [b \in Blocks |-> IF b \in R THEN <<>> ELSE d.dirents[b]]
      /\ e.text = [b \in Blocks |-> IF b \in R THEN 0 ELSE d.text[b]]
      /\ e.inode_table = [d.inode_table EXCEPT ![i] = NoInode]
  BY <1>0, <1>3 DEF Disk
<1>5. ASSUME NEW j \in Inodes, j # i, NEW b \in Owned(d.inode_table[j])
      PROVE  e.text[b] = d.text[b] /\ e.dirents[b] = d.dirents[b]
  BY <1>0, <1>2, <1>4, <1>5
<1>. QED BY <1>0, <1>4, <1>5 DEF e

LEMMA DeleteEntryKeeps ==
  ASSUME NEW d, Sound(d), NEW p \in Inodes, NEW name, NEW type
  PROVE  LET e == DeleteEntry(d, p, name, type)
         IN  /\ e.inode_bitmap = d.inode_bitmap /\ e.inode_table = d.inode_table
             /\ e.text = d.text
             /\ \A b \in Blocks : e.dirents[b] \in {d.dirents[b], delete_dir_entry(d.dirents[b], name, type)}
<1>. DEFINE bs == DataBlocks(d.inode_table[p])
            I == {i \in 1 .. Len(bs) : DeletableAt(d.dirents[bs[i]], name, type) # 0}
            k == IF I # {} THEN Min(I) ELSE 0
            b == bs[k]
            c == delete_dir_entry(d.dirents[b], name, type)
            e == [d EXCEPT !.dirents[b] = c]
<1>0. DeleteEntry(d, p, name, type) = IF k = 0 THEN d ELSE e
  BY DEF DeleteEntry, SelectInSeq
<1>1. d \in Disk
  BY DEF Sound
<1>2. /\ e.inode_bitmap = d.inode_bitmap /\ e.inode_table = d.inode_table
      /\ e.text = d.text
      /\ \A a \in Blocks : e.dirents[a] \in {d.dirents[a], delete_dir_entry(d.dirents[a], name, type)}
  <2>. HIDE DEF b
  <2>1. /\ e.inode_bitmap = d.inode_bitmap /\ e.inode_table = d.inode_table /\ e.text = d.text
        /\ e.dirents = [d.dirents EXCEPT ![b] = c]
    BY <1>1 DEF Disk
  <2>2. d.dirents \in [Blocks -> Seq(DirEntry)]
    BY <1>1 DEF Disk
  <2>. HIDE DEF e
  <2>. QED BY <2>1, <2>2
<1>. HIDE DEF k, e
<1>. QED BY <1>0, <1>2

LEMMA RemoveObjectKeeps ==
  ASSUME NEW d, Sound(d), NoSelf(d), NEW p \in Inodes, p = current_dir, NEW i \in Inodes, i # p,
         NEW name \in Names, NEW type
  PROVE  LET e == RemoveObject(d, i, name, type)
         IN  /\ NoSelf(e)
             /\ e.inode_bitmap = d.inode_bitmap \ {i}
             /\ e.inode_table[p].type = d.inode_table[p].type
             /\ \A j \in Inodes \ {i} :
                  /\ j # p => e.inode_table[j] = d.inode_table[j]
                  /\ \A b \in Owned(d.inode_table[j]) : e.text[b] = d.text[b]
<1>. DEFINE d1 == FreeObject(d, i)
            d2 == AddSize(d1, p, - RecLen(name))
            e == DeleteEntry(d2, p, name, type)
<1>1. /\ d1.inode_bitmap = d.inode_bitmap \ {i}
      /\ d1.inode_table[i] = NoInode
      /\ \A j \in Inodes : j # i => /\ d1.inode_table[j] = d.inode_table[j]
                                    /\ \A b \in Owned(d.inode_table[j]) : d1.text[b] = d.text[b]
      /\ \A b \in Blocks : d1.dirents[b] \in {d.dirents[b], <<>>}
  BY FreeObjectKeeps
<1>2. Sound(d1) /\ d1 \in Disk
  BY FreeObjectSound DEF Sound
<1>3. - RecLen(name) \in Int
  BY NamesType
<1>. HIDE DEF d1
<1>4. Sound(d2)
  BY <1>2, <1>3, AddSizeSound
<1>5. /\ Kept(d1, d2)
      /\ \A j \in Inodes : j # p => d2.inode_table[j] = d1.inode_table[j]
      /\ d2.inode_table[p].type = d1.inode_table[p].type
      /\ d2.inode_table[p].block = d1.inode_table[p].block
      /\ d2.inode_table[p].sub = d1.inode_table[p].sub
  BY <1>2, AddSizeKeeps
<1>. HIDE DEF d2
<1>6. /\ e.inode_bitmap = d2.inode_bitmap /\ e.inode_table = d2.inode_table
      /\ e.text = d2.text
      /\ \A b \in Blocks : e.dirents[b] \in {d2.dirents[b], delete_dir_entry(d2.dirents[b], name, type)}
  BY <1>4, DeleteEntryKeeps
<1>. HIDE DEF e
<1>7. NoInode.type = FT_UNKNOWN
  BY DEF NoInode
<1>8. NoSelf(e)
  <2>. SUFFICES ASSUME NEW q \in Inodes, e.inode_table[q].type = FT_DIR
                PROVE  /\ q \in e.inode_bitmap
                       /\ \A b \in Owned(e.inode_table[q]) : Selfless(e.dirents[b], q)
    BY DEF NoSelf
  <2>1. q # i
    BY <1>1, <1>5, <1>6, <1>7 DEF FT_UNKNOWN, FT_DIR
  <2>2. /\ d.inode_table[q].type = FT_DIR
        /\ Owned(e.inode_table[q]) = Owned(d.inode_table[q])
    <3>1. /\ e.inode_table[q].type = d1.inode_table[q].type
          /\ Owned(e.inode_table[q]) = Owned(d1.inode_table[q])
      BY <1>5, <1>6 DEF Owned
    <3>. QED BY <1>1, <2>1, <3>1
  <2>3. q \in d.inode_bitmap /\ \A b \in Owned(d.inode_table[q]) : Selfless(d.dirents[b], q)
    BY <2>2 DEF NoSelf
  <2>4. ASSUME NEW b \in Owned(e.inode_table[q])
        PROVE  Selfless(e.dirents[b], q)
    <3>1. b \in Blocks /\ Selfless(d.dirents[b], q) /\ d1.dirents[b] \in Seq(DirEntry)
      BY <1>2, <2>2, <2>3 DEF Sound, OwnsBlocks, Disk
    <3>2. Selfless(<<>>, q)
      BY DEF Selfless
    <3>3. Selfless(d1.dirents[b], q)
      BY <1>1, <3>1, <3>2
    <3>4. Selfless(delete_dir_entry(d1.dirents[b], name, type), q)
      BY <3>1, <3>3, DeleteSelfless
    <3>. QED BY <1>5, <1>6, <3>1, <3>3, <3>4 DEF Kept
  <2>. QED BY <1>1, <1>5, <1>6, <2>1, <2>3, <2>4 DEF Kept
<1>9. RemoveObject(d, i, name, type) = e
  BY DEF RemoveObject, e, d2, d1
<1>. QED BY <1>1, <1>5, <1>6, <1>8, <1>9 DEF Kept

LEMMA RemovalKeeps ==
  ASSUME IInv, Homed, NEW name \in Names, rmdir(name) \/ delete(name)
  PROVE  /\ Homed'
         /\ \A j \in disk'.inode_bitmap : j # current_dir => Untouched(j)
         /\ disk'.inode_bitmap \subseteq disk.inode_bitmap /\ LiveFiles(disk') \subseteq LiveFiles(disk)
<1>. DEFINE p == current_dir
<1>0. Sound(disk) /\ disk \in Disk /\ p \in Inodes /\ MemoryOK /\ disk.inode_bitmap \subseteq Inodes
  BY IInvIsSound DEF Sound, Disk, MemoryOK
<1>1. \E d, i, type : /\ Sound(d) /\ NoSelf(d) /\ i \in Inodes \ {1, p}
                      /\ d.inode_bitmap = disk.inode_bitmap /\ d.inode_table = disk.inode_table
                      /\ d.text = disk.text
                      /\ Saves(RemoveObject(d, i, name, type), "shell")
  <2>1. CASE rmdir(name)
    <3>. DEFINE i == handle_search_inode(disk, p, name, FT_DIR)
                d == UncountDir(disk)
    <3>1. i # 0 /\ name \notin {Dot, DotDot} /\ Saves(RemoveObject(d, i, name, FT_DIR), "shell")
      BY <2>1 DEF rmdir
    <3>2. i \in Inodes \ {1, p}
      BY <3>1, FoundElsewhere
    <3>3. Sound(d) /\ Kept(disk, d) /\ d.inode_table = disk.inode_table
      BY <1>0, CountDirSound, CountDirKeeps
    <3>. HIDE DEF d, i
    <3>4. NoSelf(d)
      BY <3>3, StaysSelflessSame DEF Kept, Homed
    <3>. QED BY <3>1, <3>2, <3>3, <3>4 DEF Kept
  <2>2. CASE delete(name)
    <3>. DEFINE i == handle_search_inode(disk, p, name, FT_REG_FILE)
    <3>1. i # 0 /\ Saves(RemoveObject(disk, i, name, FT_REG_FILE), "shell")
      BY <2>2 DEF delete
    <3>2. i \in Inodes \ {1, p}
      BY <3>1, FoundElsewhere DEF FT_REG_FILE, FT_DIR
    <3>. HIDE DEF i
    <3>. QED BY <1>0, <3>1, <3>2 DEF Homed
  <2>. QED BY <2>1, <2>2
<1>2. PICK d, i, type : /\ Sound(d) /\ NoSelf(d) /\ i \in Inodes \ {1, p}
                        /\ d.inode_bitmap = disk.inode_bitmap /\ d.inode_table = disk.inode_table
                        /\ d.text = disk.text
                        /\ Saves(RemoveObject(d, i, name, type), "shell")
  BY <1>1
<1>3. disk' = RemoveObject(d, i, name, type) /\ Saves(disk', "shell")
  BY <1>2 DEF Saves
<1>4. /\ NoSelf(disk')
      /\ disk'.inode_bitmap = d.inode_bitmap \ {i}
      /\ disk'.inode_table[p].type = d.inode_table[p].type
      /\ \A j \in Inodes \ {i} :
                  /\ j # p => disk'.inode_table[j] = d.inode_table[j]
                  /\ \A b \in Owned(d.inode_table[j]) : disk'.text[b] = d.text[b]
  BY <1>0, <1>2, <1>3, RemoveObjectKeeps
<1>5. \A j \in {1, p} : disk'.inode_table[j].type = disk.inode_table[j].type
  BY <1>0, <1>2, <1>4, BlocksAreNats
<1>6. Homed'
  BY <1>0, <1>3, <1>4, <1>5, HomedSaves
<1>7. ASSUME NEW j \in disk'.inode_bitmap, j # p
      PROVE  Untouched(j)
  <2>1. j \in Inodes \ {i}
    BY <1>0, <1>2, <1>4
  <2>. QED BY <1>2, <1>4, <1>7, <2>1 DEF Untouched, Owned
<1>8. disk'.inode_bitmap \subseteq disk.inode_bitmap
  BY <1>2, <1>4
<1>9. LiveFiles(disk') \subseteq LiveFiles(disk)
  BY <1>5, <1>7, <1>8 DEF LiveFiles, Untouched
<1>. QED BY <1>6, <1>7, <1>8, <1>9

-----------------------------------------------------------------------------
(* write: the file's blocks are its own or were free.                       *)

LEMMA AddBlocksKeeps ==
  ASSUME NEW d \in Disk, NEW i \in Inodes, NEW nb \in Seq(Blocks), NEW size
  PROVE  LET e == AddBlocks(d, i, nb, size)
         IN  /\ e.inode_bitmap = d.inode_bitmap /\ e.text = d.text /\ e.dirents = d.dirents
             /\ \A j \in Inodes : j # i => e.inode_table[j] = d.inode_table[j]
             /\ e.inode_table[i].type = d.inode_table[i].type
             /\ e.inode_table[i].sub = d.inode_table[i].sub
             /\ e.inode_table[i].block = d.inode_table[i].block \o nb
             /\ e.inode_table[i].size = (d.inode_table[i].size + size) % UINT32
<1>. DEFINE n == d.inode_table[i]
            m == [n EXCEPT !.block = @ \o nb]
            o == [m EXCEPT !.size = (@ + size) % UINT32]
            M == [d.inode_table EXCEPT ![i] = m]
            e == [d EXCEPT !.block_bitmap = @ \cup Range(nb), !.free_blocks = @ - Len(nb),
                           !.inode_table[i].block = @ \o nb]
<1>1. n \in Inode /\ n.block \o nb \in Seq(Blocks) /\ d.inode_table \in [Inodes -> Inode]
  <2>1. n \in Inode /\ n.block \in Seq(Blocks)
    BY InodeType
  <2>. HIDE DEF n
  <2>. QED BY <2>1 DEF Disk
<1>2. m \in Inode /\ m.block = n.block \o nb /\ m.type = n.type /\ m.sub = n.sub /\ m.size = n.size
  <2>. HIDE DEF n
  <2>. QED BY <1>1 DEF Inode
<1>3. e.inode_table = M
  BY DEF Disk
<1>4. /\ "inode_table" \in DOMAIN e /\ "inode_bitmap" \in DOMAIN e
      /\ "text" \in DOMAIN e /\ "dirents" \in DOMAIN e
      /\ e.inode_bitmap = d.inode_bitmap /\ e.text = d.text /\ e.dirents = d.dirents
  BY DEF Disk
<1>5. AddBlocks(d, i, nb, size) = AddSize(e, i, size)
  BY DEF AddBlocks
<1>. HIDE DEF m, e
<1>6. /\ AddSize(e, i, size).inode_table = [M EXCEPT ![i].size = (@ + size) % UINT32]
      /\ AddSize(e, i, size).inode_bitmap = e.inode_bitmap
      /\ AddSize(e, i, size).text = e.text /\ AddSize(e, i, size).dirents = e.dirents
  <2>. HIDE DEF M
  <2>. QED BY <1>3, <1>4 DEF AddSize
<1>7. DOMAIN M = Inodes /\ M[i] = m /\ \A j \in Inodes : j # i => M[j] = d.inode_table[j]
  BY <1>1
<1>. HIDE DEF M
<1>8. /\ AddSize(e, i, size).inode_table[i] = o
      /\ \A j \in Inodes : j # i => AddSize(e, i, size).inode_table[j] = d.inode_table[j]
  BY <1>6, <1>7
<1>9. /\ o.block = m.block /\ o.type = m.type /\ o.sub = m.sub
      /\ o.size = (m.size + size) % UINT32
  BY <1>2 DEF Inode
<1>. HIDE DEF o, n
<1>. QED BY <1>2, <1>4, <1>5, <1>6, <1>8, <1>9 DEF n

(* What a write makes of the image before it reaches the index block.       *)
FilledAlone(e, i, nb, size) ==
  /\ NoSelf(e) /\ e.inode_bitmap = disk.inode_bitmap
  /\ \A j \in Inodes : j # i =>
       /\ e.inode_table[j] = disk.inode_table[j]
       /\ \A b \in Owned(disk.inode_table[j]) : e.text[b] = disk.text[b]
  /\ e.inode_table[i].type = disk.inode_table[i].type
  /\ e.inode_table[i].block = disk.inode_table[i].block \o nb
  /\ e.inode_table[i].size = (disk.inode_table[i].size + size) % UINT32

LEMMA FilledKeeps ==
  ASSUME Sound(disk), NoSelf(disk), NEW i \in Inodes, NEW g \in Nat, NEW nb \in NewBlocks(disk, g),
         NEW bs \in Seq(Blocks), NEW k \in 1 .. Len(bs) + 1, NEW size, NEW rest,
         NEW e, e = FillBlocks(AddBlocks(disk, i, nb, size), bs, k, rest),
         \A m \in 1 .. Len(bs) : bs[m] \in Owned(disk.inode_table[i]) \cup FreeBlocks(disk)
  PROVE  FilledAlone(e, i, nb, size)
<1>. DEFINE a == AddBlocks(disk, i, nb, size)
            n == disk.inode_table[i]
<1>0. /\ disk \in Disk /\ n \in Inode /\ n.block \in Seq(Blocks) /\ OwnsBlocks(disk)
      /\ \A j \in Inodes : Owned(disk.inode_table[j]) \subseteq disk.block_bitmap
      /\ disk.block_bitmap \subseteq Blocks
  BY InodeType DEF Sound, OwnsBlocks, Disk
<1>1. nb \in Seq(Blocks) /\ Range(nb) \subseteq FreeBlocks(disk)
  BY <1>0, NewBlocksType
<1>2. /\ a.inode_bitmap = disk.inode_bitmap /\ a.text = disk.text /\ a.dirents = disk.dirents
      /\ \A j \in Inodes : j # i => a.inode_table[j] = disk.inode_table[j]
      /\ a.inode_table[i].type = n.type
      /\ a.inode_table[i].sub = n.sub
      /\ a.inode_table[i].block = n.block \o nb
      /\ a.inode_table[i].size = (n.size + size) % UINT32
  BY <1>0, <1>1, AddBlocksKeeps
<1>3. DOMAIN a = DOMAIN disk
  BY DEF AddBlocks, AddSize
<1>. HIDE DEF a, n
<1>4. /\ e.inode_bitmap = a.inode_bitmap /\ e.inode_table = a.inode_table
      /\ e.dirents = a.dirents
      /\ e.text = [b \in Blocks |-> IF \E j \in 1 .. k - 1 : bs[j] = b THEN CAP
                                    ELSE IF k <= Len(bs) /\ bs[k] = b THEN a.text[b] + rest
                                    ELSE a.text[b]]
  BY <1>0, <1>3 DEF FillBlocks, Disk, a
<1>5. ASSUME NEW j \in Inodes, j # i, NEW b \in Owned(disk.inode_table[j])
      PROVE  e.text[b] = disk.text[b]
  <2>1. b \in Blocks /\ b \notin Owned(n) /\ b \notin FreeBlocks(disk)
    BY <1>0, <1>5 DEF OwnsBlocks, FreeBlocks, n
  <2>2. \A m \in 1 .. Len(bs) : bs[m] # b
    BY <2>1 DEF n
  <2>3. \A m \in 1 .. k - 1 : m \in 1 .. Len(bs)
    OBVIOUS
  <2>4. k <= Len(bs) => k \in 1 .. Len(bs)
    OBVIOUS
  <2>. QED BY <1>2, <1>4, <2>1, <2>2, <2>3, <2>4
<1>6. Owned(e.inode_table[i]) = Owned(n) \cup Range(nb)
  <2>1. Range(n.block \o nb) = Range(n.block) \cup Range(nb)
    BY <1>0, <1>1, ConcatRange
  <2>. QED BY <1>2, <1>4, <2>1 DEF Owned
<1>7. NoSelf(e)
  <2>1. ASSUME NEW p \in Inodes, e.inode_table[p].type = FT_DIR
        PROVE  /\ disk.inode_table[p].type = FT_DIR
               /\ p \in disk.inode_bitmap => p \in e.inode_bitmap
               /\ \A b \in Owned(e.inode_table[p]) :
                    \/ e.dirents[b] = <<>>
                    \/ /\ b \in Owned(disk.inode_table[p])
                       /\ Selfless(disk.dirents[b], p) => Selfless(e.dirents[b], p)
    <3>1. CASE p # i
      BY <1>2, <1>4, <2>1, <3>1
    <3>2. CASE p = i
      <4>1. \A b \in Range(nb) : e.dirents[b] = <<>>
        BY <1>1, <1>2, <1>4 DEF Sound, IsClean
      <4>. QED BY <1>2, <1>4, <1>6, <2>1, <3>2, <4>1 DEF n
    <3>. QED BY <3>1, <3>2
  <2>. QED BY <2>1, StaysSelfless
<1>8. /\ \A j \in Inodes : j # i => e.inode_table[j] = disk.inode_table[j]
      /\ e.inode_table[i].type = n.type
      /\ e.inode_table[i].block = n.block \o nb
      /\ e.inode_table[i].size = (n.size + size) % UINT32
      /\ e.inode_bitmap = disk.inode_bitmap
  <2>1. e.inode_table = a.inode_table /\ e.inode_bitmap = a.inode_bitmap
    BY <1>4
  <2>. HIDE <1>0
  <2>. QED BY <1>2, <2>1, Zenon
<1>9. \A j \in Inodes : j # i =>
        \A b \in Owned(disk.inode_table[j]) : e.text[b] = disk.text[b]
  BY <1>5, Zenon
<1>. QED BY <1>7, <1>8, <1>9, Zenon DEF n, FilledAlone

(* How much each block of a file takes.  Block m of the file i gets what    *)
(* it has room for below block k, and rest more in block k.                 *)
Text(i, m) == IF m <= Len(disk.inode_table[i].block)
              THEN disk.text[disk.inode_table[i].block[m]] ELSE 0
Took(i, k, rest, m) == IF m < k THEN RoomIn(disk, disk.inode_table[i], m)
                       ELSE IF m = k THEN rest ELSE 0
Takes(i, k, rest) ==
  LET bs == disk'.inode_table[i].block
  IN  /\ Len(bs) >= Len(disk.inode_table[i].block) /\ k <= Len(bs) + 1
      /\ k > Len(bs) => rest = 0
      /\ Len(bs) > Len(disk.inode_table[i].block) => Len(bs) <= k
      /\ \A m \in 1 .. Len(bs) : disk'.text[bs[m]] = Text(i, m) + Took(i, k, rest, m)

(* Full blocks have no room, and new ones all of it.                        *)
LEMMA FullTakes ==
  ASSUME Sound(disk), NEW i \in Inodes, NEW m \in Nat, m # 0
  PROVE  Text(i, m) + RoomIn(disk, disk.inode_table[i], m) = CAP
<1>. DEFINE n == disk.inode_table[i]
<1>0. disk \in Disk /\ n.block \in Seq(Blocks)
  BY InodeType DEF Sound
<1>. HIDE DEF n
<1>1. CASE m <= Len(n.block)
  <2>1. n.block[m] \in Blocks
    BY <1>0, <1>1
  <2>2. disk.text[n.block[m]] \in 0 .. CAP
    BY <1>0, <2>1 DEF Disk
  <2>. QED BY <1>1, <2>2, CapType DEF Text, RoomIn, n
<1>2. CASE ~ (m <= Len(n.block))
  BY <1>2, CapType DEF Text, RoomIn, n
<1>. QED BY <1>1, <1>2

LEMMA WriteFitsKeeps ==
  ASSUME IInv, IInv', Homed, NEW i \in Inodes, NEW n \in Nat, NEW k \in 1 .. DIRECT,
         WriteFits(i, n, k), status' # "undefined"
  PROVE  /\ Homed' /\ disk'.inode_bitmap = disk.inode_bitmap
         /\ \A j \in Inodes : j # i => Untouched(j)
         /\ disk'.inode_table[i].type = disk.inode_table[i].type
         /\ disk'.inode_table[i].size = (disk.inode_table[i].size + n + 1) % UINT32
         /\ \E rest \in Nat : /\ RoomBefore(disk, disk.inode_table[i], k) + rest = n
                              /\ Takes(i, k, rest)
<1>. DEFINE ino == disk.inode_table[i]
            L == Len(ino.block)
            g == IF k > L THEN k - L ELSE 0
            room == RoomIn(disk, ino, k)
            held == RoomBefore(disk, ino, k)
<1>0. /\ Sound(disk) /\ disk \in Disk /\ ino \in Inode /\ ino.block \in Seq(Blocks)
      /\ ino.size \in Nat /\ MemoryOK /\ Sound(disk')
  BY IInvIsSound, InodeType DEF Sound, Inode, IInv, TypeOK, BlockOwnership, FreeBlocksClean
<1>1. L \in Nat /\ k \in Nat /\ k > 0 /\ g \in Nat /\ k <= L + g /\ (g # 0 => k = L + g)
  <2>1. L \in Nat
    BY <1>0
  <2>. HIDE DEF L
  <2>. QED BY <2>1, ConstAssumption
<1>2. PICK rest \in 0 .. room, nb \in NewBlocks(disk, g) :
        /\ rest = n - held
        /\ Saves(FillBlocks(AddBlocks(disk, i, nb, n + 1), ino.block \o nb, k, rest),
                 AfterWrite(held))
  BY DEF WriteFits, Undefined
<1>. DEFINE bs == ino.block \o nb
            e == FillBlocks(AddBlocks(disk, i, nb, n + 1), bs, k, rest)
<1>3. /\ nb \in Seq(Blocks) /\ Len(nb) = g /\ Range(nb) \subseteq FreeBlocks(disk)
      /\ \A j \in 1 .. g : nb[j] \in Range(nb)
  BY <1>0, <1>1, NewBlocksType
<1>4. held \in Nat /\ room \in Nat
  <2>1. (k - 1) \in Nat /\ (k - 1) + 1 = k /\ k # 0
    BY <1>1
  <2>2. ASSUME NEW q \in Nat
        PROVE  RoomBefore(disk, ino, q + 1) \in Nat
    <3>. HIDE DEF ino
    <3>1. disk \in Disk /\ ino \in Inode /\ q <= q
      BY <1>0
    <3>. QED BY <3>1, RoomGrows
  <2>. QED BY <1>0, <1>1, <2>1, <2>2, RoomInType
<1>. HIDE DEF g, held, room
<1>5. /\ bs \in Seq(Blocks) /\ Len(bs) = L + g
      /\ \A j \in 1 .. L : bs[j] = ino.block[j]
      /\ \A j \in 1 .. L + g : j > L => bs[j] = nb[j - L]
  <2>1. /\ bs \in Seq(Blocks) /\ Len(bs) = Len(ino.block) + Len(nb)
        /\ \A j \in 1 .. Len(ino.block) : bs[j] = ino.block[j]
        /\ \A j \in 1 .. Len(ino.block) + Len(nb) :
             j > Len(ino.block) => bs[j] = nb[j - Len(ino.block)]
    <3>1. ino.block \in Seq(Blocks) /\ nb \in Seq(Blocks)
      BY <1>0, <1>3
    <3>. QED BY <3>1, ConcatParts, ZenonT(30)
  <2>2. Len(nb) = g
    BY <1>3
  <2>. HIDE DEF bs
  <2>. QED BY <2>1, <2>2, ZenonT(30) DEF L
<1>6. Range(bs) = Range(ino.block) \cup Range(nb)
  BY <1>0, <1>3, ConcatRange
<1>. HIDE DEF bs, L
<1>7. \A m \in 1 .. Len(bs) : bs[m] \in Range(bs)
  BY <1>5 DEF Range
<1>8. \A m \in 1 .. Len(bs) : bs[m] \in Owned(ino) \cup FreeBlocks(disk)
  BY <1>3, <1>6, <1>7 DEF Owned
<1>9. k \in 1 .. Len(bs) + 1 /\ k \in 1 .. Len(bs)
  BY <1>1, <1>5
<1>10. /\ NoSelf(e) /\ e.inode_bitmap = disk.inode_bitmap
       /\ \A j \in Inodes : j # i =>
                  /\ e.inode_table[j] = disk.inode_table[j]
                  /\ \A b \in Owned(disk.inode_table[j]) : e.text[b] = disk.text[b]
       /\ e.inode_table[i].type = disk.inode_table[i].type
       /\ e.inode_table[i].block = disk.inode_table[i].block \o nb
       /\ e.inode_table[i].size = (disk.inode_table[i].size + (n + 1)) % UINT32
  <2>1. Sound(disk) /\ NoSelf(disk) /\ bs \in Seq(Blocks) /\ g \in Nat /\ k \in 1 .. Len(bs) + 1
    BY <1>0, <1>1, <1>5, <1>9 DEF Homed
  <2>2. \A m \in 1 .. Len(bs) : bs[m] \in Owned(disk.inode_table[i]) \cup FreeBlocks(disk)
    BY <1>8
  <2>3. e = FillBlocks(AddBlocks(disk, i, nb, n + 1), bs, k, rest)
    OBVIOUS
  <2>4. nb \in NewBlocks(disk, g)
    BY <1>2
  <2>. HIDE DEF ino, e
  <2>5. FilledAlone(e, i, nb, n + 1)
    BY <2>1, <2>2, <2>3, <2>4, FilledKeeps, ZenonT(30)
  <2>. QED BY <2>5 DEF FilledAlone
<1>11. disk' = e /\ Saves(disk', AfterWrite(held))
  BY <1>2 DEF Saves, bs
<1>12. Homed'
  BY <1>0, <1>10, <1>11, HomedSaves, BlocksAreNats DEF MemoryOK
<1>13. \A j \in Inodes : j # i => Untouched(j)
  BY <1>10, <1>11 DEF Untouched, Owned
<1>14. disk'.inode_table[i].size = (ino.size + n + 1) % UINT32
  <2>1. ino.size + (n + 1) = ino.size + n + 1
    BY <1>0
  <2>. QED BY <1>10, <1>11, <2>1
<1>15. disk'.inode_table[i].block = bs /\ \A j, m \in 1 .. Len(bs) : bs[j] = bs[m] => j = m
  <2>1. disk'.inode_table[i].block = bs
    BY <1>10, <1>11 DEF bs
  <2>2. IsInjective(bs)
    BY <1>0, <2>1 DEF Sound, OwnsBlocks
  <2>. QED BY <1>5, <2>1, <2>2 DEF IsInjective
<1>16. \A b \in Blocks : disk'.text[b] = IF \E j \in 1 .. k - 1 : bs[j] = b THEN CAP
                                         ELSE IF k <= Len(bs) /\ bs[k] = b THEN disk.text[b] + rest
                                         ELSE disk.text[b]
  <2>. DEFINE a == AddBlocks(disk, i, nb, n + 1)
  <2>1. a.text = disk.text
    BY <1>0, <1>3, AddBlocksKeeps
  <2>2. DOMAIN a = DOMAIN disk
    BY DEF AddBlocks, AddSize
  <2>. HIDE DEF a
  <2>3. FillBlocks(a, bs, k, rest).text =
          [b \in Blocks |-> IF \E j \in 1 .. k - 1 : bs[j] = b THEN CAP
                            ELSE IF k <= Len(bs) /\ bs[k] = b THEN a.text[b] + rest
                            ELSE a.text[b]]
    BY <1>0, <2>2 DEF FillBlocks, Disk
  <2>. QED BY <1>11, <2>1, <2>3 DEF a
<1>17. ASSUME NEW m \in 1 .. Len(bs)
       PROVE  disk.text[bs[m]] = Text(i, m) /\ Text(i, m) \in Nat /\ bs[m] \in Blocks
  <2>0. bs[m] \in Blocks /\ disk.text[bs[m]] \in Nat
    <3>1. bs[m] \in Blocks
      BY <1>5
    <3>. QED BY <1>0, <3>1, CapType DEF Disk
  <2>1. CASE m <= L
    <3>1. bs[m] = ino.block[m]
      BY <1>5, <2>1
    <3>. QED BY <2>0, <2>1, <3>1 DEF Text, L
  <2>2. CASE ~ (m <= L)
    <3>1. m - L \in 1 .. g /\ m \in 1 .. L + g /\ m > L
      BY <1>1, <1>5, <2>2
    <3>2. bs[m] \in FreeBlocks(disk)
      BY <1>3, <1>5, <3>1
    <3>. QED BY <1>0, <2>0, <2>2, <3>2 DEF Text, L, Sound, IsClean
  <2>. QED BY <2>1, <2>2
<1>18. ASSUME NEW m \in 1 .. Len(bs)
       PROVE  disk'.text[bs[m]] = Text(i, m) + Took(i, k, rest, m)
  <2>1. /\ (\E j \in 1 .. k - 1 : bs[j] = bs[m]) <=> m < k
        /\ (k <= Len(bs) /\ bs[k] = bs[m]) <=> m = k
    <3>1. \A j \in 1 .. k - 1 : j \in 1 .. Len(bs) /\ j < k
      BY <1>1, <1>9
    <3>2. m < k => m \in 1 .. k - 1
      BY <1>1
    <3>. QED BY <1>9, <1>15, <3>1, <3>2
  <2>2. m < k => Text(i, m) + RoomIn(disk, ino, m) = CAP
    <3>1. m \in Nat /\ m # 0
      OBVIOUS
    <3>. QED BY <1>0, <3>1, FullTakes
  <2>3. disk'.text[bs[m]] = IF m < k THEN CAP
                            ELSE IF m = k THEN disk.text[bs[m]] + rest ELSE disk.text[bs[m]]
    BY <1>16, <1>17, <2>1
  <2>. QED BY <1>17, <2>2, <2>3 DEF Took
<1>19. Len(bs) >= L /\ k <= Len(bs) + 1 /\ ~ (k > Len(bs)) /\ (Len(bs) > L => Len(bs) <= k)
  BY <1>1, <1>5
<1>20. Takes(i, k, rest)
  BY <1>15, <1>18, <1>19 DEF Takes, L
<1>21. rest \in Nat /\ held + rest = n
  BY <1>2, <1>4
<1>. QED BY <1>10, <1>11, <1>12, <1>13, <1>14, <1>20, <1>21 DEF held

(* A write beyond the direct blocks fills each of them.                     *)
FullDirect(e, i, nb) ==
  LET bs == disk.inode_table[i].block \o nb
  IN  /\ Len(bs) >= DIRECT
      /\ Len(bs) = DIRECT \/ Len(bs) = Len(disk.inode_table[i].block)
      /\ \A m \in 1 .. Len(bs) : e.text[bs[m]] = Text(i, m) + Took(i, DIRECT + 1, 0, m)

Gap(i) == LET held == Len(disk.inode_table[i].block)
          IN  IF DIRECT > held THEN DIRECT - held ELSE 0

LEMMA OverflowFills ==
  ASSUME Sound(disk), NoSelf(disk), NEW i \in Inodes, NEW n \in Nat, NEW g, g = Gap(i),
         CanNewBlocks(disk, g), NEW nb \in NewBlocks(disk, g), NEW e,
         e = FillBlocks(AddBlocks(disk, i, nb, n + 1),
                        Direct(disk.inode_table[i]) \o nb, DIRECT + 1, 0)
  PROVE  Sound(e) /\ FilledAlone(e, i, nb, n + 1) /\ FullDirect(e, i, nb) /\ nb \in Seq(Blocks)
<1>. DEFINE ino == disk.inode_table[i]
            L == Len(ino.block)
            dir == Direct(ino)
            a == AddBlocks(disk, i, nb, n + 1)
<1>0. disk \in Disk /\ ino \in Inode /\ ino.block \in Seq(Blocks)
  BY InodeType DEF Sound
<1>1. /\ L \in Nat /\ DIRECT \in Nat /\ g \in Nat
      /\ L <= DIRECT => L + g = DIRECT
      /\ L > DIRECT => g = 0
  <2>1. L \in Nat
    BY <1>0
  <2>2. g = IF DIRECT > L THEN DIRECT - L ELSE 0
    BY DEF Gap
  <2>3. DIRECT \in Nat
    BY ConstAssumption
  <2>. HIDE DEF L
  <2>4. CASE DIRECT > L
    BY <2>1, <2>2, <2>3, <2>4
  <2>5. CASE ~ (DIRECT > L)
    BY <2>1, <2>2, <2>3, <2>5
  <2>. QED BY <2>4, <2>5
<1>2. /\ dir \in Seq(Blocks) /\ Len(dir) <= L /\ Len(dir) <= DIRECT
      /\ \A j \in 1 .. Len(dir) : dir[j] = ino.block[j]
      /\ L <= DIRECT => Len(dir) = L
      /\ L > DIRECT => Len(dir) = DIRECT
  <2>. HIDE DEF ino
  <2>. QED BY <1>0, DirectType
<1>3. /\ nb \in Seq(Blocks) /\ Len(nb) = g /\ Range(nb) \subseteq FreeBlocks(disk)
      /\ \A j \in 1 .. g : nb[j] \in Range(nb)
  BY <1>0, <1>1, NewBlocksType
<1>4. Sound(e)
  BY OverflowSound DEF Gap
<1>. DEFINE bs == dir \o nb
            all == ino.block \o nb
<1>5. e = FillBlocks(a, bs, DIRECT + 1, 0)
  OBVIOUS
<1>6. a.text = disk.text /\ DOMAIN a = DOMAIN disk
  <2>1. a.text = disk.text
    BY <1>0, <1>3, AddBlocksKeeps
  <2>. QED BY <2>1 DEF AddBlocks, AddSize
<1>7. e.text = [b \in Blocks |->
                  IF \E j \in 1 .. (DIRECT + 1) - 1 : bs[j] = b THEN CAP
                  ELSE IF DIRECT + 1 <= Len(bs) /\ bs[DIRECT + 1] = b THEN disk.text[b] + 0
                  ELSE disk.text[b]]
  <2>. HIDE DEF a, bs
  <2>. DEFINE k == DIRECT + 1
  <2>1. FillBlocks(a, bs, k, 0).text =
          [b \in Blocks |-> IF \E j \in 1 .. k - 1 : bs[j] = b THEN CAP
                            ELSE IF k <= Len(bs) /\ bs[k] = b THEN a.text[b] + 0
                            ELSE a.text[b]]
    <3>. HIDE DEF k
    <3>. QED BY <1>0, <1>6 DEF FillBlocks, Disk
  <2>. QED BY <1>5, <1>6, <2>1
<1>8. /\ bs \in Seq(Blocks) /\ Len(bs) = Len(dir) + g /\ Len(dir) \in Nat
      /\ \A j \in 1 .. Len(dir) : bs[j] = dir[j]
      /\ \A j \in 1 .. Len(dir) + g : j > Len(dir) => bs[j] = nb[j - Len(dir)]
  <2>1. /\ bs \in Seq(Blocks) /\ Len(dir) \in Nat /\ Len(bs) = Len(dir) + Len(nb)
        /\ \A j \in 1 .. Len(dir) : bs[j] = dir[j]
        /\ \A j \in 1 .. Len(dir) + Len(nb) : j > Len(dir) => bs[j] = nb[j - Len(dir)]
    <3>1. dir \in Seq(Blocks) /\ nb \in Seq(Blocks)
      BY <1>2, <1>3
    <3>. QED BY <3>1, ConcatParts, ZenonT(30)
  <2>2. Len(nb) = g
    BY <1>3
  <2>. HIDE DEF bs
  <2>. QED BY <2>1, <2>2, ZenonT(30)
<1>9. /\ all \in Seq(Blocks) /\ Len(all) = L + g
      /\ \A j \in 1 .. L : all[j] = ino.block[j]
      /\ \A j \in 1 .. L + g : j > L => all[j] = nb[j - L]
  <2>1. /\ all \in Seq(Blocks) /\ Len(all) = Len(ino.block) + Len(nb)
        /\ \A j \in 1 .. Len(ino.block) : all[j] = ino.block[j]
        /\ \A j \in 1 .. Len(ino.block) + Len(nb) :
             j > Len(ino.block) => all[j] = nb[j - Len(ino.block)]
    <3>1. ino.block \in Seq(Blocks) /\ nb \in Seq(Blocks)
      BY <1>0, <1>3
    <3>. QED BY <3>1, ConcatParts, ZenonT(30)
  <2>2. Len(nb) = g
    BY <1>3
  <2>. HIDE DEF all
  <2>. QED BY <2>1, <2>2, ZenonT(30) DEF L
<1>10. /\ \A j \in 1 .. L : ino.block[j] \in Range(ino.block) /\ ino.block[j] \in Blocks
       /\ Range(nb) \subseteq Blocks
  BY <1>0, <1>3 DEF Range, FreeBlocks
<1>14. /\ Len(bs) = DIRECT /\ Len(all) >= DIRECT /\ L <= Len(all)
       /\ Len(all) = DIRECT \/ Len(all) = L
  <2>. HIDE DEF L, dir, bs, all
  <2>1. L <= DIRECT => Len(dir) = L /\ L + g = DIRECT
    BY <1>1, <1>2
  <2>2. L > DIRECT => Len(dir) = DIRECT /\ g = 0
    BY <1>1, <1>2
  <2>3. L \in Nat /\ DIRECT \in Nat /\ Len(bs) = Len(dir) + g
    BY <1>1, <1>8
  <2>4. Len(all) = L + g
    BY <1>9
  <2>5. CASE L <= DIRECT
    <3>1. Len(bs) = DIRECT /\ Len(all) = DIRECT
      BY <2>1, <2>3, <2>4, <2>5, Zenon
    <3>. QED BY <2>3, <2>5, <3>1
  <2>6. CASE L > DIRECT
    <3>1. Len(bs) = DIRECT + 0 /\ Len(all) = L + 0
      BY <2>2, <2>3, <2>4, <2>6, Zenon
    <3>. QED BY <2>3, <2>6, <3>1
  <2>. QED BY <2>3, <2>5, <2>6
<1>11. FilledAlone(e, i, nb, n + 1)
  <2>1. \A m \in 1 .. Len(bs) : bs[m] \in Owned(disk.inode_table[i]) \cup FreeBlocks(disk)
    <3>1. ASSUME NEW m \in 1 .. Len(bs), m <= Len(dir)
          PROVE  bs[m] \in Owned(ino)
      <4>1. bs[m] = ino.block[m] /\ m \in 1 .. L
        <5>1. Len(dir) \in Nat /\ L \in Nat /\ Len(dir) <= L /\ m \in Nat /\ m > 0
          BY <1>1, <1>2, <1>8
        <5>. HIDE DEF L, dir, bs
        <5>2. m \in 1 .. Len(dir) /\ m \in 1 .. L
          BY <3>1, <5>1
        <5>. QED BY <1>2, <1>8, <5>2
      <4>. QED BY <1>10, <4>1 DEF Owned
    <3>2. ASSUME NEW m \in 1 .. Len(bs), ~ (m <= Len(dir))
          PROVE  bs[m] \in FreeBlocks(disk)
      <4>1. bs[m] = nb[m - Len(dir)] /\ m - Len(dir) \in 1 .. g
        BY <1>1, <1>8, <3>2
      <4>. QED BY <1>3, <4>1
    <3>. QED BY <3>1, <3>2
  <2>2. DIRECT + 1 \in 1 .. Len(bs) + 1
    <3>1. DIRECT \in Nat
      BY <1>1
    <3>. HIDE DEF bs
    <3>. QED BY <1>14, <3>1
  <2>3. bs \in Seq(Blocks) /\ g \in Nat
    BY <1>1, <1>8
  <2>. HIDE DEF bs
  <2>. QED BY <1>5, <2>1, <2>2, <2>3, FilledKeeps, ZenonT(30)
<1>12. e.inode_table[i].block = all
  BY <1>11 DEF FilledAlone
<1>. HIDE DEF all, bs, a, L, dir, ino
<1>13. \A j, m \in 1 .. Len(all) : all[j] = all[m] => j = m
  <2>1. IsInjective(all)
    BY <1>4, <1>12 DEF Sound, OwnsBlocks
  <2>. QED BY <1>9, <2>1 DEF IsInjective
<1>15. ASSUME NEW m \in 1 .. DIRECT
       PROVE  bs[m] = all[m]
  <2>1. CASE m <= Len(dir)
    <3>1. m \in 1 .. Len(dir) /\ m \in 1 .. L
      BY <1>1, <1>2, <1>8, <2>1
    <3>. QED BY <1>2, <1>8, <1>9, <3>1
  <2>2. CASE ~ (m <= Len(dir))
    <3>1. Len(dir) = L /\ m > L /\ m \in 1 .. L + g
      BY <1>1, <1>2, <1>8, <2>2
    <3>. QED BY <1>8, <1>9, <3>1
  <2>. QED BY <2>1, <2>2
<1>16. ASSUME NEW m \in 1 .. Len(all)
       PROVE  disk.text[all[m]] = Text(i, m) /\ Text(i, m) \in Nat /\ all[m] \in Blocks
  <2>0. all[m] \in Blocks /\ disk.text[all[m]] \in Nat
    <3>1. all[m] \in Blocks
      BY <1>9
    <3>. QED BY <1>0, <3>1, CapType DEF Disk
  <2>1. CASE m <= L
    <3>1. m \in 1 .. L
      BY <1>1, <2>1
    <3>2. all[m] = ino.block[m]
      BY <1>9, <3>1
    <3>. QED BY <2>0, <2>1, <3>2 DEF Text, L, ino
  <2>2. CASE ~ (m <= L)
    <3>1. m - L \in 1 .. g /\ m \in 1 .. L + g /\ m > L
      <4>1. L \in Nat /\ g \in Nat /\ Len(all) = L + g
        BY <1>1, <1>9
      <4>. QED BY <2>2, <4>1
    <3>2. all[m] \in FreeBlocks(disk)
      BY <1>3, <1>9, <3>1
    <3>. QED BY <2>0, <2>2, <3>2 DEF Text, L, ino, Sound, IsClean
  <2>. QED BY <2>1, <2>2
<1>17. ASSUME NEW m \in 1 .. Len(all)
       PROVE  e.text[all[m]] = Text(i, m) + Took(i, DIRECT + 1, 0, m)
  <2>0. DIRECT \in Nat /\ (DIRECT + 1) - 1 = DIRECT /\ ~ (DIRECT + 1 <= Len(bs)) /\ m \in Nat /\ m # 0
    BY <1>1, <1>14
  <2>1. e.text[all[m]] = IF \E j \in 1 .. DIRECT : bs[j] = all[m] THEN CAP ELSE disk.text[all[m]]
    BY <1>7, <1>16, <2>0
  <2>2. CASE m <= DIRECT
    <3>1. m \in 1 .. DIRECT /\ bs[m] = all[m]
      BY <1>15, <2>0, <2>2
    <3>2. e.text[all[m]] = CAP
      BY <2>1, <3>1
    <3>3. Text(i, m) + RoomIn(disk, ino, m) = CAP
      BY <2>0, FullTakes DEF ino
    <3>4. m < DIRECT + 1
      BY <2>0, <2>2
    <3>. QED BY <3>2, <3>3, <3>4 DEF Took, ino
  <2>3. CASE ~ (m <= DIRECT)
    <3>1. ASSUME NEW j \in 1 .. DIRECT
          PROVE  bs[j] # all[m]
      <4>1. j \in 1 .. Len(all) /\ j # m
        BY <1>9, <1>14, <2>0, <2>3
      <4>. QED BY <1>13, <1>15, <4>1
    <3>2. e.text[all[m]] = disk.text[all[m]]
      BY <2>1, <3>1
    <3>3. ~ (m < DIRECT + 1)
      BY <2>0, <2>3
    <3>. QED BY <1>16, <3>2, <3>3 DEF Took
  <2>. QED BY <2>2, <2>3
<1>18. FullDirect(e, i, nb)
  BY <1>14, <1>17 DEF FullDirect, all, ino, L
<1>. QED BY <1>3, <1>4, <1>11, <1>18

LEMMA WriteOverflowsKeeps ==
  ASSUME IInv, Homed, NEW i \in Inodes, NEW n \in Nat,
         WriteOverflows(i, n), status' # "undefined"
  PROVE  /\ Homed' /\ disk'.inode_bitmap = disk.inode_bitmap
         /\ \A j \in Inodes : j # i => Untouched(j)
         /\ disk'.inode_table[i].type = disk.inode_table[i].type
         /\ disk'.inode_table[i].size = (disk.inode_table[i].size + n + 1) % UINT32
         /\ RoomBefore(disk, disk.inode_table[i], DIRECT + 1) < n
         /\ Takes(i, DIRECT + 1, 0)
<1>. DEFINE ino == disk.inode_table[i]
            L == Len(ino.block)
            g == IF DIRECT > L THEN DIRECT - L ELSE 0
            held == RoomBefore(disk, ino, DIRECT + 1)
<1>0. /\ Sound(disk) /\ NoSelf(disk) /\ disk \in Disk /\ ino \in Inode
      /\ ino.block \in Seq(Blocks) /\ ino.size \in Nat /\ MemoryOK /\ DIRECT \in Nat
  <2>1. Sound(disk) /\ disk \in Disk /\ NoSelf(disk) /\ MemoryOK
    BY IInvIsSound DEF Homed, Sound, IInv
  <2>2. ino \in Inode /\ ino.block \in Seq(Blocks)
    BY <2>1, InodeType
  <2>. HIDE DEF ino
  <2>3. ino.size \in Nat /\ DIRECT \in Nat
    BY <2>2, ConstAssumption DEF Inode
  <2>. QED BY <2>1, <2>2, <2>3
<1>1. L \in Nat
  BY <1>0
<1>2. PICK nb \in NewBlocks(disk, g) :
        /\ CanNewBlocks(disk, g)
        /\ ReachIndex(FillBlocks(AddBlocks(disk, i, nb, n + 1),
                                 Direct(ino) \o nb, DIRECT + 1, 0), i, AfterWrite(held))
  BY DEF WriteOverflows, Undefined
<1>3. held < n
  <2>1. n > held
    BY DEF WriteOverflows
  <2>2. held \in Nat
    <3>. HIDE DEF ino
    <3>1. DIRECT <= DIRECT
      BY <1>0
    <3>. QED BY <1>0, <3>1, RoomGrows
  <2>. QED BY <2>1, <2>2
<1>. DEFINE e == FillBlocks(AddBlocks(disk, i, nb, n + 1), Direct(ino) \o nb, DIRECT + 1, 0)
<1>4. Sound(e) /\ FilledAlone(e, i, nb, n + 1) /\ FullDirect(e, i, nb) /\ nb \in Seq(Blocks)
  <2>1. g = Gap(i)
    BY DEF Gap
  <2>2. e = FillBlocks(AddBlocks(disk, i, nb, n + 1), Direct(disk.inode_table[i]) \o nb, DIRECT + 1, 0)
    OBVIOUS
  <2>3. CanNewBlocks(disk, g) /\ nb \in NewBlocks(disk, g)
    BY <1>2
  <2>. HIDE DEF e, ino, L, g
  <2>. QED BY <1>0, <2>1, <2>2, <2>3, OverflowFills, ZenonT(30)
<1>5. ReachIndex(e, i, AfterWrite(held))
  BY <1>2
<1>. HIDE DEF e, held, g
<1>6. /\ Saves(disk', AfterWrite(held)) /\ NoSelf(disk')
      /\ disk'.inode_bitmap = e.inode_bitmap /\ disk'.text = e.text
      /\ \A j \in Inodes : j # i => disk'.inode_table[j] = e.inode_table[j]
      /\ disk'.inode_table[i].type = e.inode_table[i].type
      /\ disk'.inode_table[i].size = e.inode_table[i].size
      /\ \/ disk'.inode_table[i].block = e.inode_table[i].block
         \/ /\ Len(e.inode_table[i].block) = DIRECT
            /\ \E b \in FreeBlocks(e) : disk'.inode_table[i].block = Append(e.inode_table[i].block, b)
  <2>1. NoSelf(e)
    BY <1>4 DEF FilledAlone
  <2>. QED BY <1>4, <1>5, <2>1, ReachIndexKeeps, ZenonT(30)
<1>7. /\ \A j \in Inodes : j # i =>
           /\ disk'.inode_table[j] = disk.inode_table[j]
           /\ \A b \in Owned(disk.inode_table[j]) : disk'.text[b] = disk.text[b]
      /\ disk'.inode_bitmap = disk.inode_bitmap
      /\ disk'.inode_table[i].type = ino.type
      /\ e.inode_table[i].block = ino.block \o nb
      /\ disk'.inode_table[i].size = (ino.size + (n + 1)) % UINT32
  BY <1>4, <1>6 DEF FilledAlone
<1>8. Homed'
  BY <1>0, <1>6, <1>7, HomedSaves, BlocksAreNats DEF MemoryOK
<1>9. \A j \in Inodes : j # i => Untouched(j)
  BY <1>7 DEF Untouched, Owned
<1>10. disk'.inode_table[i].size = (ino.size + n + 1) % UINT32
  <2>1. ino.size + (n + 1) = ino.size + n + 1
    BY <1>0
  <2>. QED BY <1>7, <2>1
<1>. DEFINE all == ino.block \o nb
            bs == disk'.inode_table[i].block
<1>11. /\ all \in Seq(Blocks) /\ Len(all) \in Nat /\ Len(all) >= L
  <2>1. all \in Seq(Blocks) /\ Len(all) = L + Len(nb) /\ Len(nb) \in Nat
    <3>1. ino.block \in Seq(Blocks) /\ nb \in Seq(Blocks)
      BY <1>0, <1>4
    <3>2. Len(nb) \in Nat
      BY <3>1
    <3>. QED BY <3>1, <3>2, ConcatParts, ZenonT(30)
  <2>. HIDE DEF all, L
  <2>. QED BY <1>1, <2>1
<1>12. /\ Len(all) >= DIRECT
       /\ Len(all) = DIRECT \/ Len(all) = L
       /\ \A m \in 1 .. Len(all) : disk'.text[all[m]] = Text(i, m) + Took(i, DIRECT + 1, 0, m)
  BY <1>4, <1>6 DEF FullDirect, L, ino
<1>. HIDE DEF all
<1>13. \/ bs = all
       \/ Len(all) = DIRECT /\ \E b \in FreeBlocks(e) : bs = Append(all, b)
  BY <1>6, <1>7 DEF all
<1>. HIDE DEF bs, L
<1>14. ASSUME NEW b \in FreeBlocks(e), bs = Append(all, b)
       PROVE  /\ Len(bs) = Len(all) + 1
              /\ \A m \in 1 .. Len(all) : bs[m] = all[m]
              /\ disk'.text[bs[Len(all) + 1]] = Text(i, Len(all) + 1) + Took(i, DIRECT + 1, 0, Len(all) + 1)
  <2>1. b \in Blocks /\ disk'.text[b] = 0
    BY <1>4, <1>6, <1>14 DEF Sound, IsClean, FreeBlocks
  <2>2. /\ Len(bs) = Len(all) + 1 /\ bs[Len(all) + 1] = b
        /\ \A m \in 1 .. Len(all) : bs[m] = all[m]
    BY <1>11, <1>14, <2>1
  <2>3. Text(i, Len(all) + 1) = 0
    <3>1. ~ (Len(all) + 1 <= L)
      BY <1>1, <1>11
    <3>. QED BY <3>1 DEF Text, L, ino
  <2>4. Took(i, DIRECT + 1, 0, Len(all) + 1) = 0
    <3>1. ~ (Len(all) + 1 < DIRECT + 1)
      BY <1>0, <1>11, <1>12
    <3>. QED BY <3>1 DEF Took
  <2>. QED BY <2>1, <2>2, <2>3, <2>4
<1>15. /\ Len(bs) >= L /\ DIRECT + 1 <= Len(bs) + 1
       /\ Len(bs) > L => Len(bs) <= DIRECT + 1
       /\ \A m \in 1 .. Len(bs) : disk'.text[bs[m]] = Text(i, m) + Took(i, DIRECT + 1, 0, m)
  <2>1. CASE bs = all
    <3>1. /\ Len(all) >= L /\ DIRECT + 1 <= Len(all) + 1
          /\ Len(all) > L => Len(all) <= DIRECT + 1
      BY <1>0, <1>1, <1>11, <1>12
    <3>. QED BY <1>12, <2>1, <3>1
  <2>2. CASE Len(all) = DIRECT /\ \E b \in FreeBlocks(e) : bs = Append(all, b)
    <3>1. PICK b \in FreeBlocks(e) : bs = Append(all, b)
      BY <2>2
    <3>2. /\ Len(bs) = Len(all) + 1
          /\ \A m \in 1 .. Len(all) : bs[m] = all[m]
          /\ disk'.text[bs[Len(all) + 1]] = Text(i, Len(all) + 1) + Took(i, DIRECT + 1, 0, Len(all) + 1)
      BY <1>14, <3>1
    <3>3. Len(bs) >= L /\ DIRECT + 1 <= Len(bs) + 1 /\ Len(bs) <= DIRECT + 1
      BY <1>0, <1>1, <1>11, <1>12, <2>2, <3>2
    <3>4. ASSUME NEW m \in 1 .. Len(bs)
          PROVE  disk'.text[bs[m]] = Text(i, m) + Took(i, DIRECT + 1, 0, m)
      <4>1. m = Len(all) + 1 \/ m \in 1 .. Len(all)
        BY <1>11, <3>2
      <4>2. CASE m = Len(all) + 1
        BY <3>2, <4>2
      <4>3. CASE m \in 1 .. Len(all)
        BY <1>12, <3>2, <4>3
      <4>. QED BY <4>1, <4>2, <4>3
    <3>. QED BY <3>3, <3>4
  <2>. QED BY <1>13, <2>1, <2>2
<1>16. Takes(i, DIRECT + 1, 0)
  BY <1>15 DEF Takes, bs, L, ino
<1>. QED BY <1>3, <1>7, <1>8, <1>9, <1>10, <1>16 DEF held

(* Stored is the last prefix sum of what the blocks of the file hold.       *)
Texts(d, i) == [k \in 1 .. Len(d.inode_table[i].block) |-> d.text[d.inode_table[i].block[k]]]

LEMMA StoredAdds ==
  ASSUME NEW d \in Disk, NEW i \in Inodes, NEW n, n = Len(d.inode_table[i].block)
  PROVE  /\ n \in Nat /\ Texts(d, i) \in [1 .. n -> Nat]
         /\ \E f \in [0 .. n -> Nat] : Adds(f, n, Texts(d, i)) /\ Stored(d, i) = f[n]
<1>. DEFINE bs == d.inode_table[i].block
            N == Len(bs)
            upto[k \in 0 .. N] == IF k = 0 THEN 0 ELSE upto[k - 1] + d.text[bs[k]]
<1>0. bs \in Seq(Blocks)
  BY InodeType
<1>1. N \in Nat /\ \A k \in 1 .. N : d.text[bs[k]] \in Nat
  <2>. HIDE DEF bs
  <2>1. \A k \in 1 .. N : bs[k] \in Blocks
    BY <1>0
  <2>. QED BY <1>0, <2>1, CapType DEF Disk
<1>2. Texts(d, i) \in [1 .. N -> Nat] /\ \A k \in 1 .. N : Texts(d, i)[k] = d.text[bs[k]]
  BY <1>1 DEF Texts
<1>3. PICK f \in [0 .. N -> Nat] : Adds(f, N, Texts(d, i))
  <2>. HIDE DEF N, bs
  <2>. QED BY <1>1, <1>2, Sums
<1>4. f[0] = 0 /\ \A k \in 1 .. N : f[k] = f[k - 1] + d.text[bs[k]]
  BY <1>2, <1>3 DEF Adds
<1>5. Stored(d, i) = upto[N]
  BY DEF Stored
<1>. HIDE DEF N, bs
<1>6. f = [k \in 0 .. N |-> IF k = 0 THEN 0 ELSE f[k - 1] + d.text[bs[k]]]
  BY <1>1, <1>4
<1>7. upto = [k \in 0 .. N |-> IF k = 0 THEN 0 ELSE upto[k - 1] + d.text[bs[k]]]
  BY <1>6, Zenon DEF upto
<1>. HIDE DEF upto
<1>8. Adds(upto, N, Texts(d, i))
  <2>1. upto[0] = 0
    BY <1>1, <1>7
  <2>2. ASSUME NEW k \in 1 .. N
        PROVE  upto[k] = upto[k - 1] + Texts(d, i)[k]
    <3>1. k \in 0 .. N /\ k # 0
      BY <1>1
    <3>. QED BY <1>2, <1>7, <3>1
  <2>. QED BY <2>1, <2>2 DEF Adds
<1>9. upto[N] = f[N]
  BY <1>1, <1>3, <1>8, AddsOnce
<1>. QED BY <1>1, <1>2, <1>3, <1>5, <1>9 DEF N, bs

(* The room before the first block.                                         *)
LEMMA NoRoomBefore ==
  ASSUME NEW d \in Disk, NEW n \in Inode
  PROVE  RoomBefore(d, n, 1) = 0
<1>1. PICK f \in [0 .. 0 -> Nat] : Adds(f, 0, Rooms(d, n, 0)) /\ RoomBefore(d, n, 0 + 1) = f[0]
  BY RoomBeforeAdds
<1>2. 0 + 1 = 1
  OBVIOUS
<1>. QED BY <1>1, <1>2 DEF Adds

(* A write makes a file longer by what there was room for before block k,   *)
(* and the rest in that block.                                              *)
LEMMA StoredGrows ==
  ASSUME Sound(disk), Sound(disk'), NEW i \in Inodes, NEW k \in Nat \ {0}, NEW rest \in Nat,
         Takes(i, k, rest)
  PROVE  /\ Stored(disk, i) \in Nat /\ RoomBefore(disk, disk.inode_table[i], k) \in Nat
         /\ Stored(disk', i) = Stored(disk, i) + (RoomBefore(disk, disk.inode_table[i], k) + rest)
<1>. DEFINE ino == disk.inode_table[i]
            L == Len(ino.block)
            M == Len(disk'.inode_table[i].block)
            z == Texts(disk, i)
            y == Texts(disk', i)
            R(m) == RoomBefore(disk, ino, m)
<1>0. disk \in Disk /\ disk' \in Disk /\ ino \in Inode
  BY InodeType DEF Sound
<1>1. PICK f \in [0 .. L -> Nat] : Adds(f, L, z) /\ Stored(disk, i) = f[L]
  BY <1>0, StoredAdds
<1>2. /\ L \in Nat /\ z \in [1 .. L -> Nat]
      /\ \A m \in 1 .. L : z[m] = Text(i, m)
  <2>1. L \in Nat /\ z \in [1 .. L -> Nat]
    BY <1>0, StoredAdds
  <2>. QED BY <2>1 DEF Text, Texts
<1>3. PICK p \in [0 .. M -> Nat] : Adds(p, M, y) /\ Stored(disk', i) = p[M]
  BY <1>0, StoredAdds
<1>4. /\ M \in Nat /\ M >= L /\ k <= M + 1 /\ (k > M => rest = 0)
      /\ \A m \in 1 .. M : y[m] = Text(i, m) + Took(i, k, rest, m)
  <2>1. M \in Nat
    BY <1>0, StoredAdds
  <2>. QED BY <2>1 DEF Takes, Texts
<1>5. \A m \in Nat : /\ R(m + 1) \in Nat
                     /\ m # 0 => R(m + 1) = R(m) + RoomIn(disk, ino, m)
  <2>. HIDE DEF ino
  <2>1. ASSUME NEW m \in Nat
        PROVE  /\ R(m + 1) \in Nat
               /\ m # 0 => R(m + 1) = R(m) + RoomIn(disk, ino, m)
    <3>1. m <= m
      OBVIOUS
    <3>. QED BY <1>0, <3>1, RoomGrows
  <2>. QED BY <2>1
<1>6. R(1) = 0
  BY <1>0, NoRoomBefore
<1>7. R(k) \in Nat
  <2>1. k - 1 \in Nat /\ (k - 1) + 1 = k
    OBVIOUS
  <2>2. R((k - 1) + 1) \in Nat
    BY <1>5, <2>1
  <2>. HIDE DEF R
  <2>. QED BY <2>1, <2>2
<1>8. \A m \in Nat : m # 0 /\ m < k => Took(i, k, rest, m) = RoomIn(disk, ino, m)
  BY DEF Took
<1>9. /\ Took(i, k, rest, k) = rest
      /\ \A m \in Nat : m > k => Took(i, k, rest, m) = 0
  BY DEF Took
<1>10. \A m \in Nat : m > L => Text(i, m) = 0
  BY <1>2 DEF Text
<1>. HIDE DEF ino, L, M, z, y, R
<1>. DEFINE fw(m) == IF m <= L THEN f[m] ELSE f[L]
            h(m)  == IF m < k THEN R(m + 1) ELSE R(k) + rest
            g == [m \in 0 .. M |-> fw(m) + h(m)]
<1>11. ASSUME NEW m \in 1 .. M
       PROVE  fw(m) \in Nat /\ fw(m - 1) \in Nat /\ fw(m) = fw(m - 1) + Text(i, m) /\ Text(i, m) \in Nat
  <2>1. CASE m <= L
    <3>1. m \in 1 .. L /\ m \in 0 .. L /\ m - 1 \in 0 .. L /\ m - 1 <= L
      BY <1>2, <2>1
    <3>2. f[m] = f[m - 1] + z[m] /\ z[m] = Text(i, m) /\ z[m] \in Nat /\ f[m] \in Nat /\ f[m - 1] \in Nat
      BY <1>1, <1>2, <3>1 DEF Adds
    <3>3. fw(m) = f[m] /\ fw(m - 1) = f[m - 1]
      BY <2>1, <3>1
    <3>. QED BY <3>2, <3>3
  <2>2. CASE ~ (m <= L)
    <3>1. m \in Nat /\ m > L /\ L \in 0 .. L /\ (m - 1 <= L => m - 1 = L)
      BY <1>2, <2>2
    <3>2. fw(m) = f[L] /\ fw(m - 1) = f[L] /\ f[L] \in Nat
      BY <2>2, <3>1
    <3>3. Text(i, m) = 0
      BY <1>10, <3>1
    <3>. QED BY <3>2, <3>3
  <2>. QED BY <2>1, <2>2
<1>12. ASSUME NEW m \in 1 .. M
       PROVE  h(m) \in Nat /\ h(m - 1) \in Nat /\ h(m) = h(m - 1) + Took(i, k, rest, m)
  <2>0. /\ m \in Nat /\ m # 0 /\ m - 1 \in Nat /\ (m - 1) + 1 = m
        /\ R(m + 1) \in Nat /\ R((m - 1) + 1) \in Nat
    <3>1. m \in Nat /\ m # 0 /\ m - 1 \in Nat /\ (m - 1) + 1 = m
      BY <1>4
    <3>. QED BY <1>5, <3>1
  <2>1. CASE m < k
    <3>1. m - 1 < k
      BY <2>0, <2>1
    <3>2. h(m) = R(m + 1) /\ h(m - 1) = R((m - 1) + 1)
      BY <2>1, <3>1
    <3>3. R(m + 1) = R(m) + RoomIn(disk, ino, m) /\ R((m - 1) + 1) = R(m)
      BY <1>5, <2>0
    <3>4. Took(i, k, rest, m) = RoomIn(disk, ino, m)
      BY <1>8, <2>0, <2>1
    <3>. HIDE DEF h
    <3>. QED BY <2>0, <3>2, <3>3, <3>4
  <2>2. CASE m = k
    <3>1. ~ (m < k) /\ m - 1 < k
      BY <2>0, <2>2
    <3>2. h(m) = R(k) + rest /\ h(m - 1) = R((m - 1) + 1)
      BY <3>1
    <3>3. R((m - 1) + 1) = R(k)
      BY <2>0, <2>2
    <3>4. Took(i, k, rest, m) = rest
      BY <1>9, <2>2
    <3>. HIDE DEF h
    <3>. QED BY <1>7, <3>2, <3>3, <3>4
  <2>3. CASE m > k
    <3>1. ~ (m < k) /\ ~ (m - 1 < k)
      BY <2>0, <2>3
    <3>2. h(m) = R(k) + rest /\ h(m - 1) = R(k) + rest
      BY <3>1
    <3>3. Took(i, k, rest, m) = 0
      BY <1>9, <2>0, <2>3
    <3>. HIDE DEF h
    <3>. QED BY <1>7, <3>2, <3>3
  <2>. QED BY <2>0, <2>1, <2>2, <2>3
<1>13. fw(0) = 0 /\ h(0) = 0
  <2>1. 0 <= L /\ f[0] = 0
    BY <1>1, <1>2 DEF Adds
  <2>2. 0 < k /\ 0 + 1 = 1
    OBVIOUS
  <2>. QED BY <1>6, <2>1, <2>2
<1>14. fw(M) = f[L] /\ f[L] \in Nat
  <2>1. L \in 0 .. L /\ (M <= L => M = L)
    BY <1>2, <1>4
  <2>. QED BY <2>1
<1>15. h(M) = R(k) + rest
  <2>1. CASE M < k
    <3>1. k = M + 1 /\ rest = 0
      BY <1>4, <2>1
    <3>. QED BY <1>7, <2>1, <3>1
  <2>2. CASE ~ (M < k)
    BY <2>2
  <2>. QED BY <2>1, <2>2
<1>. HIDE DEF fw, h
<1>16. Adds(g, M, y)
  <2>1. g[0] = 0
    BY <1>4, <1>13
  <2>2. ASSUME NEW m \in 1 .. M
        PROVE  g[m] = g[m - 1] + y[m]
    <3>1. m \in 0 .. M /\ m - 1 \in 0 .. M
      BY <1>4
    <3>2. g[m] = fw(m) + h(m) /\ g[m - 1] = fw(m - 1) + h(m - 1)
      BY <3>1
    <3>3. y[m] = Text(i, m) + Took(i, k, rest, m)
      BY <1>4
    <3>4. Took(i, k, rest, m) \in Int
      <4>1. m \in Nat /\ m # 0 /\ k \in Nat
        BY <1>4
      <4>2. RoomIn(disk, ino, m) \in Nat
        BY <1>0, <4>1, RoomInType
      <4>. QED BY <4>2 DEF Took, ino
    <3>. HIDE DEF g
    <3>. QED BY <1>11, <1>12, <3>2, <3>3, <3>4
  <2>. HIDE DEF g
  <2>. QED BY <2>1, <2>2 DEF Adds
<1>17. g[M] = f[L] + (R(k) + rest)
  <2>1. M \in 0 .. M
    BY <1>4
  <2>. QED BY <1>14, <1>15, <2>1
<1>. HIDE DEF g
<1>18. g[M] = p[M]
  BY <1>3, <1>4, <1>16, AddsOnce
<1>. QED BY <1>1, <1>3, <1>7, <1>14, <1>17, <1>18 DEF R, ino

-----------------------------------------------------------------------------
(* Every command: what it does to the files it does not name.               *)

(* Undefined behaviour is not claimed to change anything.                   *)
LEMMA ReachUndefined ==
  ASSUME NEW d, NEW i, NEW st \in {"shell", "dead"}, ReachIndex(d, i, st), status' = "undefined"
  PROVE  UNCHANGED <<disk, memory>>
<1>1. \A e : ~ Saves(e, st)
  BY DEF Saves
<1>. QED BY <1>1 DEF ReachIndex, Undefined

LEMMA MakeUndefined ==
  ASSUME NEW name, NEW type, MakeEntry(name, type), status' = "undefined"
  PROVE  UNCHANGED <<disk, memory>>
<1>. DEFINE d == AddSize(NewObject(new_inode(disk), NextInode(disk), name, type),
                         current_dir, RecLen(name))
            x == NewEntry(name, type, NextInode(disk))
<1>1. \A e : ~ Saves(e, "shell") /\ ~ Saves(e, "dead")
  BY DEF Saves
<1>2. Undefined \/ handle_append_directory(d, current_dir, x)
  BY <1>1 DEF MakeEntry
<1>3. ASSUME handle_append_directory(d, current_dir, x)
      PROVE  Undefined \/ ReachIndex(d, current_dir, "shell")
  <2>. HIDE DEF d, x
  <2>. QED BY <1>1, <1>3 DEF handle_append_directory, StoreEntry
<1>. QED BY <1>2, <1>3, ReachUndefined DEF Undefined

LEMMA WriteUndefined ==
  ASSUME NEW name, NEW n, write(name, n), status' = "undefined"
  PROVE  UNCHANGED <<disk, memory>>
<1>. DEFINE i == Named(name)
<1>1. \A e, moved : ~ Saves(e, AfterWrite(moved))
  BY DEF Saves, AfterWrite
<1>2. Undefined \/ (\E k \in 1 .. DIRECT : WriteFits(i, n, k)) \/ WriteOverflows(i, n)
  BY DEF write
<1>3. ASSUME NEW k \in 1 .. DIRECT, WriteFits(i, n, k)
      PROVE  Undefined
  BY <1>1, <1>3 DEF WriteFits
<1>4. ASSUME WriteOverflows(i, n)
      PROVE  Undefined \/ \E d, moved : ReachIndex(d, i, AfterWrite(moved))
  BY <1>4 DEF WriteOverflows
<1>5. \A moved : AfterWrite(moved) \in {"shell", "dead"}
  BY DEF AfterWrite
<1>6. ASSUME NEW d, NEW moved, ReachIndex(d, i, AfterWrite(moved))
      PROVE  UNCHANGED <<disk, memory>>
  BY <1>5, <1>6, ReachUndefined
<1>. QED BY <1>2, <1>3, <1>4, <1>6 DEF Undefined

(* A write of n characters on the file i.                                   *)
Wrote(i, n) ==
  /\ 2 \in Perm(disk, i)
  /\ disk.inode_table[i].size + n + 1 <= MaxFileSize
  /\ disk'.inode_table[i].type = disk.inode_table[i].type
  /\ \A j \in Inodes : j # i => Untouched(j)
  /\ disk'.inode_table[i].size = (disk.inode_table[i].size + n + 1) % UINT32
  /\ Stored(disk', i) - Stored(disk, i) =
       Min({n, RoomBefore(disk, disk.inode_table[i], DIRECT + 1)})
  /\ \E k \in Nat \ {0}, rest \in Nat :
       Takes(i, k, rest) /\ RoomBefore(disk, disk.inode_table[i], k) + rest <= n

LEMMA LessOf ==
  ASSUME NEW a \in Nat, NEW b \in Nat, a <= b
  PROVE  Min({a, b}) = a /\ Min({b, a}) = a
<1>1. {a, b} = {b, a} /\ {a, b} \subseteq Nat /\ {a, b} # {}
  OBVIOUS
<1>2. Min({a, b}) \in {a, b} /\ \A y \in {a, b} : Min({a, b}) <= y
  BY <1>1, MinOfNats
<1>. QED BY <1>1, <1>2

LEMMA WriteKeeps ==
  ASSUME IInv, IInv', Homed, NEW name \in Names, NEW n \in WriteSizes, write(name, n),
         status' # "undefined"
  PROVE  Homed' /\ disk'.inode_bitmap = disk.inode_bitmap /\ \E i \in Inodes : Wrote(i, n)
<1>. DEFINE i == Named(name)
            ino == disk.inode_table[i]
            R(m) == RoomBefore(disk, ino, m)
<1>0. Named(name) \in Inodes /\ n \in Nat /\ DIRECT \in Nat
  BY FoundInode, ConstAssumption DEF write, Named
<1>1. Sound(disk) /\ Sound(disk') /\ disk \in Disk /\ ino \in Inode
  BY <1>0, IInvIsSound, InodeType DEF Sound, IInv, TypeOK, BlockOwnership, FreeBlocksClean
<1>2. 2 \in Perm(disk, i) /\ ino.size + n + 1 <= MaxFileSize
  BY DEF write, Writable
<1>3. R(DIRECT + 1) \in Nat /\ \A k \in 1 .. DIRECT : /\ R(k + 1) <= R(DIRECT + 1)
                                                     /\ R(k + 1) = R(k) + RoomIn(disk, ino, k)
  <2>. HIDE DEF ino
  <2>1. ASSUME NEW k \in 0 .. DIRECT
        PROVE  /\ R(k + 1) \in Nat /\ R(k + 1) <= R(DIRECT + 1)
               /\ k # 0 => R(k + 1) = R(k) + RoomIn(disk, ino, k)
    <3>1. k \in Nat /\ k <= DIRECT
      BY <1>0
    <3>. QED BY <1>0, <1>1, <3>1, RoomGrows
  <2>2. DIRECT \in 0 .. DIRECT /\ \A k \in 1 .. DIRECT : k \in 0 .. DIRECT /\ k # 0
    BY <1>0
  <2>. QED BY <2>1, <2>2
<1>4. (\E k \in 1 .. DIRECT : WriteFits(i, n, k)) \/ WriteOverflows(i, n)
  BY DEF write, Undefined
<1>5. ASSUME NEW k \in 1 .. DIRECT, WriteFits(i, n, k)
      PROVE  Homed' /\ disk'.inode_bitmap = disk.inode_bitmap /\ Wrote(i, n)
  <2>. HIDE DEF i
  <2>1. i \in Inodes
    BY <1>0 DEF i
  <2>2. /\ Homed' /\ disk'.inode_bitmap = disk.inode_bitmap
        /\ \A j \in Inodes : j # i => Untouched(j)
        /\ disk'.inode_table[i].type = disk.inode_table[i].type
        /\ disk'.inode_table[i].size = (disk.inode_table[i].size + n + 1) % UINT32
        /\ \E rest \in Nat : R(k) + rest = n /\ Takes(i, k, rest)
    BY <1>0, <1>5, <2>1, WriteFitsKeeps
  <2>3. PICK rest \in Nat : R(k) + rest = n /\ Takes(i, k, rest)
    BY <2>2
  <2>4. k \in Nat \ {0}
    BY <1>0
  <2>5. /\ Stored(disk, i) \in Nat
        /\ Stored(disk', i) = Stored(disk, i) + (R(k) + rest)
    BY <1>1, <2>1, <2>3, <2>4, StoredGrows
  <2>6. n <= R(DIRECT + 1)
    <3>1. n <= R(k) + RoomIn(disk, ino, k)
      BY <1>5 DEF WriteFits
    <3>2. R(k) + RoomIn(disk, ino, k) = R(k + 1) /\ R(k + 1) <= R(DIRECT + 1) /\ R(k + 1) \in Nat
      <4>1. k \in Nat /\ k <= k
        BY <1>0
      <4>. HIDE DEF ino
      <4>. QED BY <1>1, <1>3, <4>1, RoomGrows
    <3>. HIDE DEF R
    <3>. QED BY <1>0, <1>3, <3>1, <3>2
  <2>7. Min({n, R(DIRECT + 1)}) = n
    <3>. HIDE DEF R
    <3>. QED BY <1>0, <1>3, <2>6, LessOf
  <2>8. Stored(disk', i) - Stored(disk, i) = n
    <3>. HIDE DEF R
    <3>. QED BY <1>0, <2>3, <2>5
  <2>9. R(k) + rest <= n
    <3>. HIDE DEF R
    <3>. QED BY <1>0, <2>3
  <2>. QED BY <1>2, <2>2, <2>3, <2>4, <2>7, <2>8, <2>9 DEF Wrote
<1>6. ASSUME WriteOverflows(i, n)
      PROVE  Homed' /\ disk'.inode_bitmap = disk.inode_bitmap /\ Wrote(i, n)
  <2>. HIDE DEF i
  <2>1. i \in Inodes
    BY <1>0 DEF i
  <2>2. /\ Homed' /\ disk'.inode_bitmap = disk.inode_bitmap
        /\ \A j \in Inodes : j # i => Untouched(j)
        /\ disk'.inode_table[i].type = disk.inode_table[i].type
        /\ disk'.inode_table[i].size = (disk.inode_table[i].size + n + 1) % UINT32
        /\ R(DIRECT + 1) < n /\ Takes(i, DIRECT + 1, 0)
    BY <1>0, <1>6, <2>1, WriteOverflowsKeeps
  <2>4. DIRECT + 1 \in Nat \ {0} /\ 0 \in Nat
    BY <1>0
  <2>5. /\ Stored(disk, i) \in Nat
        /\ Stored(disk', i) = Stored(disk, i) + (R(DIRECT + 1) + 0)
    BY <1>1, <2>1, <2>2, <2>4, StoredGrows
  <2>7. Min({n, R(DIRECT + 1)}) = R(DIRECT + 1)
    <3>. HIDE DEF R
    <3>1. R(DIRECT + 1) <= n
      BY <1>0, <1>3, <2>2
    <3>. QED BY <1>0, <1>3, <3>1, LessOf
  <2>8. Stored(disk', i) - Stored(disk, i) = R(DIRECT + 1)
    <3>. HIDE DEF R
    <3>. QED BY <1>3, <2>5
  <2>9. R(DIRECT + 1) + 0 <= n
    <3>. HIDE DEF R
    <3>. QED BY <1>0, <1>3, <2>2
  <2>. QED BY <1>2, <2>2, <2>4, <2>7, <2>8, <2>9 DEF Wrote
<1>. QED BY <1>0, <1>4, <1>5, <1>6

(* The image a format has when it turns inode 1 into the root.              *)
LEMMA RootTaken ==
  ASSUME NEW pw \in Passwords, NEW d2, d2 = CountDir(new_inode(EmptyDisk(pw)))
  PROVE  /\ Sound(d2) /\ NoSelf(d2) /\ CanNewBlock(d2)
         /\ d2.inode_bitmap = {1} /\ d2.inode_table[1].sub = <<>> /\ 1 \in Inodes
<1>. DEFINE z == EmptyDisk(pw)
            d1 == new_inode(z)
<1>1. Sound(z) /\ CanNewInode(z) /\ CanNewBlock(z) /\ z \in Disk
  BY EmptyDiskSound DEF Sound
<1>2. /\ \A j \in Inodes : z.inode_table[j] = NoInode
      /\ z.inode_bitmap = {}
  BY DEF EmptyDisk
<1>3. NextInode(z) = 1
  <2>1. FreeInodes(z) = Inodes /\ Inodes \subseteq Nat /\ 1 \in Inodes /\ \A j \in Inodes : 1 <= j
    BY <1>2, BlocksAreNats DEF FreeInodes, Inodes
  <2>2. Min(Inodes) \in Inodes /\ \A j \in Inodes : Min(Inodes) <= j
    BY <2>1, MinOfNats
  <2>3. Min(Inodes) = 1
    <3>. HIDE DEF z
    <3>1. Min(Inodes) \in Nat /\ 1 <= Min(Inodes) /\ Min(Inodes) <= 1
      BY <2>1, <2>2, Zenon
    <3>. QED BY <3>1
  <2>4. NextInode(z) = Min(Inodes)
    BY <2>1, Zenon DEF NextInode
  <2>. QED BY <2>3, <2>4, Zenon
<1>. HIDE DEF z
<1>4. /\ Sound(d1) /\ d1.block_bitmap = z.block_bitmap /\ d1.free_blocks = z.free_blocks
  BY <1>1, NewInodeSound
<1>5. /\ d1.inode_bitmap = {1}
      /\ d1.inode_table[1] = init_inode
      /\ \A j \in Inodes : j # 1 => d1.inode_table[j] = NoInode
  <2>1. /\ d1.inode_bitmap = z.inode_bitmap \cup {NextInode(z)}
        /\ \A j \in Inodes : j # NextInode(z) => d1.inode_table[j] = z.inode_table[j]
    BY <1>1, NewInodeKeeps
  <2>2. d1.inode_table[1] = init_inode
    BY <1>1, <1>3, BlocksAreNats DEF new_inode, Disk
  <2>. QED BY <1>2, <1>3, <2>1, <2>2
<1>6. NoSelf(d1)
  <2>1. NoInode.type # FT_DIR /\ init_inode.type # FT_DIR
    BY DEF NoInode, init_inode, FT_UNKNOWN, FT_DIR
  <2>. QED BY <1>5, <2>1 DEF NoSelf
<1>. HIDE DEF d1
<1>. d2 = CountDir(d1)
  BY DEF d1, z
<1>7. Sound(d2) /\ d2.block_bitmap = d1.block_bitmap /\ d2.free_blocks = d1.free_blocks
  BY <1>4, CountDirSound
<1>8. Kept(d1, d2) /\ d2.inode_table = d1.inode_table
  BY <1>4, CountDirKeeps DEF Sound
<1>9. NoSelf(d2)
  BY <1>6, <1>8, StaysSelflessSame DEF Kept
<1>10. CanNewBlock(d2)
  BY <1>1, <1>4, <1>7 DEF CanNewBlock, FreeBlocks
<1>11. d2.inode_bitmap = {1} /\ d2.inode_table[1].sub = <<>> /\ 1 \in Inodes
  BY <1>5, <1>8, BlocksAreNats DEF Kept, init_inode, NoInode
<1>. QED BY <1>7, <1>9, <1>10, <1>11

(* A formatted image has one directory and no files.                        *)
LEMMA FreshHome ==
  ASSUME NEW pw \in Passwords
  PROVE  LET d == initialize_disk(pw)
         IN  NoSelf(d) /\ d.inode_table[1].type = FT_DIR /\ d.inode_bitmap = {1}
<1>. DEFINE d2 == CountDir(new_inode(EmptyDisk(pw)))
<1>1. /\ Sound(d2) /\ NoSelf(d2) /\ CanNewBlock(d2)
      /\ d2.inode_bitmap = {1} /\ d2.inode_table[1].sub = <<>> /\ 1 \in Inodes
  BY RootTaken
<1>. HIDE DEF d2
<1>2. /\ NoSelf(NewDirectory(d2, 1, 1)) /\ NewDirectory(d2, 1, 1).inode_table[1].type = FT_DIR
      /\ NewDirectory(d2, 1, 1).inode_bitmap = {1}
  BY <1>1, NewDirectoryKeeps
<1>. QED BY <1>2 DEF initialize_disk, d2

LEMMA FormatHome ==
  ASSUME NEW pw \in Passwords, disk' = initialize_disk(pw), initialize_memory
  PROVE  Homed' /\ Reformatted /\ LiveFiles(disk') = {}
<1>1. NoSelf(disk') /\ disk'.inode_table[1].type = FT_DIR /\ disk'.inode_bitmap = {1}
  BY FreshHome
<1>2. disk'.password = pw
  <2>. DEFINE d2 == CountDir(new_inode(EmptyDisk(pw)))
              b == NextBlock(d2)
  <2>1. d2.password = pw
    BY DEF CountDir, new_inode, EmptyDisk
  <2>2. disk' = AppendDots([new_block(d2) EXCEPT !.inode_table[1].type = FT_DIR,
                                                 !.inode_table[1].block = <<b>>,
                                                 !.inode_table[1].size = RecLen(Dot) + RecLen(DotDot)],
                           b, 1, 1)
    BY DEF initialize_disk, NewDirectory
  <2>. HIDE DEF d2, b
  <2>. QED BY <2>1, <2>2 DEF AppendDots, AppendEntry, new_block
<1>. QED BY <1>1, <1>2 DEF Homed, initialize_memory, Reformatted, LiveFiles

(* Commands that leave inodes and chains as they are.                       *)
LEMMA SameHome ==
  ASSUME Homed, NoSelf(disk'), \A j \in Inodes : disk'.inode_table[j].type = disk.inode_table[j].type,
         MemoryOK, initialize_memory \/ UNCHANGED current_dir
  PROVE  Homed'
BY BlocksAreNats DEF Homed, MemoryOK, initialize_memory

LEMMA ChmodKeeps ==
  ASSUME IInv, Homed, NEW name \in Names, NEW sign, NEW r, NEW w, NEW x, chmod(sign, r, w, x, name)
  PROVE  Homed' /\ (\A j \in Inodes : Untouched(j)) /\ disk'.inode_bitmap = disk.inode_bitmap
<1>. DEFINE i == Named(name)
            n == disk.inode_table[i]
            P == IF sign = "+" THEN n.perm \cup PermBits(r, w, x) ELSE n.perm \ PermBits(r, w, x)
            m == [n EXCEPT !.perm = P]
<1>0. Sound(disk) /\ MemoryOK /\ disk \in Disk /\ i \in Inodes
  BY IInvIsSound, FoundInode DEF chmod, Named, Sound
<1>1. n \in Inode /\ disk.inode_table \in [Inodes -> Inode]
  BY <1>0, InodeType DEF Disk
<1>2. disk' = [disk EXCEPT !.inode_table[i].perm = P]
  BY DEF chmod
<1>. HIDE DEF i, P
<1>3. disk' = [disk EXCEPT !.inode_table = [@ EXCEPT ![i] = m]]
  BY <1>0, <1>1, <1>2 DEF Disk
<1>4. m.type = n.type /\ m.block = n.block /\ m.sub = n.sub /\ m.size = n.size
  <2>. HIDE DEF n
  <2>. QED BY <1>1 DEF Inode
<1>. HIDE DEF m
<1>5. /\ disk'.inode_bitmap = disk.inode_bitmap /\ disk'.dirents = disk.dirents
      /\ disk'.text = disk.text /\ disk'.inode_table = [disk.inode_table EXCEPT ![i] = m]
  BY <1>0, <1>3 DEF Disk
<1>6. \A j \in Inodes : /\ disk'.inode_table[j].type = disk.inode_table[j].type
                        /\ disk'.inode_table[j].block = disk.inode_table[j].block
                        /\ disk'.inode_table[j].sub = disk.inode_table[j].sub
                        /\ disk'.inode_table[j].size = disk.inode_table[j].size
  BY <1>1, <1>4, <1>5
<1>7. \A j \in Inodes : Untouched(j)
  BY <1>5, <1>6 DEF Untouched
<1>8. NoSelf(disk')
  <2>1. NoSelf(disk)
    BY DEF Homed
  <2>. QED BY <1>5, <1>6, <2>1, StaysSelflessSame DEF Owned
<1>9. UNCHANGED current_dir
  BY DEF chmod, memory
<1>. QED BY <1>0, <1>5, <1>6, <1>7, <1>8, <1>9, SameHome

LEMMA PwdKeeps ==
  ASSUME IInv, Homed, NEW pw, pwd(pw)
  PROVE  Homed' /\ (\A j \in Inodes : Untouched(j)) /\ disk'.inode_bitmap = disk.inode_bitmap
<1>0. MemoryOK /\ disk \in Disk /\ NoSelf(disk)
  BY IInvIsSound DEF Sound, Homed
<1>1. /\ disk'.inode_bitmap = disk.inode_bitmap /\ disk'.dirents = disk.dirents
      /\ disk'.text = disk.text /\ disk'.inode_table = disk.inode_table
  BY <1>0 DEF pwd, Disk
<1>2. NoSelf(disk')
  BY <1>0, <1>1, StaysSelflessSame
<1>3. UNCHANGED current_dir
  BY DEF pwd, memory
<1>. QED BY <1>0, <1>1, <1>2, <1>3, SameHome DEF Untouched

LEMMA SameDiskKeeps ==
  ASSUME Homed, MemoryOK, UNCHANGED disk, initialize_memory \/ UNCHANGED current_dir
  PROVE  Homed' /\ (\A j \in Inodes : Untouched(j)) /\ disk'.inode_bitmap = disk.inode_bitmap
<1>1. NoSelf(disk')
  BY DEF Homed
<1>. QED BY <1>1, SameHome DEF Untouched

LEMMA CdKeeps ==
  ASSUME IInv, Homed, NEW name \in Names, cd(name)
  PROVE  Homed' /\ UNCHANGED disk
<1>1. CASE Undefined
  <2>1. UNCHANGED disk /\ UNCHANGED current_dir
    BY <1>1 DEF Undefined, memory
  <2>. QED BY <2>1, SameDiskKeeps, IInvIsSound
<1>2. CASE ~ Undefined
  <2>1. /\ UNCHANGED disk
        /\ current_dir' = IF name = Dot THEN current_dir
                          ELSE handle_search_inode(disk, current_dir, name, FT_DIR)
        /\ disk.inode_table[handle_search_inode(disk, current_dir, name, FT_DIR)].type = FT_DIR
    BY <1>2 DEF cd
  <2>. QED BY <2>1 DEF Homed
<1>. QED BY <1>1, <1>2

-----------------------------------------------------------------------------
(* What any step may do to the text of the files there are.                 *)
TouchesOne ==
  /\ \A j \in LiveFiles(disk') \ LiveFiles(disk) : disk'.inode_table[j].block = <<>>
  /\ \/ Reformatted /\ LiveFiles(disk') = {}
     \/ \A j \in LiveFiles(disk) \cap LiveFiles(disk') : Untouched(j)
     \/ \E i \in Inodes, n \in WriteSizes : Wrote(i, n)

LEMMA HomedInit == Init => Homed
<1>. SUFFICES ASSUME Init PROVE Homed
  OBVIOUS
<1>. QED BY FreshHome DEF Init, Homed

LEMMA StepTouches ==
  ASSUME IInv, IInv', Homed, [Next]_vars
  PROVE  Homed' /\ TouchesOne /\ NamesUpToDirect
<1>0. Sound(disk) /\ MemoryOK /\ disk \in Disk /\ disk' \in Disk
  BY IInvIsSound DEF Sound, IInv, TypeOK
<1>1. /\ LiveFiles(disk) \subseteq Inodes /\ current_dir \notin LiveFiles(disk)
      /\ LiveFiles(disk) \subseteq disk.inode_bitmap /\ LiveFiles(disk') \subseteq disk'.inode_bitmap
  BY <1>0 DEF LiveFiles, Disk, Homed
<1>2. ASSUME Homed', disk'.inode_bitmap \subseteq disk.inode_bitmap, LiveFiles(disk') \subseteq LiveFiles(disk),
             (\A j \in LiveFiles(disk) \cap LiveFiles(disk') : Untouched(j))
                \/ \E i \in Inodes, n \in WriteSizes : Wrote(i, n)
      PROVE  Homed' /\ TouchesOne /\ NamesUpToDirect
  BY <1>2 DEF TouchesOne, NamesUpToDirect
<1>3. ASSUME Homed', disk'.inode_bitmap = disk.inode_bitmap, \A j \in Inodes : Untouched(j)
      PROVE  Homed' /\ TouchesOne /\ NamesUpToDirect
  <2>1. LiveFiles(disk') \subseteq LiveFiles(disk)
    BY <1>0, <1>3 DEF LiveFiles, Untouched, Disk
  <2>. QED BY <1>1, <1>2, <1>3, <2>1
<1>4. ASSUME UNCHANGED disk, initialize_memory \/ UNCHANGED current_dir
      PROVE  Homed' /\ TouchesOne /\ NamesUpToDirect
  BY <1>0, <1>3, <1>4, SameDiskKeeps
<1>5. CASE Start \/ quit \/ \E pw \in Passwords : login(pw)
  BY <1>4, <1>5 DEF Start, quit, login, memory
<1>6. ASSUME NEW pw \in Passwords, pwd(pw) PROVE Homed' /\ TouchesOne /\ NamesUpToDirect
  BY <1>3, <1>6, PwdKeeps
<1>7. ASSUME NEW pw \in Passwords, format(pw) PROVE Homed' /\ TouchesOne /\ NamesUpToDirect
  <2>1. Homed' /\ Reformatted /\ LiveFiles(disk') = {}
    BY <1>7, FormatHome DEF format
  <2>. QED BY <2>1 DEF TouchesOne, NamesUpToDirect
<1>8. ASSUME NEW name \in Made, NEW type \in {FT_REG_FILE, FT_DIR}, MakeEntry(name, type)
      PROVE  Homed' /\ TouchesOne /\ NamesUpToDirect
  <2>1. CASE status' = "undefined"
    BY <1>4, <1>8, <2>1, MakeUndefined DEF memory
  <2>2. CASE status' # "undefined"
    <3>1. /\ Homed' /\ NamesUpToDirect
          /\ \A j \in disk.inode_bitmap : j # current_dir => Untouched(j)
          /\ \A j \in LiveFiles(disk') \ LiveFiles(disk) : disk'.inode_table[j].block = <<>>
      BY <1>8, <2>2, MakeEntryKeeps
    <3>. QED BY <1>1, <3>1 DEF TouchesOne
  <2>. QED BY <2>1, <2>2
<1>9. ASSUME NEW name \in Names, rmdir(name) \/ delete(name)
      PROVE  Homed' /\ TouchesOne /\ NamesUpToDirect
  <2>1. /\ Homed' /\ disk'.inode_bitmap \subseteq disk.inode_bitmap /\ LiveFiles(disk') \subseteq LiveFiles(disk)
        /\ \A j \in disk'.inode_bitmap : j # current_dir => Untouched(j)
    BY <1>9, RemovalKeeps
  <2>. QED BY <1>1, <1>2, <2>1
<1>10. ASSUME NEW name \in Names, cd(name)
       PROVE  Homed' /\ TouchesOne /\ NamesUpToDirect
  <2>1. Homed' /\ UNCHANGED disk
    BY <1>10, CdKeeps
  <2>. QED BY <1>3, <2>1 DEF Untouched
<1>11. ASSUME NEW name \in Names, open(name) \/ close(name)
       PROVE  Homed' /\ TouchesOne /\ NamesUpToDirect
  BY <1>4, <1>11 DEF open, close
<1>12. ASSUME NEW name \in Names, NEW n \in WriteSizes, write(name, n)
       PROVE  Homed' /\ TouchesOne /\ NamesUpToDirect
  <2>1. CASE status' = "undefined"
    BY <1>4, <1>12, <2>1, WriteUndefined DEF memory
  <2>2. CASE status' # "undefined"
    <3>1. Homed' /\ disk'.inode_bitmap = disk.inode_bitmap /\ \E i \in Inodes : Wrote(i, n)
      BY <1>12, <2>2, WriteKeeps
    <3>2. LiveFiles(disk') \subseteq LiveFiles(disk)
      BY <1>0, <3>1 DEF LiveFiles, Untouched, Wrote, Disk
    <3>. QED BY <1>2, <3>1, <3>2
  <2>. QED BY <2>1, <2>2
<1>13. ASSUME NEW name \in Names, NEW sign \in {"+", "-"}, NEW r, NEW w, NEW x,
              chmod(sign, r, w, x, name)
       PROVE  Homed' /\ TouchesOne /\ NamesUpToDirect
  BY <1>3, <1>13, ChmodKeeps
<1>14. CASE UNCHANGED vars
  BY <1>4, <1>14 DEF vars
<1>. QED BY <1>5, <1>6, <1>7, <1>8, <1>9, <1>10, <1>11, <1>12, <1>13, <1>14
        DEF Next, mkdir, create

(* A size that wraps has not grown.                                         *)
LEMMA WrapsOnce ==
  ASSUME NEW U \in Nat, NEW x \in Nat, U > 0, x < U + U
  PROVE  x % U = x \/ x % U = x - U
<1>1. CASE x < U
  BY <1>1
<1>2. CASE x >= U
  <2>1. x - U \in 0 .. U - 1
    BY <1>2
  <2>2. x = U * 1 + (x - U)
    OBVIOUS
  <2>. QED BY <2>1, <2>2
<1>. QED BY <1>1, <1>2

LEMMA SizeWraps ==
  ASSUME NEW s \in 0 .. UINT32 - 1, NEW n \in Nat, n < UINT32
  PROVE  \/ (s + n + 1) % UINT32 = s + n + 1
         \/ (s + n + 1) % UINT32 = (s + n + 1) - UINT32
<1>0. UINT32 \in Nat /\ UINT32 > 0
  BY ConstAssumption
<1>1. s + n + 1 \in Nat /\ s + n + 1 < UINT32 + UINT32
  BY <1>0
<1>. QED BY <1>0, <1>1, WrapsOnce

LEMMA FilesStay ==
  ASSUME IInv, IInv', TouchesOne, \A n \in WriteSizes : n < UINT32
  PROVE  StoresWhatFits
<1>0. disk \in Disk /\ disk' \in Disk
  BY DEF IInv, TypeOK
<1>. SUFFICES ASSUME NEW i \in LiveFiles(disk) \cap LiveFiles(disk'),
                     disk'.inode_table[i].size - disk.inode_table[i].size - 1 >= 0
              PROVE  Stored(disk', i) - Stored(disk, i) =
                       Min({disk'.inode_table[i].size - disk.inode_table[i].size - 1,
                            RoomBefore(disk, disk.inode_table[i], DIRECT + 1)})
  BY DEF StoresWhatFits
<1>. DEFINE s == disk.inode_table[i].size
            t == disk'.inode_table[i].size
<1>1. i \in Inodes /\ s \in 0 .. UINT32 - 1 /\ t \in Int
  <2>1. i \in Inodes
    BY <1>0 DEF LiveFiles, Disk
  <2>2. disk.inode_table[i] \in Inode /\ disk'.inode_table[i] \in Inode
    BY <1>0, <2>1, InodeType
  <2>. QED BY <2>1, <2>2 DEF Inode
<1>2. t - s - 1 >= 0
  OBVIOUS
<1>. HIDE DEF s, t
<1>3. ~ Untouched(i)
  <2>1. t # s
    BY <1>1, <1>2
  <2>. QED BY <2>1 DEF Untouched, s, t
<1>4. PICK w \in Inodes, n \in WriteSizes : Wrote(w, n)
  BY <1>3 DEF TouchesOne
<1>5. w = i
  BY <1>1, <1>3, <1>4 DEF Wrote
<1>6. n \in Nat /\ n < UINT32 /\ UINT32 \in Nat
  BY ConstAssumption
<1>7. t = (s + n + 1) % UINT32
  BY <1>4, <1>5 DEF Wrote, s, t
<1>8. t = s + n + 1 \/ t = s + n + 1 - UINT32
  BY <1>1, <1>6, <1>7, SizeWraps
<1>9. t - s - 1 = n
  BY <1>1, <1>2, <1>6, <1>8
<1>. QED BY <1>4, <1>5, <1>9 DEF Wrote, s, t

LEMMA SameContents ==
  ASSUME NEW i \in Inodes, Untouched(i)
  PROVE  Contents(disk', i) = Contents(disk, i)
<1>1. \A k \in DOMAIN disk.inode_table[i].block :
        disk.inode_table[i].block[k] \in Range(disk.inode_table[i].block)
  BY DEF Range
<1>. QED BY <1>1 DEF Contents, Untouched

LEMMA OthersStay ==
  ASSUME IInv, IInv', TouchesOne, \A n \in WriteSizes : n + 1 < UINT32
  PROVE  KeepsOtherFiles
<1>0. disk \in Disk /\ disk' \in Disk
  BY DEF IInv, TypeOK
<1>. SUFFICES ASSUME NEW i \in LiveFiles(disk) \cap LiveFiles(disk'),
                     disk'.inode_table[i].size = disk.inode_table[i].size
              PROVE  Contents(disk', i) = Contents(disk, i)
  BY DEF KeepsOtherFiles
<1>1. i \in Inodes /\ disk.inode_table[i].size \in 0 .. UINT32 - 1
  <2>1. i \in Inodes
    BY <1>0 DEF LiveFiles, Disk
  <2>2. disk.inode_table[i] \in Inode
    BY <1>0, <2>1, InodeType
  <2>. QED BY <2>1, <2>2 DEF Inode
<1>2. CASE Untouched(i)
  BY <1>1, <1>2, SameContents
<1>3. CASE ~ Untouched(i)
  <2>1. PICK w \in Inodes, n \in WriteSizes : Wrote(w, n)
    BY <1>3 DEF TouchesOne
  <2>2. w = i
    BY <1>1, <1>3, <2>1 DEF Wrote
  <2>. DEFINE s == disk.inode_table[i].size
  <2>3. s = (s + n + 1) % UINT32
    BY <2>1, <2>2 DEF Wrote
  <2>4. s \in 0 .. UINT32 - 1 /\ UINT32 \in Nat /\ n \in Nat /\ n + 1 < UINT32 /\ n < UINT32
    BY <1>1, ConstAssumption
  <2>. HIDE DEF s
  <2>5. s = s + n + 1 \/ s = s + n + 1 - UINT32
    BY <2>3, <2>4, SizeWraps
  <2>. QED BY <2>4, <2>5
<1>. QED BY <1>2, <1>3

LEMMA ModeHolds ==
  ASSUME IInv, [Next]_vars, TouchesOne, fopen_table \in [1 .. FOPEN_TABLE_MAX -> 0 .. INODE_COUNT]
  PROVE  RespectsMode
<1>0. disk \in Disk
  BY DEF IInv, TypeOK
<1>1. ASSUME NEW i \in LiveFiles(disk) \cap LiveFiles(disk'), Contents(disk', i) # Contents(disk, i)
      PROVE  2 \in Perm(disk, i)
  <2>1. i \in Inodes
    BY <1>0 DEF LiveFiles, Disk
  <2>2. ~ Untouched(i)
    BY <1>1, <2>1, SameContents
  <2>3. PICK w \in Inodes, n \in WriteSizes : Wrote(w, n)
    BY <1>1, <2>2 DEF TouchesOne
  <2>. QED BY <2>1, <2>2, <2>3 DEF Wrote
<1>2. ASSUME NEW s \in DOMAIN fopen_table, fopen_table'[s] \notin {0, fopen_table[s]}
      PROVE  4 \in Perm(disk, fopen_table'[s])
  <2>1. ~ UNCHANGED fopen_table
    BY <1>2
  <2>2. ~ initialize_memory
    BY <1>2 DEF initialize_memory, NoOpenFiles
  <2>3. \A e, st : ~ Saves(e, st)
    BY <2>1, <2>2 DEF Saves, memory
  <2>4. ~ Undefined
    BY <2>1 DEF Undefined, memory
  <2>5. \A e, i, st : ~ ReachIndex(e, i, st)
    BY <2>3, <2>4 DEF ReachIndex
  <2>6. \A e, p, x : ~ handle_append_directory(e, p, x)
    BY <2>3, <2>4, <2>5 DEF handle_append_directory, StoreEntry
  <2>7. \A name, type : ~ MakeEntry(name, type)
    BY <2>3, <2>4, <2>6 DEF MakeEntry
  <2>8. \A name, n : ~ write(name, n)
    BY <2>3, <2>4, <2>5 DEF write, WriteFits, WriteOverflows
  <2>9. \E name \in Names : open(name) \/ close(name)
    BY <2>1, <2>2, <2>3, <2>4, <2>7, <2>8
       DEF Next, vars, Start, quit, login, pwd, format, mkdir, create, rmdir, delete, cd, chmod, memory
  <2>10. PICK name \in Names : open(name) \/ close(name)
    BY <2>9
  <2>11. CASE close(name)
    BY <1>2, <2>11 DEF close
  <2>12. CASE open(name)
    <3>1. fopen_table'[s] = Named(name)
      BY <1>2, <2>12 DEF open
    <3>2. 4 \in Perm(disk, Named(name))
      BY <2>12 DEF open, Readable
    <3>. QED BY <3>1, <3>2
  <2>. QED BY <2>10, <2>11, <2>12
<1>. QED BY <1>1, <1>2 DEF RespectsMode

-----------------------------------------------------------------------------
LEMMA HomedNext == IInv /\ Homed /\ [Next]_vars => (IInv /\ Homed)'
<1>. SUFFICES ASSUME IInv, Homed, [Next]_vars PROVE (IInv /\ Homed)'
  OBVIOUS
<1>1. IInv'
  BY NextInv
<1>. QED BY <1>1, StepTouches

LEMMA HomedAlways == Spec => [](IInv /\ Homed)
<1>1. Init => IInv /\ Homed
  BY InitInv, HomedInit
<1>. QED BY <1>1, HomedNext, PTL DEF Spec

(* The working directory and the root are always live directories, through  *)
(* any command and restart: rmdir and delete never test for it, but no      *)
(* directory has an entry for itself or the root that they would follow.    *)
THEOREM HomeIsLive == Spec => [](1 \in LiveDirs(disk) /\ current_dir \in LiveDirs(disk))
<1>1. IInv /\ Homed => 1 \in LiveDirs(disk) /\ current_dir \in LiveDirs(disk)
  <2>. SUFFICES ASSUME IInv, Homed
                PROVE  1 \in LiveDirs(disk) /\ current_dir \in LiveDirs(disk)
    OBVIOUS
  <2>1. MemoryOK
    BY IInvIsSound
  <2>. QED BY <2>1, HomeInUse DEF LiveDirs, Homed
<1>. QED BY <1>1, HomedAlways, PTL

(* mkdir, create and write lose what they are given only where the direct   *)
(* blocks end, on any image, as long as one line is shorter than 2^32.      *)
THEOREM LossesAtIndexOnly ==
  ASSUME \A n \in WriteSizes : n < UINT32
  PROVE  Spec => LostOnlyAtIndex
<1>1. IInv /\ Homed /\ [Next]_vars => NamesUpToDirect /\ StoresWhatFits
  <2>. SUFFICES ASSUME IInv, Homed, [Next]_vars PROVE NamesUpToDirect /\ StoresWhatFits
    OBVIOUS
  <2>1. IInv'
    BY NextInv
  <2>. QED BY <2>1, StepTouches, FilesStay
<1>2. Spec => [][Next]_vars
  BY DEF Spec
<1>. QED BY <1>1, <1>2, HomedAlways, PTL DEF LostOnlyAtIndex

(* No command changes the text of a file but a write on that file, which    *)
(* changes its size.                                                        *)
THEOREM OtherFilesKept ==
  ASSUME \A n \in WriteSizes : n + 1 < UINT32
  PROVE  Spec => [][KeepsOtherFiles]_vars
<1>1. IInv /\ Homed /\ [Next]_vars => KeepsOtherFiles
  <2>. SUFFICES ASSUME IInv, Homed, [Next]_vars PROVE KeepsOtherFiles
    OBVIOUS
  <2>1. IInv'
    BY NextInv
  <2>. QED BY <2>1, StepTouches, OthersStay
<1>2. Spec => [][Next]_vars
  BY DEF Spec
<1>. QED BY <1>1, <1>2, HomedAlways, PTL

(* Text is only stored in a file that may be written, and a slot only given *)
(* to a file that may be read, at the moment it is done.                    *)
THEOREM ModeRespected == Spec => [][RespectsMode]_vars
<1>1. IInv /\ Homed /\ [Next]_vars => RespectsMode
  <2>. SUFFICES ASSUME IInv, Homed, [Next]_vars PROVE RespectsMode
    OBVIOUS
  <2>1. IInv'
    BY NextInv
  <2>2. fopen_table \in [1 .. FOPEN_TABLE_MAX -> 0 .. INODE_COUNT]
    BY DEF IInv, TypeOK
  <2>. QED BY <2>1, <2>2, StepTouches, ModeHolds
<1>2. Spec => [][Next]_vars
  BY DEF Spec
<1>. QED BY <1>1, <1>2, HomedAlways, PTL

-----------------------------------------------------------------------------
(* Files are filled from the front.                                         *)
Packed(d, i) ==
  LET n == d.inode_table[i]
  IN  /\ \A k \in 1 .. Len(n.block) - 1 : d.text[n.block[k]] = CAP
      /\ Stored(d, i) <= n.size

LEMMA EmptyPacked ==
  ASSUME NEW d \in Disk, NEW i \in Inodes, d.inode_table[i].block = <<>>
  PROVE  Packed(d, i)
<1>1. d.inode_table[i].size \in Nat
  BY InodeType, ModuliType DEF Inode
<1>2. Stored(d, i) = 0
  <2>. DEFINE N == Len(d.inode_table[i].block)
  <2>1. N = 0
    OBVIOUS
  <2>. HIDE DEF N
  <2>3. PICK f \in [0 .. N -> Nat] : Adds(f, N, Texts(d, i)) /\ Stored(d, i) = f[N]
    BY StoredAdds DEF N
  <2>2. Adds(f, 0, Texts(d, i)) /\ Stored(d, i) = f[0]
    BY <2>1, <2>3
  <2>. QED BY <2>2 DEF Adds
<1>. QED BY <1>1, <1>2 DEF Packed

LEMMA SameStored ==
  ASSUME Sound(disk), Sound(disk'), NEW i \in Inodes, Untouched(i)
  PROVE  Stored(disk', i) = Stored(disk, i)
<1>. DEFINE bs == disk.inode_table[i].block
<1>0. disk \in Disk /\ bs \in Seq(Blocks) /\ disk'.inode_table[i].block = bs
  BY InodeType DEF Sound, Untouched
<1>1. \A m \in 1 .. Len(bs) : bs[m] \in Blocks /\ disk'.text[bs[m]] = disk.text[bs[m]] /\ disk.text[bs[m]] \in Nat
  <2>1. ASSUME NEW m \in 1 .. Len(bs)
        PROVE  bs[m] \in Blocks /\ disk'.text[bs[m]] = disk.text[bs[m]] /\ disk.text[bs[m]] \in Nat
    <3>1. bs[m] \in Range(bs) /\ bs[m] \in Blocks
      BY <1>0 DEF Range
    <3>2. disk'.text[bs[m]] = disk.text[bs[m]]
      BY <3>1 DEF Untouched
    <3>3. disk.text[bs[m]] \in 0 .. CAP
      BY <1>0, <3>1 DEF Disk
    <3>. QED BY <3>1, <3>2, <3>3, CapType
  <2>. QED BY <2>1
<1>2. Takes(i, 1, 0)
  <2>1. \A m \in 1 .. Len(bs) : disk'.text[bs[m]] = Text(i, m) + Took(i, 1, 0, m)
    <3>1. ASSUME NEW m \in 1 .. Len(bs)
          PROVE  disk'.text[bs[m]] = Text(i, m) + Took(i, 1, 0, m)
      <4>1. Text(i, m) = disk.text[bs[m]]
        BY DEF Text
      <4>2. Took(i, 1, 0, m) = 0
        BY DEF Took
      <4>. HIDE DEF bs
      <4>. QED BY <1>1, <4>1, <4>2
    <3>. QED BY <3>1
  <2>2. Len(bs) \in Nat
    BY <1>0
  <2>. QED BY <1>0, <2>1, <2>2 DEF Takes
<1>3. RoomBefore(disk, disk.inode_table[i], 1) = 0
  BY <1>0, InodeType, NoRoomBefore
<1>4. /\ Stored(disk, i) \in Nat
      /\ Stored(disk', i) = Stored(disk, i) + (RoomBefore(disk, disk.inode_table[i], 1) + 0)
  <2>1. 1 \in Nat \ {0} /\ 0 \in Nat
    OBVIOUS
  <2>. QED BY <1>2, <2>1, StoredGrows
<1>. QED BY <1>3, <1>4

LEMMA UntouchedPacked ==
  ASSUME Sound(disk), Sound(disk'), NEW i \in Inodes, Untouched(i), Packed(disk, i)
  PROVE  Packed(disk', i)
<1>. DEFINE bs == disk.inode_table[i].block
<1>0. bs \in Seq(Blocks) /\ disk'.inode_table[i].block = bs
  BY InodeType DEF Sound, Untouched
<1>1. Stored(disk', i) <= disk'.inode_table[i].size
  BY SameStored DEF Packed, Untouched
<1>2. ASSUME NEW m \in 1 .. Len(bs) - 1
      PROVE  disk'.text[bs[m]] = CAP
  <2>1. Len(bs) \in Nat
    BY <1>0
  <2>2. m \in 1 .. Len(bs)
    BY <2>1
  <2>3. bs[m] \in Range(bs)
    BY <1>0, <2>2 DEF Range
  <2>. QED BY <2>3 DEF Packed, Untouched
<1>. QED BY <1>0, <1>1, <1>2 DEF Packed

(* Behind a full block nothing has room, and a write reaches a block only   *)
(* once those before it are full.                                           *)
LEMMA WrotePacked ==
  ASSUME MaxFileSize < UINT32, Sound(disk), Sound(disk'), NEW i \in Inodes, NEW n \in Nat,
         Wrote(i, n), Packed(disk, i)
  PROVE  Packed(disk', i)
<1>. DEFINE ino == disk.inode_table[i]
            L == Len(ino.block)
            bs == disk'.inode_table[i].block
            M == Len(bs)
<1>0. /\ disk \in Disk /\ disk' \in Disk /\ ino.size \in Nat /\ L \in Nat /\ M \in Nat
      /\ bs \in Seq(Blocks) /\ UINT32 \in Nat /\ UINT32 > 0 /\ MaxFileSize \in Nat
  BY InodeType, ConstAssumption, ModuliType DEF Sound, Inode
<1>1. PICK k \in Nat \ {0}, rest \in Nat : Takes(i, k, rest) /\ RoomBefore(disk, ino, k) + rest <= n
  BY DEF Wrote
<1>3. /\ Stored(disk, i) \in Nat /\ RoomBefore(disk, ino, k) \in Nat
      /\ Stored(disk', i) = Stored(disk, i) + (RoomBefore(disk, ino, k) + rest)
  BY <1>1, StoredGrows
<1>4. disk'.inode_table[i].size = ino.size + n + 1
  <2>1. disk'.inode_table[i].size = (ino.size + n + 1) % UINT32 /\ ino.size + n + 1 <= MaxFileSize
    BY DEF Wrote
  <2>. HIDE DEF ino
  <2>2. ino.size + n + 1 \in 0 .. UINT32 - 1
    BY <1>0, <2>1
  <2>3. ASSUME NEW x \in Nat, NEW U \in Nat, x < U
        PROVE  x % U = x
    BY <2>3
  <2>4. ino.size + n + 1 \in Nat /\ ino.size + n + 1 < UINT32
    BY <1>0, <2>2
  <2>5. (ino.size + n + 1) % UINT32 = ino.size + n + 1
    BY <1>0, <2>3, <2>4
  <2>. QED BY <2>1, <2>5
<1>5. Stored(disk', i) <= disk'.inode_table[i].size
  <2>1. Stored(disk, i) <= ino.size
    BY DEF Packed
  <2>. QED BY <1>0, <1>1, <1>3, <1>4, <2>1
<1>6. /\ M >= L /\ (M > L => M <= k)
      /\ \A m \in 1 .. M : disk'.text[bs[m]] = Text(i, m) + Took(i, k, rest, m)
  BY <1>1 DEF Takes
<1>7. ASSUME NEW m \in 1 .. M - 1
      PROVE  disk'.text[bs[m]] = CAP
  <2>1. m \in 1 .. M /\ m \in Nat /\ m # 0
    BY <1>0
  <2>2. CASE m < k
    <3>1. Text(i, m) + RoomIn(disk, ino, m) = CAP
      BY <2>1, FullTakes
    <3>. QED BY <1>6, <2>1, <2>2, <3>1 DEF Took
  <2>3. CASE ~ (m < k)
    <3>1. m \in 1 .. L - 1
      BY <1>0, <1>1, <1>6, <2>1, <2>3
    <3>2. Text(i, m) = CAP
      <4>1. m <= L
        BY <1>0, <3>1
      <4>. QED BY <3>1, <4>1 DEF Packed, Text
    <3>3. disk'.text[bs[m]] \in 0 .. CAP
      <4>1. bs[m] \in Blocks
        BY <1>0, <2>1
      <4>. QED BY <1>0, <4>1 DEF Disk
    <3>4. Took(i, k, rest, m) \in Nat
      BY <1>1, <2>3 DEF Took
    <3>. QED BY <1>6, <2>1, <3>2, <3>3, <3>4, CapType
  <2>. QED BY <2>2, <2>3
<1>. QED BY <1>5, <1>7 DEF Packed

PackedInv == IInv /\ Homed /\ FilesPacked

LEMMA PackedNext ==
  ASSUME MaxFileSize < UINT32
  PROVE  PackedInv /\ [Next]_vars => PackedInv'
<1>. SUFFICES ASSUME PackedInv, [Next]_vars PROVE PackedInv'
  OBVIOUS
<1>1. IInv /\ Homed /\ IInv' /\ Homed'
  BY HomedNext DEF PackedInv
<1>2. TouchesOne
  BY <1>1, StepTouches
<1>3. /\ Sound(disk) /\ Sound(disk') /\ disk \in Disk /\ disk' \in Disk
      /\ LiveFiles(disk) \subseteq Inodes /\ LiveFiles(disk') \subseteq Inodes
  BY <1>1 DEF Sound, IInv, TypeOK, BlockOwnership, FreeBlocksClean, LiveFiles, Disk
<1>4. \A j \in LiveFiles(disk) : Packed(disk, j)
  BY DEF PackedInv, FilesPacked, Packed
<1>5. ASSUME NEW j \in LiveFiles(disk')
      PROVE  Packed(disk', j)
  <2>1. CASE j \notin LiveFiles(disk)
    BY <1>2, <1>3, <1>5, <2>1, EmptyPacked DEF TouchesOne
  <2>2. CASE j \in LiveFiles(disk) /\ Untouched(j)
    BY <1>3, <1>4, <2>2, UntouchedPacked
  <2>3. CASE j \in LiveFiles(disk) /\ ~ Untouched(j)
    <3>1. PICK i \in Inodes, n \in WriteSizes : Wrote(i, n)
      BY <1>2, <1>5, <2>3 DEF TouchesOne
    <3>2. j = i /\ n \in Nat
      BY <1>3, <2>3, <3>1, ConstAssumption DEF Wrote
    <3>. QED BY <1>3, <1>4, <2>3, <3>1, <3>2, WrotePacked
  <2>. QED BY <2>1, <2>2, <2>3
<1>. QED BY <1>1, <1>5 DEF PackedInv, FilesPacked, Packed

(* Whatever is written, removed and made again, every block of a file but   *)
(* its last is full, and i_size counts at least what is stored: text is     *)
(* found by walking the blocks (try_write, handle_write_inode).             *)
THEOREM FilesStayPacked ==
  ASSUME MaxFileSize < UINT32
  PROVE  Spec => []FilesPacked
<1>1. Init => PackedInv
  <2>. SUFFICES ASSUME Init PROVE PackedInv
    OBVIOUS
  <2>1. IInv /\ Homed
    BY InitInv, HomedInit
  <2>2. LiveFiles(disk) = {}
    BY FreshHome DEF Init, LiveFiles
  <2>. QED BY <2>1, <2>2 DEF PackedInv, FilesPacked
<1>2. PackedInv /\ [Next]_vars => PackedInv'
  BY PackedNext
<1>3. PackedInv => FilesPacked
  BY DEF PackedInv
<1>. QED BY <1>1, <1>2, <1>3, PTL DEF Spec
================================================================================
