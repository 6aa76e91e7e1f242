----------------------------- MODULE FSTree_proofs -----------------------------
(***************************************************************************)
(* As long as every directory keeps to its first block, the shell on its   *)
(* disk image implements FSTree, for every size of disk and sequence of    *)
(* commands.  An image is then neat: the entries of the live directories   *)
(* name each inode in use once, "." and ".." lead where they should and    *)
(* i_size covers the names.  The lemmas follow an entry from the chain it  *)
(* is stored in, over the helpers that store and remove it, to the         *)
(* commands, each of which does to the names what one command of FSTree    *)
(* does.                                                                   *)
(***************************************************************************)
EXTENDS FileSystem_proofs

(* Entries that name the same, whatever room they take.                     *)
Alike(x, y) == x.inode = y.inode /\ x.name = y.name /\ x.file_type = y.file_type
IsName(e, name, type) == e.name = name /\ e.file_type = type

(* t is c with one more entry, at m, which is not the first.                *)
Without(t, c, m) ==
  /\ m \in 2 .. Len(t) /\ Len(t) = Len(c) + 1
  /\ \A j \in 1 .. Len(c) : Alike(c[j], t[IF j < m THEN j ELSE j + 1])

(* append_dir_entry puts the entry behind one there is.                     *)
LEMMA AppendedAs ==
  ASSUME NEW c \in Seq(DirEntry), NEW e \in DirEntry, c # <<>>
  PROVE  LET t == append_dir_entry(c, e)
         IN  \E m \in 2 .. Len(t) : Without(t, c, m) /\ Alike(t[m], e)
<1>. DEFINE k == Splittable(c, e)
            t == append_dir_entry(c, e)
<1>0. Len(c) \in Nat /\ Len(c) >= 1
  OBVIOUS
<1>1. CASE k > 0
  <2>. DEFINE c1 == [c EXCEPT ![k].rec_len = RecLen(c[k].name)]
              e1 == [e EXCEPT !.rec_len = Slack(c[k])]
  <2>1. k \in 1 .. Len(c) /\ Slack(c[k]) >= e.rec_len
    BY <1>1, SplittableType
  <2>2. t = InsertAt(c1, k + 1, e1)
    BY <1>1 DEF append_dir_entry
  <2>. HIDE DEF k, t
  <2>3. c[k] \in DirEntry /\ RecLen(c[k].name) \in Nat
    <3>1. c[k] \in DirEntry
      BY <2>1
    <3>2. c[k].name \in Names
      BY <3>1 DEF DirEntry
    <3>. QED BY <3>1, <3>2, NamesType
  <2>4. e1 \in DirEntry /\ Alike(e1, e)
    <3>1. Slack(c[k]) \in Nat
      BY <2>1, <2>3 DEF Slack, DirEntry
    <3>2. e1 \in DirEntry
      BY <3>1, RecLenType
    <3>. QED BY <3>2 DEF DirEntry, Alike
  <2>5. /\ c1 \in Seq(DirEntry) /\ Len(c1) = Len(c)
        /\ \A j \in 1 .. Len(c) : Alike(c[j], c1[j])
    <3>1. [c[k] EXCEPT !.rec_len = RecLen(c[k].name)] \in DirEntry
      BY <2>3, RecLenType
    <3>2. /\ c1 \in Seq(DirEntry) /\ Len(c1) = Len(c)
          /\ \A j \in 1 .. Len(c) : j # k => c1[j] = c[j]
          /\ c1[k] = [c[k] EXCEPT !.rec_len = RecLen(c[k].name)]
      BY <2>1, <3>1
    <3>3. Alike(c[k], c1[k])
      BY <2>3, <3>2 DEF DirEntry, Alike
    <3>. HIDE DEF c1
    <3>. QED BY <3>2, <3>3 DEF Alike
  <2>. HIDE DEF c1, e1
  <2>. DEFINE m == k + 1
  <2>6. m \in 2 .. Len(c1) + 1 /\ m \in 1 .. Len(c1) + 1
    BY <1>0, <2>1, <2>5
  <2>7. t = InsertAt(c1, m, e1)
    BY <2>2
  <2>. HIDE DEF m
  <2>8. /\ Len(t) = Len(c1) + 1 /\ t[m] = e1
        /\ \A j \in 1 .. Len(c1) : c1[j] = IF j < m THEN t[j] ELSE t[j + 1]
    <3>1. /\ InsertAt(c1, m, e1) \in Seq(DirEntry) /\ Len(InsertAt(c1, m, e1)) = Len(c1) + 1
          /\ InsertAt(c1, m, e1)[m] = e1
          /\ \A j \in 1 .. Len(c1) :
               c1[j] = IF j < m THEN InsertAt(c1, m, e1)[j] ELSE InsertAt(c1, m, e1)[j + 1]
      <4>1. c1 \in Seq(DirEntry) /\ m \in 1 .. Len(c1) + 1 /\ e1 \in DirEntry
        BY <2>4, <2>5, <2>6
      <4>. QED BY <4>1, InsertAtAs
    <3>. QED BY <2>7, <3>1
  <2>9. ASSUME NEW j \in 1 .. Len(c)
        PROVE  Alike(c[j], t[IF j < m THEN j ELSE j + 1])
    <3>1. c1[j] = t[IF j < m THEN j ELSE j + 1]
      BY <2>5, <2>8
    <3>. QED BY <2>5, <3>1
  <2>10. m \in 2 .. Len(t) /\ Len(t) = Len(c) + 1
    BY <2>5, <2>6, <2>8
  <2>11. Alike(t[m], e)
    BY <2>4, <2>8
  <2>. QED BY <2>9, <2>10, <2>11 DEF Without, t
<1>2. CASE k = 0
  <2>1. t = Append(c, e)
    BY <1>2 DEF append_dir_entry
  <2>. DEFINE m == Len(c) + 1
  <2>. HIDE DEF t, k
  <2>2. Len(t) = Len(c) + 1 /\ t[m] = e /\ m \in 2 .. Len(t)
        /\ \A j \in 1 .. Len(c) : t[j] = c[j] /\ j < m
    BY <1>0, <2>1
  <2>. HIDE DEF m
  <2>3. \A j \in 1 .. Len(c) : Alike(c[j], t[IF j < m THEN j ELSE j + 1])
    BY <2>2 DEF Alike
  <2>. QED BY <2>2, <2>3 DEF Without, Alike, t
<1>. QED BY <1>1, <1>2, SplittableType

(* delete_dir_entry takes out an entry of that name and type; it finds none *)
(* only if none is there but the first.                                     *)
LEMMA DeletedAs ==
  ASSUME NEW c \in Seq(DirEntry), NEW name, NEW type, NEW k, k = DeletableAt(c, name, type)
  PROVE  IF k = 0
         THEN \A j \in 2 .. Len(c) : ~ IsName(c[j], name, type)
         ELSE /\ IsName(c[k], name, type)
              /\ Without(c, delete_dir_entry(c, name, type), k)
<1>. DEFINE t == delete_dir_entry(c, name, type)
            I == {i \in 2 .. Len(c) : c[i].name = name /\ c[i].file_type = type}
<1>0. k = IF I # {} THEN Min(I) ELSE 0
  BY DEF DeletableAt, SelectInSubSeq
<1>a. I \subseteq Nat /\ 0 \notin I
  OBVIOUS
<1>b. I # {} => k \in I
  <2>. HIDE DEF I
  <2>. QED BY <1>0, <1>a, MinOfNats
<1>1. CASE k = 0
  <2>1. I = {}
    BY <1>1, <1>a, <1>b
  <2>. QED BY <1>1, <2>1 DEF IsName
<1>2. CASE k # 0
  <2>. DEFINE c1 == [c EXCEPT ![k-1].rec_len = @ + c[k].rec_len]
  <2>0. k \in 2 .. Len(c) /\ IsName(c[k], name, type)
    <3>1. k \in I
      BY <1>0, <1>2, <1>b
    <3>. QED BY <3>1 DEF IsName
  <2>1. t = RemoveAt(c1, k)
    BY <1>2 DEF delete_dir_entry
  <2>. HIDE DEF t
  <2>2. k \in 1 .. Len(c) /\ k - 1 \in 1 .. Len(c) /\ Len(c) \in Nat
    BY <2>0
  <2>3. c[k] \in DirEntry /\ c[k-1] \in DirEntry
    BY <2>2
  <2>4. /\ c1 \in Seq(DirEntry) /\ Len(c1) = Len(c)
        /\ \A j \in 1 .. Len(c) : Alike(c1[j], c[j])
    <3>1. [c[k-1] EXCEPT !.rec_len = @ + c[k].rec_len] \in DirEntry
      <4>1. c[k-1].rec_len + c[k].rec_len \in Nat
        BY <2>3 DEF DirEntry
      <4>. QED BY <2>3, <4>1, RecLenType
    <3>2. /\ c1 \in Seq(DirEntry) /\ Len(c1) = Len(c)
          /\ \A j \in 1 .. Len(c) : j # k - 1 => c1[j] = c[j]
          /\ c1[k-1] = [c[k-1] EXCEPT !.rec_len = @ + c[k].rec_len]
      BY <2>2, <3>1
    <3>3. Alike(c1[k-1], c[k-1])
      BY <2>3, <3>2 DEF DirEntry, Alike
    <3>. HIDE DEF c1
    <3>. QED BY <3>2, <3>3 DEF Alike
  <2>. HIDE DEF c1
  <2>5. /\ t \in Seq(DirEntry) /\ Len(t) = Len(c1) - 1
        /\ \A j \in 1 .. Len(c1) - 1 : t[j] = IF j < k THEN c1[j] ELSE c1[j + 1]
    BY <2>1, <2>2, <2>4, RemoveAtAs
  <2>6. Len(c) = Len(t) + 1
    BY <2>2, <2>4, <2>5
  <2>7. ASSUME NEW j \in 1 .. Len(t)
        PROVE  Alike(t[j], c[IF j < k THEN j ELSE j + 1])
    <3>1. j \in 1 .. Len(c) /\ j + 1 \in 1 .. Len(c) /\ j \in 1 .. Len(c1) - 1
      BY <2>2, <2>4, <2>6
    <3>2. t[j] = c1[IF j < k THEN j ELSE j + 1]
      BY <2>5, <3>1
    <3>. QED BY <2>4, <3>1, <3>2
  <2>8. Without(c, t, k)
    BY <2>0, <2>6, <2>7 DEF Without
  <2>. QED BY <1>2, <2>0, <2>8 DEF t
<1>. QED BY <1>1, <1>2


(* What a chain says of the directory p: its entries but the dots.          *)
Said(e, p) == [inode |-> e.inode, parent |-> p, name |-> e.name, type |-> e.file_type]
Says(c, p) == {Said(c[k], p) : k \in {k \in DOMAIN c : ~ IsDots(c[k])}}
Ups(c) == {c[k].inode : k \in {k \in DOMAIN c : IsName(c[k], DotDot, FT_DIR)}}

(* The bytes of its names, the dots aside.                                  *)
Weigh(e) == IF IsDots(e) THEN 0 ELSE RecLen(e.name)
Weighed(c) == [k \in 1 .. Len(c) |-> [inode |-> c[k].inode, rec_len |-> Weigh(c[k]),
                                      name |-> c[k].name, file_type |-> c[k].file_type]]
NameBytes(c) == ChainEnd(Weighed(c))

(* "." in front, and no two entries of one name and type.                   *)
Tidy(c, p) ==
  /\ 1 \in DOMAIN c /\ IsName(c[1], Dot, FT_DIR) /\ c[1].inode = p
  /\ \A j, k \in DOMAIN c : IsName(c[j], c[k].name, c[k].file_type) => j = k

LEMMA WeighedType ==
  ASSUME NEW c \in Seq(DirEntry)
  PROVE  /\ Weighed(c) \in Seq(DirEntry) /\ Len(Weighed(c)) = Len(c)
         /\ \A k \in 1 .. Len(c) : Weighed(c)[k].rec_len = Weigh(c[k])
<1>1. ASSUME NEW k \in 1 .. Len(c)
      PROVE  [inode |-> c[k].inode, rec_len |-> Weigh(c[k]),
              name |-> c[k].name, file_type |-> c[k].file_type] \in DirEntry
  <2>1. c[k] \in DirEntry
    OBVIOUS
  <2>2. RecLen(c[k].name) \in Nat
    BY <2>1, NamesType DEF DirEntry
  <2>3. Weigh(c[k]) \in Nat
    BY <2>2 DEF Weigh
  <2>. QED BY <2>1, <2>3 DEF DirEntry
<1>2. Len(c) \in Nat
  OBVIOUS
<1>. QED BY <1>1, <1>2 DEF Weighed

LEMMA NameBytesType ==
  ASSUME NEW c \in Seq(DirEntry)
  PROVE  NameBytes(c) \in Nat
BY WeighedType, ChainEndType DEF NameBytes

(* Only the dots weigh nothing.                                             *)
LEMMA NameBytesZero ==
  ASSUME NEW c \in Seq(DirEntry), NameBytes(c) = 0
  PROVE  \A k \in DOMAIN c : IsDots(c[k])
<1>. DEFINE w == Weighed(c)
            n == Len(w)
            z == RecLens(w)
<1>1. /\ w \in Seq(DirEntry) /\ n = Len(c) /\ n \in Nat
      /\ \A k \in 1 .. Len(c) : w[k].rec_len = Weigh(c[k])
  BY WeighedType
<1>2. PICK f \in [0 .. n -> Nat] : Adds(f, n, z) /\ ChainEnd(w) = f[n]
  BY <1>1, ChainEndAdds
<1>3. z \in [1 .. n -> Nat] /\ f[n] = 0
  BY <1>1, <1>2, ChainEndAdds DEF NameBytes
<1>. SUFFICES ASSUME NEW k \in DOMAIN c
              PROVE  IsDots(c[k])
  OBVIOUS
<1>4. k \in 1 .. n /\ k \in 0 .. n /\ k - 1 \in 0 .. n /\ c[k] \in DirEntry
  BY <1>1
<1>5. z[k] = Weigh(c[k])
  BY <1>1, <1>4 DEF RecLens
<1>. HIDE DEF n, z, w
<1>6. f[k] = f[k - 1] + z[k] /\ f[k - 1] \in Nat /\ z[k] \in Nat
  BY <1>2, <1>3, <1>4 DEF Adds
<1>7. f[k] <= f[n]
  <2>1. n \in k .. n
    BY <1>1, <1>4
  <2>. QED BY <1>1, <1>2, <1>3, <1>4, <2>1, AddsMonotone
<1>8. Weigh(c[k]) = 0
  BY <1>3, <1>5, <1>6, <1>7
<1>9. RecLen(c[k].name) > 0
  <2>1. c[k].name \in Names
    BY <1>4 DEF DirEntry
  <2>. QED BY <2>1, NameLenAssumption DEF RecLen
<1>. QED BY <1>8, <1>9 DEF Weigh

(* One entry more or less, which is not one of the dots.                    *)
LEMMA WithoutOne ==
  ASSUME NEW c \in Seq(DirEntry), NEW t \in Seq(DirEntry), NEW m, Without(t, c, m),
         ~ IsDots(t[m]), NEW p
  PROVE  /\ Says(t, p) = Says(c, p) \cup {Said(t[m], p)}
         /\ Ups(t) = Ups(c)
         /\ NameBytes(t) = NameBytes(c) + RecLen(t[m].name)
<1>. DEFINE At(j) == IF j < m THEN j ELSE j + 1
<1>1. /\ m \in 2 .. Len(t) /\ Len(t) = Len(c) + 1 /\ Len(c) \in Nat /\ m \in DOMAIN t
      /\ DOMAIN t = 1 .. Len(c) + 1 /\ DOMAIN c = 1 .. Len(c)
  BY DEF Without
<1>2. \A j \in DOMAIN c : /\ At(j) \in DOMAIN t /\ At(j) # m
                          /\ Alike(c[j], t[At(j)])
  BY <1>1 DEF Without
<1>3. ASSUME NEW k \in DOMAIN t, k # m
      PROVE  \E j \in DOMAIN c : At(j) = k
  <2>1. CASE k < m
    <3>1. k \in DOMAIN c
      BY <1>1, <2>1
    <3>. QED BY <2>1, <3>1
  <2>2. CASE ~ (k < m)
    <3>1. k - 1 \in DOMAIN c /\ ~ (k - 1 < m) /\ (k - 1) + 1 = k
      BY <1>1, <1>3, <2>2
    <3>. QED BY <3>1
  <2>. QED BY <2>1, <2>2
<1>. HIDE DEF At
<1>4. Says(t, p) = Says(c, p) \cup {Said(t[m], p)}
  <2>1. ASSUME NEW j \in DOMAIN c
        PROVE  Said(c[j], p) = Said(t[At(j)], p) /\ (IsDots(c[j]) <=> IsDots(t[At(j)]))
    BY <1>2 DEF Said, IsDots, Alike
  <2>2. ASSUME NEW x \in Says(t, p)
        PROVE  x \in Says(c, p) \cup {Said(t[m], p)}
    <3>1. PICK k \in DOMAIN t : ~ IsDots(t[k]) /\ x = Said(t[k], p)
      BY DEF Says
    <3>2. CASE k = m
      BY <3>1, <3>2
    <3>3. CASE k # m
      <4>1. PICK j \in DOMAIN c : At(j) = k
        BY <1>3, <3>3
      <4>. QED BY <2>1, <3>1, <4>1 DEF Says
    <3>. QED BY <3>2, <3>3
  <2>3. ASSUME NEW x \in Says(c, p) \cup {Said(t[m], p)}
        PROVE  x \in Says(t, p)
    <3>1. CASE x = Said(t[m], p)
      BY <1>1, <3>1 DEF Says
    <3>2. CASE x \in Says(c, p)
      <4>1. PICK j \in DOMAIN c : ~ IsDots(c[j]) /\ x = Said(c[j], p)
        BY <3>2 DEF Says
      <4>. QED BY <1>2, <2>1, <4>1 DEF Says
    <3>. QED BY <3>1, <3>2
  <2>. QED BY <2>2, <2>3
<1>5. Ups(t) = Ups(c)
  <2>1. ASSUME NEW j \in DOMAIN c
        PROVE  /\ c[j].inode = t[At(j)].inode
               /\ IsName(c[j], DotDot, FT_DIR) <=> IsName(t[At(j)], DotDot, FT_DIR)
    BY <1>2 DEF IsName, Alike
  <2>2. ~ IsName(t[m], DotDot, FT_DIR)
    BY DEF IsName, IsDots
  <2>3. ASSUME NEW x \in Ups(t)
        PROVE  x \in Ups(c)
    <3>1. PICK k \in DOMAIN t : IsName(t[k], DotDot, FT_DIR) /\ x = t[k].inode
      BY DEF Ups
    <3>2. PICK j \in DOMAIN c : At(j) = k
      BY <1>3, <2>2, <3>1
    <3>. QED BY <2>1, <3>1, <3>2 DEF Ups
  <2>4. ASSUME NEW x \in Ups(c)
        PROVE  x \in Ups(t)
    <3>1. PICK j \in DOMAIN c : IsName(c[j], DotDot, FT_DIR) /\ x = c[j].inode
      BY DEF Ups
    <3>. QED BY <1>2, <2>1, <3>1 DEF Ups
  <2>. QED BY <2>3, <2>4
<1>6. NameBytes(t) = NameBytes(c) + RecLen(t[m].name)
  <2>. DEFINE wc == Weighed(c)
              wt == Weighed(t)
  <2>1. /\ wc \in Seq(DirEntry) /\ wt \in Seq(DirEntry) /\ Len(wc) = Len(c) /\ Len(wt) = Len(t)
        /\ wt[m].rec_len = Weigh(t[m])
    BY <1>1, WeighedType
  <2>2. ASSUME NEW j \in 1 .. Len(c)
        PROVE  wc[j] = IF j < m THEN wt[j] ELSE wt[j + 1]
    <3>1. Alike(c[j], t[At(j)]) /\ At(j) \in 1 .. Len(t) /\ j \in DOMAIN c
      BY <1>1, <1>2
    <3>2. Weigh(c[j]) = Weigh(t[At(j)])
      BY <3>1 DEF Weigh, IsDots, Alike
    <3>3. wc[j] = wt[At(j)]
      BY <3>1, <3>2 DEF Weighed, Alike
    <3>. QED BY <3>3 DEF At
  <2>. HIDE DEF wc, wt
  <2>3. ChainEnd(wc) = ChainEnd(wt) - wt[m].rec_len
    <3>1. m \in 1 .. Len(wt) /\ Len(wc) = Len(wt) - 1
      BY <1>1, <2>1
    <3>2. \A j \in 1 .. Len(wc) : wc[j] = IF j < m THEN wt[j] ELSE wt[j + 1]
      BY <2>1, <2>2
    <3>3. wc \in Seq(DirEntry) /\ wt \in Seq(DirEntry)
      BY <2>1
    <3>. QED BY <3>1, <3>2, <3>3, ChainEndWithout
  <2>4. Weigh(t[m]) = RecLen(t[m].name)
    BY DEF Weigh
  <2>5. ChainEnd(wc) \in Nat /\ ChainEnd(wt) \in Nat /\ RecLen(t[m].name) \in Nat
    <3>1. t[m] \in DirEntry
      BY <1>1
    <3>2. t[m].name \in Names
      BY <3>1 DEF DirEntry
    <3>. QED BY <2>1, <3>2, ChainEndType, NamesType
  <2>. QED BY <2>1, <2>3, <2>4, <2>5 DEF NameBytes, wc, wt
<1>. QED BY <1>4, <1>5, <1>6

(* A new name keeps a chain tidy, and so does the removal of one; what the  *)
(* chain says of it goes with it.                                           *)
LEMMA GainsTidy ==
  ASSUME NEW c \in Seq(DirEntry), NEW t \in Seq(DirEntry), NEW m, Without(t, c, m), NEW p,
         Tidy(c, p), \A k \in DOMAIN c : ~ IsName(c[k], t[m].name, t[m].file_type)
  PROVE  Tidy(t, p)
<1>. DEFINE At(j) == IF j < m THEN j ELSE j + 1
<1>1. /\ m \in 2 .. Len(t) /\ Len(t) = Len(c) + 1 /\ Len(c) \in Nat /\ m \in DOMAIN t
      /\ DOMAIN t = 1 .. Len(c) + 1 /\ DOMAIN c = 1 .. Len(c)
  BY DEF Without
<1>2. \A j \in DOMAIN c : Alike(c[j], t[At(j)])
  BY <1>1 DEF Without
<1>3. ASSUME NEW k \in DOMAIN t, k # m
      PROVE  \E j \in DOMAIN c : At(j) = k
  <2>1. CASE k < m
    <3>1. k \in DOMAIN c
      BY <1>1, <2>1
    <3>. QED BY <2>1, <3>1
  <2>2. CASE ~ (k < m)
    <3>1. k - 1 \in DOMAIN c /\ ~ (k - 1 < m) /\ (k - 1) + 1 = k
      BY <1>1, <1>3, <2>2
    <3>. QED BY <3>1
  <2>. QED BY <2>1, <2>2
<1>4. 1 \in DOMAIN t /\ Alike(c[1], t[1])
  <2>1. 1 \in DOMAIN c /\ 1 < m
    BY <1>1 DEF Tidy
  <2>2. At(1) = 1
    BY <2>1
  <2>. QED BY <1>1, <1>2, <2>1, <2>2
<1>. HIDE DEF At
<1>5. ASSUME NEW j \in DOMAIN t, NEW k \in DOMAIN t, IsName(t[j], t[k].name, t[k].file_type)
      PROVE  j = k
  <2>1. CASE j = m /\ k # m
    <3>1. PICK a \in DOMAIN c : At(a) = k
      BY <1>3, <2>1
    <3>. QED BY <1>2, <1>5, <2>1, <3>1 DEF IsName, Alike
  <2>2. CASE j # m /\ k = m
    <3>1. PICK a \in DOMAIN c : At(a) = j
      BY <1>3, <2>2
    <3>. QED BY <1>2, <1>5, <2>2, <3>1 DEF IsName, Alike
  <2>3. CASE j # m /\ k # m
    <3>1. PICK a \in DOMAIN c : At(a) = j
      BY <1>3, <2>3
    <3>2. PICK b \in DOMAIN c : At(b) = k
      BY <1>3, <2>3
    <3>3. IsName(c[a], c[b].name, c[b].file_type)
      BY <1>2, <1>5, <3>1, <3>2 DEF IsName, Alike
    <3>. QED BY <3>1, <3>2, <3>3 DEF Tidy
  <2>. QED BY <2>1, <2>2, <2>3
<1>. QED BY <1>4, <1>5 DEF Tidy, IsName, Alike

LEMMA LosesTidy ==
  ASSUME NEW c \in Seq(DirEntry), NEW t \in Seq(DirEntry), NEW m, Without(t, c, m), NEW p,
         Tidy(t, p)
  PROVE  /\ Tidy(c, p)
         /\ Said(t[m], p) \notin Says(c, p)
<1>. DEFINE At(j) == IF j < m THEN j ELSE j + 1
<1>1. /\ m \in 2 .. Len(t) /\ Len(t) = Len(c) + 1 /\ Len(c) \in Nat /\ m \in DOMAIN t
      /\ DOMAIN t = 1 .. Len(c) + 1 /\ DOMAIN c = 1 .. Len(c)
  BY DEF Without
<1>2. \A j \in DOMAIN c : At(j) \in DOMAIN t /\ At(j) # m /\ Alike(c[j], t[At(j)])
  BY <1>1 DEF Without
<1>3. \A j, k \in DOMAIN c : At(j) = At(k) => j = k
  BY <1>1
<1>4. 1 \in DOMAIN c /\ Alike(c[1], t[1])
  <2>1. 1 \in DOMAIN c /\ 1 < m
    BY <1>1
  <2>2. At(1) = 1
    BY <2>1
  <2>. QED BY <1>1, <1>2, <2>1, <2>2
<1>. HIDE DEF At
<1>5. ASSUME NEW j \in DOMAIN c, NEW k \in DOMAIN c, IsName(c[j], c[k].name, c[k].file_type)
      PROVE  j = k
  <2>1. IsName(t[At(j)], t[At(k)].name, t[At(k)].file_type)
    BY <1>2, <1>5 DEF IsName, Alike
  <2>. QED BY <1>2, <1>3, <2>1 DEF Tidy
<1>6. Tidy(c, p)
  BY <1>4, <1>5 DEF Tidy, IsName, Alike
<1>7. ASSUME Said(t[m], p) \in Says(c, p)
      PROVE  FALSE
  <2>1. PICK j \in DOMAIN c : Said(t[m], p) = Said(c[j], p)
    BY <1>7 DEF Says
  <2>2. IsName(t[At(j)], t[m].name, t[m].file_type)
    BY <1>2, <2>1 DEF IsName, Alike, Said
  <2>. QED BY <1>1, <1>2, <2>2 DEF Tidy
<1>. QED BY <1>6, <1>7

(* The one block of a directory, and what all directories list.             *)
Chain(d, p) == d.dirents[d.inode_table[p].block[1]]
Lists(d) == UNION {Says(Chain(d, p), p) : p \in LiveDirs(d)}

NeatDir(d, p) ==
  /\ \E b \in Blocks : d.inode_table[p].block = <<b>>
  /\ d.inode_table[p].sub = <<>>
  /\ Tidy(Chain(d, p), p)
  /\ d.inode_table[p].size >= EmptySize + NameBytes(Chain(d, p))

Neat(d) ==
  /\ \A p \in LiveDirs(d) : NeatDir(d, p)
  /\ {o.inode : o \in Lists(d)} = d.inode_bitmap \ {1}
  /\ \A o \in Lists(d) : d.inode_table[o.inode].type = FT_DIR => o.type = FT_DIR
  /\ 1 \in LiveDirs(d) => Ups(Chain(d, 1)) = {1}
  /\ \A o \in Lists(d) : o.inode \in LiveDirs(d) => Ups(Chain(d, o.inode)) = {o.parent}

LEMMA SaidFields ==
  ASSUME NEW c, NEW p, NEW o \in Says(c, p)
  PROVE  /\ o.parent = p
         /\ \E k \in DOMAIN c : ~ IsDots(c[k]) /\ o = Said(c[k], p) /\ o.inode = c[k].inode
BY DEF Says, Said

LEMMA ChainType ==
  ASSUME NEW d \in Disk, NEW p, NEW b \in Blocks, d.inode_table[p].block = <<b>>
  PROVE  Chain(d, p) = d.dirents[b] /\ Chain(d, p) \in Seq(DirEntry)
<1>1. <<b>>[1] = b
  OBVIOUS
<1>. QED BY <1>1 DEF Chain, Disk

LEMMA NeatChain ==
  ASSUME NEW d \in Disk, Neat(d), NEW p \in LiveDirs(d)
  PROVE  Chain(d, p) \in Seq(DirEntry) /\ Tidy(Chain(d, p), p) /\ p \in Inodes
BY ChainType DEF Neat, NeatDir, LiveDirs, Disk

(* Nothing changed but sizes of directories, upward.                        *)
LEMMA NeatSame ==
  ASSUME NEW c, NEW d, Neat(c), d.inode_bitmap = c.inode_bitmap,
         \A i \in c.inode_bitmap : d.inode_table[i].type = FT_DIR <=> c.inode_table[i].type = FT_DIR,
         \A p \in LiveDirs(c) : /\ d.inode_table[p].block = c.inode_table[p].block
                                /\ d.inode_table[p].sub = c.inode_table[p].sub
                                /\ Chain(d, p) = Chain(c, p)
                                /\ d.inode_table[p].size >= EmptySize + NameBytes(Chain(c, p))
  PROVE  Neat(d) /\ Lists(d) = Lists(c)
<1>1. LiveDirs(d) = LiveDirs(c)
  BY DEF LiveDirs
<1>2. Lists(d) = Lists(c)
  <2>1. \A p \in LiveDirs(c) : Says(Chain(d, p), p) = Says(Chain(c, p), p)
    OBVIOUS
  <2>. QED BY <1>1, <2>1 DEF Lists
<1>3. \A p \in LiveDirs(d) : NeatDir(d, p)
  BY <1>1 DEF Neat, NeatDir
<1>4. \A o \in Lists(c) : o.inode \in c.inode_bitmap
  BY DEF Neat
<1>5. \A o \in Lists(d) : d.inode_table[o.inode].type = FT_DIR => o.type = FT_DIR
  BY <1>2, <1>4 DEF Neat
<1>6. /\ 1 \in LiveDirs(d) => Ups(Chain(d, 1)) = {1}
      /\ \A o \in Lists(d) : o.inode \in LiveDirs(d) => Ups(Chain(d, o.inode)) = {o.parent}
  BY <1>1, <1>2 DEF Neat
<1>7. {o.inode : o \in Lists(d)} = d.inode_bitmap \ {1}
  BY <1>2 DEF Neat
<1>. QED BY <1>2, <1>3, <1>5, <1>6, <1>7 DEF Neat

(* A new inode i, named by one more entry of p, which may be a directory.   *)
Grows1(c, d, p, i, m) ==
  /\ p \in LiveDirs(c) /\ i \notin c.inode_bitmap /\ d.inode_bitmap = c.inode_bitmap \cup {i}
  /\ \A j \in c.inode_bitmap : d.inode_table[j].type = c.inode_table[j].type
  /\ \A q \in LiveDirs(c) : /\ d.inode_table[q].block = c.inode_table[q].block
                            /\ d.inode_table[q].sub = c.inode_table[q].sub
                            /\ q # p => /\ Chain(d, q) = Chain(c, q)
                                        /\ d.inode_table[q].size = c.inode_table[q].size
  /\ d.inode_table[p].size = c.inode_table[p].size + RecLen(Chain(d, p)[m].name)
  /\ Without(Chain(d, p), Chain(c, p), m)
  /\ LET e == Chain(d, p)[m]
     IN  /\ e.inode = i /\ ~ IsDots(e)
         /\ \A k \in DOMAIN Chain(c, p) : ~ IsName(Chain(c, p)[k], e.name, e.file_type)
         /\ i \in LiveDirs(d) => /\ e.file_type = FT_DIR /\ NeatDir(d, i)
                                 /\ Says(Chain(d, i), i) = {} /\ Ups(Chain(d, i)) = {p}

LEMMA NeatGrows ==
  ASSUME NEW c \in Disk, NEW d \in Disk, Neat(c), 1 \in c.inode_bitmap,
         NEW p, NEW i, NEW m, Grows1(c, d, p, i, m)
  PROVE  Neat(d) /\ Lists(d) = Lists(c) \cup {Said(Chain(d, p)[m], p)}
<1>. DEFINE e == Chain(d, p)[m]
            s == Chain(c, p)
            t == Chain(d, p)
            new == Said(e, p)
<1>1. p \in LiveDirs(c) /\ i \notin c.inode_bitmap /\ d.inode_bitmap = c.inode_bitmap \cup {i}
  BY DEF Grows1
<1>2. /\ LiveDirs(c) = LiveDirs(d) \ {i} /\ i \notin LiveDirs(c)
      /\ p \in LiveDirs(d) /\ p # i
  BY <1>1 DEF LiveDirs, Grows1
<1>3. s \in Seq(DirEntry) /\ Tidy(s, p) /\ NeatDir(c, p)
  BY <1>1, NeatChain DEF Neat
<1>4. t \in Seq(DirEntry)
  <2>1. PICK b \in Blocks : d.inode_table[p].block = <<b>>
    BY <1>1, <1>3 DEF NeatDir, Grows1
  <2>. QED BY <2>1, ChainType
<1>5. /\ Without(t, s, m) /\ e.inode = i /\ ~ IsDots(e)
      /\ \A k \in DOMAIN s : ~ IsName(s[k], e.name, e.file_type)
      /\ i \in LiveDirs(d) => /\ e.file_type = FT_DIR /\ NeatDir(d, i)
                              /\ Says(Chain(d, i), i) = {} /\ Ups(Chain(d, i)) = {p}
  BY DEF Grows1
<1>6. /\ \A q \in LiveDirs(c) : /\ d.inode_table[q].block = c.inode_table[q].block
                                /\ d.inode_table[q].sub = c.inode_table[q].sub
                                /\ q # p => /\ Chain(d, q) = Chain(c, q)
                                            /\ d.inode_table[q].size = c.inode_table[q].size
      /\ d.inode_table[p].size = c.inode_table[p].size + RecLen(e.name)
      /\ \A j \in c.inode_bitmap : d.inode_table[j].type = c.inode_table[j].type
  BY DEF Grows1
<1>7. new.inode = i /\ new.parent = p /\ new.type = e.file_type
  BY <1>5 DEF Said
<1>. HIDE DEF e, s, t, new
<1>8. /\ Says(t, p) = Says(s, p) \cup {new} /\ Ups(t) = Ups(s)
      /\ NameBytes(t) = NameBytes(s) + RecLen(e.name)
  BY <1>3, <1>4, <1>5, WithoutOne DEF e, t, new
<1>9. Tidy(t, p)
  BY <1>3, <1>4, <1>5, GainsTidy DEF e, t
<1>10. \A q \in LiveDirs(d) : NeatDir(d, q)
  <2>1. ASSUME NEW q \in LiveDirs(d), q # i, q # p
        PROVE  NeatDir(d, q)
    BY <1>2, <1>6, <2>1 DEF NeatDir, Neat
  <2>2. NeatDir(d, p)
    <3>1. d.inode_table[p].size >= EmptySize + NameBytes(t)
      <4>1. NameBytes(s) \in Nat /\ NameBytes(t) \in Nat /\ c.inode_table[p].size \in Nat /\ EmptySize \in Nat
        <5>1. c.inode_table[p] \in Inode
          BY <1>1, InodeType, NeatChain
        <5>. QED BY <1>3, <1>4, <5>1, NameBytesType DEF Inode, EmptySize
      <4>2. c.inode_table[p].size >= EmptySize + NameBytes(s)
        BY <1>3 DEF NeatDir, s
      <4>3. RecLen(e.name) = NameBytes(t) - NameBytes(s)
        <5>1. RecLen(e.name) \in Nat
          <6>1. m \in DOMAIN t
            BY <1>4, <1>5 DEF Without
          <6>2. e \in DirEntry
            BY <1>4, <6>1 DEF e, t
          <6>3. e.name \in Names
            BY <6>2 DEF DirEntry
          <6>. QED BY <6>3, NamesType
        <5>. QED BY <1>8, <4>1, <5>1
      <4>. QED BY <1>6, <4>1, <4>2, <4>3
    <3>. QED BY <1>1, <1>3, <1>6, <1>9, <3>1 DEF NeatDir, t
  <2>. QED BY <1>5, <2>1, <2>2
<1>11. Lists(d) = Lists(c) \cup {new}
  <2>1. \A q \in LiveDirs(c) : q # p => Says(Chain(d, q), q) = Says(Chain(c, q), q)
    BY <1>6
  <2>2. i \in LiveDirs(d) => Says(Chain(d, i), i) = {}
    BY <1>5
  <2>3. Says(Chain(d, p), p) = Says(Chain(c, p), p) \cup {new}
    BY <1>8 DEF s, t
  <2>. QED BY <1>1, <1>2, <2>1, <2>2, <2>3 DEF Lists
<1>12. {o.inode : o \in Lists(c)} = c.inode_bitmap \ {1} /\ i # 1
  BY <1>1 DEF Neat
<1>13. {o.inode : o \in Lists(d)} = d.inode_bitmap \ {1}
  <2>1. {o.inode : o \in Lists(d)} = {o.inode : o \in Lists(c)} \cup {i}
    BY <1>7, <1>11
  <2>. QED BY <1>1, <1>12, <2>1
<1>14. \A o \in Lists(c) : o.inode \in c.inode_bitmap /\ o.inode # i
  BY <1>1, <1>12
<1>15. \A o \in Lists(d) : d.inode_table[o.inode].type = FT_DIR => o.type = FT_DIR
  <2>1. \A o \in Lists(c) : d.inode_table[o.inode].type = FT_DIR => o.type = FT_DIR
    BY <1>6, <1>14 DEF Neat
  <2>2. d.inode_table[i].type = FT_DIR => new.type = FT_DIR
    BY <1>1, <1>5, <1>7 DEF LiveDirs
  <2>. QED BY <1>7, <1>11, <2>1, <2>2
<1>16. \A q \in LiveDirs(c) : Ups(Chain(d, q)) = Ups(Chain(c, q))
  BY <1>6, <1>8 DEF s, t
<1>17. 1 \in LiveDirs(d) => Ups(Chain(d, 1)) = {1}
  BY <1>2, <1>12, <1>16 DEF Neat
<1>18. \A o \in Lists(d) : o.inode \in LiveDirs(d) => Ups(Chain(d, o.inode)) = {o.parent}
  <2>1. ASSUME NEW o \in Lists(c), o.inode \in LiveDirs(d)
        PROVE  Ups(Chain(d, o.inode)) = {o.parent}
    <3>1. o.inode \in LiveDirs(c)
      BY <1>2, <1>14, <2>1
    <3>. QED BY <1>16, <3>1 DEF Neat
  <2>2. i \in LiveDirs(d) => Ups(Chain(d, new.inode)) = {new.parent}
    BY <1>5, <1>7
  <2>. QED BY <1>7, <1>11, <2>1, <2>2
<1>19. Neat(d)
  BY <1>10, <1>13, <1>15, <1>17, <1>18 DEF Neat
<1>. QED BY <1>11, <1>19 DEF new, e

(* An inode i less, and the entry of p that named it.                       *)
Shrinks1(c, d, p, i, m) ==
  /\ p \in LiveDirs(c) /\ p # i /\ i # 1 /\ d.inode_bitmap = c.inode_bitmap \ {i}
  /\ \A j \in d.inode_bitmap : d.inode_table[j].type = c.inode_table[j].type
  /\ \A q \in LiveDirs(c) \ {i} : /\ d.inode_table[q].block = c.inode_table[q].block
                                  /\ d.inode_table[q].sub = c.inode_table[q].sub
                                  /\ q # p => /\ Chain(d, q) = Chain(c, q)
                                              /\ d.inode_table[q].size = c.inode_table[q].size
  /\ d.inode_table[p].size = c.inode_table[p].size - RecLen(Chain(c, p)[m].name)
  /\ Without(Chain(c, p), Chain(d, p), m)
  /\ Chain(c, p)[m].inode = i /\ ~ IsDots(Chain(c, p)[m])
  /\ i \in LiveDirs(c) => Says(Chain(c, i), i) = {}

LEMMA NeatShrinks ==
  ASSUME NEW c \in Disk, NEW d \in Disk, Neat(c), NEW p, NEW i, NEW m, Shrinks1(c, d, p, i, m),
         \A o, q \in Lists(c) : o.inode = q.inode => o = q
  PROVE  Neat(d) /\ Lists(d) = Lists(c) \ {Said(Chain(c, p)[m], p)}
<1>. DEFINE e == Chain(c, p)[m]
            t == Chain(c, p)
            s == Chain(d, p)
            old == Said(e, p)
<1>1. p \in LiveDirs(c) /\ p # i /\ i # 1 /\ d.inode_bitmap = c.inode_bitmap \ {i}
  BY DEF Shrinks1
<1>2. LiveDirs(d) = LiveDirs(c) \ {i} /\ p \in LiveDirs(d)
  BY <1>1 DEF LiveDirs, Shrinks1
<1>3. t \in Seq(DirEntry) /\ Tidy(t, p) /\ NeatDir(c, p)
  BY <1>1, NeatChain DEF Neat
<1>4. s \in Seq(DirEntry)
  <2>1. PICK b \in Blocks : d.inode_table[p].block = <<b>>
    BY <1>1, <1>3 DEF NeatDir, Shrinks1
  <2>. QED BY <2>1, ChainType
<1>5. /\ Without(t, s, m) /\ e.inode = i /\ ~ IsDots(e)
      /\ i \in LiveDirs(c) => Says(Chain(c, i), i) = {}
  BY DEF Shrinks1
<1>6. /\ \A q \in LiveDirs(c) \ {i} : /\ d.inode_table[q].block = c.inode_table[q].block
                                      /\ d.inode_table[q].sub = c.inode_table[q].sub
                                      /\ q # p => /\ Chain(d, q) = Chain(c, q)
                                                  /\ d.inode_table[q].size = c.inode_table[q].size
      /\ d.inode_table[p].size = c.inode_table[p].size - RecLen(e.name)
      /\ \A j \in d.inode_bitmap : d.inode_table[j].type = c.inode_table[j].type
  BY DEF Shrinks1
<1>7. old.inode = i /\ old.parent = p
  BY <1>5 DEF Said
<1>. HIDE DEF e, s, t, old
<1>8. /\ Says(t, p) = Says(s, p) \cup {old} /\ Ups(t) = Ups(s)
      /\ NameBytes(t) = NameBytes(s) + RecLen(e.name)
  BY <1>3, <1>4, <1>5, WithoutOne DEF e, t, old
<1>9. Tidy(s, p) /\ old \notin Says(s, p)
  BY <1>3, <1>4, <1>5, LosesTidy DEF e, t, old
<1>10. \A q \in LiveDirs(d) : NeatDir(d, q)
  <2>1. ASSUME NEW q \in LiveDirs(d), q # p
        PROVE  NeatDir(d, q)
    BY <1>2, <1>6, <2>1 DEF NeatDir, Neat
  <2>2. NeatDir(d, p)
    <3>1. d.inode_table[p].size >= EmptySize + NameBytes(s)
      <4>1. NameBytes(s) \in Nat /\ NameBytes(t) \in Nat /\ c.inode_table[p].size \in Nat /\ EmptySize \in Nat
        <5>1. c.inode_table[p] \in Inode
          BY <1>1, InodeType, NeatChain
        <5>. QED BY <1>3, <1>4, <5>1, NameBytesType DEF Inode, EmptySize
      <4>2. c.inode_table[p].size >= EmptySize + NameBytes(t)
        BY <1>3 DEF NeatDir, t
      <4>3. RecLen(e.name) = NameBytes(t) - NameBytes(s)
        <5>1. RecLen(e.name) \in Nat
          <6>1. m \in DOMAIN t
            BY <1>3, <1>5 DEF Without
          <6>2. e \in DirEntry
            BY <1>3, <6>1 DEF e, t
          <6>3. e.name \in Names
            BY <6>2 DEF DirEntry
          <6>. QED BY <6>3, NamesType
        <5>. QED BY <1>8, <4>1, <5>1
      <4>. QED BY <1>6, <4>1, <4>2, <4>3
    <3>. QED BY <1>1, <1>3, <1>6, <1>9, <3>1 DEF NeatDir, s
  <2>. QED BY <2>1, <2>2
<1>11. Lists(d) = Lists(c) \ {old}
  <2>1. \A q \in LiveDirs(d) : q # p => Says(Chain(d, q), q) = Says(Chain(c, q), q)
    BY <1>2, <1>6
  <2>2. i \in LiveDirs(c) => Says(Chain(c, i), i) = {}
    BY <1>5
  <2>3. Says(Chain(d, p), p) = Says(Chain(c, p), p) \ {old}
    BY <1>8, <1>9 DEF s, t
  <2>4. \A q : q # p => old \notin Says(Chain(c, q), q)
    BY <1>7, SaidFields
  <2>5. ASSUME NEW o \in Lists(d)
        PROVE  o \in Lists(c) \ {old}
    <3>1. PICK q \in LiveDirs(d) : o \in Says(Chain(d, q), q)
      BY DEF Lists
    <3>2. o \in Says(Chain(c, q), q) /\ o # old
      BY <2>1, <2>3, <2>4, <3>1
    <3>. QED BY <1>2, <3>1, <3>2 DEF Lists
  <2>6. ASSUME NEW o \in Lists(c) \ {old}
        PROVE  o \in Lists(d)
    <3>1. PICK q \in LiveDirs(c) : o \in Says(Chain(c, q), q)
      BY DEF Lists
    <3>2. q \in LiveDirs(d) /\ o \in Says(Chain(d, q), q)
      BY <1>2, <2>1, <2>2, <2>3, <3>1
    <3>. QED BY <3>2 DEF Lists
  <2>. QED BY <2>5, <2>6
<1>12. {o.inode : o \in Lists(c)} = c.inode_bitmap \ {1} /\ old \in Lists(c)
  <2>1. old \in Says(Chain(c, p), p)
    BY <1>8 DEF t
  <2>. QED BY <1>1, <2>1 DEF Neat, Lists
<1>13. \A o \in Lists(d) : o \in Lists(c) /\ o.inode # i
  BY <1>7, <1>11, <1>12
<1>14. {o.inode : o \in Lists(d)} = d.inode_bitmap \ {1}
  <2>1. ASSUME NEW j \in d.inode_bitmap \ {1}
        PROVE  j \in {o.inode : o \in Lists(d)}
    <3>1. PICK o \in Lists(c) : o.inode = j
      BY <1>1, <1>12
    <3>2. o # old
      BY <1>1, <1>7, <3>1
    <3>. QED BY <1>11, <3>1, <3>2
  <2>2. ASSUME NEW o \in Lists(d)
        PROVE  o.inode \in d.inode_bitmap \ {1}
    BY <1>1, <1>12, <1>13
  <2>. QED BY <2>1, <2>2
<1>15. \A o \in Lists(d) : d.inode_table[o.inode].type = FT_DIR => o.type = FT_DIR
  <2>. SUFFICES ASSUME NEW o \in Lists(d), d.inode_table[o.inode].type = FT_DIR
                PROVE  o.type = FT_DIR
    OBVIOUS
  <2>1. o.inode \in d.inode_bitmap /\ o \in Lists(c)
    BY <1>13, <1>14
  <2>. QED BY <1>6, <2>1 DEF Neat
<1>16. \A q \in LiveDirs(d) : Ups(Chain(d, q)) = Ups(Chain(c, q))
  BY <1>2, <1>6, <1>8 DEF s, t
<1>17. 1 \in LiveDirs(d) => Ups(Chain(d, 1)) = {1}
  BY <1>2, <1>16 DEF Neat
<1>18. \A o \in Lists(d) : o.inode \in LiveDirs(d) => Ups(Chain(d, o.inode)) = {o.parent}
  BY <1>2, <1>13, <1>16 DEF Neat
<1>19. Neat(d)
  BY <1>10, <1>14, <1>15, <1>17, <1>18 DEF Neat
<1>. QED BY <1>11, <1>19 DEF old, e

(* The walk of a directory of one block.                                    *)
LEMMA OneWalked ==
  ASSUME NEW n \in Inode, NEW b \in Blocks, n.block = <<b>>, n.sub = <<>>
  PROVE  DataBlocks(n) = <<b>> /\ Len(Direct(n)) = 1 /\ Direct(n)[1] = b /\ Owned(n) = {b}
<1>. DEFINE s == Direct(n)
<1>1. Len(n.block) = 1 /\ n.block[1] = b /\ DIRECT \in Nat /\ 1 <= DIRECT
  BY ConstAssumption
<1>2. s \in Seq(Blocks) /\ Len(s) = 1 /\ s[1] = b
  <2>1. s \in Seq(Blocks) /\ Len(s) = Len(n.block) /\ \A k \in 1 .. Len(s) : s[k] = n.block[k]
    BY <1>1, DirectType
  <2>. HIDE DEF s
  <2>. QED BY <1>1, <2>1
<1>3. s = <<b>>
  <2>. HIDE DEF s
  <2>. QED BY <1>2
<1>4. DataBlocks(n) = <<b>>
  <2>1. DataBlocks(n) = s \o <<>>
    BY DEF DataBlocks
  <2>. HIDE DEF s
  <2>. QED BY <1>2, <1>3, <2>1
<1>5. Range(<<b>>) = {b} /\ Range(<<>>) = {}
  BY DEF Range
<1>6. Owned(n) = {b}
  BY <1>5 DEF Owned
<1>. QED BY <1>2, <1>4, <1>6

(* What a scan of a chain finds, and what it is that it does not find.      *)
LEMMA SearchSays ==
  ASSUME NEW c \in Seq(DirEntry), NEW name, NEW type, NEW r, r = search_file_name(c, name, type)
  PROVE  IF r = 0 THEN \A k \in DOMAIN c : ~ IsName(c[k], name, type)
         ELSE \E k \in DOMAIN c : IsName(c[k], name, type) /\ c[k].inode = r
<1>1. CASE r # 0
  BY <1>1, SearchFileFound DEF IsName
<1>2. CASE r = 0
  <2>. DEFINE I == {i \in 1 .. Len(c) : c[i].name = name /\ c[i].file_type = type}
              k == IF I # {} THEN Min(I) ELSE 0
  <2>0. r = IF k = 0 THEN 0 ELSE c[k].inode
    BY DEF search_file_name, SelectInSeq
  <2>1. I \subseteq Nat /\ 0 \notin I /\ I \subseteq DOMAIN c
    OBVIOUS
  <2>2. I # {} => k \in I
    <3>. HIDE DEF I
    <3>. QED BY <2>1, MinOfNats
  <2>3. I = {}
    <3>. SUFFICES ASSUME I # {} PROVE FALSE
      OBVIOUS
    <3>1. k \in DOMAIN c /\ k # 0
      <4>. HIDE DEF I, k
      <4>. QED BY <2>1, <2>2
    <3>2. c[k] \in DirEntry
      BY <3>1
    <3>3. c[k].inode # 0
      <4>. HIDE DEF k
      <4>. QED BY <3>2 DEF DirEntry, Inodes
    <3>. HIDE DEF k
    <3>. QED BY <1>2, <2>0, <3>1, <3>3
  <2>. QED BY <1>2, <2>3 DEF IsName
<1>. QED BY <1>1, <1>2

LEMMA SearchOne ==
  ASSUME NEW d \in Disk, NEW p \in Inodes, NEW b \in Blocks,
         d.inode_table[p].block = <<b>>, d.inode_table[p].sub = <<>>, NEW name, NEW type
  PROVE  handle_search_inode(d, p, name, type) = search_file_name(Chain(d, p), name, type)
<1>. DEFINE bs == DataBlocks(d.inode_table[p])
            r == search_file_name(d.dirents[b], name, type)
            I == {i \in 1 .. Len(bs) : search_file_name(d.dirents[bs[i]], name, type) # 0}
            k == IF I # {} THEN Min(I) ELSE 0
<1>1. bs = <<b>> /\ Chain(d, p) = d.dirents[b]
  BY OneWalked, InodeType, ChainType
<1>2. handle_search_inode(d, p, name, type)
        = IF k = 0 THEN 0 ELSE search_file_name(d.dirents[bs[k]], name, type)
  BY DEF handle_search_inode, SelectInSeq
<1>. HIDE DEF bs
<1>3. Len(bs) = 1 /\ bs[1] = b
  BY <1>1
<1>4. CASE r = 0
  <2>1. I = {}
    BY <1>3, <1>4
  <2>. QED BY <1>1, <1>2, <1>4, <2>1
<1>5. CASE r # 0
  <2>1. I = {1}
    BY <1>3, <1>5
  <2>2. Min(I) \in I
    <3>. HIDE DEF I
    <3>. QED BY <2>1, MinOfNats
  <2>3. k = 1
    <3>. HIDE DEF I
    <3>. QED BY <2>1, <2>2
  <2>. HIDE DEF k
  <2>. QED BY <1>1, <1>2, <1>3, <2>3
<1>. QED BY <1>4, <1>5

LEMMA DeleteOne ==
  ASSUME NEW d \in Disk, NEW p \in Inodes, NEW b \in Blocks,
         d.inode_table[p].block = <<b>>, d.inode_table[p].sub = <<>>, NEW name, NEW type
  PROVE  LET e == DeleteEntry(d, p, name, type)
         IN  /\ e.dirents[b] = delete_dir_entry(d.dirents[b], name, type)
             /\ \A a \in Blocks : a # b => e.dirents[a] = d.dirents[a]
<1>. DEFINE bs == DataBlocks(d.inode_table[p])
            I == {i \in 1 .. Len(bs) : DeletableAt(d.dirents[bs[i]], name, type) # 0}
            k == IF I # {} THEN Min(I) ELSE 0
            e == DeleteEntry(d, p, name, type)
<1>1. bs = <<b>>
  BY OneWalked, InodeType
<1>2. e = IF k = 0 THEN d
          ELSE [d EXCEPT !.dirents[bs[k]] = delete_dir_entry(@, name, type)]
  BY DEF DeleteEntry, SelectInSeq
<1>. HIDE DEF bs, e
<1>3. Len(bs) = 1 /\ bs[1] = b
  BY <1>1
<1>4. CASE DeletableAt(d.dirents[b], name, type) = 0
  <2>1. I = {}
    BY <1>3, <1>4
  <2>2. e = d
    BY <1>2, <2>1
  <2>3. delete_dir_entry(d.dirents[b], name, type) = d.dirents[b]
    BY <1>4 DEF delete_dir_entry
  <2>. QED BY <2>2, <2>3 DEF e
<1>5. CASE DeletableAt(d.dirents[b], name, type) # 0
  <2>1. I = {1}
    BY <1>3, <1>5
  <2>2. Min(I) \in I
    <3>. HIDE DEF I
    <3>. QED BY <2>1, MinOfNats
  <2>3. k = 1
    <3>. HIDE DEF I
    <3>. QED BY <2>1, <2>2
  <2>. HIDE DEF k
  <2>4. e = [d EXCEPT !.dirents[b] = delete_dir_entry(@, name, type)]
    BY <1>2, <1>3, <2>3
  <2>5. e.dirents = [d.dirents EXCEPT ![b] = delete_dir_entry(@, name, type)]
    BY <2>4 DEF Disk
  <2>6. d.dirents \in [Blocks -> Seq(DirEntry)]
    BY DEF Disk
  <2>. QED BY <2>5, <2>6 DEF e
<1>. QED BY <1>4, <1>5

(* The entries of a directory of one block, as its one chain has them.      *)
LEMMA PlacesOne ==
  ASSUME NEW d \in Disk, NEW p \in Inodes, NEW b \in Blocks,
         d.inode_table[p].block = <<b>>, d.inode_table[p].sub = <<>>
  PROVE  LET c == Chain(d, p)
         IN  /\ \A k \in DOMAIN c : ~ IsDots(c[k]) => /\ <<b, k>> \in ChildPlaces(d, p)
                                                      /\ EntryAt(d, <<b, k>>) = c[k]
             /\ \A at \in ChildPlaces(d, p) : /\ at = <<b, at[2]>> /\ at[2] \in DOMAIN c
                                              /\ EntryAt(d, at) = c[at[2]] /\ ~ IsDots(c[at[2]])
<1>. DEFINE c == Chain(d, p)
            C == ChildPlaces(d, p)
<1>1. DataBlocks(d.inode_table[p]) = <<b>> /\ c = d.dirents[b]
  BY OneWalked, InodeType, ChainType
<1>2. Range(<<b>>) = {b}
  BY DEF Range
<1>3. C = {at \in {b} \X DOMAIN c : ~ IsDots(EntryAt(d, at))}
  <2>1. C = {at \in UNION {{a} \X DOMAIN d.dirents[a] : a \in {b}} : ~ IsDots(EntryAt(d, at))}
    BY <1>1, <1>2 DEF ChildPlaces
  <2>2. UNION {{a} \X DOMAIN d.dirents[a] : a \in {b}} = {b} \X DOMAIN c
    BY <1>1
  <2>. QED BY <2>1, <2>2
<1>4. \A k \in DOMAIN c : EntryAt(d, <<b, k>>) = c[k]
  BY <1>1 DEF EntryAt
<1>. HIDE DEF c, C
<1>5. ASSUME NEW k \in DOMAIN c, ~ IsDots(c[k])
      PROVE  <<b, k>> \in C
  BY <1>3, <1>4, <1>5
<1>6. ASSUME NEW at \in C
      PROVE  /\ at = <<b, at[2]>> /\ at[2] \in DOMAIN c
             /\ EntryAt(d, at) = c[at[2]] /\ ~ IsDots(c[at[2]])
  <2>1. at \in {b} \X DOMAIN c /\ ~ IsDots(EntryAt(d, at))
    BY <1>3, <1>6
  <2>2. at = <<b, at[2]>> /\ at[2] \in DOMAIN c
    BY <2>1
  <2>3. EntryAt(d, at) = c[at[2]]
    BY <1>4, <2>2, Zenon
  <2>. QED BY <2>1, <2>2, <2>3
<1>. QED BY <1>4, <1>5, <1>6 DEF c, C

LEMMA ListsAreObjects ==
  ASSUME NEW d \in Disk, Neat(d)
  PROVE  Objects(d) = Lists(d)
<1>1. ASSUME NEW p \in LiveDirs(d)
      PROVE  {[inode |-> e.inode, parent |-> p, name |-> e.name, type |-> e.file_type] :
                e \in Children(d, p)} = Says(Chain(d, p), p)
  <2>. DEFINE c == Chain(d, p)
  <2>1. PICK b \in Blocks : d.inode_table[p].block = <<b>> /\ d.inode_table[p].sub = <<>>
    BY DEF Neat, NeatDir
  <2>2. p \in Inodes
    BY DEF LiveDirs, Disk
  <2>3. /\ \A k \in DOMAIN c : ~ IsDots(c[k]) => /\ <<b, k>> \in ChildPlaces(d, p)
                                                 /\ EntryAt(d, <<b, k>>) = c[k]
        /\ \A at \in ChildPlaces(d, p) : /\ at = <<b, at[2]>> /\ at[2] \in DOMAIN c
                                         /\ EntryAt(d, at) = c[at[2]] /\ ~ IsDots(c[at[2]])
    BY <2>1, <2>2, PlacesOne
  <2>. HIDE DEF c
  <2>4. \A e : e \in Children(d, p) <=> \E k \in DOMAIN c : ~ IsDots(c[k]) /\ e = c[k]
    <3>1. ASSUME NEW e \in Children(d, p)
          PROVE  \E k \in DOMAIN c : ~ IsDots(c[k]) /\ e = c[k]
      <4>1. PICK at \in ChildPlaces(d, p) : e = EntryAt(d, at)
        BY DEF Children
      <4>. QED BY <2>3, <4>1
    <3>2. ASSUME NEW k \in DOMAIN c, ~ IsDots(c[k])
          PROVE  c[k] \in Children(d, p)
      BY <2>3, <3>2 DEF Children
    <3>. QED BY <3>1, <3>2
  <2>5. {[inode |-> e.inode, parent |-> p, name |-> e.name, type |-> e.file_type] :
                e \in Children(d, p)} = {Said(e, p) : e \in Children(d, p)}
    BY DEF Said
  <2>6. {Said(e, p) : e \in Children(d, p)} = Says(c, p)
    BY <2>4 DEF Says
  <2>. QED BY <2>5, <2>6 DEF c
<1>. QED BY <1>1 DEF Objects, Lists

(* An entry stored without a second block goes into the first.              *)
LEMMA AppendAlone ==
  ASSUME NEW d, Sound(d), NEW p \in Inodes, NEW b \in Blocks,
         d.inode_table[p].block = <<b>>, NEW x \in DirEntry,
         handle_append_directory(d, p, x), status' # "undefined",
         Len(disk'.inode_table[p].block) <= 1
  PROVE  disk' = AppendEntry(d, b, x) /\ Saves(disk', "shell")
<1>. DEFINE n == d.inode_table[p]
            k == FirstWithRoom(d, p, x)
            a == NextBlock(d)
            e == AddBlock(d, p)
<1>0. d \in Disk /\ Len(n.block) = 1 /\ n.block[1] = b /\ DIRECT \in Nat /\ 1 <= DIRECT
  BY ConstAssumption DEF Sound
<1>1. k \in {0, 1}
  <2>1. k \in {0} \cup DOMAIN n.block
    BY FirstWithRoomType
  <2>. HIDE DEF k
  <2>. QED BY <2>1
<1>2. \/ k > 0 /\ StoreEntry(d, n.block[k], x)
      \/ k = 0 /\ CanNewBlock(d) /\ StoreEntry(e, a, x)
      \/ k = 0 /\ Len(n.block) >= DIRECT /\ ReachIndex(d, p, "shell")
  BY DEF handle_append_directory, Undefined
<1>3. ASSUME CanNewBlock(d)
      PROVE  /\ Len(e.inode_table[p].block) = 2 /\ Sound(e) /\ a \in Blocks
  <2>1. e.inode_table[p].block = Append(n.block, a) /\ Sound(e)
    BY <1>3, AddBlockSound
  <2>2. a \in Blocks
    BY <1>3, NextBlockFree DEF FreeBlocks
  <2>. HIDE DEF e, a, n
  <2>3. Len(Append(n.block, a)) = 2
    <3>1. n.block = <<b>>
      BY DEF n
    <3>. QED BY <3>1
  <2>. QED BY <2>1, <2>2, <2>3
<1>. HIDE DEF k, a, e, n
<1>4. CASE k > 0 /\ StoreEntry(d, n.block[k], x)
  <2>1. StoreEntry(d, b, x)
    BY <1>0, <1>1, <1>4
  <2>. QED BY <2>1 DEF StoreEntry, Undefined, Saves
<1>5. CASE k = 0 /\ CanNewBlock(d) /\ StoreEntry(e, a, x)
  <2>1. disk' = AppendEntry(e, a, x)
    BY <1>5 DEF StoreEntry, Undefined, Saves
  <2>2. disk'.inode_table = e.inode_table
    BY <1>3, <1>5, <2>1, AppendEntryKeeps DEF Sound
  <2>3. Len(disk'.inode_table[p].block) = 2
    BY <1>3, <1>5, <2>2
  <2>. QED BY <2>3
<1>6. CASE k = 0 /\ Len(n.block) >= DIRECT /\ ReachIndex(d, p, "shell")
  <2>1. Len(d.inode_table[p].block) = DIRECT
    BY <1>0, <1>6 DEF n
  <2>2. CanNewBlock(d)
    BY <1>6, <2>1 DEF ReachIndex, Undefined
  <2>3. IndexBlock(d, p) = e
    BY <2>1 DEF IndexBlock, e
  <2>4. disk' = e \/ (CanNewBlock(e) /\ disk' = AddSub(e, p))
    BY <1>6, <2>2, <2>3 DEF ReachIndex, Undefined, Saves
  <2>5. disk'.inode_table[p].block = e.inode_table[p].block
    <3>1. CASE disk' = e
      BY <3>1
    <3>2. CASE CanNewBlock(e) /\ disk' = AddSub(e, p)
      <4>1. Sound(e)
        BY <1>3, <2>2
      <4>. QED BY <3>2, <4>1, AddBlockKeeps
    <3>. QED BY <2>4, <3>1, <3>2
  <2>6. Len(disk'.inode_table[p].block) = 2
    BY <1>3, <2>2, <2>5
  <2>. QED BY <2>6
<1>. QED BY <1>2, <1>4, <1>5, <1>6

(* The two entries of a new directory.                                      *)
LEMMA DotsChain ==
  ASSUME NEW i \in Inodes, NEW q \in Inodes, NEW c,
         c = <<NewEntry(Dot, FT_DIR, i), NewEntry(DotDot, FT_DIR, q)>>
  PROVE  /\ c \in Seq(DirEntry) /\ Tidy(c, i) /\ NameBytes(c) = 0
         /\ (\A p : Says(c, p) = {}) /\ Ups(c) = {q}
<1>. DEFINE x == NewEntry(Dot, FT_DIR, i)
            y == NewEntry(DotDot, FT_DIR, q)
            w == Weighed(c)
<1>1. x \in DirEntry /\ y \in DirEntry /\ Dot # DotDot
  BY ConstAssumption, NewEntryType
<1>2. /\ x.name = Dot /\ x.file_type = FT_DIR /\ x.inode = i
      /\ y.name = DotDot /\ y.file_type = FT_DIR /\ y.inode = q
  BY DEF NewEntry
<1>. HIDE DEF x, y
<1>3. c \in Seq(DirEntry) /\ Len(c) = 2 /\ c[1] = x /\ c[2] = y /\ DOMAIN c = {1, 2}
  BY <1>1 DEF x, y
<1>4. IsDots(x) /\ IsDots(y)
  BY <1>2 DEF IsDots
<1>5. NameBytes(c) = 0
  <2>1. /\ w \in Seq(DirEntry) /\ Len(w) = Len(c)
        /\ \A k \in 1 .. Len(c) : w[k].rec_len = Weigh(c[k])
    BY <1>3, WeighedType
  <2>. HIDE DEF w
  <2>2. w[1].rec_len = 0 /\ w[2].rec_len = 0 /\ Len(w) = 2
    BY <1>3, <1>4, <2>1 DEF Weigh
  <2>. DEFINE g == [k \in 0 .. 2 |-> 0]
  <2>3. Adds(g, Len(w), RecLens(w)) /\ g[Len(w)] = 0
    BY <2>2 DEF Adds, RecLens
  <2>. HIDE DEF g
  <2>4. ChainEnd(w) = g[Len(w)]
    BY <2>1, <2>3, ChainEndIs
  <2>. QED BY <2>3, <2>4 DEF NameBytes, w
<1>6. \A p : Says(c, p) = {}
  BY <1>3, <1>4 DEF Says
<1>7. Ups(c) = {q}
  BY <1>1, <1>2, <1>3 DEF Ups, IsName
<1>8. Tidy(c, i)
  BY <1>1, <1>2, <1>3 DEF Tidy, IsName
<1>. QED BY <1>3, <1>5, <1>6, <1>7, <1>8

LEMMA NewDirectoryIs ==
  ASSUME NEW d, Sound(d), CanNewBlock(d), NEW i \in Inodes, d.inode_table[i].sub = <<>>,
         NEW parent \in Inodes, NEW e, e = NewDirectory(d, i, parent)
  PROVE  /\ e \in Disk /\ NeatDir(e, i) /\ e.inode_table[i].type = FT_DIR
         /\ (\A p : Says(Chain(e, i), p) = {}) /\ Ups(Chain(e, i)) = {parent}
<1>. DEFINE b == NextBlock(d)
            t == TakeBlock(d, i)
            x == NewEntry(Dot, FT_DIR, i)
            y == NewEntry(DotDot, FT_DIR, parent)
            f == AppendEntry(t, b, x)
<1>1. /\ Sound(t) /\ t \in Disk /\ t.dirents = d.dirents /\ b \in t.block_bitmap
  BY TakeBlockSound DEF Sound
<1>2. /\ t.inode_table[i].block = <<b>> /\ t.inode_table[i].type = FT_DIR
      /\ t.inode_table[i].sub = <<>>
      /\ t.inode_table[i].size = RecLen(Dot) + RecLen(DotDot)
  BY TakeBlockKeeps
<1>3. b \in Blocks /\ d.dirents[b] = <<>>
  BY NextBlockFree DEF FreeBlocks, Sound, IsClean
<1>4. e = AppendEntry(f, b, y)
  BY DEF NewDirectory, TakeBlock, AppendDots
<1>5. /\ x \in DirEntry /\ y \in DirEntry /\ Slack(x) = 0
      /\ y.rec_len = RecLen(DotDot) /\ RecLen(DotDot) = 9 /\ RecLen(Dot) = 8
  <2>1. Dot \in Names /\ DotDot \in Names
    BY ConstAssumption
  <2>2. RecLen(DotDot) = 9 /\ RecLen(Dot) = 8
    BY ConstAssumption DEF RecLen
  <2>. QED BY <2>1, <2>2, NewEntryFits
<1>. HIDE DEF b, t, x, y, f
<1>6. /\ Sound(f) /\ f \in Disk /\ f.inode_table = t.inode_table /\ b \in f.block_bitmap
      /\ f.dirents[b] = append_dir_entry(<<>>, x)
  <2>1. t.dirents[b] = <<>>
    BY <1>1, <1>3
  <2>2. Sound(f) /\ f.block_bitmap = t.block_bitmap
    BY <1>1, <1>5, AppendEntrySound DEF f
  <2>. QED BY <1>1, <1>3, <2>1, <2>2, AppendEntryKeeps DEF f, Sound
<1>7. append_dir_entry(<<>>, x) = <<x>>
  <2>1. <<>> \in Seq(DirEntry) /\ Len(<<>>) = 0
    OBVIOUS
  <2>2. Splittable(<<>>, x) = 0
    <3>1. Splittable(<<>>, x) \in 0 .. Len(<<>>)
      BY <1>5, <2>1, SplittableType
    <3>. QED BY <2>1, <3>1
  <2>3. append_dir_entry(<<>>, x) = Append(<<>>, x)
    BY <2>2 DEF append_dir_entry
  <2>. QED BY <2>3
<1>8. append_dir_entry(<<x>>, y) = <<x, y>>
  <2>. DEFINE c == <<x>>
              k == Splittable(c, y)
  <2>1. c \in Seq(DirEntry) /\ Len(c) = 1 /\ c[1] = x
    BY <1>5
  <2>. HIDE DEF c
  <2>2. k \in 0 .. Len(c) /\ (k > 0 => Slack(c[k]) >= y.rec_len)
    BY <1>5, <2>1, SplittableType
  <2>. HIDE DEF k
  <2>3. k = 0
    BY <1>5, <2>1, <2>2
  <2>4. append_dir_entry(c, y) = Append(c, y)
    BY <2>3 DEF append_dir_entry, k
  <2>. DEFINE t2 == Append(c, y)
  <2>5. t2 \in Seq(DirEntry) /\ Len(t2) = 2 /\ t2[1] = x /\ t2[2] = y
    <3>1. c \in Seq(DirEntry) /\ y \in DirEntry
      BY <1>5, <2>1
    <3>2. /\ t2 \in Seq(DirEntry) /\ Len(t2) = Len(c) + 1 /\ t2[Len(c) + 1] = y
          /\ \A j \in 1 .. Len(c) : t2[j] = c[j]
      BY <3>1
    <3>. HIDE DEF t2
    <3>. QED BY <2>1, <3>2
  <2>. HIDE DEF t2
  <2>6. t2 = <<x, y>>
    BY <2>5
  <2>. QED BY <2>4, <2>6 DEF c, t2
<1>9. /\ e.inode_table = t.inode_table /\ e \in Disk
      /\ e.dirents[b] = <<x, y>>
  <2>1. e.inode_table = f.inode_table /\ e.dirents[b] = append_dir_entry(f.dirents[b], y)
    BY <1>3, <1>4, <1>6, AppendEntryKeeps
  <2>2. Sound(e)
    BY <1>4, <1>5, <1>6, AppendEntrySound
  <2>. QED BY <1>6, <1>7, <1>8, <2>1, <2>2 DEF Sound
<1>10. Chain(e, i) = <<x, y>>
  <2>1. e.inode_table[i].block = <<b>>
    BY <1>2, <1>9
  <2>. QED BY <1>3, <1>9, <2>1, ChainType
<1>. DEFINE c == Chain(e, i)
<1>11. /\ Tidy(c, i) /\ NameBytes(c) = 0 /\ (\A p : Says(c, p) = {}) /\ Ups(c) = {parent}
  <2>1. c = <<NewEntry(Dot, FT_DIR, i), NewEntry(DotDot, FT_DIR, parent)>>
    BY <1>10 DEF x, y
  <2>. HIDE DEF c
  <2>. QED BY <2>1, DotsChain
<1>12. NeatDir(e, i)
  <2>1. e.inode_table[i].size = EmptySize
    BY <1>2, <1>5, <1>9 DEF EmptySize
  <2>2. e.inode_table[i].size >= EmptySize + NameBytes(c)
    BY <1>11, <2>1 DEF EmptySize
  <2>3. e.inode_table[i].block = <<b>> /\ e.inode_table[i].sub = <<>>
    BY <1>2, <1>9
  <2>. QED BY <1>3, <1>11, <2>2, <2>3 DEF NeatDir
<1>. QED BY <1>2, <1>9, <1>11, <1>12

LEMMA FreshNeat ==
  ASSUME NEW pw \in Passwords, NEW d, d = initialize_disk(pw)
  PROVE  Neat(d) /\ Lists(d) = {}
<1>. DEFINE d2 == CountDir(new_inode(EmptyDisk(pw)))
<1>1. Sound(d2) /\ CanNewBlock(d2) /\ d2.inode_table[1].sub = <<>> /\ 1 \in Inodes
  BY RootTaken
<1>2. d = NewDirectory(d2, 1, 1)
  BY DEF initialize_disk
<1>. HIDE DEF d2
<1>3. /\ NeatDir(d, 1) /\ d.inode_table[1].type = FT_DIR
      /\ (\A p : Says(Chain(d, 1), p) = {}) /\ Ups(Chain(d, 1)) = {1}
  BY <1>1, <1>2, NewDirectoryIs
<1>4. d.inode_bitmap = {1}
  BY FreshHome
<1>5. LiveDirs(d) = {1}
  BY <1>3, <1>4 DEF LiveDirs
<1>6. Lists(d) = {}
  BY <1>3, <1>5 DEF Lists
<1>7. {o.inode : o \in Lists(d)} = d.inode_bitmap \ {1}
  BY <1>4, <1>6
<1>. QED BY <1>3, <1>5, <1>6, <1>7 DEF Neat

(* If that object is a directory, it is an empty one.                       *)
LEMMA ObjectNeat ==
  ASSUME NEW d, Sound(d), CanNewInode(d), current_dir \in Inodes,
         NEW name, NEW type \in {FT_REG_FILE, FT_DIR}, ~ BlocksRunOut(d, type),
         NEW i, i = NextInode(d), NEW e, e = NewObject(new_inode(d), i, name, type),
         e.inode_table[i].type = FT_DIR
  PROVE  /\ type = FT_DIR /\ NeatDir(e, i)
         /\ Says(Chain(e, i), i) = {} /\ Ups(Chain(e, i)) = {current_dir}
<1>. DEFINE d0 == new_inode(d)
            d1 == CountDir(d0)
<1>1. /\ i \in Inodes /\ Sound(d0) /\ d0 \in Disk /\ d0.inode_table[i] = init_inode
      /\ d0.block_bitmap = d.block_bitmap /\ d0.free_blocks = d.free_blocks
  BY NewInodeSound DEF Sound
<1>. HIDE DEF d0
<1>2. init_inode.type # FT_DIR /\ init_inode.sub = <<>>
  BY DEF init_inode, NoInode, FT_UNKNOWN, FT_DIR
<1>3. type = FT_DIR
  <2>. SUFFICES ASSUME type # FT_DIR PROVE FALSE
    OBVIOUS
  <2>1. e = NewFile(d0, i, name)
    BY DEF NewObject, d0
  <2>2. e.inode_table[i].type \in {FT_REG_FILE, d0.inode_table[i].type}
    BY <1>1, <2>1, NewFileKeeps
  <2>. QED BY <1>1, <1>2, <2>2 DEF FT_REG_FILE, FT_DIR
<1>4. /\ Sound(d1) /\ d1.block_bitmap = d0.block_bitmap /\ d1.free_blocks = d0.free_blocks
      /\ d1.inode_table = d0.inode_table
  BY <1>1, CountDirSound, CountDirKeeps
<1>5. e = IF d1.free_blocks = 0 THEN d1 ELSE NewDirectory(d1, i, current_dir)
  BY <1>3 DEF NewObject, d1, d0
<1>. HIDE DEF d1
<1>6. d1.free_blocks # 0
  BY <1>1, <1>2, <1>4, <1>5
<1>7. CanNewBlock(d1)
  <2>1. d.free_blocks \in Nat
    BY DEF Sound, Disk
  <2>. QED BY <1>1, <1>3, <1>4, <1>6, <2>1 DEF BlocksRunOut, CanNewBlock, FreeBlocks
<1>8. d1.inode_table[i].sub = <<>>
  BY <1>1, <1>2, <1>4
<1>9. e = NewDirectory(d1, i, current_dir)
  BY <1>5, <1>6
<1>. QED BY <1>1, <1>3, <1>4, <1>7, <1>8, <1>9, NewDirectoryIs

(* ".." leads somewhere from every directory.                               *)
LEMMA UpExists ==
  ASSUME NEW d \in Disk, Neat(d), NEW p \in LiveDirs(d)
  PROVE  \/ p = 1 /\ Ups(Chain(d, p)) = {1}
         \/ \E o \in Lists(d) : o.inode = p /\ Ups(Chain(d, p)) = {o.parent}
<1>1. CASE p = 1
  BY <1>1 DEF Neat
<1>2. CASE p # 1
  <2>1. p \in {o.inode : o \in Lists(d)}
    BY <1>2 DEF Neat, LiveDirs
  <2>2. PICK o \in Lists(d) : o.inode = p
    BY <2>1
  <2>. QED BY <2>2 DEF Neat
<1>. QED BY <1>1, <1>2

(* The working directory's "." and ".." are always found.                   *)
LEMMA DotsFound ==
  ASSUME NEW d \in Disk, Neat(d), NEW p \in LiveDirs(d), NEW name \in {Dot, DotDot}
  PROVE  handle_search_inode(d, p, name, FT_DIR) # 0
<1>1. Chain(d, p) \in Seq(DirEntry) /\ Tidy(Chain(d, p), p) /\ p \in Inodes
  BY NeatChain
<1>2. NeatDir(d, p)
  BY DEF Neat
<1>3. PICK b \in Blocks : d.inode_table[p].block = <<b>>
  BY <1>2 DEF NeatDir
<1>. DEFINE c == Chain(d, p)
            r == search_file_name(c, name, FT_DIR)
<1>4. handle_search_inode(d, p, name, FT_DIR) = r
  BY <1>1, <1>2, <1>3, SearchOne DEF NeatDir
<1>5. \E k \in DOMAIN c : IsName(c[k], name, FT_DIR)
  <2>1. CASE name = Dot
    BY <1>1, <2>1 DEF Tidy
  <2>2. CASE name = DotDot
    <3>1. Ups(c) # {}
      <4>1. Ups(c) = {1} \/ \E o \in Lists(d) : Ups(c) = {o.parent}
        BY UpExists
      <4>. HIDE DEF c
      <4>. QED BY <4>1
    <3>. HIDE DEF c
    <3>. QED BY <2>2, <3>1 DEF Ups
  <2>. QED BY <2>1, <2>2
<1>. HIDE DEF c
<1>6. r # 0
  <2>1. c \in Seq(DirEntry)
    BY <1>1 DEF c
  <2>2. IF r = 0 THEN \A k \in DOMAIN c : ~ IsName(c[k], name, FT_DIR)
        ELSE \E k \in DOMAIN c : IsName(c[k], name, FT_DIR) /\ c[k].inode = r
    <3>. HIDE DEF r
    <3>1. r = search_file_name(c, name, FT_DIR)
      BY DEF r
    <3>. QED BY <2>1, <3>1, SearchSays
  <2>. HIDE DEF r
  <2>. QED BY <1>5, <2>2
<1>. QED BY <1>4, <1>6

(* Every directory keeps to its first block.                                *)
OneBlock == \A p \in LiveDirs(disk) : Len(disk.inode_table[p].block) <= 1

(* Two directories of one block have different ones.                        *)
LEMMA BlocksApart ==
  ASSUME NEW d, OwnsBlocks(d), NEW p \in Inodes, NEW q \in Inodes, p # q,
         NEW a \in Blocks, NEW b \in Blocks,
         d.inode_table[p].block = <<a>>, d.inode_table[q].block = <<b>>
  PROVE  a # b /\ a \in d.block_bitmap
<1>1. ASSUME NEW z \in Blocks
      PROVE  Range(<<z>>) = {z}
  BY DEF Range
<1>2. a \in Owned(d.inode_table[p]) /\ b \in Owned(d.inode_table[q])
  BY <1>1 DEF Owned
<1>. QED BY <1>2 DEF OwnsBlocks

(* An object enters the names of a directory that keeps to one block.       *)
LEMMA EntryNeat ==
  ASSUME NEW c \in Disk, Sound(c), Neat(c), NEW p \in LiveDirs(c), 1 \in c.inode_bitmap,
         NEW b \in Blocks, c.inode_table[p].block = <<b>>,
         NEW i \in Inodes \ c.inode_bitmap, NEW name, NEW type, NEW x \in DirEntry,
         x = NewEntry(name, type, i), ~ IsDots(x),
         \A k \in DOMAIN Chain(c, p) : ~ IsName(Chain(c, p)[k], name, type),
         NEW e, Sound(e), e.inode_bitmap = c.inode_bitmap \cup {i},
         \A j \in Inodes \ {p, i} : e.inode_table[j] = c.inode_table[j],
         e.inode_table[p].type = c.inode_table[p].type,
         e.inode_table[p].block = c.inode_table[p].block,
         e.inode_table[p].sub = c.inode_table[p].sub,
         e.inode_table[p].size = c.inode_table[p].size + RecLen(name),
         \A a \in c.block_bitmap : e.dirents[a] = c.dirents[a],
         e.inode_table[i].type = FT_DIR =>
           /\ type = FT_DIR /\ NeatDir(e, i)
           /\ Says(Chain(e, i), i) = {} /\ Ups(Chain(e, i)) = {p}
  PROVE  LET d == AppendEntry(e, b, x)
         IN  /\ Neat(d)
             /\ Lists(d) = Lists(c) \cup {[inode |-> i, parent |-> p, name |-> name, type |-> type]}
<1>. DEFINE d == AppendEntry(e, b, x)
            s == Chain(c, p)
            t == append_dir_entry(s, x)
<1>1. /\ s = c.dirents[b] /\ s \in Seq(DirEntry) /\ Tidy(s, p) /\ p \in Inodes
      /\ OwnsBlocks(c) /\ OwnsBlocks(e) /\ e \in Disk /\ p # i /\ c.inode_bitmap \subseteq Inodes
      /\ x.inode = i /\ x.name = name /\ x.file_type = type
  <2>1. s \in Seq(DirEntry) /\ Tidy(s, p) /\ p \in Inodes
    BY NeatChain
  <2>2. s = c.dirents[b]
    BY ChainType
  <2>3. x.inode = i /\ x.name = name /\ x.file_type = type
    BY DEF NewEntry
  <2>. QED BY <2>1, <2>2, <2>3 DEF Sound, LiveDirs, Disk
<1>2. b \in c.block_bitmap /\ b \in e.block_bitmap
  <2>1. Range(<<b>>) = {b}
    BY DEF Range
  <2>2. b \in Owned(c.inode_table[p]) /\ b \in Owned(e.inode_table[p])
    BY <2>1 DEF Owned
  <2>. QED BY <1>1, <2>2 DEF OwnsBlocks
<1>3. /\ d.inode_bitmap = e.inode_bitmap /\ d.inode_table = e.inode_table
      /\ d.dirents[b] = append_dir_entry(e.dirents[b], x)
      /\ \A a \in Blocks : a # b => d.dirents[a] = e.dirents[a]
  BY <1>1, AppendEntryKeeps
<1>4. Sound(d) /\ d \in Disk
  BY <1>2, AppendEntrySound DEF Sound
<1>. HIDE DEF d
<1>5. Chain(d, p) = t
  <2>1. d.inode_table[p].block = <<b>>
    BY <1>3
  <2>. QED BY <1>1, <1>2, <1>3, <1>4, <2>1, ChainType
<1>6. PICK m \in 2 .. Len(t) : Without(t, s, m) /\ Alike(t[m], x)
  <2>1. s # <<>>
    BY <1>1 DEF Tidy
  <2>. QED BY <1>1, <2>1, AppendedAs
<1>. HIDE DEF s, t
<1>7. t[m].inode = i /\ t[m].name = name /\ t[m].file_type = type /\ ~ IsDots(t[m])
  BY <1>1, <1>6 DEF Alike, IsDots
<1>8. ASSUME NEW q \in LiveDirs(c), q # p
      PROVE  /\ d.inode_table[q] = c.inode_table[q] /\ Chain(d, q) = Chain(c, q)
  <2>1. q \in Inodes \ {p, i} /\ NeatDir(c, q)
    BY <1>1, <1>8 DEF LiveDirs, Neat
  <2>2. d.inode_table[q] = c.inode_table[q]
    BY <1>3, <2>1
  <2>3. PICK a \in Blocks : c.inode_table[q].block = <<a>>
    BY <2>1 DEF NeatDir
  <2>4. a # b /\ a \in c.block_bitmap
    BY <1>1, <1>8, <2>1, <2>3, BlocksApart
  <2>5. Chain(c, q) = c.dirents[a] /\ Chain(d, q) = d.dirents[a]
    <3>1. d.inode_table[q].block = <<a>>
      BY <2>2, <2>3
    <3>2. Chain(c, q) = c.dirents[a]
      BY <2>3, ChainType
    <3>3. Chain(d, q) = d.dirents[a]
      BY <1>4, <3>1, ChainType
    <3>. QED BY <3>2, <3>3
  <2>. QED BY <1>3, <2>2, <2>4, <2>5
<1>9. i \in LiveDirs(d) => /\ type = FT_DIR /\ NeatDir(d, i)
                           /\ Says(Chain(d, i), i) = {} /\ Ups(Chain(d, i)) = {p}
  <2>. SUFFICES ASSUME i \in LiveDirs(d)
                PROVE  /\ type = FT_DIR /\ NeatDir(d, i)
                       /\ Says(Chain(d, i), i) = {} /\ Ups(Chain(d, i)) = {p}
    OBVIOUS
  <2>1. e.inode_table[i].type = FT_DIR
    BY <1>3 DEF LiveDirs
  <2>2. /\ type = FT_DIR /\ NeatDir(e, i) /\ Says(Chain(e, i), i) = {} /\ Ups(Chain(e, i)) = {p}
    BY <2>1
  <2>3. PICK a \in Blocks : e.inode_table[i].block = <<a>>
    BY <2>2 DEF NeatDir
  <2>4. a # b
    BY <1>1, <2>3, BlocksApart
  <2>5. d.inode_table[i] = e.inode_table[i]
    BY <1>3
  <2>6. Chain(d, i) = Chain(e, i)
    <3>1. Chain(e, i) = e.dirents[a] /\ Chain(d, i) = d.dirents[a]
      BY <1>1, <1>4, <2>3, <2>5, ChainType
    <3>. QED BY <1>3, <2>4, <3>1
  <2>. QED BY <2>2, <2>5, <2>6 DEF NeatDir
<1>10. Grows1(c, d, p, i, m)
  <2>1. \A j \in c.inode_bitmap : d.inode_table[j].type = c.inode_table[j].type
    BY <1>1, <1>3
  <2>2. \A q \in LiveDirs(c) : /\ d.inode_table[q].block = c.inode_table[q].block
                               /\ d.inode_table[q].sub = c.inode_table[q].sub
                               /\ q # p => /\ Chain(d, q) = Chain(c, q)
                                           /\ d.inode_table[q].size = c.inode_table[q].size
    BY <1>3, <1>8
  <2>3. d.inode_table[p].size = c.inode_table[p].size + RecLen(t[m].name)
    BY <1>3, <1>7
  <2>4. \A k \in DOMAIN s : ~ IsName(s[k], t[m].name, t[m].file_type)
    BY <1>7 DEF s
  <2>5. d.inode_bitmap = c.inode_bitmap \cup {i} /\ i \notin c.inode_bitmap
    BY <1>3
  <2>6. i \in LiveDirs(d) => /\ t[m].file_type = FT_DIR /\ NeatDir(d, i)
                             /\ Says(Chain(d, i), i) = {} /\ Ups(Chain(d, i)) = {p}
    BY <1>7, <1>9
  <2>. QED BY <1>5, <1>6, <1>7, <2>1, <2>2, <2>3, <2>4, <2>5, <2>6 DEF Grows1, s
<1>11. Neat(d) /\ Lists(d) = Lists(c) \cup {Said(Chain(d, p)[m], p)}
  BY <1>4, <1>10, NeatGrows
<1>12. Said(Chain(d, p)[m], p) = [inode |-> i, parent |-> p, name |-> name, type |-> type]
  BY <1>5, <1>7 DEF Said
<1>. QED BY <1>11, <1>12 DEF d

(* An append leaves the working directory alone.                            *)
LEMMA AppendStaysHere ==
  ASSUME NEW d, NEW p, NEW x, handle_append_directory(d, p, x)
  PROVE  current_dir' = current_dir
<1>1. ASSUME NEW e, Saves(e, "shell")
      PROVE  current_dir' = current_dir
  BY <1>1 DEF Saves, memory
<1>2. Undefined => current_dir' = current_dir
  BY DEF Undefined, memory
<1>3. ASSUME NEW e, NEW b, StoreEntry(e, b, x)
      PROVE  current_dir' = current_dir
  BY <1>1, <1>2, <1>3 DEF StoreEntry
<1>4. ASSUME ReachIndex(d, p, "shell")
      PROVE  current_dir' = current_dir
  BY <1>1, <1>2, <1>4 DEF ReachIndex
<1>. QED BY <1>2, <1>3, <1>4 DEF handle_append_directory

(* mkdir and create add one object, or die for want of an inode.            *)
LEMMA MakeNeat ==
  ASSUME MaxDirSize < UINT32,
         IInv, Homed, Neat(disk), OneBlock', Homed', NEW name \in Made, NEW type \in {FT_REG_FILE, FT_DIR},
         MakeEntry(name, type), status' # "undefined"
  PROVE  \/ Saves(disk', "dead") /\ Neat(disk') /\ Lists(disk') = Lists(disk)
         \/ /\ Saves(disk', "shell") /\ Neat(disk')
            /\ \A k \in DOMAIN Chain(disk, current_dir) : ~ IsName(Chain(disk, current_dir)[k], name, type)
            /\ \E i \in Inodes \ disk.inode_bitmap :
                 Lists(disk') = Lists(disk) \cup
                   {[inode |-> i, parent |-> current_dir, name |-> name, type |-> type]}
<1>. DEFINE p == current_dir
            i == NextInode(disk)
            d1 == NewObject(new_inode(disk), i, name, type)
            d2 == AddSize(d1, p, RecLen(name))
            x == NewEntry(name, type, i)
            s == Chain(disk, p)
            size == disk.inode_table[p].size
<1>0. /\ Sound(disk) /\ disk \in Disk /\ p \in Inodes /\ name \in Names /\ MemoryOK
      /\ disk.inode_bitmap \subseteq Inodes /\ NoSelf(disk)
  BY IInvIsSound, ConstAssumption DEF MemoryOK, Sound, Disk, Homed
<1>1. 1 \in disk.inode_bitmap /\ p \in disk.inode_bitmap /\ 1 \in Inodes /\ p \in LiveDirs(disk)
  BY <1>0, HomeInUse, BlocksAreNats DEF Homed, LiveDirs
<1>2. /\ RecLen(name) \in Int /\ RecLen(name) >= 0 /\ size \in Nat
      /\ size + RecLen(name) < UINT32 /\ UINT32 \in Nat
  <2>1. RecLen(name) \in Nat
    BY <1>0, NamesType
  <2>2. size \in Nat
    BY <1>0, InodeType DEF Inode
  <2>3. size + RecLen(name) <= MaxDirSize
    BY DEF MakeEntry
  <2>. QED BY <2>1, <2>2, <2>3, ConstAssumption
<1>3. (size + RecLen(name)) % UINT32 = size + RecLen(name)
  <2>. HIDE DEF size
  <2>1. size + RecLen(name) \in 0 .. UINT32 - 1
    BY <1>2
  <2>. QED BY <1>2, <2>1
<1>4. NeatDir(disk, p)
  BY <1>1 DEF Neat
<1>5. PICK b \in Blocks : disk.inode_table[p].block = <<b>>
  BY <1>4 DEF NeatDir
<1>6. /\ s \in Seq(DirEntry) /\ \A k \in DOMAIN s : ~ IsName(s[k], name, type)
      /\ ~ (name \in {Dot, DotDot} /\ type = FT_DIR)
  <2>1. handle_search_inode(disk, p, name, type) = 0
    BY DEF MakeEntry
  <2>2. handle_search_inode(disk, p, name, type) = search_file_name(s, name, type)
    BY <1>0, <1>4, <1>5, SearchOne DEF NeatDir
  <2>3. s \in Seq(DirEntry)
    BY <1>0, <1>1, NeatChain
  <2>4. ~ (name \in {Dot, DotDot} /\ type = FT_DIR)
    BY <1>0, <1>1, <2>1, DotsFound
  <2>. HIDE DEF s
  <2>5. search_file_name(s, name, type) = 0
    BY <2>1, <2>2
  <2>6. \A k \in DOMAIN s : ~ IsName(s[k], name, type)
    BY <2>3, <2>5, SearchSays
  <2>. QED BY <2>3, <2>4, <2>6
<1>7. \/ Saves(AddSize(disk, p, RecLen(name)), "dead")
      \/ /\ disk.free_inodes > 0 /\ FreeInodes(disk) # {} /\ ~ BlocksRunOut(disk, type)
         /\ handle_append_directory(d2, p, x)
  BY DEF MakeEntry, Undefined
<1>8. CASE Saves(AddSize(disk, p, RecLen(name)), "dead")
  <2>1. disk' = AddSize(disk, p, RecLen(name)) /\ Saves(disk', "dead")
    BY <1>8 DEF Saves
  <2>2. /\ Kept(disk, disk')
        /\ \A j \in Inodes : j # p => disk'.inode_table[j] = disk.inode_table[j]
        /\ disk'.inode_table[p].type = disk.inode_table[p].type
        /\ disk'.inode_table[p].block = disk.inode_table[p].block
        /\ disk'.inode_table[p].sub = disk.inode_table[p].sub
        /\ disk'.inode_table[p].size = (disk.inode_table[p].size + RecLen(name)) % UINT32
    BY <1>0, <2>1, AddSizeKeeps
  <2>3. ASSUME NEW q \in LiveDirs(disk)
        PROVE  /\ disk'.inode_table[q].block = disk.inode_table[q].block
               /\ disk'.inode_table[q].sub = disk.inode_table[q].sub
               /\ Chain(disk', q) = Chain(disk, q)
               /\ disk'.inode_table[q].size >= EmptySize + NameBytes(Chain(disk, q))
    <3>1. q \in Inodes /\ NeatDir(disk, q)
      BY <1>0, <2>3 DEF LiveDirs, Neat
    <3>2. /\ disk'.inode_table[q].block = disk.inode_table[q].block
          /\ disk'.inode_table[q].sub = disk.inode_table[q].sub
      BY <2>2, <3>1
    <3>3. Chain(disk', q) = Chain(disk, q)
      BY <2>2, <3>2 DEF Chain, Kept
    <3>4. NameBytes(Chain(disk, q)) \in Nat /\ disk.inode_table[q].size \in Nat
      BY <1>0, <2>3, <3>1, NeatChain, NameBytesType, InodeType DEF Inode
    <3>5. disk'.inode_table[q].size >= disk.inode_table[q].size
      BY <1>2, <1>3, <2>2, <3>1, <3>4
    <3>6. disk.inode_table[q].size >= EmptySize + NameBytes(Chain(disk, q))
      BY <3>1 DEF NeatDir
    <3>7. EmptySize \in Nat /\ disk'.inode_table[q].size \in Nat
      <4>1. disk'.inode_table[q].size = size + RecLen(name) \/ disk'.inode_table[q].size = disk.inode_table[q].size
        BY <1>3, <2>2, <3>1
      <4>. QED BY <1>2, <3>4, <4>1 DEF EmptySize
    <3>. HIDE DEF size
    <3>8. disk'.inode_table[q].size >= EmptySize + NameBytes(Chain(disk, q))
      BY <3>4, <3>5, <3>6, <3>7
    <3>. QED BY <3>2, <3>3, <3>8
  <2>4. disk'.inode_bitmap = disk.inode_bitmap
    BY <2>2 DEF Kept
  <2>5. \A j \in disk.inode_bitmap : disk'.inode_table[j].type = FT_DIR <=> disk.inode_table[j].type = FT_DIR
    BY <1>0, <2>2
  <2>6. Neat(disk') /\ Lists(disk') = Lists(disk)
    BY <2>3, <2>4, <2>5, NeatSame
  <2>. QED BY <2>1, <2>6
<1>9. CASE /\ disk.free_inodes > 0 /\ FreeInodes(disk) # {} /\ ~ BlocksRunOut(disk, type)
           /\ handle_append_directory(d2, p, x)
  <2>1. CanNewInode(disk)
    BY <1>9 DEF CanNewInode
  <2>2. /\ i \in Inodes \ disk.inode_bitmap /\ Sound(d1) /\ d1 \in Disk
        /\ d1.inode_bitmap = disk.inode_bitmap \cup {i}
        /\ \A j \in Inodes : j # i => d1.inode_table[j] = disk.inode_table[j]
        /\ \A a \in disk.block_bitmap : d1.dirents[a] = disk.dirents[a]
    BY <1>0, <1>9, <2>1, ObjectMade DEF Sound
  <2>3. d1.inode_table[i].type = FT_DIR =>
          /\ type = FT_DIR /\ NeatDir(d1, i)
          /\ Says(Chain(d1, i), i) = {} /\ Ups(Chain(d1, i)) = {p}
    BY <1>0, <1>9, <2>1, ObjectNeat
  <2>. HIDE DEF d1, i
  <2>4. Sound(d2) /\ d2 \in Disk
    BY <1>0, <1>2, <2>2, AddSizeSound DEF Sound
  <2>5. /\ d2.inode_bitmap = d1.inode_bitmap /\ d2.dirents = d1.dirents
        /\ \A j \in Inodes : j # p => d2.inode_table[j] = d1.inode_table[j]
        /\ d2.inode_table[p].type = d1.inode_table[p].type
        /\ d2.inode_table[p].block = d1.inode_table[p].block
        /\ d2.inode_table[p].sub = d1.inode_table[p].sub
        /\ d2.inode_table[p].size = (d1.inode_table[p].size + RecLen(name)) % UINT32
    BY <1>0, <2>2, AddSizeKeeps DEF Kept
  <2>. HIDE DEF d2
  <2>6. p # i
    BY <1>1, <2>2
  <2>7. /\ d2.inode_table[p].block = <<b>>
        /\ d2.inode_table[p].block = disk.inode_table[p].block
        /\ d2.inode_table[p].sub = disk.inode_table[p].sub
        /\ d2.inode_table[p].type = disk.inode_table[p].type
        /\ d2.inode_table[p].size = disk.inode_table[p].size + RecLen(name)
    BY <1>0, <1>3, <1>5, <2>2, <2>5, <2>6
  <2>8. x \in DirEntry /\ ~ IsDots(x)
    <3>1. x.name = name /\ x.file_type = type
      BY DEF NewEntry
    <3>. QED BY <1>0, <1>6, <2>2, <3>1, NewEntryType DEF IsDots
  <2>9. Len(disk'.inode_table[p].block) <= 1
    <3>1. current_dir' = p
      <4>. HIDE DEF x, p
      <4>1. current_dir' = current_dir
        BY <1>9, AppendStaysHere
      <4>. QED BY <4>1 DEF p
    <3>2. p \in disk'.inode_bitmap /\ disk'.inode_table[p].type = FT_DIR
      BY <1>0, <3>1 DEF Homed, NoSelf
    <3>3. \A q \in LiveDirs(disk') : Len(disk'.inode_table[q].block) <= 1
      BY DEF OneBlock
    <3>. QED BY <3>2, <3>3 DEF LiveDirs
  <2>10. disk' = AppendEntry(d2, b, x) /\ Saves(disk', "shell")
    <3>. HIDE DEF x
    <3>. QED BY <1>0, <1>9, <2>4, <2>7, <2>8, <2>9, AppendAlone
  <2>11. d2.inode_table[i].type = FT_DIR =>
           /\ type = FT_DIR /\ NeatDir(d2, i)
           /\ Says(Chain(d2, i), i) = {} /\ Ups(Chain(d2, i)) = {p}
    <3>1. d2.inode_table[i] = d1.inode_table[i] /\ d2.dirents = d1.dirents
      BY <2>2, <2>5, <2>6
    <3>2. Chain(d2, i) = Chain(d1, i)
      BY <3>1 DEF Chain
    <3>. QED BY <2>3, <3>1, <3>2 DEF NeatDir
  <2>. DEFINE d == AppendEntry(d2, b, x)
              o == [inode |-> i, parent |-> p, name |-> name, type |-> type]
  <2>12. Neat(d) /\ Lists(d) = Lists(disk) \cup {o}
    <3>1. \A j \in Inodes \ {p, i} : d2.inode_table[j] = disk.inode_table[j]
      BY <2>2, <2>5
    <3>2. d2.inode_bitmap = disk.inode_bitmap \cup {i} /\ \A a \in disk.block_bitmap : d2.dirents[a] = disk.dirents[a]
      BY <2>2, <2>5
    <3>3. \A k \in DOMAIN Chain(disk, p) : ~ IsName(Chain(disk, p)[k], name, type)
      BY <1>6
    <3>. QED BY <1>0, <1>1, <1>5, <2>2, <2>4, <2>7, <2>8, <2>11, <3>1, <3>2, <3>3, EntryNeat
  <2>. HIDE DEF d
  <2>13. Neat(disk') /\ Lists(disk') = Lists(disk) \cup {o}
    BY <2>10, <2>12 DEF d
  <2>. QED BY <1>6, <2>2, <2>10, <2>13 DEF i
<1>. QED BY <1>7, <1>8, <1>9

(* rmdir and delete take out the object whose inode they found.             *)
LEMMA RemoveNeat ==
  ASSUME NEW d, Sound(d), Neat(d), \A o, q \in Lists(d) : o.inode = q.inode => o = q,
         NEW p, p = current_dir, p \in LiveDirs(d),
         NEW name \in Names, NEW type \in {FT_REG_FILE, FT_DIR},
         ~ (name \in {Dot, DotDot} /\ type = FT_DIR),
         NEW i \in Inodes \ {1, p}, i = handle_search_inode(d, p, name, type), i # 0,
         type = FT_DIR => d.inode_table[i].size = EmptySize,
         NEW e, e = RemoveObject(d, i, name, type),
         NEW o, o = [inode |-> i, parent |-> p, name |-> name, type |-> type]
  PROVE  /\ o \in Lists(d) /\ Neat(e) /\ Lists(e) = Lists(d) \ {o}
         /\ type = FT_DIR => \A q \in Lists(d) : q.parent # i
<1>. DEFINE c == Chain(d, p)
            d1 == FreeObject(d, i)
            d2 == AddSize(d1, p, - RecLen(name))
<1>0. /\ d \in Disk /\ OwnsBlocks(d) /\ d.inode_bitmap \subseteq Inodes /\ NeatDir(d, p)
  BY DEF Sound, Disk, Neat
<1>1. PICK b \in Blocks : d.inode_table[p].block = <<b>>
  BY <1>0 DEF NeatDir
<1>2. c = d.dirents[b] /\ c \in Seq(DirEntry) /\ Tidy(c, p) /\ p \in Inodes
  <2>1. c = d.dirents[b]
    BY <1>0, <1>1, ChainType
  <2>2. c \in Seq(DirEntry) /\ Tidy(c, p) /\ p \in Inodes
    BY <1>0, NeatChain
  <2>. QED BY <2>1, <2>2
<1>. DEFINE k == DeletableAt(c, name, type)
            t == delete_dir_entry(c, name, type)
<1>. HIDE DEF c
<1>3. \E m \in DOMAIN c : IsName(c[m], name, type) /\ c[m].inode = i
  <2>1. i = search_file_name(c, name, type)
    BY <1>0, <1>1, <1>2, SearchOne DEF NeatDir, c
  <2>. QED BY <1>2, <2>1, SearchSays
<1>4. IF k = 0 THEN \A j \in 2 .. Len(c) : ~ IsName(c[j], name, type)
      ELSE IsName(c[k], name, type) /\ Without(c, t, k)
  BY <1>2, DeletedAs
<1>5. t \in Seq(DirEntry)
  BY <1>2, DeleteDirEntryType
<1>. HIDE DEF k, t
<1>6. /\ k \in DOMAIN c /\ IsName(c[k], name, type) /\ c[k].inode = i
      /\ Without(c, t, k) /\ ~ IsDots(c[k])
  <2>1. PICK m \in DOMAIN c : IsName(c[m], name, type) /\ c[m].inode = i
    BY <1>3
  <2>2. m \in 2 .. Len(c)
    <3>1. m # 1
      BY <1>2, <2>1 DEF Tidy, IsName
    <3>2. DOMAIN c = 1 .. Len(c) /\ Len(c) \in Nat
      BY <1>2
    <3>. QED BY <2>1, <3>1, <3>2
  <2>3. k # 0 /\ IsName(c[k], name, type) /\ Without(c, t, k)
    BY <1>4, <2>1, <2>2
  <2>4. k \in DOMAIN c
    <3>1. k \in 2 .. Len(c) /\ DOMAIN c = 1 .. Len(c)
      BY <1>2, <2>3 DEF Without
    <3>. QED BY <3>1
  <2>5. k = m
    BY <1>2, <2>1, <2>3, <2>4 DEF Tidy, IsName
  <2>6. ~ IsDots(c[k])
    BY <2>3 DEF IsDots, IsName
  <2>. QED BY <2>1, <2>3, <2>4, <2>5, <2>6
<1>7. Said(c[k], p) = o
  BY <1>6 DEF Said, IsName
<1>8. o \in Lists(d)
  BY <1>6, <1>7 DEF Lists, Says, c
<1>9. i \in d.inode_bitmap /\ p \in d.inode_bitmap /\ i # p
  BY <1>8 DEF Neat, LiveDirs
<1>10. /\ d1.inode_bitmap = d.inode_bitmap \ {i}
       /\ \A j \in Inodes : j # i =>
            /\ d1.inode_table[j] = d.inode_table[j]
            /\ \A a \in Owned(d.inode_table[j]) : d1.dirents[a] = d.dirents[a]
  BY FreeObjectKeeps
<1>11. Sound(d1) /\ d1 \in Disk
  BY FreeObjectSound DEF Sound
<1>12. RecLen(name) \in Nat
  BY NamesType
<1>. HIDE DEF d1
<1>13. Sound(d2) /\ d2 \in Disk
  <2>1. - RecLen(name) \in Int
    BY <1>12
  <2>. QED BY <1>2, <1>11, <2>1, AddSizeSound DEF Sound
<1>14. /\ d2.inode_bitmap = d1.inode_bitmap /\ d2.dirents = d1.dirents
       /\ \A j \in Inodes : j # p => d2.inode_table[j] = d1.inode_table[j]
       /\ d2.inode_table[p].type = d1.inode_table[p].type
       /\ d2.inode_table[p].block = d1.inode_table[p].block
       /\ d2.inode_table[p].sub = d1.inode_table[p].sub
       /\ d2.inode_table[p].size = (d1.inode_table[p].size + (- RecLen(name))) % UINT32
  BY <1>2, <1>11, AddSizeKeeps DEF Kept
<1>. HIDE DEF d2
<1>15. e = DeleteEntry(d2, p, name, type)
  BY DEF RemoveObject, d2, d1
<1>16. d2.inode_table[p].block = <<b>> /\ d2.inode_table[p].sub = <<>>
  BY <1>0, <1>1, <1>2, <1>9, <1>10, <1>14 DEF NeatDir
<1>17. /\ e.inode_bitmap = d2.inode_bitmap /\ e.inode_table = d2.inode_table
       /\ e.dirents[b] = delete_dir_entry(d2.dirents[b], name, type)
       /\ \A a \in Blocks : a # b => e.dirents[a] = d2.dirents[a]
  <2>1. e.inode_bitmap = d2.inode_bitmap /\ e.inode_table = d2.inode_table
    BY <1>2, <1>13, <1>15, DeleteEntryKeeps
  <2>2. /\ e.dirents[b] = delete_dir_entry(d2.dirents[b], name, type)
        /\ \A a \in Blocks : a # b => e.dirents[a] = d2.dirents[a]
    BY <1>2, <1>13, <1>15, <1>16, DeleteOne
  <2>. QED BY <2>1, <2>2
<1>18. e \in Disk
  BY <1>2, <1>13, <1>15, DeleteEntrySound DEF Sound
<1>19. b \in Owned(d.inode_table[p])
  <2>1. Range(<<b>>) = {b}
    BY DEF Range
  <2>. QED BY <1>1, <2>1 DEF Owned
<1>20. Chain(e, p) = t
  <2>1. e.inode_table[p].block = <<b>>
    BY <1>16, <1>17
  <2>2. Chain(e, p) = e.dirents[b]
    BY <1>18, <2>1, ChainType
  <2>3. d2.dirents[b] = c
    BY <1>2, <1>9, <1>10, <1>14, <1>19
  <2>. QED BY <1>17, <2>2, <2>3 DEF t
<1>21. e.inode_table[p].size = d.inode_table[p].size - RecLen(name)
  <2>. DEFINE size == d.inode_table[p].size
  <2>1. size \in 0 .. UINT32 - 1 /\ UINT32 \in Nat
    BY <1>0, <1>2, InodeType, ConstAssumption DEF Inode
  <2>2. NameBytes(c) = NameBytes(t) + RecLen(name)
    <3>1. NameBytes(c) = NameBytes(t) + RecLen(c[k].name)
      BY <1>2, <1>5, <1>6, WithoutOne
    <3>. QED BY <1>6, <3>1 DEF IsName
  <2>3. NameBytes(t) \in Nat
    BY <1>5, NameBytesType
  <2>4. size >= EmptySize + NameBytes(c)
    BY <1>0 DEF NeatDir, c
  <2>5. e.inode_table[p].size = (size + (- RecLen(name))) % UINT32
    BY <1>2, <1>9, <1>10, <1>14, <1>17
  <2>. HIDE DEF size
  <2>6. size + (- RecLen(name)) \in 0 .. UINT32 - 1 /\ size + (- RecLen(name)) = size - RecLen(name)
    BY <1>12, <2>1, <2>2, <2>3, <2>4 DEF EmptySize
  <2>7. (size + (- RecLen(name))) % UINT32 = size + (- RecLen(name))
    BY <2>1, <2>6
  <2>8. e.inode_table[p].size = size - RecLen(name)
    BY <2>5, <2>6, <2>7
  <2>. QED BY <2>8 DEF size
<1>22. ASSUME NEW q \in LiveDirs(d), q # i
       PROVE  /\ e.inode_table[q].block = d.inode_table[q].block
              /\ e.inode_table[q].sub = d.inode_table[q].sub
              /\ q # p => Chain(e, q) = Chain(d, q) /\ e.inode_table[q].size = d.inode_table[q].size
  <2>1. q \in Inodes /\ NeatDir(d, q)
    BY <1>0, <1>22 DEF LiveDirs, Neat
  <2>2. CASE q = p
    BY <1>2, <1>9, <1>10, <1>14, <1>17, <2>2
  <2>3. CASE q # p
    <3>1. e.inode_table[q] = d.inode_table[q]
      BY <1>10, <1>14, <1>17, <1>22, <2>1, <2>3
    <3>2. PICK a \in Blocks : d.inode_table[q].block = <<a>>
      BY <2>1 DEF NeatDir
    <3>3. a # b
      BY <1>0, <1>1, <1>2, <2>1, <2>3, <3>2, BlocksApart
    <3>4. a \in Owned(d.inode_table[q])
      <4>1. Range(<<a>>) = {a}
        BY DEF Range
      <4>. QED BY <3>2, <4>1 DEF Owned
    <3>5. Chain(d, q) = d.dirents[a]
      BY <1>0, <3>2, ChainType
    <3>6. Chain(e, q) = e.dirents[a]
      <4>1. e.inode_table[q].block = <<a>>
        BY <3>1, <3>2
      <4>. QED BY <1>18, <4>1, ChainType
    <3>7. e.dirents[a] = d.dirents[a]
      BY <1>10, <1>14, <1>17, <1>22, <2>1, <3>3, <3>4
    <3>. QED BY <2>3, <3>1, <3>5, <3>6, <3>7
  <2>. QED BY <2>2, <2>3
<1>23. i \in LiveDirs(d) => type = FT_DIR /\ Says(Chain(d, i), i) = {}
  <2>. SUFFICES ASSUME i \in LiveDirs(d)
                PROVE  type = FT_DIR /\ Says(Chain(d, i), i) = {}
    OBVIOUS
  <2>. DEFINE ci == Chain(d, i)
  <2>1. type = FT_DIR
    BY <1>8 DEF LiveDirs, Neat
  <2>2. d.inode_table[i].size = EmptySize /\ d.inode_table[i].size >= EmptySize + NameBytes(ci)
    BY <2>1 DEF Neat, NeatDir
  <2>3. ci \in Seq(DirEntry)
    BY <1>0, NeatChain
  <2>. HIDE DEF ci
  <2>4. NameBytes(ci) = 0
    <3>1. NameBytes(ci) \in Nat
      BY <2>3, NameBytesType
    <3>. QED BY <2>2, <3>1 DEF EmptySize
  <2>5. \A j \in DOMAIN ci : IsDots(ci[j])
    BY <2>3, <2>4, NameBytesZero
  <2>6. Says(ci, i) = {}
    BY <2>5 DEF Says
  <2>. QED BY <2>1, <2>6 DEF ci
<1>24. Shrinks1(d, e, p, i, k)
  <2>1. e.inode_bitmap = d.inode_bitmap \ {i}
    BY <1>10, <1>14, <1>17
  <2>2. \A j \in e.inode_bitmap : e.inode_table[j].type = d.inode_table[j].type
    BY <1>0, <1>10, <1>14, <1>17, <2>1
  <2>3. Without(Chain(d, p), Chain(e, p), k) /\ Chain(d, p)[k].inode = i /\ ~ IsDots(Chain(d, p)[k])
    BY <1>6, <1>20 DEF c
  <2>4. e.inode_table[p].size = d.inode_table[p].size - RecLen(Chain(d, p)[k].name)
    BY <1>6, <1>21 DEF c, IsName
  <2>5. \A q \in LiveDirs(d) \ {i} : /\ e.inode_table[q].block = d.inode_table[q].block
                                     /\ e.inode_table[q].sub = d.inode_table[q].sub
                                     /\ q # p => /\ Chain(e, q) = Chain(d, q)
                                                 /\ e.inode_table[q].size = d.inode_table[q].size
    BY <1>22
  <2>. QED BY <1>9, <1>23, <2>1, <2>2, <2>3, <2>4, <2>5 DEF Shrinks1
<1>25. Neat(e) /\ Lists(e) = Lists(d) \ {o}
  <2>1. Said(Chain(d, p)[k], p) = o
    BY <1>7 DEF c
  <2>2. Neat(e) /\ Lists(e) = Lists(d) \ {Said(Chain(d, p)[k], p)}
    BY <1>0, <1>18, <1>24, NeatShrinks
  <2>. QED BY <2>1, <2>2
<1>26. ASSUME NEW q \in Lists(d), q.parent = i
       PROVE  FALSE
  <2>1. PICK r \in LiveDirs(d) : q \in Says(Chain(d, r), r)
    BY <1>26 DEF Lists
  <2>2. r = i
    BY <1>26, <2>1, SaidFields
  <2>. QED BY <1>23, <2>1, <2>2
<1>. QED BY <1>8, <1>25, <1>26

(* A write that is not undefined changes no inode but the file's, whose     *)
(* type stays, and no directory block.                                      *)
LEMMA FilledElsewhere ==
  ASSUME disk \in Disk, NEW i \in Inodes, NEW nb \in Seq(Blocks), NEW size, NEW bs, NEW k, NEW rest,
         NEW e, e = FillBlocks(AddBlocks(disk, i, nb, size), bs, k, rest)
  PROVE  /\ e.inode_bitmap = disk.inode_bitmap
         /\ \A j \in Inodes : j # i => e.inode_table[j] = disk.inode_table[j]
         /\ e.inode_table[i].type = disk.inode_table[i].type
<1>. DEFINE a == AddBlocks(disk, i, nb, size)
<1>1. /\ a.inode_bitmap = disk.inode_bitmap
      /\ \A j \in Inodes : j # i => a.inode_table[j] = disk.inode_table[j]
      /\ a.inode_table[i].type = disk.inode_table[i].type
  BY AddBlocksKeeps
<1>2. "inode_bitmap" \in DOMAIN a /\ "inode_table" \in DOMAIN a
  BY DEF AddBlocks, AddSize, Disk
<1>. HIDE DEF a
<1>3. e.inode_bitmap = a.inode_bitmap /\ e.inode_table = a.inode_table
  <2>1. e = FillBlocks(a, bs, k, rest)
    BY DEF a
  <2>. QED BY <1>2, <2>1 DEF FillBlocks
<1>. QED BY <1>1, <1>3

LEMMA WriteElsewhere ==
  ASSUME IInv, Homed, NEW name \in Names, NEW n \in WriteSizes, write(name, n), status' # "undefined"
  PROVE  /\ disk'.inode_bitmap = disk.inode_bitmap /\ disk'.dirents = disk.dirents
         /\ \A j \in Inodes : j # Named(name) => disk'.inode_table[j] = disk.inode_table[j]
         /\ disk'.inode_table[Named(name)].type = disk.inode_table[Named(name)].type
         /\ Saves(disk', "shell") \/ Saves(disk', "dead")
<1>. DEFINE i == Named(name)
            ino == disk.inode_table[i]
<1>0. /\ i \in Inodes /\ n \in Nat /\ Sound(disk) /\ disk \in Disk /\ NoSelf(disk)
      /\ ino \in Inode /\ ino.block \in Seq(Blocks)
  <2>1. i \in Inodes /\ n \in Nat
    BY FoundInode, ConstAssumption DEF write, Named
  <2>2. Sound(disk) /\ disk \in Disk /\ NoSelf(disk)
    BY IInvIsSound DEF Homed, Sound
  <2>. QED BY <2>1, <2>2, InodeType
<1>1. disk'.dirents = disk.dirents
  BY <1>0, WriteSame
<1>2. (\E k \in 1 .. DIRECT : WriteFits(i, n, k)) \/ WriteOverflows(i, n)
  BY DEF write, Undefined
<1>3. \A held : AfterWrite(held) \in {"shell", "dead"}
  BY DEF AfterWrite
<1>. HIDE DEF i
<1>4. ASSUME NEW k \in 1 .. DIRECT, WriteFits(i, n, k)
      PROVE  /\ disk'.inode_bitmap = disk.inode_bitmap
             /\ \A j \in Inodes : j # i => disk'.inode_table[j] = disk.inode_table[j]
             /\ disk'.inode_table[i].type = disk.inode_table[i].type
             /\ Saves(disk', "shell") \/ Saves(disk', "dead")
  <2>. DEFINE L == Len(ino.block)
              g == IF k > L THEN k - L ELSE 0
              held == RoomBefore(disk, ino, k)
  <2>1. g \in Nat
    <3>1. L \in Nat /\ k \in Nat
      BY <1>0, ConstAssumption
    <3>. HIDE DEF L
    <3>. QED BY <3>1
  <2>2. PICK rest \in 0 .. RoomIn(disk, ino, k), nb \in NewBlocks(disk, g) :
          Saves(FillBlocks(AddBlocks(disk, i, nb, n + 1), ino.block \o nb, k, rest), AfterWrite(held))
    BY <1>4 DEF WriteFits, Undefined
  <2>. HIDE DEF g
  <2>3. nb \in Seq(Blocks)
    BY <1>0, <2>1, NewBlocksType
  <2>. DEFINE e == FillBlocks(AddBlocks(disk, i, nb, n + 1), ino.block \o nb, k, rest)
  <2>4. /\ e.inode_bitmap = disk.inode_bitmap
        /\ \A j \in Inodes : j # i => e.inode_table[j] = disk.inode_table[j]
        /\ e.inode_table[i].type = disk.inode_table[i].type
    BY <1>0, <2>3, FilledElsewhere
  <2>. HIDE DEF e, held
  <2>5. Saves(e, AfterWrite(held))
    BY <2>2 DEF e
  <2>6. disk' = e /\ (Saves(e, "shell") \/ Saves(e, "dead"))
    BY <1>3, <2>5 DEF Saves
  <2>. QED BY <2>4, <2>6
<1>5. ASSUME WriteOverflows(i, n)
      PROVE  /\ disk'.inode_bitmap = disk.inode_bitmap
             /\ \A j \in Inodes : j # i => disk'.inode_table[j] = disk.inode_table[j]
             /\ disk'.inode_table[i].type = disk.inode_table[i].type
             /\ Saves(disk', "shell") \/ Saves(disk', "dead")
  <2>. DEFINE L == Len(ino.block)
              g == IF DIRECT > L THEN DIRECT - L ELSE 0
              held == RoomBefore(disk, ino, DIRECT + 1)
  <2>1. PICK nb \in NewBlocks(disk, g) :
          /\ CanNewBlocks(disk, g)
          /\ ReachIndex(FillBlocks(AddBlocks(disk, i, nb, n + 1),
                                   Direct(ino) \o nb, DIRECT + 1, 0), i, AfterWrite(held))
    BY <1>5 DEF WriteOverflows, Undefined
  <2>. DEFINE e == FillBlocks(AddBlocks(disk, i, nb, n + 1), Direct(ino) \o nb, DIRECT + 1, 0)
  <2>2. Sound(e) /\ FilledAlone(e, i, nb, n + 1)
    <3>1. g = Gap(i)
      BY DEF Gap
    <3>2. e = FillBlocks(AddBlocks(disk, i, nb, n + 1), Direct(disk.inode_table[i]) \o nb, DIRECT + 1, 0)
      OBVIOUS
    <3>3. CanNewBlocks(disk, g) /\ nb \in NewBlocks(disk, g)
      BY <2>1
    <3>. HIDE DEF e, ino, g
    <3>. QED BY <1>0, <3>1, <3>2, <3>3, OverflowFills, ZenonT(30)
  <2>3. ReachIndex(e, i, AfterWrite(held))
    BY <2>1
  <2>. HIDE DEF e, held, g
  <2>4. /\ Saves(disk', AfterWrite(held))
        /\ disk'.inode_bitmap = e.inode_bitmap
        /\ \A j \in Inodes : j # i => disk'.inode_table[j] = e.inode_table[j]
        /\ disk'.inode_table[i].type = e.inode_table[i].type
    <3>1. NoSelf(e)
      BY <2>2 DEF FilledAlone
    <3>. QED BY <1>0, <2>2, <2>3, <3>1, ReachIndexKeeps, ZenonT(30)
  <2>5. /\ e.inode_bitmap = disk.inode_bitmap
        /\ \A j \in Inodes : j # i => e.inode_table[j] = disk.inode_table[j]
        /\ e.inode_table[i].type = disk.inode_table[i].type
    BY <2>2 DEF FilledAlone
  <2>6. Saves(disk', "shell") \/ Saves(disk', "dead")
    BY <1>3, <2>4 DEF Saves
  <2>. QED BY <2>4, <2>5, <2>6
<1>. QED BY <1>1, <1>2, <1>4, <1>5 DEF i

(* No file is open twice.                                                   *)
OneSlot == \A s, t \in DOMAIN fopen_table :
             fopen_table[s] # 0 /\ fopen_table[s] = fopen_table[t] => s = t

(* An image that keeps its names, in a program that lives on or not.        *)
LEMMA SameNames ==
  ASSUME disk \in Disk, disk' \in Disk, Neat(disk), Neat(disk'), Lists(disk') = Lists(disk), OneSlot
  PROVE  /\ UNCHANGED memory => UNCHANGED Tree!vars /\ OneSlot'
         /\ initialize_memory => Tree!Restart /\ OneSlot'
<1>1. objects' = objects
  BY ListsAreObjects DEF objects
<1>2. ASSUME UNCHANGED memory
      PROVE  UNCHANGED Tree!vars /\ OneSlot'
  <2>1. UNCHANGED fopen_table /\ UNCHANGED current_dir
    BY <1>2 DEF memory
  <2>2. OneSlot' /\ opened' = opened
    BY <2>1 DEF OneSlot, opened, is_open
  <2>. QED BY <1>1, <2>1, <2>2 DEF Tree!vars, cwd
<1>3. ASSUME initialize_memory
      PROVE  Tree!Restart /\ OneSlot'
  <2>1. fopen_table' = NoOpenFiles /\ current_dir' = 1
    BY <1>3 DEF initialize_memory
  <2>2. \A s \in DOMAIN fopen_table' : fopen_table'[s] = 0
    BY <2>1 DEF NoOpenFiles
  <2>3. 0 \notin Inodes
    BY DEF Inodes
  <2>4. opened' = {}
    BY <2>2, <2>3 DEF opened, is_open
  <2>5. OneSlot'
    BY <2>2 DEF OneSlot
  <2>. QED BY <1>1, <2>1, <2>4, <2>5 DEF Tree!Restart, cwd
<1>. QED BY <1>2, <1>3

LEMMA SavesNames ==
  ASSUME disk \in Disk, disk' \in Disk, Neat(disk), Neat(disk'), Lists(disk') = Lists(disk), OneSlot,
         Saves(disk', "shell") \/ Saves(disk', "dead")
  PROVE  [Tree!Next]_(Tree!vars) /\ OneSlot'
<1>1. UNCHANGED memory \/ initialize_memory
  BY DEF Saves
<1>. QED BY <1>1, SameNames DEF Tree!Next

(* What a command finds is an object of its directory.                      *)
LEMMA FoundObject ==
  ASSUME NEW d \in Disk, Neat(d), NEW p \in LiveDirs(d), NEW name, NEW type,
         NEW i, i = handle_search_inode(d, p, name, type), i # 0,
         ~ (name \in {Dot, DotDot} /\ type = FT_DIR)
  PROVE  [inode |-> i, parent |-> p, name |-> name, type |-> type] \in Lists(d)
<1>. DEFINE c == Chain(d, p)
<1>1. NeatDir(d, p) /\ p \in Inodes /\ c \in Seq(DirEntry)
  <2>1. p \in Inodes /\ c \in Seq(DirEntry)
    BY NeatChain
  <2>. QED BY <2>1 DEF Neat
<1>2. PICK b \in Blocks : d.inode_table[p].block = <<b>>
  BY <1>1 DEF NeatDir
<1>3. i = search_file_name(c, name, type)
  BY <1>1, <1>2, SearchOne DEF NeatDir
<1>. HIDE DEF c
<1>4. PICK k \in DOMAIN c : IsName(c[k], name, type) /\ c[k].inode = i
  BY <1>1, <1>3, SearchSays
<1>5. ~ IsDots(c[k])
  BY <1>4 DEF IsDots, IsName
<1>6. Said(c[k], p) = [inode |-> i, parent |-> p, name |-> name, type |-> type]
  BY <1>4 DEF Said, IsName
<1>7. Said(c[k], p) \in Says(c, p)
  BY <1>4, <1>5 DEF Says
<1>. QED BY <1>6, <1>7 DEF Lists, c

(* And ".." leads from an object to its parent.                             *)
LEMMA FoundParent ==
  ASSUME NEW d \in Disk, Neat(d), NEW p \in LiveDirs(d),
         NEW i, i = handle_search_inode(d, p, DotDot, FT_DIR)
  PROVE  \/ p = 1 /\ i = 1
         \/ \E o \in Lists(d) : o.inode = p /\ i = o.parent
<1>. DEFINE c == Chain(d, p)
<1>1. NeatDir(d, p) /\ p \in Inodes /\ c \in Seq(DirEntry)
  <2>1. p \in Inodes /\ c \in Seq(DirEntry)
    BY NeatChain
  <2>. QED BY <2>1 DEF Neat
<1>2. PICK b \in Blocks : d.inode_table[p].block = <<b>>
  BY <1>1 DEF NeatDir
<1>3. i = search_file_name(c, DotDot, FT_DIR)
  BY <1>1, <1>2, SearchOne DEF NeatDir
<1>4. i # 0
  BY DotsFound
<1>. HIDE DEF c
<1>5. PICK k \in DOMAIN c : IsName(c[k], DotDot, FT_DIR) /\ c[k].inode = i
  BY <1>1, <1>3, <1>4, SearchSays
<1>6. i \in Ups(c)
  BY <1>5 DEF Ups
<1>. QED BY <1>6, UpExists DEF c

(* A slot is free, so fewer files are open than there are slots.            *)
LEMMA SlotLeft ==
  ASSUME MemoryOK, NEW s \in DOMAIN fopen_table, fopen_table[s] = 0
  PROVE  Cardinality(opened) < FOPEN_TABLE_MAX
<1>. DEFINE slots == 1 .. FOPEN_TABLE_MAX
            T == slots \ {s}
            f == [i \in opened |-> CHOOSE t \in T : fopen_table[t] = i]
<1>1. FOPEN_TABLE_MAX \in Nat \ {0} /\ INODE_COUNT \in Nat \ {0}
  BY ConstAssumption, SizeAssumption
<1>2. IsFiniteSet(slots) /\ Cardinality(slots) = FOPEN_TABLE_MAX
  <2>1. 1 \in Int /\ FOPEN_TABLE_MAX \in Int /\ ~ (1 > FOPEN_TABLE_MAX)
    BY <1>1
  <2>2. IsFiniteSet(slots) /\ Cardinality(slots) = FOPEN_TABLE_MAX - 1 + 1
    BY <2>1, FS_Interval
  <2>3. FOPEN_TABLE_MAX - 1 + 1 = FOPEN_TABLE_MAX
    BY <1>1
  <2>. QED BY <2>2, <2>3
<1>3. s \in slots /\ DOMAIN fopen_table = slots
  BY DEF MemoryOK
<1>4. IsFiniteSet(T) /\ Cardinality(T) = FOPEN_TABLE_MAX - 1
  <2>. HIDE DEF slots
  <2>. QED BY <1>2, <1>3, FS_RemoveElement
<1>5. IsFiniteSet(opened) /\ Cardinality(opened) \in Nat
  <2>1. 1 \in Int /\ INODE_COUNT \in Int
    BY <1>1
  <2>2. IsFiniteSet(Inodes)
    BY <2>1, FS_Interval DEF Inodes
  <2>3. opened \in SUBSET Inodes
    BY DEF opened
  <2>4. IsFiniteSet(opened)
    BY <2>2, <2>3, FS_Subset
  <2>. QED BY <2>4, FS_CardinalityType
<1>6. \A i \in opened : \E t \in T : fopen_table[t] = i
  <2>. SUFFICES ASSUME NEW i \in opened PROVE \E t \in T : fopen_table[t] = i
    OBVIOUS
  <2>1. i \in Inodes /\ is_open(i)
    BY DEF opened
  <2>2. PICK t \in DOMAIN fopen_table : fopen_table[t] = i
    BY <2>1 DEF is_open
  <2>3. i # 0
    BY <2>1 DEF Inodes
  <2>. QED BY <1>3, <2>2, <2>3
<1>. HIDE DEF T
<1>7. \A i \in opened : f[i] \in T /\ fopen_table[f[i]] = i
  BY <1>6
<1>8. f \in [opened -> T]
  BY <1>7
<1>9. ~ \E x, y \in opened : x # y /\ f[x] = f[y]
  <2>. HIDE DEF f
  <2>. QED BY <1>7
<1>. HIDE DEF f
<1>10. ~ (Cardinality(T) < Cardinality(opened))
  BY <1>4, <1>5, <1>8, <1>9, FS_PigeonHole
<1>. QED BY <1>1, <1>4, <1>5, <1>10

(* open, close and cd move the user and the open files along the objects.   *)
LEMMA OpenNames ==
  ASSUME IInv, IInv', Homed, Neat(disk), OneSlot, NEW name \in Names, open(name)
  PROVE  Neat(disk') /\ OneSlot' /\ [Tree!Next]_(Tree!vars)
<1>. DEFINE i == Named(name)
            s == Min(FreeSlots)
            o == [inode |-> i, parent |-> current_dir, name |-> name, type |-> FT_REG_FILE]
<1>0. /\ disk \in Disk /\ MemoryOK /\ current_dir \in LiveDirs(disk) /\ i \in Inodes
      /\ i # 0 /\ ~ is_open(i) /\ fopen_table' = [fopen_table EXCEPT ![s] = i]
      /\ UNCHANGED <<disk, current_dir>>
  BY IInvIsSound, HomeInUse, FoundInode DEF open, Sound, Homed, LiveDirs, Named
<1>1. o \in Lists(disk)
  BY <1>0, FoundObject DEF Named, FT_REG_FILE, FT_DIR
<1>2. s \in DOMAIN fopen_table /\ fopen_table[s] = 0
  <2>1. FreeSlots \subseteq Nat /\ FreeSlots # {}
    BY <1>0 DEF FreeSlots, MemoryOK, open
  <2>2. s \in FreeSlots
    BY <2>1, MinOfNats
  <2>. QED BY <2>2 DEF FreeSlots
<1>. HIDE DEF s, i
<1>3. /\ DOMAIN fopen_table' = DOMAIN fopen_table /\ fopen_table'[s] = i
      /\ \A t \in DOMAIN fopen_table : t # s => fopen_table'[t] = fopen_table[t]
  BY <1>0, <1>2 DEF MemoryOK
<1>4. OneSlot'
  <2>. SUFFICES ASSUME NEW t \in DOMAIN fopen_table, NEW u \in DOMAIN fopen_table,
                       fopen_table'[t] # 0, fopen_table'[t] = fopen_table'[u], t # u
                PROVE  FALSE
    BY <1>3 DEF OneSlot
  <2>1. CASE t = s
    BY <1>0, <1>3, <2>1 DEF is_open
  <2>2. CASE u = s
    BY <1>0, <1>3, <2>2 DEF is_open
  <2>3. CASE t # s /\ u # s
    BY <1>3, <2>3 DEF OneSlot
  <2>. QED BY <2>1, <2>2, <2>3
<1>5. opened' = opened \cup {i}
  <2>1. ASSUME NEW j \in Inodes
        PROVE  is_open(j)' <=> is_open(j) \/ j = i
    <3>1. is_open(j)' <=> \E t \in DOMAIN fopen_table : fopen_table'[t] = j
      BY <1>3 DEF is_open
    <3>2. j # 0
      BY DEF Inodes
    <3>. QED BY <1>2, <1>3, <3>1, <3>2 DEF is_open
  <2>. QED BY <1>0, <2>1 DEF opened
<1>6. Tree!Open(o)
  <2>1. o.inode = i /\ o.type = FT_REG_FILE
    OBVIOUS
  <2>2. i \notin opened
    BY <1>0 DEF opened
  <2>3. Cardinality(opened) < FOPEN_TABLE_MAX
    BY <1>0, <1>2, SlotLeft
  <2>4. objects' = objects /\ cwd' = cwd
    BY <1>0 DEF objects, cwd
  <2>. HIDE DEF o
  <2>5. o.inode \notin opened /\ opened' = opened \cup {o.inode}
    BY <1>5, <2>1, <2>2
  <2>6. Tree!Cardinality(opened) = Cardinality(opened)
    BY Zenon DEF Tree!Cardinality, Cardinality
  <2>. QED BY <2>1, <2>3, <2>4, <2>5, <2>6, Zenon DEF Tree!Open
<1>7. o \in Tree!In(cwd)
  <2>1. objects = Lists(disk)
    BY <1>0, ListsAreObjects DEF objects
  <2>. QED BY <1>1, <2>1 DEF Tree!In, cwd
<1>. QED BY <1>0, <1>4, <1>6, <1>7 DEF Tree!Next

LEMMA CloseNames ==
  ASSUME IInv, IInv', Homed, Neat(disk), OneSlot, NEW name \in Names, close(name)
  PROVE  Neat(disk') /\ OneSlot' /\ [Tree!Next]_(Tree!vars)
<1>. DEFINE i == Named(name)
            S == {t \in DOMAIN fopen_table : fopen_table[t] = i}
            s == Min(S)
            o == [inode |-> i, parent |-> current_dir, name |-> name, type |-> FT_REG_FILE]
<1>0. /\ disk \in Disk /\ MemoryOK /\ current_dir \in LiveDirs(disk) /\ i \in Inodes
      /\ i # 0 /\ is_open(i) /\ fopen_table' = [fopen_table EXCEPT ![s] = 0]
      /\ UNCHANGED <<disk, current_dir>>
  BY IInvIsSound, HomeInUse, FoundInode DEF close, Sound, Homed, LiveDirs, Named
<1>1. o \in Lists(disk)
  BY <1>0, FoundObject DEF Named, FT_REG_FILE, FT_DIR
<1>2. s \in DOMAIN fopen_table /\ fopen_table[s] = i
  <2>1. S \subseteq Nat /\ S # {}
    BY <1>0 DEF MemoryOK, is_open
  <2>. HIDE DEF S
  <2>2. s \in S
    BY <2>1, MinOfNats
  <2>. QED BY <2>2 DEF S
<1>. HIDE DEF s, i
<1>3. /\ DOMAIN fopen_table' = DOMAIN fopen_table /\ fopen_table'[s] = 0
      /\ \A t \in DOMAIN fopen_table : t # s => fopen_table'[t] = fopen_table[t]
  BY <1>0, <1>2 DEF MemoryOK
<1>4. OneSlot'
  <2>. SUFFICES ASSUME NEW t \in DOMAIN fopen_table, NEW u \in DOMAIN fopen_table,
                       fopen_table'[t] # 0, fopen_table'[t] = fopen_table'[u]
                PROVE  t = u
    BY <1>3 DEF OneSlot
  <2>. QED BY <1>3 DEF OneSlot
<1>5. opened' = opened \ {i}
  <2>1. ASSUME NEW j \in Inodes
        PROVE  is_open(j)' <=> is_open(j) /\ j # i
    <3>1. is_open(j)' <=> \E t \in DOMAIN fopen_table : fopen_table'[t] = j
      BY <1>3 DEF is_open
    <3>2. j # 0
      BY DEF Inodes
    <3>3. \A t \in DOMAIN fopen_table : fopen_table[t] = i => t = s
      BY <1>0, <1>2 DEF OneSlot
    <3>. QED BY <1>2, <1>3, <3>1, <3>2, <3>3 DEF is_open
  <2>. QED BY <1>0, <2>1 DEF opened
<1>6. Tree!Close(o)
  <2>1. o.inode = i
    OBVIOUS
  <2>2. i \in opened
    BY <1>0 DEF opened
  <2>4. objects' = objects /\ cwd' = cwd
    BY <1>0 DEF objects, cwd
  <2>. HIDE DEF o
  <2>. QED BY <1>5, <2>1, <2>2, <2>4 DEF Tree!Close
<1>7. o \in Tree!In(cwd)
  <2>1. objects = Lists(disk)
    BY <1>0, ListsAreObjects DEF objects
  <2>. QED BY <1>1, <2>1 DEF Tree!In, cwd
<1>. QED BY <1>0, <1>4, <1>6, <1>7 DEF Tree!Next

LEMMA CdNames ==
  ASSUME IInv, IInv', Homed, Neat(disk), OneSlot, NEW name \in Names, cd(name)
  PROVE  Neat(disk') /\ OneSlot' /\ [Tree!Next]_(Tree!vars)
<1>. DEFINE i == handle_search_inode(disk, current_dir, name, FT_DIR)
            o == [inode |-> i, parent |-> current_dir, name |-> name, type |-> FT_DIR]
<1>0. /\ disk \in Disk /\ disk' = disk /\ current_dir \in LiveDirs(disk) /\ i # 0
  BY IInvIsSound, HomeInUse, CdKeeps DEF cd, Sound, Homed, LiveDirs
<1>1. objects = Lists(disk) /\ objects' = objects
  BY <1>0, ListsAreObjects DEF objects
<1>2. UNCHANGED fopen_table
  BY DEF cd, Undefined, memory
<1>3. OneSlot' /\ opened' = opened
  BY <1>2 DEF OneSlot, opened, is_open
<1>4. current_dir' = current_dir \/ (name # Dot /\ current_dir' = i)
  BY DEF cd, Undefined, memory
<1>. HIDE DEF i
<1>5. CASE current_dir' = current_dir
  BY <1>0, <1>1, <1>3, <1>5 DEF Tree!vars, cwd
<1>6. CASE name = DotDot /\ current_dir' = i /\ current_dir' # current_dir
  <2>1. PICK q \in Lists(disk) : q.inode = current_dir /\ i = q.parent
    BY <1>0, <1>6, FoundParent DEF i
  <2>2. Tree!Leave(q)
    BY <1>1, <1>3, <1>6, <2>1 DEF Tree!Leave, cwd
  <2>. QED BY <1>0, <1>1, <1>3, <2>1, <2>2 DEF Tree!Next
<1>7. CASE name \notin {Dot, DotDot} /\ current_dir' = i
  <2>1. o \in Lists(disk)
    BY <1>0, <1>7, FoundObject DEF i
  <2>2. o.parent = current_dir /\ o.type = FT_DIR /\ o.inode = i
    OBVIOUS
  <2>. HIDE DEF o
  <2>3. Tree!Enter(o) /\ o \in Tree!In(cwd)
    BY <1>1, <1>3, <1>7, <2>1, <2>2 DEF Tree!Enter, Tree!In, cwd
  <2>. QED BY <1>0, <1>3, <2>3 DEF Tree!Next
<1>. QED BY <1>4, <1>5, <1>6, <1>7

(* mkdir and create add one object, or none when inodes have run out.       *)
LEMMA MakeNames ==
  ASSUME MaxDirSize < UINT32, IInv, IInv', Homed, Homed', Neat(disk), OneSlot, OneBlock',
         NEW name \in Made, NEW type \in {FT_REG_FILE, FT_DIR}, MakeEntry(name, type)
  PROVE  Neat(disk') /\ OneSlot' /\ [Tree!Next]_(Tree!vars)
<1>0. /\ disk \in Disk /\ disk' \in Disk /\ MemoryOK /\ 1 \in disk.inode_bitmap
      /\ current_dir \in LiveDirs(disk) /\ current_dir \in Inodes
  <2>1. Sound(disk) /\ Sound(disk)' /\ MemoryOK
    BY IInvIsSound DEF IInv, TypeOK, BlockOwnership, FreeBlocksClean, Sound
  <2>. QED BY <2>1, HomeInUse DEF Sound, Homed, LiveDirs, MemoryOK
<1>1. CASE status' = "undefined"
  <2>1. disk' = disk /\ UNCHANGED memory
    BY <1>1, MakeUndefined
  <2>. QED BY <1>0, <2>1, SameNames
<1>2. CASE status' # "undefined" /\ Saves(disk', "dead") /\ Neat(disk') /\ Lists(disk') = Lists(disk)
  BY <1>0, <1>2, SavesNames
<1>3. ASSUME Saves(disk', "shell"), Neat(disk'),
             \A k \in DOMAIN Chain(disk, current_dir) : ~ IsName(Chain(disk, current_dir)[k], name, type),
             NEW i \in Inodes \ disk.inode_bitmap,
             Lists(disk') = Lists(disk) \cup
                   {[inode |-> i, parent |-> current_dir, name |-> name, type |-> type]}
      PROVE  Neat(disk') /\ OneSlot' /\ [Tree!Next]_(Tree!vars)
  <2>. DEFINE o == [inode |-> i, parent |-> current_dir, name |-> name, type |-> type]
  <2>1. objects = Lists(disk) /\ objects' = Lists(disk')
    BY <1>0, <1>3, ListsAreObjects DEF objects
  <2>2. UNCHANGED fopen_table /\ UNCHANGED current_dir
    BY <1>3 DEF Saves, memory
  <2>3. OneSlot' /\ opened' = opened
    BY <2>2 DEF OneSlot, opened, is_open
  <2>4. o \in Tree!Object
    BY <1>0, ConstAssumption DEF Tree!Object
  <2>5. /\ o.inode = i /\ o.parent = current_dir /\ o.name = name /\ o.type = type
        /\ Lists(disk') = Lists(disk) \cup {o}
    BY <1>3
  <2>. HIDE DEF o
  <2>6. \A q \in objects : q.inode # o.inode
    BY <1>3, <2>1, <2>5 DEF Neat
  <2>7. ASSUME NEW q \in Tree!In(cwd), q.name = o.name, q.type = o.type
        PROVE  FALSE
    <3>1. q \in Lists(disk) /\ q.parent = current_dir
      BY <2>1 DEF Tree!In, cwd
    <3>2. PICK p \in LiveDirs(disk) : q \in Says(Chain(disk, p), p)
      BY <3>1 DEF Lists
    <3>3. p = current_dir
      BY <3>1, <3>2, SaidFields
    <3>4. PICK k \in DOMAIN Chain(disk, p) : q = Said(Chain(disk, p)[k], p)
      BY <3>2, SaidFields
    <3>5. IsName(Chain(disk, p)[k], name, type)
      BY <2>5, <2>7, <3>4 DEF Said, IsName
    <3>. QED BY <1>3, <3>3, <3>5
  <2>8. Tree!Make(o)
    BY <2>1, <2>2, <2>3, <2>5, <2>6, <2>7 DEF Tree!Make, cwd
  <2>. QED BY <1>3, <2>3, <2>4, <2>8 DEF Tree!Next
<1>. QED
  <2>1. CASE status' # "undefined"
    BY <1>2, <1>3, <2>1, MakeNeat
  <2>. QED BY <1>1, <2>1

(* rmdir and delete take one object away: what was found, out of an image   *)
(* that may already have one directory less on its count.                   *)
LEMMA RemoveLists ==
  ASSUME IInv, Homed, Neat(disk), \A o, q \in Lists(disk) : o.inode = q.inode => o = q,
         NEW name \in Names, NEW type \in {FT_REG_FILE, FT_DIR}, ~ (name \in {Dot, DotDot} /\ type = FT_DIR),
         NEW i, i = handle_search_inode(disk, current_dir, name, type), i # 0,
         type = FT_DIR => disk.inode_table[i].size = EmptySize,
         NEW d, Sound(d), Kept(disk, d), d.inode_table = disk.inode_table,
         Saves(RemoveObject(d, i, name, type), "shell"),
         NEW o, o = [inode |-> i, parent |-> current_dir, name |-> name, type |-> type]
  PROVE  /\ o \in Lists(disk) /\ Neat(disk') /\ Lists(disk') = Lists(disk) \ {o}
         /\ type = FT_DIR => \A q \in Lists(disk) : q.parent # i
<1>0. /\ disk \in Disk /\ current_dir \in LiveDirs(disk) /\ current_dir \in Inodes
  BY IInvIsSound, HomeInUse DEF Sound, Homed, LiveDirs, MemoryOK
<1>1. i \in Inodes \ {1, current_dir}
  BY FoundElsewhere
<1>2. disk' = RemoveObject(d, i, name, type)
  BY DEF Saves
<1>3. Neat(d) /\ Lists(d) = Lists(disk) /\ LiveDirs(d) = LiveDirs(disk)
  <2>1. \A p : Chain(d, p) = Chain(disk, p)
    BY DEF Kept, Chain
  <2>2. \A p \in LiveDirs(disk) : d.inode_table[p].size >= EmptySize + NameBytes(Chain(disk, p))
    BY DEF Neat, NeatDir
  <2>3. d.inode_bitmap = disk.inode_bitmap
    BY DEF Kept
  <2>. QED BY <2>1, <2>2, <2>3, NeatSame DEF LiveDirs
<1>4. i = handle_search_inode(d, current_dir, name, type)
  <2>1. PICK b \in Blocks : disk.inode_table[current_dir].block = <<b>>
    BY <1>0 DEF Neat, NeatDir
  <2>2. disk.inode_table[current_dir].sub = <<>>
    BY <1>0 DEF Neat, NeatDir
  <2>3. Chain(d, current_dir) = Chain(disk, current_dir) /\ d \in Disk
    BY DEF Kept, Chain, Sound
  <2>4. i = search_file_name(Chain(disk, current_dir), name, type)
    BY <1>0, <2>1, <2>2, SearchOne
  <2>5. handle_search_inode(d, current_dir, name, type) = search_file_name(Chain(d, current_dir), name, type)
    BY <1>0, <2>1, <2>2, <2>3, SearchOne
  <2>. QED BY <2>3, <2>4, <2>5
<1>5. /\ o \in Lists(d) /\ Neat(disk') /\ Lists(disk') = Lists(d) \ {o}
      /\ type = FT_DIR => \A q \in Lists(d) : q.parent # i
  BY <1>0, <1>1, <1>2, <1>3, <1>4, RemoveNeat
<1>. QED BY <1>3, <1>5

(* So they do what FSTree says: a directory goes only when nothing lies     *)
(* in it and a file only when it is not open.                               *)
LEMMA RemoveNames ==
  ASSUME IInv, IInv', Homed, Neat(disk), OneSlot, NamesInv,
         NEW name \in Names, rmdir(name) \/ delete(name)
  PROVE  Neat(disk') /\ OneSlot' /\ [Tree!Next]_(Tree!vars)
<1>0. /\ Sound(disk) /\ disk \in Disk /\ disk' \in Disk /\ MemoryOK
      /\ current_dir \in LiveDirs(disk) /\ current_dir \in Inodes
  <2>1. Sound(disk) /\ Sound(disk)' /\ MemoryOK
    BY IInvIsSound DEF IInv, TypeOK, BlockOwnership, FreeBlocksClean, Sound
  <2>. QED BY <2>1, HomeInUse DEF Sound, Homed, LiveDirs, MemoryOK
<1>1. objects = Lists(disk)
  BY <1>0, ListsAreObjects DEF objects
<1>2. \A o, q \in Lists(disk) : o.inode = q.inode => o = q
  BY <1>1 DEF NamesInv, Tree!NamesSound
<1>3. ASSUME NEW type \in {FT_REG_FILE, FT_DIR}, ~ (name \in {Dot, DotDot} /\ type = FT_DIR),
             NEW i, i = handle_search_inode(disk, current_dir, name, type), i # 0,
             type = FT_DIR => disk.inode_table[i].size = EmptySize,
             type # FT_DIR => ~ is_open(i),
             NEW d, Sound(d), Kept(disk, d), d.inode_table = disk.inode_table,
             Saves(RemoveObject(d, i, name, type), "shell")
      PROVE  Neat(disk') /\ OneSlot' /\ [Tree!Next]_(Tree!vars)
  <2>. DEFINE o == [inode |-> i, parent |-> current_dir, name |-> name, type |-> type]
  <2>1. UNCHANGED fopen_table /\ UNCHANGED current_dir
    BY <1>3 DEF Saves, memory
  <2>2. /\ o \in Lists(disk) /\ Neat(disk') /\ Lists(disk') = Lists(disk) \ {o}
        /\ type = FT_DIR => \A q \in Lists(disk) : q.parent # i
    BY <1>2, <1>3, RemoveLists
  <2>3. objects' = objects \ {o} /\ o \in objects
    BY <1>0, <1>1, <2>2, ListsAreObjects DEF objects
  <2>4. o.inode = i /\ o.parent = current_dir /\ o.type = type
    OBVIOUS
  <2>. HIDE DEF o
  <2>5. OneSlot' /\ opened' = opened
    BY <2>1 DEF OneSlot, opened, is_open
  <2>6. IF o.type = FT_DIR THEN Tree!In(o.inode) = {} ELSE o.inode \notin opened
    BY <1>1, <1>3, <2>2, <2>4 DEF Tree!In, opened
  <2>7. Tree!Remove(o) /\ o \in Tree!In(cwd)
    BY <2>1, <2>3, <2>4, <2>5, <2>6 DEF Tree!Remove, Tree!In, cwd
  <2>. QED BY <2>2, <2>5, <2>7 DEF Tree!Next
<1>4. FT_REG_FILE # FT_DIR
  BY DEF FT_REG_FILE, FT_DIR
<1>5. CASE rmdir(name)
  <2>1. Sound(UncountDir(disk)) /\ Kept(disk, UncountDir(disk)) /\ UncountDir(disk).inode_table = disk.inode_table
    BY <1>0, CountDirSound, CountDirKeeps
  <2>. QED BY <1>3, <1>5, <2>1, Zenon DEF rmdir
<1>6. CASE delete(name)
  <2>1. Kept(disk, disk)
    BY DEF Kept
  <2>. QED BY <1>0, <1>3, <1>4, <1>6, <2>1, Zenon DEF delete
<1>. QED BY <1>5, <1>6

(* A command that touches no directory keeps the names.                     *)
LEMMA FileLists ==
  ASSUME IInv, Homed, Neat(disk), NEW name, Named(name) # 0,
         disk'.inode_bitmap = disk.inode_bitmap, disk'.dirents = disk.dirents,
         \A j \in Inodes : j # Named(name) => disk'.inode_table[j] = disk.inode_table[j],
         disk'.inode_table[Named(name)].type = disk.inode_table[Named(name)].type
  PROVE  Neat(disk') /\ Lists(disk') = Lists(disk)
<1>. DEFINE i == Named(name)
            o == [inode |-> i, parent |-> current_dir, name |-> name, type |-> FT_REG_FILE]
<1>0. /\ disk \in Disk /\ disk.inode_bitmap \subseteq Inodes /\ current_dir \in LiveDirs(disk)
  <2>1. Sound(disk) /\ MemoryOK
    BY IInvIsSound
  <2>. QED BY <2>1, HomeInUse DEF Sound, Homed, LiveDirs, Disk
<1>1. o \in Lists(disk)
  <2>1. ~ (name \in {Dot, DotDot} /\ FT_REG_FILE = FT_DIR)
    BY DEF FT_REG_FILE, FT_DIR
  <2>. QED BY <1>0, <2>1, FoundObject DEF Named
<1>2. disk.inode_table[i].type # FT_DIR
  <2>1. o.inode = i /\ o.type = FT_REG_FILE
    OBVIOUS
  <2>. HIDE DEF o, i
  <2>. QED BY <1>1, <2>1 DEF Neat, FT_REG_FILE, FT_DIR
<1>. HIDE DEF i, o
<1>3. \A p \in LiveDirs(disk) : p # i /\ p \in Inodes
  BY <1>0, <1>2 DEF LiveDirs
<1>4. \A j \in Inodes : j # i => disk'.inode_table[j] = disk.inode_table[j]
  BY DEF i
<1>5. disk'.inode_table[i].type = disk.inode_table[i].type
  BY DEF i
<1>6. \A j \in disk.inode_bitmap : disk'.inode_table[j].type = FT_DIR <=> disk.inode_table[j].type = FT_DIR
  BY <1>0, <1>4, <1>5
<1>7. \A p \in LiveDirs(disk) : disk'.inode_table[p] = disk.inode_table[p]
  BY <1>3, <1>4
<1>8. \A p \in LiveDirs(disk) : Chain(disk', p) = Chain(disk, p)
  BY <1>7 DEF Chain
<1>9. \A p \in LiveDirs(disk) : disk'.inode_table[p].size >= EmptySize + NameBytes(Chain(disk, p))
  BY <1>7 DEF Neat, NeatDir
<1>. QED BY <1>6, <1>7, <1>8, <1>9, NeatSame

LEMMA FileNames ==
  ASSUME IInv, IInv', Homed, Neat(disk), OneSlot, NEW name, Named(name) # 0,
         disk'.inode_bitmap = disk.inode_bitmap, disk'.dirents = disk.dirents,
         \A j \in Inodes : j # Named(name) => disk'.inode_table[j] = disk.inode_table[j],
         disk'.inode_table[Named(name)].type = disk.inode_table[Named(name)].type,
         UNCHANGED memory \/ initialize_memory
  PROVE  Neat(disk') /\ OneSlot' /\ [Tree!Next]_(Tree!vars)
<1>1. disk \in Disk /\ disk' \in Disk
  BY DEF IInv, TypeOK
<1>2. Neat(disk') /\ Lists(disk') = Lists(disk)
  BY FileLists
<1>. QED BY <1>1, <1>2, SameNames DEF Tree!Next

LEMMA WriteNames ==
  ASSUME IInv, IInv', Homed, Neat(disk), OneSlot, NEW name \in Names, NEW n \in WriteSizes, write(name, n)
  PROVE  Neat(disk') /\ OneSlot' /\ [Tree!Next]_(Tree!vars)
<1>1. CASE status' = "undefined"
  <2>1. disk' = disk /\ UNCHANGED memory /\ disk \in Disk
    BY <1>1, WriteUndefined DEF IInv, TypeOK
  <2>. QED BY <2>1, SameNames
<1>2. CASE status' # "undefined"
  <2>1. Named(name) # 0
    BY DEF write
  <2>2. UNCHANGED memory \/ initialize_memory
    BY <1>2, WriteElsewhere DEF Saves
  <2>. QED BY <1>2, <2>1, <2>2, WriteElsewhere, FileNames
<1>. QED BY <1>1, <1>2

LEMMA ChmodNames ==
  ASSUME IInv, IInv', Homed, Neat(disk), OneSlot, NEW name \in Names,
         NEW sign, NEW r, NEW w, NEW x, chmod(sign, r, w, x, name)
  PROVE  Neat(disk') /\ OneSlot' /\ [Tree!Next]_(Tree!vars)
<1>. DEFINE i == Named(name)
            f == IF sign = "+" THEN disk.inode_table[i].perm \cup PermBits(r, w, x)
                               ELSE disk.inode_table[i].perm \ PermBits(r, w, x)
<1>1. i # 0 /\ disk \in Disk /\ UNCHANGED memory
  BY DEF chmod, IInv, TypeOK
<1>2. i \in Inodes
  BY <1>1, FoundInode DEF Named
<1>3. disk' = [disk EXCEPT !.inode_table[i].perm = f]
  BY DEF chmod
<1>. HIDE DEF f, i
<1>. DEFINE m == [disk.inode_table[i] EXCEPT !.perm = f]
            t == [disk.inode_table EXCEPT ![i] = m]
<1>4. disk' = [disk EXCEPT !.inode_table = t]
  BY <1>3
<1>5. m.type = disk.inode_table[i].type
  BY <1>1, <1>2 DEF Disk, Inode
<1>. HIDE DEF m
<1>6. t[i] = m /\ \A j \in Inodes : j # i => t[j] = disk.inode_table[j]
  BY <1>1, <1>2 DEF Disk
<1>. HIDE DEF t
<1>7. /\ disk'.inode_bitmap = disk.inode_bitmap /\ disk'.dirents = disk.dirents
      /\ disk'.inode_table = t
  BY <1>1, <1>4 DEF Disk
<1>. QED BY <1>1, <1>5, <1>6, <1>7, FileNames DEF i

(* quit, login, pwd and a start change no name, format takes all away.      *)
LEMMA OtherNames ==
  ASSUME IInv, IInv', Homed, Neat(disk), OneSlot,
         \/ Start \/ quit \/ UNCHANGED vars
         \/ \E pw \in Passwords : login(pw) \/ pwd(pw) \/ format(pw)
  PROVE  Neat(disk') /\ OneSlot' /\ [Tree!Next]_(Tree!vars)
<1>0. disk \in Disk /\ disk' \in Disk
  BY DEF IInv, TypeOK
<1>1. ASSUME Start \/ quit \/ UNCHANGED vars \/ \E pw \in Passwords : login(pw)
      PROVE  Neat(disk') /\ OneSlot' /\ [Tree!Next]_(Tree!vars)
  <2>1. disk' = disk /\ (UNCHANGED memory \/ initialize_memory)
    BY <1>1 DEF Start, quit, login, vars, memory
  <2>. QED BY <1>0, <2>1, SameNames DEF Tree!Next
<1>2. ASSUME NEW pw \in Passwords, pwd(pw)
      PROVE  Neat(disk') /\ OneSlot' /\ [Tree!Next]_(Tree!vars)
  <2>1. /\ disk'.inode_bitmap = disk.inode_bitmap /\ disk'.inode_table = disk.inode_table
        /\ disk'.dirents = disk.dirents /\ UNCHANGED memory
    BY <1>0, <1>2 DEF pwd, Disk
  <2>2. \A p : Chain(disk', p) = Chain(disk, p)
    BY <2>1 DEF Chain
  <2>3. \A p \in LiveDirs(disk) : disk'.inode_table[p].size >= EmptySize + NameBytes(Chain(disk, p))
    BY <2>1 DEF Neat, NeatDir
  <2>4. Neat(disk') /\ Lists(disk') = Lists(disk)
    BY <2>1, <2>2, <2>3, NeatSame
  <2>. QED BY <1>0, <2>1, <2>4, SameNames
<1>3. ASSUME NEW pw \in Passwords, format(pw)
      PROVE  Neat(disk') /\ OneSlot' /\ [Tree!Next]_(Tree!vars)
  <2>1. Neat(disk') /\ Lists(disk') = {} /\ initialize_memory
    BY <1>3, FreshNeat DEF format
  <2>2. objects' = {}
    BY <1>0, <2>1, ListsAreObjects DEF objects
  <2>3. fopen_table' = NoOpenFiles /\ cwd' = 1
    BY <2>1 DEF initialize_memory, cwd
  <2>4. \A s \in DOMAIN fopen_table' : fopen_table'[s] = 0
    BY <2>3 DEF NoOpenFiles
  <2>5. OneSlot' /\ opened' = {}
    BY <2>4 DEF OneSlot, opened, is_open, Inodes
  <2>. QED BY <2>1, <2>2, <2>3, <2>5 DEF Tree!Format, Tree!Next
<1>. QED BY <1>1, <1>2, <1>3

(* Every step of the shell is a step of FSTree or changes no name.          *)
LEMMA StepNames ==
  ASSUME MaxDirSize < UINT32, IInv, IInv', Homed, Homed', Neat(disk), OneSlot, NamesInv, OneBlock', [Next]_vars
  PROVE  Neat(disk') /\ OneSlot' /\ [Tree!Next]_(Tree!vars)
<1>. DEFINE Goal == Neat(disk') /\ OneSlot' /\ [Tree!Next]_(Tree!vars)
<1>1. ASSUME NEW name \in Names, name \in Made, mkdir(name) \/ create(name) PROVE Goal
  BY <1>1, MakeNames DEF mkdir, create
<1>2. ASSUME NEW name \in Names, rmdir(name) \/ delete(name) PROVE Goal
  BY <1>2, RemoveNames
<1>3. ASSUME NEW name \in Names, cd(name) PROVE Goal
  BY <1>3, CdNames
<1>4. ASSUME NEW name \in Names, open(name) PROVE Goal
  BY <1>4, OpenNames
<1>5. ASSUME NEW name \in Names, close(name) PROVE Goal
  BY <1>5, CloseNames
<1>6. ASSUME NEW name \in Names, NEW n \in WriteSizes, write(name, n) PROVE Goal
  BY <1>6, WriteNames
<1>7. ASSUME NEW name \in Names, NEW sign, NEW r, NEW w, NEW x, chmod(sign, r, w, x, name) PROVE Goal
  BY <1>7, ChmodNames
<1>8. ASSUME \/ Start \/ quit \/ UNCHANGED vars
             \/ \E pw \in Passwords : login(pw) \/ pwd(pw) \/ format(pw)
      PROVE  Goal
  BY <1>8, OtherNames
<1>. HIDE DEF Goal
<1>9. Goal
  BY <1>1, <1>2, <1>3, <1>4, <1>5, <1>6, <1>7, <1>8, Zenon DEF Next
<1>. QED BY <1>9 DEF Goal

(* What holds of names, image and memory together.                          *)
TreeInv == IInv /\ Homed /\ Neat(disk) /\ OneSlot /\ NamesInv

LEMMA TreeInit == Init => TreeInv /\ Tree!Init
<1>. SUFFICES ASSUME Init PROVE TreeInv /\ Tree!Init
  OBVIOUS
<1>1. IInv /\ Homed
  BY InitInv, HomedInit
<1>2. PICK pw \in Passwords : disk = initialize_disk(pw)
  BY DEF Init
<1>3. Neat(disk) /\ Lists(disk) = {}
  BY <1>2, FreshNeat
<1>4. objects = {}
  BY <1>1, <1>3, ListsAreObjects DEF objects, IInv, TypeOK
<1>5. fopen_table = NoOpenFiles /\ cwd = 1
  BY DEF Init, cwd
<1>6. \A s \in DOMAIN fopen_table : fopen_table[s] = 0
  BY <1>5 DEF NoOpenFiles
<1>7. OneSlot /\ opened = {}
  BY <1>6 DEF OneSlot, opened, is_open, Inodes
<1>8. Tree!Init
  BY <1>4, <1>5, <1>7 DEF Tree!Init
<1>. QED BY <1>1, <1>3, <1>7, <1>8, NamesInit DEF TreeInv

LEMMA TreeNext ==
  ASSUME MaxDirSize < UINT32
  PROVE  TreeInv /\ [Next]_vars /\ OneBlock' => TreeInv' /\ [Tree!Next]_(Tree!vars)
<1>. SUFFICES ASSUME TreeInv, [Next]_vars, OneBlock' PROVE TreeInv' /\ [Tree!Next]_(Tree!vars)
  OBVIOUS
<1>1. (IInv /\ Homed)'
  BY HomedNext DEF TreeInv
<1>2. Neat(disk') /\ OneSlot' /\ [Tree!Next]_(Tree!vars)
  BY <1>1, StepNames DEF TreeInv
<1>. QED BY <1>1, <1>2, NamesNext DEF TreeInv

(* The entries of the live directories and what they are listed as.         *)
LEMMA PlaceListed ==
  ASSUME disk \in Disk, Neat(disk), NEW p \in LiveDirs(disk), NEW at \in ChildPlaces(disk, p)
  PROVE  /\ Said(EntryAt(disk, at), p) \in Lists(disk)
         /\ disk.inode_table[p].block = <<at[1]>> /\ at = <<at[1], at[2]>>
         /\ at[2] \in DOMAIN Chain(disk, p) /\ EntryAt(disk, at) = Chain(disk, p)[at[2]]
<1>1. NeatDir(disk, p) /\ p \in Inodes
  BY NeatChain DEF Neat
<1>2. PICK b \in Blocks : disk.inode_table[p].block = <<b>>
  BY <1>1 DEF NeatDir
<1>3. /\ at = <<b, at[2]>> /\ at[2] \in DOMAIN Chain(disk, p)
      /\ EntryAt(disk, at) = Chain(disk, p)[at[2]] /\ ~ IsDots(Chain(disk, p)[at[2]])
  BY <1>1, <1>2, PlacesOne DEF NeatDir
<1>4. Said(EntryAt(disk, at), p) \in Says(Chain(disk, p), p)
  BY <1>3 DEF Says
<1>5. at[1] = b
  BY <1>3
<1>. QED BY <1>2, <1>3, <1>4, <1>5 DEF Lists

LEMMA ListedPlace ==
  ASSUME disk \in Disk, Neat(disk), NEW o \in Lists(disk)
  PROVE  /\ o.parent \in LiveDirs(disk)
         /\ \E at \in ChildPlaces(disk, o.parent) :
              /\ o = Said(EntryAt(disk, at), o.parent)
              /\ EntryAt(disk, at) \in Children(disk, o.parent)
<1>1. PICK p \in LiveDirs(disk) : o \in Says(Chain(disk, p), p)
  BY DEF Lists
<1>2. NeatDir(disk, p) /\ p \in Inodes
  BY NeatChain DEF Neat
<1>3. PICK b \in Blocks : disk.inode_table[p].block = <<b>>
  BY <1>2 DEF NeatDir
<1>4. o.parent = p
  BY <1>1, SaidFields
<1>5. PICK k \in DOMAIN Chain(disk, p) : ~ IsDots(Chain(disk, p)[k]) /\ o = Said(Chain(disk, p)[k], p)
  BY <1>1, SaidFields
<1>6. <<b, k>> \in ChildPlaces(disk, p) /\ EntryAt(disk, <<b, k>>) = Chain(disk, p)[k]
  BY <1>2, <1>3, <1>5, PlacesOne DEF NeatDir
<1>7. EntryAt(disk, <<b, k>>) \in Children(disk, p)
  BY <1>6 DEF Children
<1>. QED BY <1>4, <1>5, <1>6, <1>7

LEMMA NamedOnce == TreeInv => EveryInodeNamed /\ NoDanglingEntry
<1>. SUFFICES ASSUME TreeInv PROVE EveryInodeNamed /\ NoDanglingEntry
  OBVIOUS
<1>0. disk \in Disk /\ Neat(disk)
  BY DEF TreeInv, IInv, TypeOK
<1>1. objects = Lists(disk)
  BY <1>0, ListsAreObjects DEF objects
<1>2. ASSUME NEW i \in disk.inode_bitmap \ {1}
      PROVE  \E p \in LiveDirs(disk) : \E at \in ChildPlaces(disk, p) :
               /\ EntryAt(disk, at).inode = i
               /\ \A q \in LiveDirs(disk) : \A to \in ChildPlaces(disk, q) :
                    EntryAt(disk, to).inode = i => to = at
  <2>1. PICK o \in Lists(disk) : o.inode = i
    BY <1>0, <1>2 DEF Neat
  <2>2. PICK p \in LiveDirs(disk) : p = o.parent
    BY <1>0, ListedPlace
  <2>3. PICK at \in ChildPlaces(disk, p) : o = Said(EntryAt(disk, at), p)
    BY <1>0, <2>2, ListedPlace
  <2>4. EntryAt(disk, at).inode = i
    BY <2>1, <2>3 DEF Said
  <2>5. ASSUME NEW q \in LiveDirs(disk), NEW to \in ChildPlaces(disk, q), EntryAt(disk, to).inode = i
        PROVE  to = at
    <3>. DEFINE u == Said(EntryAt(disk, to), q)
    <3>1. u \in Lists(disk) /\ u.inode = i
      BY <1>0, <2>5, PlaceListed DEF Said
    <3>2. u = o
      BY <1>1, <2>1, <3>1 DEF TreeInv, NamesInv, Tree!NamesSound
    <3>3. q = p /\ IsName(EntryAt(disk, to), EntryAt(disk, at).name, EntryAt(disk, at).file_type)
      BY <2>3, <3>2 DEF Said, IsName
    <3>4. /\ disk.inode_table[p].block = <<at[1]>> /\ at = <<at[1], at[2]>>
          /\ at[2] \in DOMAIN Chain(disk, p) /\ EntryAt(disk, at) = Chain(disk, p)[at[2]]
      BY <1>0, PlaceListed
    <3>5. /\ disk.inode_table[p].block = <<to[1]>> /\ to = <<to[1], to[2]>>
          /\ to[2] \in DOMAIN Chain(disk, p) /\ EntryAt(disk, to) = Chain(disk, p)[to[2]]
      BY <1>0, <3>3, PlaceListed
    <3>6. to[2] = at[2]
      BY <1>0, <3>3, <3>4, <3>5, NeatChain DEF Tidy
    <3>7. to[1] = at[1]
      BY <3>4, <3>5
    <3>. QED BY <3>4, <3>5, <3>6, <3>7
  <2>. QED BY <2>4, <2>5
<1>3. ASSUME NEW p \in LiveDirs(disk), NEW e \in Children(disk, p)
      PROVE  e.inode \in disk.inode_bitmap
  <2>1. PICK at \in ChildPlaces(disk, p) : e = EntryAt(disk, at)
    BY DEF Children
  <2>2. Said(e, p) \in Lists(disk) /\ Said(e, p).inode = e.inode
    BY <1>0, <2>1, PlaceListed DEF Said
  <2>. QED BY <1>0, <2>2 DEF Neat
<1>. QED BY <1>2, <1>3 DEF EveryInodeNamed, NoDanglingEntry

LEMMA DotsLead == TreeInv => DotsFormTree
<1>. SUFFICES ASSUME TreeInv, NEW p \in LiveDirs(disk),
                     NEW parent, parent = handle_search_inode(disk, p, DotDot, FT_DIR)
              PROVE  /\ handle_search_inode(disk, p, Dot, FT_DIR) = p
                     /\ parent \in LiveDirs(disk)
                     /\ IF p = 1 THEN parent = 1
                        ELSE \E e \in Children(disk, parent) : e.inode = p /\ e.file_type = FT_DIR
  BY DEF DotsFormTree
<1>0. disk \in Disk /\ Neat(disk) /\ 1 \in LiveDirs(disk)
  <2>1. disk \in Disk /\ Neat(disk) /\ Homed /\ MemoryOK
    BY IInvIsSound DEF TreeInv, Sound
  <2>. QED BY <2>1, HomeInUse DEF LiveDirs, Homed
<1>1. NeatDir(disk, p) /\ p \in Inodes /\ Chain(disk, p) \in Seq(DirEntry)
  BY <1>0, NeatChain DEF Neat
<1>2. handle_search_inode(disk, p, Dot, FT_DIR) = p
  <2>. DEFINE c == Chain(disk, p)
  <2>1. PICK b \in Blocks : disk.inode_table[p].block = <<b>>
    BY <1>1 DEF NeatDir
  <2>2. handle_search_inode(disk, p, Dot, FT_DIR) = search_file_name(c, Dot, FT_DIR)
    BY <1>0, <1>1, <2>1, SearchOne DEF NeatDir
  <2>3. handle_search_inode(disk, p, Dot, FT_DIR) # 0
    BY <1>0, DotsFound
  <2>. HIDE DEF c
  <2>4. PICK k \in DOMAIN c : /\ IsName(c[k], Dot, FT_DIR)
                              /\ c[k].inode = handle_search_inode(disk, p, Dot, FT_DIR)
    <3>1. c \in Seq(DirEntry)
      BY <1>1 DEF c
    <3>. QED BY <2>2, <2>3, <3>1, SearchSays
  <2>. QED BY <1>1, <2>4 DEF NeatDir, Tidy, IsName, c
<1>3. \A o \in Lists(disk) : o.inode # 1
  BY <1>0 DEF Neat
<1>4. CASE p = 1
  BY <1>0, <1>2, <1>3, <1>4, FoundParent
<1>5. CASE p # 1
  <2>1. PICK o \in Lists(disk) : o.inode = p /\ parent = o.parent
    BY <1>0, <1>5, FoundParent
  <2>2. o.type = FT_DIR
    BY <1>0, <2>1 DEF Neat, LiveDirs
  <2>3. parent \in LiveDirs(disk)
    BY <1>0, <2>1, ListedPlace
  <2>4. PICK e \in Children(disk, parent) : o = Said(e, parent)
    BY <1>0, <2>1, ListedPlace
  <2>5. e.inode = p /\ e.file_type = FT_DIR
    BY <2>1, <2>2, <2>4 DEF Said
  <2>. QED BY <1>2, <1>5, <2>3, <2>5
<1>. QED BY <1>4, <1>5

LEMMA OpenLive == TreeInv => OpenFilesLive
<1>. SUFFICES ASSUME TreeInv, NEW s \in DOMAIN fopen_table, fopen_table[s] # 0
              PROVE  /\ fopen_table[s] \in LiveFiles(disk)
                     /\ \A t \in DOMAIN fopen_table : fopen_table[t] = fopen_table[s] => t = s
  BY DEF OpenFilesLive
<1>0. disk \in Disk /\ Neat(disk) /\ MemoryOK
  BY IInvIsSound DEF TreeInv, Sound
<1>1. objects = Lists(disk)
  BY <1>0, ListsAreObjects DEF objects
<1>2. fopen_table[s] \in opened
  <2>1. fopen_table[s] \in Inodes
    BY <1>0, SizeAssumption DEF MemoryOK, Inodes
  <2>. QED BY <2>1 DEF opened, is_open
<1>3. PICK o \in Lists(disk) : o.inode = fopen_table[s] /\ o.type = FT_REG_FILE
  BY <1>1, <1>2 DEF TreeInv, NamesInv, Tree!NamesSound
<1>4. o.inode \in disk.inode_bitmap /\ disk.inode_table[o.inode].type # FT_DIR
  BY <1>0, <1>3 DEF Neat, FT_REG_FILE, FT_DIR
<1>. QED BY <1>3, <1>4 DEF LiveFiles, TreeInv, OneSlot

LEMMA TreeAlways ==
  ASSUME MaxDirSize < UINT32
  PROVE  Spec /\ []OneBlock => []TreeInv
<1>1. Init => TreeInv
  BY TreeInit
<1>2. TreeInv /\ [Next]_vars /\ OneBlock' => TreeInv'
  BY TreeNext
<1>. QED BY <1>1, <1>2, PTL DEF Spec

(* As long as no directory outgrows its first block, the shell does to its  *)
(* names what FSTree does: the image implements the tree of names.          *)
THEOREM ShellImplementsTree ==
  ASSUME MaxDirSize < UINT32
  PROVE  Spec /\ []OneBlock => Tree!Spec
<1>1. Init => Tree!Init
  BY TreeInit
<1>2. TreeInv /\ [Next]_vars /\ OneBlock' => [Tree!Next]_(Tree!vars)
  BY TreeNext
<1>. QED BY <1>1, <1>2, TreeAlways, PTL DEF Spec, Tree!Spec

(* And so long every inode in use has exactly one entry, no entry is left   *)
(* for a freed inode, "." and ".." lead where they should, and every slot   *)
(* of the open file table holds a live file of its own.                     *)
THEOREM OneBlockKeepsNames ==
  ASSUME MaxDirSize < UINT32
  PROVE  Spec /\ []OneBlock => [](EveryInodeNamed /\ NoDanglingEntry /\ DotsFormTree /\ OpenFilesLive)
<1>1. TreeInv => EveryInodeNamed /\ NoDanglingEntry /\ DotsFormTree /\ OpenFilesLive
  BY NamedOnce, DotsLead, OpenLive
<1>. QED BY <1>1, TreeAlways, PTL

-----------------------------------------------------------------------------
(* A sum over a set, taken one chosen element at a time, is what any sum    *)
(* gives that adds the elements in each order.                              *)
Chosen(s) == CHOOSE x \in s : TRUE
AddsSet(F, S, m) == F = [s \in SUBSET S |-> IF s = {} THEN 0 ELSE m[Chosen(s)] + F[s \ {Chosen(s)}]]

LEMMA AddsSetOnce ==
  ASSUME NEW S, IsFiniteSet(S), NEW m, NEW F, AddsSet(F, S, m), NEW G, AddsSet(G, S, m)
  PROVE  F[S] = G[S]
<1>. DEFINE N == Cardinality(S)
            T == {n \in 0 .. N : \A s \in SUBSET S : Cardinality(s) = n => F[s] = G[s]}
<1>0. N \in Nat /\ \A s \in SUBSET S : IsFiniteSet(s) /\ Cardinality(s) \in Nat
  BY FS_CardinalityType, FS_Subset
<1>1. \A s \in SUBSET S : /\ F[s] = IF s = {} THEN 0 ELSE m[Chosen(s)] + F[s \ {Chosen(s)}]
                          /\ G[s] = IF s = {} THEN 0 ELSE m[Chosen(s)] + G[s \ {Chosen(s)}]
  BY DEF AddsSet
<1>2. 0 \in T
  <2>1. ASSUME NEW s \in SUBSET S, Cardinality(s) = 0 PROVE F[s] = G[s]
    <3>1. s = {}
      BY <1>0, <2>1, FS_EmptySet
    <3>. QED BY <1>1, <3>1
  <2>2. 0 \in 0 .. N
    BY <1>0
  <2>. QED BY <2>1, <2>2
<1>3. ASSUME NEW n \in 0 .. N - 1, n \in T
      PROVE  n + 1 \in T
  <2>1. ASSUME NEW s \in SUBSET S, Cardinality(s) = n + 1 PROVE F[s] = G[s]
    <3>. DEFINE x == Chosen(s)
    <3>1. s # {}
      BY <1>0, <2>1, FS_EmptySet
    <3>2. x \in s
      BY <3>1 DEF Chosen
    <3>. HIDE DEF x
    <3>3. s \ {x} \in SUBSET S /\ Cardinality(s \ {x}) = n
      <4>1. Cardinality(s \ {x}) = Cardinality(s) - 1
        BY <1>0, <3>2, FS_RemoveElement
      <4>. QED BY <2>1, <4>1
    <3>4. F[s \ {x}] = G[s \ {x}]
      BY <1>3, <3>3
    <3>. QED BY <1>1, <3>1, <3>4 DEF x
  <2>2. n + 1 \in 0 .. N
    BY <1>0
  <2>. QED BY <2>1, <2>2
<1>4. 0 \in Int /\ N \in Int /\ N \in 0 .. N
  BY <1>0
<1>. HIDE DEF T, N
<1>5. 0 .. N \subseteq T
  BY <1>2, <1>3, <1>4, Induction
<1>. QED BY <1>4, <1>5 DEF T, N

(* The entries of a chain that are in s, at their places in block b, with   *)
(* the bytes of their names, and what these add up to.                      *)
Masked(c, b, s) == [k \in 1 .. Len(c) |-> IF <<b, k>> \in s THEN RecLen(c[k].name) ELSE 0]
MaskSum(c, b, s) == CHOOSE v \in Nat : \E f \in [0 .. Len(c) -> Nat] : Adds(f, Len(c), Masked(c, b, s)) /\ v = f[Len(c)]

LEMMA MaskType ==
  ASSUME NEW c \in Seq(DirEntry), NEW b, NEW s
  PROVE  /\ Len(c) \in Nat
         /\ Masked(c, b, s) \in [1 .. Len(c) -> Nat]
         /\ \A k \in 1 .. Len(c) : Masked(c, b, s)[k] = IF <<b, k>> \in s THEN RecLen(c[k].name) ELSE 0
<1>1. \A k \in 1 .. Len(c) : RecLen(c[k].name) \in Nat
  <2>1. \A e \in DirEntry : e.name \in Names
    BY DEF DirEntry
  <2>2. \A k \in 1 .. Len(c) : c[k] \in DirEntry
    OBVIOUS
  <2>. QED BY <2>1, <2>2, NamesType
<1>2. Len(c) \in Nat
  OBVIOUS
<1>. QED BY <1>1, <1>2 DEF Masked

LEMMA MaskSumIs ==
  ASSUME NEW c \in Seq(DirEntry), NEW b, NEW s
  PROVE  \E f \in [0 .. Len(c) -> Nat] : Adds(f, Len(c), Masked(c, b, s)) /\ MaskSum(c, b, s) = f[Len(c)]
<1>. DEFINE n == Len(c)
            z == Masked(c, b, s)
            Ends(v) == \E f \in [0 .. n -> Nat] : Adds(f, n, z) /\ v = f[n]
<1>1. n \in Nat /\ z \in [1 .. n -> Nat]
  BY MaskType
<1>. HIDE DEF n, z
<1>2. PICK f \in [0 .. n -> Nat] : Adds(f, n, z)
  BY <1>1, Sums
<1>3. f[n] \in Nat /\ Ends(f[n])
  BY <1>1, <1>2
<1>. HIDE DEF Ends
<1>4. Ends(CHOOSE v \in Nat : Ends(v))
  BY <1>3, Zenon
<1>. QED BY <1>4 DEF Ends, MaskSum, n, z

(* One number changed changes the sum by as much.                           *)
LEMMA AddsChanged ==
  ASSUME NEW n \in Nat, NEW k \in 1 .. n, NEW z \in [1 .. n -> Nat], NEW y \in [1 .. n -> Nat],
         NEW f \in [0 .. n -> Nat], NEW h \in [0 .. n -> Nat], Adds(f, n, z), Adds(h, n, y),
         \A j \in 1 .. n : j # k => y[j] = z[j]
  PROVE  h[n] = f[n] - z[k] + y[k]
<1>1. PICK g \in [0 .. n -> Int] : Adds(g, n, y) /\ g[n] = f[n] - z[k] + y[k]
  <2>1. \E g \in [0 .. n -> Int] : Adds(g, n, y) /\ g[n] = f[n] - z[k] + y[k]
    BY AddsReplaced
  <2>. QED BY <2>1
<1>2. h \in [0 .. n -> Int]
  OBVIOUS
<1>3. g[n] = h[n]
  BY <1>1, <1>2, AddsOnce
<1>. QED BY <1>1, <1>3

(* An entry more in s adds its name.                                        *)
LEMMA MaskSumMore ==
  ASSUME NEW c \in Seq(DirEntry), NEW b, NEW s, NEW k \in 1 .. Len(c), <<b, k>> \in s
  PROVE  MaskSum(c, b, s) = RecLen(c[k].name) + MaskSum(c, b, s \ {<<b, k>>})
<1>. DEFINE n == Len(c)
            y == Masked(c, b, s)
            z == Masked(c, b, s \ {<<b, k>>})
            r == RecLen(c[k].name)
<1>1. /\ n \in Nat /\ y \in [1 .. n -> Nat] /\ z \in [1 .. n -> Nat]
      /\ y[k] = r /\ z[k] = 0 /\ \A j \in 1 .. n : j # k => y[j] = z[j]
  <2>1. \A j \in 1 .. n : y[j] = IF <<b, j>> \in s THEN RecLen(c[j].name) ELSE 0
    BY MaskType
  <2>2. \A j \in 1 .. n : z[j] = IF <<b, j>> \in s \ {<<b, k>>} THEN RecLen(c[j].name) ELSE 0
    BY MaskType
  <2>3. \A j \in 1 .. n : j # k => <<b, j>> # <<b, k>>
    OBVIOUS
  <2>4. n \in Nat /\ y \in [1 .. n -> Nat] /\ z \in [1 .. n -> Nat]
    BY MaskType
  <2>. HIDE DEF y, z
  <2>. QED BY <2>1, <2>2, <2>3, <2>4
<1>2. PICK f \in [0 .. n -> Nat] : Adds(f, n, z) /\ MaskSum(c, b, s \ {<<b, k>>}) = f[n]
  BY MaskSumIs
<1>3. PICK h \in [0 .. n -> Nat] : Adds(h, n, y) /\ MaskSum(c, b, s) = h[n]
  BY MaskSumIs
<1>. HIDE DEF n, y, z, r
<1>4. k \in 1 .. n
  BY DEF n
<1>5. h[n] = f[n] - z[k] + y[k]
  <2>1. n \in Nat /\ y \in [1 .. n -> Nat] /\ z \in [1 .. n -> Nat]
    BY <1>1
  <2>2. \A j \in 1 .. n : j # k => y[j] = z[j]
    BY <1>1
  <2>3. f \in [0 .. n -> Nat] /\ Adds(f, n, z) /\ h \in [0 .. n -> Nat] /\ Adds(h, n, y)
    BY <1>2, <1>3
  <2>. QED BY <2>1, <2>2, <2>3, <1>4, AddsChanged
<1>7. f[n] \in Nat /\ y[k] \in Nat
  BY <1>1, <1>4
<1>. QED BY <1>1, <1>2, <1>3, <1>5, <1>7 DEF r

LEMMA MaskSumNone ==
  ASSUME NEW c \in Seq(DirEntry), NEW b, NEW s, \A at : at \notin s
  PROVE  MaskSum(c, b, s) = 0
<1>. DEFINE n == Len(c)
            z == Masked(c, b, s)
            g == [j \in 0 .. n |-> 0]
<1>1. n \in Nat /\ \A k \in 1 .. n : z[k] = 0
  <2>1. n \in Nat /\ \A k \in 1 .. n : z[k] = IF <<b, k>> \in s THEN RecLen(c[k].name) ELSE 0
    BY MaskType
  <2>. HIDE DEF n, z
  <2>. QED BY <2>1
<1>2. PICK f \in [0 .. n -> Nat] : Adds(f, n, z) /\ MaskSum(c, b, s) = f[n]
  BY MaskSumIs
<1>. HIDE DEF n, z
<1>3. Adds(g, n, z)
  <2>1. g[0] = 0 /\ \A j \in 1 .. n : g[j] = g[j - 1] + z[j]
    BY <1>1
  <2>. QED BY <2>1 DEF Adds
<1>4. g[n] = 0
  BY <1>1
<1>. HIDE DEF g
<1>. QED BY <1>1, <1>2, <1>3, <1>4, AddsOnce

(* With all entries but the dots in s that is NameBytes.                    *)
LEMMA MaskSumAll ==
  ASSUME NEW c \in Seq(DirEntry), NEW b, NEW s,
         \A k \in 1 .. Len(c) : <<b, k>> \in s <=> ~ IsDots(c[k])
  PROVE  MaskSum(c, b, s) = NameBytes(c)
<1>. DEFINE w == Weighed(c)
            n == Len(c)
<1>1. /\ w \in Seq(DirEntry) /\ Len(w) = n /\ n \in Nat
      /\ \A k \in 1 .. n : w[k].rec_len = Weigh(c[k])
  BY WeighedType
<1>2. PICK f \in [0 .. n -> Nat] : Adds(f, n, Masked(c, b, s)) /\ MaskSum(c, b, s) = f[n]
  BY MaskSumIs
<1>3. \A k \in 1 .. n : Masked(c, b, s)[k] = IF <<b, k>> \in s THEN RecLen(c[k].name) ELSE 0
  BY MaskType
<1>4. \A k \in 1 .. n : RecLens(w)[k] = Masked(c, b, s)[k]
  BY <1>1, <1>3 DEF RecLens, Weigh
<1>5. Adds(f, Len(w), RecLens(w))
  BY <1>1, <1>2, <1>4 DEF Adds
<1>6. ChainEnd(w) = f[Len(w)]
  BY <1>1, <1>5, ChainEndIs
<1>. QED BY <1>1, <1>2, <1>6 DEF NameBytes

(* The sum of DirSizeCovers, for a directory of one block.                  *)
LEMMA NamesAddUp ==
  ASSUME disk \in Disk, NEW p \in Inodes, NEW b \in Blocks,
         disk.inode_table[p].block = <<b>>, disk.inode_table[p].sub = <<>>
  PROVE  MapThenSumSet(LAMBDA at : RecLen(EntryAt(disk, at).name), ChildPlaces(disk, p))
           = NameBytes(Chain(disk, p))
<1>. DEFINE S == ChildPlaces(disk, p)
            c == Chain(disk, p)
            Weight(at) == RecLen(EntryAt(disk, at).name)
            m == [at \in S |-> Weight(at)]
            iter[s \in SUBSET S] == IF s = {} THEN 0
                                    ELSE LET x == Chosen(s) IN Weight(x) + iter[s \ {x}]
            G == [s \in SUBSET S |-> MaskSum(c, b, s)]
<1>1. MapThenSumSet(LAMBDA at : RecLen(EntryAt(disk, at).name), S) = iter[S]
  BY DEF MapThenSumSet, MapThenFoldSet, Chosen
<1>2. /\ c \in Seq(DirEntry) /\ Len(c) \in Nat
      /\ \A k \in DOMAIN c : ~ IsDots(c[k]) => <<b, k>> \in S /\ EntryAt(disk, <<b, k>>) = c[k]
      /\ \A at \in S : /\ at = <<b, at[2]>> /\ at[2] \in DOMAIN c
                      /\ EntryAt(disk, at) = c[at[2]] /\ ~ IsDots(c[at[2]])
  <2>1. c \in Seq(DirEntry)
    BY ChainType
  <2>2. Len(c) \in Nat /\ c \in Seq(DirEntry)
    BY <2>1
  <2>. QED BY <2>2, PlacesOne
<1>3. DOMAIN c = 1 .. Len(c)
  BY <1>2
<1>4. IsFiniteSet(S)
  <2>1. IsFiniteSet(1 .. Len(c))
    <3>1. 1 \in Int /\ Len(c) \in Int
      BY <1>2
    <3>. QED BY <3>1, FS_Interval
  <2>2. IsFiniteSet({b})
    BY FS_Singleton
  <2>3. IsFiniteSet({b} \X (1 .. Len(c)))
    BY <2>1, <2>2, FS_Product
  <2>4. S \in SUBSET ({b} \X (1 .. Len(c)))
    <3>. HIDE DEF S, c
    <3>1. ASSUME NEW at \in S
          PROVE  at \in {b} \X (1 .. Len(c))
      <4>1. at = <<b, at[2]>> /\ at[2] \in 1 .. Len(c)
        BY <1>2, <1>3
      <4>. QED BY <4>1
    <3>. QED BY <3>1
  <2>. QED BY <2>3, <2>4, FS_Subset
<1>. HIDE DEF c, S
<1>5. ASSUME NEW s \in SUBSET S, NEW at \in s
      PROVE  G[s] = Weight(at) + G[s \ {at}]
  <2>1. at = <<b, at[2]>> /\ at[2] \in 1 .. Len(c) /\ EntryAt(disk, at) = c[at[2]]
    BY <1>2, <1>3
  <2>2. PICK k \in 1 .. Len(c) : at = <<b, k>> /\ EntryAt(disk, at) = c[k]
    BY <2>1
  <2>3. MaskSum(c, b, s) = RecLen(c[k].name) + MaskSum(c, b, s \ {<<b, k>>})
    BY <1>2, <2>2, MaskSumMore
  <2>4. s \ {at} \in SUBSET S
    OBVIOUS
  <2>5. G[s] = MaskSum(c, b, s) /\ G[s \ {at}] = MaskSum(c, b, s \ {at})
    BY <2>4
  <2>6. Weight(at) = RecLen(c[k].name)
    BY <2>2
  <2>. HIDE DEF G, Weight
  <2>. QED BY <2>2, <2>3, <2>5, <2>6
<1>6. G[{}] = 0
  <2>1. \A at : at \notin {}
    OBVIOUS
  <2>2. MaskSum(c, b, {}) = 0
    BY <1>2, <2>1, MaskSumNone
  <2>. QED BY <2>2
<1>7. AddsSet(G, S, m)
  <2>1. ASSUME NEW s \in SUBSET S, s # {}
        PROVE  G[s] = m[Chosen(s)] + G[s \ {Chosen(s)}]
    <3>1. Chosen(s) \in s
      BY <2>1 DEF Chosen
    <3>2. m[Chosen(s)] = Weight(Chosen(s))
      BY <3>1
    <3>. HIDE DEF G, m, Weight
    <3>. QED BY <1>5, <3>1, <3>2
  <2>2. G = [s \in SUBSET S |-> G[s]]
    OBVIOUS
  <2>3. \A s \in SUBSET S : G[s] = IF s = {} THEN 0 ELSE m[Chosen(s)] + G[s \ {Chosen(s)}]
    <3>. HIDE DEF G, m
    <3>. QED BY <1>6, <2>1
  <2>. HIDE DEF G, m
  <2>. QED BY <2>2, <2>3, Zenon DEF AddsSet
<1>8. AddsSet(iter, S, m)
  <2>1. \A s \in SUBSET S : s # {} => m[Chosen(s)] = Weight(Chosen(s))
    <3>1. ASSUME NEW s \in SUBSET S, s # {}
          PROVE  m[Chosen(s)] = Weight(Chosen(s))
      <4>1. Chosen(s) \in S
        BY <3>1 DEF Chosen
      <4>. QED BY <4>1
    <3>. QED BY <3>1
  <2>. HIDE DEF m, Weight
  <2>2. G = [s \in SUBSET S |-> IF s = {} THEN 0 ELSE Weight(Chosen(s)) + G[s \ {Chosen(s)}]]
    <3>. HIDE DEF G
    <3>1. G = [s \in SUBSET S |-> IF s = {} THEN 0 ELSE m[Chosen(s)] + G[s \ {Chosen(s)}]]
      BY <1>7, Zenon DEF AddsSet
    <3>. QED BY <2>1, <3>1
  <2>3. iter = [s \in SUBSET S |-> IF s = {} THEN 0 ELSE Weight(Chosen(s)) + iter[s \ {Chosen(s)}]]
    <3>. HIDE DEF G
    <3>. QED BY <2>2 DEF iter
  <2>. HIDE DEF iter, G
  <2>4. iter = [s \in SUBSET S |-> IF s = {} THEN 0 ELSE m[Chosen(s)] + iter[s \ {Chosen(s)}]]
    BY <2>1, <2>3
  <2>. QED BY <2>4, Zenon DEF AddsSet
<1>9. iter[S] = G[S]
  <2>. HIDE DEF iter, G, m
  <2>. QED BY <1>4, <1>7, <1>8, AddsSetOnce
<1>10. G[S] = NameBytes(c)
  <2>1. \A k \in 1 .. Len(c) : <<b, k>> \in S <=> ~ IsDots(c[k])
    <3>1. ASSUME NEW k \in 1 .. Len(c), <<b, k>> \in S
          PROVE  ~ IsDots(c[k])
      <4>1. <<b, k>>[2] = k
        OBVIOUS
      <4>. QED BY <1>2, <3>1, <4>1
    <3>. QED BY <1>2, <1>3, <3>1
  <2>2. MaskSum(c, b, S) = NameBytes(c)
    BY <1>2, <2>1, MaskSumAll
  <2>. QED BY <2>2
<1>. QED BY <1>1, <1>9, <1>10 DEF S, c

(* In a neat image that is the inequality of each directory.                *)
LEMMA SizesCover == TreeInv => DirSizeCovers
<1>. SUFFICES ASSUME TreeInv, NEW p \in LiveDirs(disk)
              PROVE  disk.inode_table[p].size >=
                       EmptySize + MapThenSumSet(LAMBDA at : RecLen(EntryAt(disk, at).name), ChildPlaces(disk, p))
  BY DEF DirSizeCovers
<1>0. disk \in Disk /\ NeatDir(disk, p) /\ p \in Inodes
  BY NeatChain DEF TreeInv, Neat, IInv, TypeOK
<1>1. PICK b \in Blocks : disk.inode_table[p].block = <<b>>
  BY <1>0 DEF NeatDir
<1>2. MapThenSumSet(LAMBDA at : RecLen(EntryAt(disk, at).name), ChildPlaces(disk, p)) = NameBytes(Chain(disk, p))
  BY <1>0, <1>1, NamesAddUp DEF NeatDir
<1>. QED BY <1>0, <1>2 DEF NeatDir

(* As long as no directory outgrows its first block, i_size of a directory  *)
(* counts at least the names in it, so that rmdir, which asks for i_size    *)
(* only, takes no directory in use for empty.                               *)
THEOREM SizesCoverNames ==
  ASSUME MaxDirSize < UINT32
  PROVE  Spec /\ []OneBlock => []DirSizeCovers
<1>. QED BY SizesCover, TreeAlways, PTL

-----------------------------------------------------------------------------
(* The prompt.  From the working directory dir upward every directory is    *)
(* listed in the next one, under the part of the path that stands for it,   *)
(* and none is met twice.                                                   *)
Way(w, d, dir, path) ==
  LET L == Len(path)
  IN  /\ w \in [0 .. L -> Inodes] /\ w[0] = dir /\ w[L] = 1
      /\ \A j \in 0 .. L, k \in 0 .. L : w[j] = w[k] => j = k
      /\ \A k \in 0 .. L - 1 : \E o \in Lists(d) :
           /\ o.inode = w[k] /\ o.parent = w[k + 1] /\ o.type = FT_DIR
           /\ Parts[o.name] = <<path[L - k]>>

(* The user is on such a way.                                               *)
OnWay == \E w : Way(w, disk, current_dir, current_path)

LEMMA WayIs ==
  ASSUME NEW w, NEW d, NEW dir, NEW path, NEW n, Len(path) = n,
         w \in [0 .. n -> Inodes], w[0] = dir, w[n] = 1,
         \A j \in 0 .. n, k \in 0 .. n : w[j] = w[k] => j = k,
         \A k \in 0 .. n - 1 : \E o \in Lists(d) :
           /\ o.inode = w[k] /\ o.parent = w[k + 1] /\ o.type = FT_DIR
           /\ Parts[o.name] = <<path[n - k]>>
  PROVE  Way(w, d, dir, path)
BY Zenon DEF Way

LEMMA WayAtRoot ==
  ASSUME NEW d
  PROVE  \E w : Way(w, d, 1, <<>>)
<1>. DEFINE w == [k \in 0 .. 0 |-> 1]
<1>1. 1 \in Inodes
  BY SizeAssumption DEF Inodes
<1>2. Len(<<>>) = 0 /\ 0 .. 0 = {0} /\ 0 .. 0 - 1 = {}
  OBVIOUS
<1>3. w \in [0 .. 0 -> Inodes] /\ w[0] = 1
  BY <1>1
<1>. HIDE DEF w
<1>4. Way(w, d, 1, <<>>)
  BY <1>2, <1>3 DEF Way
<1>. QED BY <1>4

(* The way needs the objects that have others below them, and the last.     *)
LEMMA WayKept ==
  ASSUME NEW c, NEW d, NEW w, NEW dir, NEW path \in Seq(AllParts), Way(w, c, dir, path),
         \A o \in Lists(c) :
           o.type = FT_DIR /\ (o.inode = dir \/ \E q \in Lists(c) : q.parent = o.inode)
             => o \in Lists(d)
  PROVE  Way(w, d, dir, path)
<1>. DEFINE L == Len(path)
<1>1. ASSUME NEW k \in 0 .. L - 1
      PROVE  \E o \in Lists(d) : /\ o.inode = w[k] /\ o.parent = w[k + 1] /\ o.type = FT_DIR
                                 /\ Parts[o.name] = <<path[L - k]>>
  <2>0. L \in Nat
    OBVIOUS
  <2>1. PICK o \in Lists(c) : /\ o.inode = w[k] /\ o.parent = w[k + 1] /\ o.type = FT_DIR
                              /\ Parts[o.name] = <<path[L - k]>>
    BY DEF Way
  <2>2. CASE k = 0
    <3>1. o.inode = dir
      BY <2>1, <2>2 DEF Way
    <3>. QED BY <2>1, <3>1
  <2>3. CASE k # 0
    <3>1. k - 1 \in 0 .. L - 1 /\ (k - 1) + 1 = k
      BY <2>0, <2>3
    <3>2. PICK q \in Lists(c) : q.parent = w[(k - 1) + 1]
      BY <3>1 DEF Way
    <3>3. q.parent = o.inode
      BY <2>1, <3>1, <3>2
    <3>. QED BY <2>1, <3>3
  <2>. QED BY <2>2, <2>3
<1>. QED BY <1>1 DEF Way

(* cd to a name: one step longer.                                           *)
LEMMA WayInto ==
  ASSUME NEW d, \A o, q \in Lists(d) : o.inode = q.inode => o = q,
         NEW w, NEW dir, NEW path \in Seq(AllParts), Way(w, d, dir, path),
         NEW o \in Lists(d), o.parent = dir, o.type = FT_DIR, o.inode \in Inodes \ {1},
         NEW x \in AllParts, Parts[o.name] = <<x>>
  PROVE  \E v : Way(v, d, o.inode, path \o <<x>>)
<1>. DEFINE L == Len(path)
            to == path \o <<x>>
            v == [k \in 0 .. L + 1 |-> IF k = 0 THEN o.inode ELSE w[k - 1]]
<1>0. L \in Nat /\ w \in [0 .. L -> Inodes] /\ w[0] = dir /\ w[L] = 1
  BY DEF Way
<1>1. Len(to) = L + 1 /\ to[L + 1] = x /\ \A k \in 1 .. L : to[k] = path[k]
  OBVIOUS
<1>2. ASSUME NEW k \in 0 .. L, o.inode = w[k]
      PROVE  FALSE
  <2>1. k # L
    BY <1>0, <1>2
  <2>2. k \in 0 .. L - 1 /\ k + 1 \in 0 .. L /\ 0 \in 0 .. L
    BY <1>0, <2>1
  <2>3. PICK q \in Lists(d) : q.inode = w[k] /\ q.parent = w[k + 1]
    BY <2>2 DEF Way
  <2>4. w[k + 1] = w[0]
    BY <1>0, <1>2, <2>3
  <2>5. k + 1 = 0
    BY <2>2, <2>4 DEF Way
  <2>. QED BY <2>2, <2>5
<1>3. /\ v \in [0 .. L + 1 -> Inodes] /\ v[0] = o.inode /\ v[L + 1] = 1
      /\ \A k \in 0 .. L + 1 : k # 0 => v[k] = w[k - 1] /\ k - 1 \in 0 .. L
  <2>1. \A k \in 0 .. L + 1 : k # 0 => k - 1 \in 0 .. L
    BY <1>0
  <2>2. v \in [0 .. L + 1 -> Inodes]
    BY <1>0, <2>1
  <2>3. 0 \in 0 .. L + 1 /\ L + 1 \in 0 .. L + 1 /\ L + 1 # 0 /\ L + 1 - 1 = L
    BY <1>0
  <2>. QED BY <1>0, <2>1, <2>2, <2>3
<1>. HIDE DEF v, to
<1>4. ASSUME NEW j \in 0 .. L + 1, NEW k \in 0 .. L + 1, v[j] = v[k]
      PROVE  j = k
  <2>1. CASE j = 0
    BY <1>2, <1>3, <1>4, <2>1
  <2>2. CASE k = 0
    BY <1>2, <1>3, <1>4, <2>2
  <2>3. CASE j # 0 /\ k # 0
    <3>1. w[j - 1] = w[k - 1] /\ j - 1 \in 0 .. L /\ k - 1 \in 0 .. L
      BY <1>3, <1>4, <2>3
    <3>2. j - 1 = k - 1
      BY <3>1 DEF Way
    <3>. QED BY <3>2
  <2>. QED BY <2>1, <2>2, <2>3
<1>5. ASSUME NEW k \in 0 .. (L + 1) - 1
      PROVE  \E q \in Lists(d) : /\ q.inode = v[k] /\ q.parent = v[k + 1] /\ q.type = FT_DIR
                                 /\ Parts[q.name] = <<to[(L + 1) - k]>>
  <2>1. CASE k = 0
    <3>1. v[k + 1] = dir /\ v[k] = o.inode
      BY <1>0, <1>3, <2>1
    <3>2. to[(L + 1) - k] = x
      BY <1>0, <1>1, <2>1
    <3>. QED BY <3>1, <3>2
  <2>2. CASE k # 0
    <3>1. k - 1 \in 0 .. L - 1 /\ (k - 1) + 1 = k /\ k \in 0 .. L + 1 /\ k + 1 \in 0 .. L + 1
      BY <1>0, <2>2
    <3>2. PICK q \in Lists(d) : /\ q.inode = w[k - 1] /\ q.parent = w[(k - 1) + 1] /\ q.type = FT_DIR
                                /\ Parts[q.name] = <<path[L - (k - 1)]>>
      BY <3>1 DEF Way
    <3>3. v[k] = w[k - 1] /\ v[k + 1] = w[k]
      BY <1>3, <2>2, <3>1
    <3>4. L - (k - 1) = (L + 1) - k /\ L - (k - 1) \in 1 .. L
      BY <1>0, <3>1
    <3>5. to[(L + 1) - k] = path[L - (k - 1)]
      BY <1>1, <3>4
    <3>. QED BY <3>1, <3>2, <3>3, <3>5
  <2>. QED BY <2>1, <2>2
<1>6. Way(v, d, o.inode, to)
  BY <1>1, <1>3, <1>4, <1>5, WayIs, Zenon
<1>. QED BY <1>6 DEF to

LEMMA CutAs ==
  ASSUME NEW R, NEW s \in Seq(R), NEW k \in 1 .. Len(s)
  PROVE  Len(SubSeq(s, 1, k - 1)) = k - 1 /\ \A j \in 1 .. k - 1 : SubSeq(s, 1, k - 1)[j] = s[j]
OBVIOUS

(* cd "..": one step shorter.                                               *)
LEMMA WayOut ==
  ASSUME NEW d, \A o, q \in Lists(d) : o.inode = q.inode => o = q,
         NEW w, NEW dir, NEW path \in Seq(AllParts), Way(w, d, dir, path),
         NEW o \in Lists(d), o.inode = dir, dir # 1
  PROVE  path # <<>> /\ \E v : Way(v, d, o.parent, SubSeq(path, 1, Len(path) - 1))
<1>. DEFINE L == Len(path)
            to == SubSeq(path, 1, L - 1)
            v == [k \in 0 .. L - 1 |-> w[k + 1]]
<1>0. L \in Nat /\ w \in [0 .. L -> Inodes] /\ w[0] = dir /\ w[L] = 1
  BY DEF Way
<1>1. L # 0 /\ L - 1 \in Nat /\ L >= 1
  BY <1>0
<1>2. Len(to) = L - 1 /\ \A k \in 1 .. L - 1 : to[k] = path[k]
  <2>1. Len(path) \in 1 .. Len(path)
    BY <1>1
  <2>. HIDE DEF to
  <2>. QED BY <2>1, CutAs DEF to
<1>3. path # <<>>
  <2>1. Len(<<>>) = 0
    OBVIOUS
  <2>2. Len(path) # 0
    BY <1>1
  <2>. QED BY <2>1, <2>2, Zenon
<1>4. PICK q \in Lists(d) : q.inode = w[0] /\ q.parent = w[0 + 1]
  <2>1. 0 \in 0 .. L - 1
    BY <1>1
  <2>. QED BY <2>1 DEF Way
<1>5. q = o /\ w[1] = o.parent
  BY <1>0, <1>4
<1>6. /\ v \in [0 .. L - 1 -> Inodes] /\ v[0] = o.parent /\ v[L - 1] = 1
      /\ \A k \in 0 .. L - 1 : v[k] = w[k + 1] /\ k + 1 \in 0 .. L
  <2>1. \A k \in 0 .. L - 1 : k + 1 \in 0 .. L
    BY <1>1
  <2>2. 0 \in 0 .. L - 1 /\ L - 1 \in 0 .. L - 1 /\ (L - 1) + 1 = L
    BY <1>1
  <2>. QED BY <1>0, <1>5, <2>1, <2>2
<1>. HIDE DEF v, to
<1>7. ASSUME NEW j \in 0 .. L - 1, NEW k \in 0 .. L - 1, v[j] = v[k]
      PROVE  j = k
  <2>1. w[j + 1] = w[k + 1] /\ j + 1 \in 0 .. L /\ k + 1 \in 0 .. L
    BY <1>6, <1>7
  <2>2. j + 1 = k + 1
    BY <2>1 DEF Way
  <2>. QED BY <2>2
<1>8. ASSUME NEW k \in 0 .. (L - 1) - 1
      PROVE  \E r \in Lists(d) : /\ r.inode = v[k] /\ r.parent = v[k + 1] /\ r.type = FT_DIR
                                 /\ Parts[r.name] = <<to[(L - 1) - k]>>
  <2>1. k + 1 \in 0 .. L - 1 /\ k \in 0 .. L - 1
    BY <1>1
  <2>2. PICK r \in Lists(d) : /\ r.inode = w[k + 1] /\ r.parent = w[(k + 1) + 1] /\ r.type = FT_DIR
                              /\ Parts[r.name] = <<path[L - (k + 1)]>>
    BY <2>1 DEF Way
  <2>3. L - (k + 1) = (L - 1) - k /\ L - (k + 1) \in 1 .. L - 1
    BY <1>1
  <2>4. to[(L - 1) - k] = path[L - (k + 1)]
    BY <1>2, <2>3
  <2>. QED BY <1>6, <2>1, <2>2, <2>4
<1>9. Way(v, d, o.parent, to)
  BY <1>2, <1>6, <1>7, <1>8, WayIs, Zenon
<1>. QED BY <1>3, <1>9 DEF to

(* What a command does to the way: cd moves along it, a new start and a     *)
(* format go back to the root, all others leave the directories on it.      *)
LEMMA WayStays ==
  ASSUME disk \in Disk, disk' \in Disk, Neat(disk), Neat(disk'), NamesInv, NamesInv', [Tree!Next]_(Tree!vars),
         current_path \in Seq(AllParts), UNCHANGED <<current_dir, current_path>>, OnWay
  PROVE  OnWay'
<1>. DEFINE goal == \E w : Way(w, disk', current_dir, current_path)
<1>1. objects = Lists(disk) /\ objects' = Lists(disk')
  BY ListsAreObjects DEF objects
<1>2. PICK w : Way(w, disk, current_dir, current_path)
  BY DEF OnWay
<1>3. cwd' = cwd /\ cwd = current_dir
  BY DEF cwd
<1>4. ASSUME objects \subseteq objects'
      PROVE  goal
  BY <1>1, <1>2, <1>4, WayKept
<1>5. ASSUME NEW o \in Tree!In(cwd), Tree!Remove(o)
      PROVE  goal
  <2>1. o \in objects /\ objects' = objects \ {o}
    BY <1>5 DEF Tree!Remove, Tree!In
  <2>2. ASSUME o.type = FT_DIR, o.inode = current_dir
        PROVE  FALSE
    <3>1. current_dir # 1
      BY <1>1, <2>1, <2>2 DEF Neat
    <3>2. PICK q \in objects' : q.inode = current_dir
      BY <1>3, <3>1 DEF NamesInv, Tree!NamesSound, Tree!IsDirectory
    <3>3. q = o
      BY <2>1, <2>2, <3>2 DEF NamesInv, Tree!NamesSound
    <3>. QED BY <2>1, <3>2, <3>3
  <2>3. ASSUME o.type = FT_DIR, NEW q \in objects, q.parent = o.inode
        PROVE  FALSE
    BY <1>5, <2>3 DEF Tree!Remove, Tree!In
  <2>4. \A r \in Lists(disk) :
          r.type = FT_DIR /\ (r.inode = current_dir \/ \E q \in Lists(disk) : q.parent = r.inode)
            => r \in Lists(disk')
    BY <1>1, <2>1, <2>2, <2>3
  <2>. QED BY <1>2, <2>4, WayKept
<1>6. ASSUME Tree!Format
      PROVE  goal
  <2>1. current_dir = 1
    BY <1>3, <1>6 DEF Tree!Format
  <2>2. current_path = <<>>
    <3>1. w[0] = w[Len(current_path)] /\ Len(current_path) \in Nat
      BY <1>2, <2>1 DEF Way
    <3>2. 0 \in 0 .. Len(current_path) /\ Len(current_path) \in 0 .. Len(current_path)
      BY <3>1
    <3>3. Len(current_path) = 0
      BY <1>2, <3>1, <3>2 DEF Way
    <3>. QED BY <3>3
  <2>. QED BY <2>1, <2>2, WayAtRoot
<1>7. goal
  <2>1. \/ \E o \in Tree!Object : Tree!Make(o)
        \/ \E o \in Tree!In(cwd) : Tree!Remove(o)
        \/ Tree!Format
        \/ objects' = objects
    BY Zenon DEF Tree!Next, Tree!vars, Tree!Enter, Tree!Leave, Tree!Open, Tree!Close, Tree!Restart
  <2>2. (\E o \in Tree!Object : Tree!Make(o)) => objects \subseteq objects'
    BY DEF Tree!Make
  <2>. HIDE DEF goal
  <2>. QED BY <1>4, <1>5, <1>6, <2>1, <2>2
<1>. QED BY <1>7 DEF OnWay

(* Every name stands for one part of a path: none has a '/' in it.          *)
OnePart == \A name \in Names : \E x \in AllParts : Parts[name] = <<x>>

LEMMA WayMoves ==
  ASSUME OnePart, IInv, IInv', Homed, Neat(disk), NamesInv, OnWay, NEW name \in Names, cd(name)
  PROVE  OnWay' \/ UNCHANGED <<current_dir, current_path>>
<1>. DEFINE i == handle_search_inode(disk, current_dir, name, FT_DIR)
<1>0. /\ disk \in Disk /\ disk' = disk /\ current_dir \in LiveDirs(disk) /\ i # 0
      /\ current_path \in Seq(AllParts)
  BY IInvIsSound, HomeInUse, CdKeeps DEF cd, Sound, Homed, LiveDirs, IInv, TypeOK
<1>1. objects = Lists(disk)
  BY <1>0, ListsAreObjects DEF objects
<1>2. \A o, q \in Lists(disk) : o.inode = q.inode => o = q
  BY <1>1 DEF NamesInv, Tree!NamesSound
<1>3. PICK w : Way(w, disk, current_dir, current_path)
  BY DEF OnWay
<1>4. \/ UNCHANGED <<current_dir, current_path>>
      \/ name # Dot /\ current_dir' = i /\ current_path' = PathAfter(name)
  BY DEF cd, Undefined, memory, PathAfter
<1>. HIDE DEF i
<1>5. ASSUME name = DotDot, current_dir' = i, current_path' = PathAfter(name)
      PROVE  OnWay'
  <2>0. DotDot # Dot
    BY ConstAssumption
  <2>1. CASE current_dir = 1
    <3>1. \A o \in Lists(disk) : o.inode # 1
      BY Zenon DEF Neat
    <3>2. i = 1
      BY <1>0, <1>5, <2>1, <3>1, FoundParent DEF i
    <3>3. current_path = <<>>
      <4>1. w[0] = w[Len(current_path)] /\ Len(current_path) \in Nat
        BY <1>0, <1>3, <2>1 DEF Way
      <4>2. 0 \in 0 .. Len(current_path) /\ Len(current_path) \in 0 .. Len(current_path)
        BY <4>1
      <4>3. Len(current_path) = 0
        BY <1>3, <4>1, <4>2 DEF Way
      <4>. QED BY <1>0, <4>3
    <3>4. current_path' = <<>>
      BY <1>5, <2>0, <3>3 DEF PathAfter
    <3>. QED BY <1>5, <3>2, <3>4, WayAtRoot DEF OnWay
  <2>2. CASE current_dir # 1
    <3>1. PICK o \in Lists(disk) : o.inode = current_dir /\ i = o.parent
      BY <1>0, <1>5, <2>2, FoundParent DEF i
    <3>2. /\ current_path # <<>>
          /\ \E v : Way(v, disk, o.parent, SubSeq(current_path, 1, Len(current_path) - 1))
      BY <1>0, <1>2, <1>3, <2>2, <3>1, WayOut
    <3>3. current_path' = SubSeq(current_path, 1, Len(current_path) - 1)
      BY <1>5, <2>0, <3>2 DEF PathAfter
    <3>. QED BY <1>0, <1>5, <3>1, <3>2, <3>3 DEF OnWay
  <2>. QED BY <2>1, <2>2
<1>6. ASSUME name \notin {Dot, DotDot}, current_dir' = i, current_path' = PathAfter(name)
      PROVE  OnWay'
  <2>. DEFINE o == [inode |-> i, parent |-> current_dir, name |-> name, type |-> FT_DIR]
  <2>1. o \in Lists(disk)
    BY <1>0, <1>6, FoundObject DEF i
  <2>2. o.inode = i /\ o.parent = current_dir /\ o.type = FT_DIR /\ o.name = name
    OBVIOUS
  <2>. HIDE DEF o
  <2>3. i \in Inodes \ {1}
    <3>1. i \in disk.inode_bitmap \ {1}
      BY <2>1, <2>2 DEF Neat
    <3>. QED BY <1>0, <3>1 DEF Disk
  <2>4. PICK x \in AllParts : Parts[name] = <<x>>
    BY DEF OnePart
  <2>5. \E v : Way(v, disk, i, current_path \o <<x>>)
    <3>1. o.inode \in Inodes \ {1} /\ Parts[o.name] = <<x>>
      BY <2>2, <2>3, <2>4
    <3>2. \E v : Way(v, disk, o.inode, current_path \o <<x>>)
      BY <1>0, <1>2, <1>3, <2>1, <2>2, <3>1, WayInto
    <3>. QED BY <2>2, <3>2
  <2>6. current_path' = current_path \o <<x>>
    BY <1>6, <2>4 DEF PathAfter
  <2>. QED BY <1>0, <1>6, <2>5, <2>6 DEF OnWay
<1>. QED BY <1>4, <1>5, <1>6

LEMMA WayNext ==
  ASSUME MaxDirSize < UINT32, OnePart
  PROVE  TreeInv /\ OnWay /\ [Next]_vars /\ OneBlock' => OnWay'
<1>. SUFFICES ASSUME TreeInv, OnWay, [Next]_vars, OneBlock' PROVE OnWay'
  OBVIOUS
<1>1. TreeInv' /\ [Tree!Next]_(Tree!vars)
  BY TreeNext
<1>2. /\ IInv /\ IInv' /\ Homed /\ Neat(disk) /\ Neat(disk') /\ NamesInv /\ NamesInv'
      /\ disk \in Disk /\ disk' \in Disk /\ current_path \in Seq(AllParts)
  BY <1>1 DEF TreeInv, IInv, TypeOK
<1>3. UNCHANGED <<current_dir, current_path>> => OnWay'
  BY <1>1, <1>2, WayStays
<1>4. initialize_memory => OnWay'
  BY WayAtRoot DEF initialize_memory, OnWay
<1>5. ASSUME NEW name \in Names, cd(name)
      PROVE  OnWay'
  BY <1>2, <1>3, <1>5, WayMoves
<1>6. ASSUME NEW name \in Names, NEW type, MakeEntry(name, type)
      PROVE  initialize_memory \/ UNCHANGED <<current_dir, current_path>>
  BY <1>6 DEF MakeEntry, handle_append_directory, StoreEntry, ReachIndex, Saves, Undefined, memory
<1>7. ASSUME NEW name \in Names, NEW n \in WriteSizes, write(name, n)
      PROVE  initialize_memory \/ UNCHANGED <<current_dir, current_path>>
  <2>1. \A d, st : Saves(d, st) => initialize_memory \/ UNCHANGED <<current_dir, current_path>>
    BY DEF Saves, memory
  <2>2. Undefined => UNCHANGED <<current_dir, current_path>>
    BY DEF Undefined, memory
  <2>3. \A d, i, st : ReachIndex(d, i, st) => initialize_memory \/ UNCHANGED <<current_dir, current_path>>
    BY <2>1, <2>2, Zenon DEF ReachIndex
  <2>4. \A i, k : WriteFits(i, n, k) => initialize_memory \/ UNCHANGED <<current_dir, current_path>>
    BY <2>1, <2>2, Zenon DEF WriteFits
  <2>5. \A i : WriteOverflows(i, n) => initialize_memory \/ UNCHANGED <<current_dir, current_path>>
    BY <2>2, <2>3, Zenon DEF WriteOverflows
  <2>. QED BY <1>7, <2>2, <2>4, <2>5, Zenon DEF write
<1>8. ASSUME NEW name \in Names, rmdir(name) \/ delete(name) \/ open(name) \/ close(name)
      PROVE  initialize_memory \/ UNCHANGED <<current_dir, current_path>>
  BY <1>8 DEF rmdir, delete, open, close, Saves, memory
<1>9. ASSUME NEW name, NEW sign, NEW r, NEW w, NEW x, chmod(sign, r, w, x, name)
      PROVE  UNCHANGED <<current_dir, current_path>>
  BY <1>9 DEF chmod, memory
<1>10. ASSUME \/ Start \/ quit \/ UNCHANGED vars
              \/ \E pw \in Passwords : login(pw) \/ pwd(pw) \/ format(pw)
       PROVE  initialize_memory \/ UNCHANGED <<current_dir, current_path>>
  BY <1>10 DEF Start, quit, vars, login, pwd, format, memory
<1>. QED BY <1>3, <1>4, <1>5, <1>6, <1>7, <1>8, <1>9, <1>10, Zenon DEF Next, mkdir, create

(* No way is longer than there are inodes.                                  *)
LEMMA WayShort ==
  ASSUME NEW d, NEW w, NEW dir, NEW path \in Seq(AllParts), Way(w, d, dir, path)
  PROVE  Len(path) < INODE_COUNT
<1>. DEFINE L == Len(path)
            S == 0 .. L
<1>0. L \in Nat /\ INODE_COUNT \in Nat \ {0} /\ w \in [S -> Inodes]
  BY SizeAssumption DEF Way
<1>1. IsFiniteSet(S) /\ Cardinality(S) = L + 1
  <2>1. 0 \in Int /\ L \in Int /\ ~ (0 > L)
    BY <1>0
  <2>. HIDE DEF L
  <2>2. IsFiniteSet(S) /\ Cardinality(S) = L - 0 + 1
    BY <2>1, FS_Interval
  <2>3. L - 0 + 1 = L + 1
    BY <2>1
  <2>. QED BY <2>2, <2>3
<1>2. IsFiniteSet(Inodes) /\ Cardinality(Inodes) = INODE_COUNT
  <2>1. 1 \in Int /\ INODE_COUNT \in Int /\ ~ (1 > INODE_COUNT)
    BY <1>0
  <2>2. IsFiniteSet(Inodes) /\ Cardinality(Inodes) = INODE_COUNT - 1 + 1
    BY <2>1, FS_Interval DEF Inodes
  <2>3. INODE_COUNT - 1 + 1 = INODE_COUNT
    BY <1>0
  <2>. QED BY <2>2, <2>3
<1>3. ~ \E x, y \in S : x # y /\ w[x] = w[y]
  BY DEF Way
<1>. HIDE DEF S, L
<1>4. ~ (Cardinality(Inodes) < Cardinality(S))
  BY <1>0, <1>1, <1>2, <1>3, FS_PigeonHole
<1>5. ~ (INODE_COUNT < L + 1)
  BY <1>1, <1>2, <1>4
<1>. QED BY <1>0, <1>5 DEF L

LEMMA NameInIs ==
  ASSUME disk \in Disk, Neat(disk), \A o, q \in Lists(disk) : o.inode = q.inode => o = q,
         NEW o \in Lists(disk), o.type = FT_DIR
  PROVE  NameIn(o.parent, o.inode) = o.name
<1>. DEFINE p == o.parent
            Sought(e) == e.inode = o.inode /\ e.file_type = FT_DIR
            c == CHOOSE e \in Children(disk, p) : Sought(e)
<1>1. PICK e \in Children(disk, p) : o = Said(e, p)
  BY ListedPlace
<1>2. Sought(e)
  BY <1>1 DEF Said
<1>3. p \in LiveDirs(disk)
  BY ListedPlace
<1>. HIDE DEF Sought
<1>4. c \in Children(disk, p) /\ Sought(c)
  BY <1>1, <1>2, Zenon
<1>5. NameIn(p, o.inode) = c.name
  BY DEF NameIn, Sought
<1>. HIDE DEF c
<1>6. PICK at \in ChildPlaces(disk, p) : c = EntryAt(disk, at)
  BY <1>4 DEF Children
<1>7. Said(c, p) \in Lists(disk)
  BY <1>3, <1>6, PlaceListed
<1>8. Said(c, p).inode = o.inode
  BY <1>4 DEF Said, Sought
<1>9. Said(c, p) = o
  BY <1>7, <1>8
<1>. QED BY <1>5, <1>9 DEF Said

LEMMA FrontAs ==
  ASSUME NEW R, NEW s \in Seq(R), NEW m \in 1 .. Len(s)
  PROVE  <<s[m]>> \o SubSeq(s, m + 1, Len(s)) = SubSeq(s, m, Len(s))
OBVIOUS

LEMMA NoneAs ==
  ASSUME NEW R, NEW s \in Seq(R)
  PROVE  SubSeq(s, 1, Len(s)) = s /\ SubSeq(s, Len(s) + 1, Len(s)) = <<>>
OBVIOUS

(* From the working directory to the root the names met are the path shown. *)
LEMMA ClimbTells == TreeInv /\ OnWay => PathNamesDir
<1>. SUFFICES ASSUME TreeInv, OnWay
              PROVE  current_dir \in LiveDirs(disk) /\ Climb = <<1, current_path>>
  BY DEF PathNamesDir
<1>. DEFINE path == current_path
            L == Len(path)
            Above(x) == LET i == x[1]
                            p == handle_search_inode(disk, i, DotDot, FT_DIR)
                        IN  IF i = 1 THEN x ELSE <<p, Parts[NameIn(p, i)] \o x[2]>>
            up[k \in 0 .. INODE_COUNT] == IF k = 0 THEN <<current_dir, <<>>>> ELSE Above(up[k - 1])
<1>0. /\ disk \in Disk /\ Neat(disk) /\ current_dir \in LiveDirs(disk) /\ path \in Seq(AllParts)
      /\ objects = Lists(disk) /\ INODE_COUNT \in Nat
  <2>1. /\ disk \in Disk /\ Neat(disk) /\ MemoryOK /\ Homed /\ path \in Seq(AllParts)
    BY IInvIsSound DEF TreeInv, Sound, IInv, TypeOK
  <2>2. current_dir \in LiveDirs(disk)
    BY <2>1, HomeInUse DEF LiveDirs, Homed
  <2>. QED BY <2>1, <2>2, ListsAreObjects, SizeAssumption DEF objects
<1>1. \A o, q \in Lists(disk) : o.inode = q.inode => o = q
  BY <1>0 DEF TreeInv, NamesInv, Tree!NamesSound
<1>2. PICK w : Way(w, disk, current_dir, path)
  BY DEF OnWay
<1>3. L < INODE_COUNT /\ L \in Nat
  BY <1>0, <1>2, WayShort
<1>4. w[0] = current_dir /\ w[L] = 1
  BY <1>2 DEF Way
<1>5. ASSUME NEW k \in 0 .. L - 1
      PROVE  /\ w[k] # 1
             /\ handle_search_inode(disk, w[k], DotDot, FT_DIR) = w[k + 1]
             /\ Parts[NameIn(w[k + 1], w[k])] = <<path[L - k]>>
  <2>1. PICK o \in Lists(disk) : /\ o.inode = w[k] /\ o.parent = w[k + 1] /\ o.type = FT_DIR
                                 /\ Parts[o.name] = <<path[L - k]>>
    BY <1>2 DEF Way
  <2>2. w[k] # 1
    BY <1>0, <2>1 DEF Neat
  <2>3. w[k] \in LiveDirs(disk)
    <3>1. CASE k = 0
      BY <1>0, <1>4, <3>1
    <3>2. CASE k # 0
      <4>1. k - 1 \in 0 .. L - 1 /\ (k - 1) + 1 = k
        BY <1>3, <3>2
      <4>2. PICK q \in Lists(disk) : q.parent = w[(k - 1) + 1]
        BY <1>2, <4>1 DEF Way
      <4>3. q.parent \in LiveDirs(disk)
        BY <1>0, ListedPlace
      <4>. QED BY <4>1, <4>2, <4>3
    <3>. QED BY <3>1, <3>2
  <2>4. PICK q \in Lists(disk) : /\ q.inode = w[k]
                                 /\ handle_search_inode(disk, w[k], DotDot, FT_DIR) = q.parent
    BY <1>0, <2>2, <2>3, FoundParent
  <2>5. q = o
    BY <1>1, <2>1, <2>4
  <2>6. NameIn(w[k + 1], w[k]) = o.name
    BY <1>0, <1>1, <2>1, NameInIs
  <2>. QED BY <2>1, <2>2, <2>4, <2>5, <2>6
<1>6. Climb = up[INODE_COUNT]
  BY DEF Climb
<1>. DEFINE At(k) == IF k <= L THEN <<w[k], SubSeq(path, L - k + 1, L)>> ELSE <<1, path>>
            g == [k \in 0 .. INODE_COUNT |-> At(k)]
<1>7. At(0) = <<current_dir, <<>>>>
  <2>1. SubSeq(path, L - 0 + 1, L) = <<>>
    <3>1. L - 0 + 1 = Len(path) + 1
      BY <1>3
    <3>. QED BY <1>0, <3>1, NoneAs
  <2>. QED BY <1>3, <1>4, <2>1
<1>8. ASSUME NEW k \in 1 .. INODE_COUNT
      PROVE  At(k) = Above(At(k - 1))
  <2>1. CASE k <= L
    <3>. DEFINE j == k - 1
                rest == SubSeq(path, L - j + 1, L)
    <3>1. j \in 0 .. L - 1 /\ j + 1 = k /\ j <= L
      BY <1>3, <2>1
    <3>2. At(j) = <<w[j], rest>>
      BY <3>1
    <3>3. /\ w[j] # 1 /\ handle_search_inode(disk, w[j], DotDot, FT_DIR) = w[k]
          /\ Parts[NameIn(w[k], w[j])] = <<path[L - j]>>
      BY <1>5, <3>1
    <3>4. Above(<<w[j], rest>>) = <<w[k], <<path[L - j]>> \o rest>>
      <4>. HIDE DEF rest, j
      <4>1. <<w[j], rest>>[1] = w[j] /\ <<w[j], rest>>[2] = rest
        OBVIOUS
      <4>. QED BY <3>3, <4>1, Zenon
    <3>5. <<path[L - j]>> \o rest = SubSeq(path, L - k + 1, L)
      <4>. DEFINE m == L - j
      <4>1. m \in 1 .. Len(path) /\ L - k + 1 = m
        BY <1>3, <3>1
      <4>. HIDE DEF m
      <4>2. <<path[m]>> \o SubSeq(path, m + 1, Len(path)) = SubSeq(path, m, Len(path))
        BY <1>0, <4>1, FrontAs
      <4>. QED BY <4>1, <4>2 DEF m
    <3>. QED BY <2>1, <3>2, <3>4, <3>5
  <2>2. CASE ~ (k <= L)
    <3>1. At(k - 1) = <<1, path>>
      <4>1. CASE k - 1 <= L
        <5>1. k - 1 = L /\ L - (k - 1) + 1 = 1
          BY <1>3, <2>2, <4>1
        <5>2. SubSeq(path, 1, L) = path
          BY <1>0, NoneAs
        <5>. QED BY <1>4, <4>1, <5>1, <5>2
      <4>2. CASE ~ (k - 1 <= L)
        BY <4>2
      <4>. QED BY <4>1, <4>2
    <3>2. Above(<<1, path>>) = <<1, path>>
      <4>1. <<1, path>>[1] = 1
        OBVIOUS
      <4>. QED BY <4>1, Zenon
    <3>. QED BY <2>2, <3>1, <3>2
  <2>. QED BY <2>1, <2>2
<1>. HIDE DEF Above, At
<1>9. g = [k \in 0 .. INODE_COUNT |-> IF k = 0 THEN <<current_dir, <<>>>> ELSE Above(g[k - 1])]
  <2>1. ASSUME NEW k \in 0 .. INODE_COUNT
        PROVE  At(k) = IF k = 0 THEN <<current_dir, <<>>>> ELSE Above(g[k - 1])
    <3>1. CASE k = 0
      BY <1>7, <3>1
    <3>2. CASE k # 0
      <4>1. k \in 1 .. INODE_COUNT /\ k - 1 \in 0 .. INODE_COUNT
        BY <1>0, <3>2
      <4>2. g[k - 1] = At(k - 1)
        BY <4>1
      <4>. QED BY <1>8, <3>2, <4>1, <4>2
    <3>. QED BY <3>1, <3>2
  <2>. QED BY <2>1
<1>10. up = [k \in 0 .. INODE_COUNT |-> IF k = 0 THEN <<current_dir, <<>>>> ELSE Above(up[k - 1])]
  <2>. HIDE DEF g
  <2>. QED BY <1>9 DEF up
<1>. HIDE DEF up
<1>11. \A k \in 0 .. INODE_COUNT : up[k] = At(k)
  <2>. DEFINE T == {k \in 0 .. INODE_COUNT : up[k] = At(k)}
  <2>1. 0 \in T
    BY <1>0, <1>7, <1>10
  <2>2. ASSUME NEW k \in 0 .. INODE_COUNT - 1, k \in T
        PROVE  k + 1 \in T
    <3>1. k + 1 \in 1 .. INODE_COUNT /\ k + 1 \in 0 .. INODE_COUNT /\ (k + 1) - 1 = k /\ k + 1 # 0
      BY <1>0
    <3>2. up[k + 1] = Above(up[k])
      BY <1>10, <3>1
    <3>3. At(k + 1) = Above(At(k))
      BY <1>8, <3>1
    <3>. QED BY <2>2, <3>1, <3>2, <3>3
  <2>3. 0 \in Int /\ INODE_COUNT \in Int
    BY <1>0
  <2>. HIDE DEF T
  <2>4. 0 .. INODE_COUNT \subseteq T
    BY <2>1, <2>2, <2>3, Induction
  <2>. QED BY <2>4 DEF T
<1>12. up[INODE_COUNT] = <<1, path>>
  <2>1. INODE_COUNT \in 0 .. INODE_COUNT /\ ~ (INODE_COUNT <= L)
    BY <1>0, <1>3
  <2>. QED BY <1>11, <2>1 DEF At
<1>. QED BY <1>0, <1>6, <1>12

(* As long as no directory outgrows its first block and no name has a '/'   *)
(* in it, the path in the prompt is the way from the root to the working    *)
(* directory, whatever is made and removed around it (cd).                  *)
THEOREM PromptTellsPath ==
  ASSUME MaxDirSize < UINT32, OnePart
  PROVE  Spec /\ []OneBlock => []PathNamesDir
<1>1. Init => OnWay
  BY WayAtRoot DEF Init, OnWay
<1>2. TreeInv /\ OnWay /\ [Next]_vars /\ OneBlock' => OnWay'
  BY WayNext
<1>3. TreeInv /\ OnWay => PathNamesDir
  BY ClimbTells
<1>. QED BY <1>1, <1>2, <1>3, TreeAlways, PTL DEF Spec

-----------------------------------------------------------------------------
(* Counting: what is taken out of a pool.                                   *)
LEMMA PoolShrinks ==
  ASSUME NEW F, IsFiniteSet(F), NEW R \in SUBSET F, NEW G, G = F \ R
  PROVE  /\ Cardinality(F) \in Nat /\ Cardinality(R) \in Nat
         /\ Cardinality(G) = Cardinality(F) - Cardinality(R)
<1>1. IsFiniteSet(R) /\ Cardinality(R) \in Nat /\ IsFiniteSet(G) /\ Cardinality(G) \in Nat /\ Cardinality(F) \in Nat
  <2>1. G \in SUBSET F
    OBVIOUS
  <2>. QED BY <2>1, FS_Subset, FS_CardinalityType
<1>2. Cardinality(G \cup R) = Cardinality(G) + Cardinality(R) - Cardinality(G \cap R)
  BY <1>1, FS_Union
<1>3. G \cup R = F /\ G \cap R = {}
  OBVIOUS
<1>4. Cardinality({}) = 0
  BY FS_EmptySet
<1>5. Cardinality(F) = Cardinality(G) + Cardinality(R) - 0
  BY <1>2, <1>3, <1>4
<1>. QED BY <1>1, <1>5

(* A sequence without repetition has as many elements as places.            *)
LEMMA InjectiveCount ==
  ASSUME NEW bs \in Seq(Blocks), IsInjective(bs)
  PROVE  Cardinality(Range(bs)) = Len(bs)
<1>. DEFINE S == 1 .. Len(bs)
<1>1. Len(bs) \in Nat /\ DOMAIN bs = S
  OBVIOUS
<1>2. IsFiniteSet(S) /\ Cardinality(S) = Len(bs)
  <2>1. 1 \in Int /\ Len(bs) \in Int
    BY <1>1
  <2>2. IsFiniteSet(1 .. Len(bs)) /\ Cardinality(1 .. Len(bs)) = IF 1 > Len(bs) THEN 0 ELSE Len(bs) - 1 + 1
    BY <2>1, FS_Interval
  <2>. QED BY <1>1, <2>2
<1>3. bs \in Bijection(S, Range(bs))
  <2>1. bs \in [S -> Range(bs)]
    BY <1>1 DEF Range
  <2>2. \A x, y \in S : bs[x] = bs[y] => x = y
    BY <1>1 DEF IsInjective
  <2>3. \A y \in Range(bs) : \E x \in S : bs[x] = y
    BY <1>1 DEF Range
  <2>. HIDE DEF S
  <2>. QED BY <2>1, <2>2, <2>3 DEF Bijection, Injection, Surjection, IsInjective
<1>4. ExistsBijection(S, Range(bs))
  BY <1>3 DEF ExistsBijection
<1>. QED BY <1>2, <1>4, FS_Bijection

LEMMA Pools ==
  /\ IsFiniteSet(Blocks) /\ Cardinality(Blocks) = DATA_BLOCK_COUNT
  /\ IsFiniteSet(Inodes) /\ Cardinality(Inodes) = INODE_COUNT
  /\ DATA_BLOCK_COUNT \in Nat /\ DATA_BLOCK_COUNT < UINT16
  /\ INODE_COUNT \in Nat /\ INODE_COUNT < UINT16 /\ 1 < UINT16 /\ UINT16 \in Nat
<1>1. /\ DATA_BLOCK_COUNT \in Nat \ {0} /\ DATA_BLOCK_COUNT < UINT16
      /\ INODE_COUNT \in Nat \ {0} /\ INODE_COUNT < UINT16 /\ UINT16 \in Nat
  BY ConstAssumption, SizeAssumption
<1>2. /\ IsFiniteSet(0 .. DATA_BLOCK_COUNT - 1)
      /\ Cardinality(0 .. DATA_BLOCK_COUNT - 1) = DATA_BLOCK_COUNT
  <2>1. 0 \in Int /\ DATA_BLOCK_COUNT - 1 \in Int /\ ~ (0 > DATA_BLOCK_COUNT - 1)
    BY <1>1
  <2>2. /\ IsFiniteSet(0 .. DATA_BLOCK_COUNT - 1)
        /\ Cardinality(0 .. DATA_BLOCK_COUNT - 1) = DATA_BLOCK_COUNT - 1 - 0 + 1
    BY <2>1, FS_Interval
  <2>. QED BY <1>1, <2>2
<1>3. IsFiniteSet(1 .. INODE_COUNT) /\ Cardinality(1 .. INODE_COUNT) = INODE_COUNT
  <2>1. 1 \in Int /\ INODE_COUNT \in Int /\ ~ (1 > INODE_COUNT)
    BY <1>1
  <2>2. IsFiniteSet(1 .. INODE_COUNT) /\ Cardinality(1 .. INODE_COUNT) = INODE_COUNT - 1 + 1
    BY <2>1, FS_Interval
  <2>. QED BY <1>1, <2>2
<1>. QED BY <1>1, <1>2, <1>3 DEF Blocks, Inodes

LEMMA FinitePools ==
  ASSUME NEW d
  PROVE  /\ IsFiniteSet(FreeBlocks(d)) /\ Cardinality(FreeBlocks(d)) \in Nat
         /\ Cardinality(FreeBlocks(d)) <= DATA_BLOCK_COUNT
         /\ IsFiniteSet(FreeInodes(d)) /\ Cardinality(FreeInodes(d)) \in Nat
         /\ Cardinality(FreeInodes(d)) <= INODE_COUNT
<1>1. FreeBlocks(d) \in SUBSET Blocks /\ FreeInodes(d) \in SUBSET Inodes
  BY DEF FreeBlocks, FreeInodes
<1>2. /\ IsFiniteSet(Blocks) /\ Cardinality(Blocks) = DATA_BLOCK_COUNT
      /\ IsFiniteSet(Inodes) /\ Cardinality(Inodes) = INODE_COUNT
  BY Pools
<1>3. IsFiniteSet(FreeBlocks(d)) /\ Cardinality(FreeBlocks(d)) <= DATA_BLOCK_COUNT
  BY <1>1, <1>2, FS_Subset
<1>4. IsFiniteSet(FreeInodes(d)) /\ Cardinality(FreeInodes(d)) <= INODE_COUNT
  BY <1>1, <1>2, FS_Subset
<1>. QED BY <1>3, <1>4, FS_CardinalityType

(* The image keeps its books: the counters say how many blocks and inodes   *)
(* are not marked, every marked block is in an inode, none is in an index   *)
(* block, and an inode not in use has none.                                 *)
Tallied(d) ==
  /\ d.free_blocks = Cardinality(FreeBlocks(d))
  /\ d.free_inodes = Cardinality(FreeInodes(d))
  /\ \A b \in d.block_bitmap : \E i \in Inodes : b \in Owned(d.inode_table[i])
  /\ \A i \in Inodes : d.inode_table[i].sub = <<>>
  /\ \A i \in Inodes \ d.inode_bitmap : d.inode_table[i].block = <<>>

LEMMA TalliedSame ==
  ASSUME NEW c, Tallied(c), NEW d,
         d.free_blocks = c.free_blocks, d.free_inodes = c.free_inodes,
         d.block_bitmap = c.block_bitmap, d.inode_bitmap = c.inode_bitmap,
         \A i \in Inodes : /\ d.inode_table[i].block = c.inode_table[i].block
                           /\ d.inode_table[i].sub = c.inode_table[i].sub
  PROVE  Tallied(d)
BY DEF Tallied, FreeBlocks, FreeInodes, Owned

(* Free blocks are marked and put into an inode in use.                     *)
LEMMA TalliedBlock ==
  ASSUME NEW c \in Disk, Tallied(c), NEW d, NEW i \in c.inode_bitmap, i \in Inodes,
         NEW nb \in Seq(Blocks), IsInjective(nb), Range(nb) \subseteq FreeBlocks(c),
         d.free_blocks = c.free_blocks - Len(nb), d.free_inodes = c.free_inodes,
         d.block_bitmap = c.block_bitmap \cup Range(nb), d.inode_bitmap = c.inode_bitmap,
         Range(d.inode_table[i].block) = Range(c.inode_table[i].block) \cup Range(nb),
         d.inode_table[i].sub = c.inode_table[i].sub,
         \A j \in Inodes : j # i => /\ d.inode_table[j].block = c.inode_table[j].block
                                    /\ d.inode_table[j].sub = c.inode_table[j].sub
  PROVE  Tallied(d)
<1>1. d.free_blocks = Cardinality(FreeBlocks(d))
  <2>1. Cardinality(Range(nb)) = Len(nb)
    BY InjectiveCount
  <2>2. FreeBlocks(d) = FreeBlocks(c) \ Range(nb)
    BY DEF FreeBlocks
  <2>3. IsFiniteSet(FreeBlocks(c))
    BY FinitePools
  <2>4. Range(nb) \in SUBSET FreeBlocks(c)
    OBVIOUS
  <2>5. Cardinality(FreeBlocks(d)) = Cardinality(FreeBlocks(c)) - Cardinality(Range(nb))
    BY <2>2, <2>3, <2>4, PoolShrinks
  <2>. QED BY <2>1, <2>5 DEF Tallied
<1>2. d.free_inodes = Cardinality(FreeInodes(d))
  BY DEF Tallied, FreeInodes
<1>3. ASSUME NEW b \in d.block_bitmap
      PROVE  \E j \in Inodes : b \in Owned(d.inode_table[j])
  <2>1. CASE b \in Range(nb)
    BY <2>1 DEF Owned
  <2>2. CASE b \in c.block_bitmap
    <3>1. PICK j \in Inodes : b \in Owned(c.inode_table[j])
      BY <2>2 DEF Tallied
    <3>2. b \in Owned(d.inode_table[j])
      BY <3>1 DEF Owned
    <3>. QED BY <3>2
  <2>. QED BY <1>3, <2>1, <2>2
<1>. QED BY <1>1, <1>2, <1>3 DEF Tallied

(* new_inode hands out an inode without blocks.                             *)
LEMMA TalliedInode ==
  ASSUME NEW d, Sound(d), Tallied(d), CanNewInode(d), NEW e, e = new_inode(d)
  PROVE  Tallied(e) /\ e.used_dirs = d.used_dirs
<1>. DEFINE i == NextInode(d)
<1>0. d \in Disk /\ i \in Inodes /\ i \notin d.inode_bitmap
  BY NewInodeSound, NewInodeKeeps DEF Sound
<1>. HIDE DEF i
<1>1. /\ e.free_blocks = d.free_blocks /\ e.free_inodes = d.free_inodes - 1
      /\ e.used_dirs = d.used_dirs /\ e.block_bitmap = d.block_bitmap
      /\ e.inode_bitmap = d.inode_bitmap \cup {i}
      /\ \A j \in Inodes : j # i => e.inode_table[j] = d.inode_table[j]
      /\ e.inode_table[i] = init_inode
  BY <1>0 DEF new_inode, Disk, i
<1>2. e.inode_table[i].block = <<>> /\ e.inode_table[i].sub = <<>>
  BY <1>1 DEF init_inode, NoInode
<1>3. d.inode_table[i].block = <<>> /\ d.inode_table[i].sub = <<>>
  BY <1>0 DEF Tallied
<1>4. \A j \in Inodes : e.inode_table[j].block = d.inode_table[j].block /\ e.inode_table[j].sub = d.inode_table[j].sub
  BY <1>1, <1>2, <1>3
<1>5. e.free_inodes = Cardinality(FreeInodes(e))
  <2>1. FreeInodes(e) = FreeInodes(d) \ {i} /\ i \in FreeInodes(d)
    BY <1>0, <1>1 DEF FreeInodes
  <2>2. IsFiniteSet(FreeInodes(d))
    BY FinitePools
  <2>3. Cardinality(FreeInodes(e)) = Cardinality(FreeInodes(d)) - 1
    BY <2>1, <2>2, FS_RemoveElement
  <2>. QED BY <1>1, <2>3 DEF Tallied
<1>6. \A b \in e.block_bitmap : \E j \in Inodes : b \in Owned(e.inode_table[j])
  BY <1>1, <1>4 DEF Tallied, Owned
<1>7. /\ \A j \in Inodes : e.inode_table[j].sub = <<>>
      /\ \A j \in Inodes \ e.inode_bitmap : e.inode_table[j].block = <<>>
  BY <1>1, <1>4 DEF Tallied
<1>8. e.free_blocks = Cardinality(FreeBlocks(e))
  BY <1>1 DEF Tallied, FreeBlocks
<1>. QED BY <1>1, <1>5, <1>6, <1>7, <1>8 DEF Tallied

(* new_dir_entry gives the directory its block.                             *)
LEMMA TalliedDirectory ==
  ASSUME NEW d, Sound(d), Tallied(d), CanNewBlock(d), NEW i \in d.inode_bitmap, i \in Inodes,
         d.inode_table[i].block = <<>>, NEW parent, NEW e, e = NewDirectory(d, i, parent)
  PROVE  Tallied(e) /\ e.used_dirs = d.used_dirs
<1>. DEFINE b == NextBlock(d)
            t == TakeBlock(d, i)
            x == NewEntry(Dot, FT_DIR, i)
            y == NewEntry(DotDot, FT_DIR, parent)
<1>0. d \in Disk /\ b \in FreeBlocks(d) /\ b \in Blocks
  BY NextBlockFree DEF Sound, FreeBlocks
<1>1. t \in Disk
  BY TakeBlockSound DEF Sound
<1>2. /\ t.inode_bitmap = d.inode_bitmap /\ t.block_bitmap = d.block_bitmap \cup {b}
      /\ \A j \in Inodes : j # i => t.inode_table[j] = d.inode_table[j]
      /\ t.inode_table[i].block = <<b>> /\ t.inode_table[i].sub = d.inode_table[i].sub
  BY TakeBlockKeeps
<1>3. t.free_blocks = d.free_blocks - 1 /\ t.free_inodes = d.free_inodes /\ t.used_dirs = d.used_dirs
  BY <1>0 DEF TakeBlock, new_block, Disk
<1>4. e = AppendEntry(AppendEntry(t, b, x), b, y)
  BY DEF NewDirectory, AppendDots, TakeBlock
<1>5. /\ e.free_blocks = t.free_blocks /\ e.free_inodes = t.free_inodes /\ e.used_dirs = t.used_dirs
      /\ e.inode_bitmap = t.inode_bitmap /\ e.inode_table = t.inode_table
      /\ e.block_bitmap = t.block_bitmap
  <2>. HIDE DEF t, b, x, y
  <2>. QED BY <1>1, <1>4 DEF AppendEntry, Disk
<1>. HIDE DEF t, b
<1>6. /\ <<b>> \in Seq(Blocks) /\ IsInjective(<<b>>) /\ Range(<<b>>) = {b} /\ Len(<<b>>) = 1
      /\ Range(d.inode_table[i].block) = {}
  BY <1>0 DEF IsInjective, Range
<1>7. Range(<<b>>) \subseteq FreeBlocks(d)
  BY <1>0, <1>6
<1>8. Range(e.inode_table[i].block) = Range(d.inode_table[i].block) \cup Range(<<b>>)
  BY <1>2, <1>5, <1>6
<1>9. Tallied(e)
  <2>. DEFINE nb == <<b>>
  <2>1. /\ nb \in Seq(Blocks) /\ IsInjective(nb) /\ Range(nb) \subseteq FreeBlocks(d) /\ Len(nb) = 1
        /\ Range(nb) = {b} /\ Range(e.inode_table[i].block) = Range(d.inode_table[i].block) \cup Range(nb)
    BY <1>6, <1>7, <1>8
  <2>. HIDE DEF nb
  <2>. QED BY <1>0, <1>2, <1>3, <1>5, <2>1, TalliedBlock
<1>. QED BY <1>3, <1>5, <1>9

(* Both together: what mkdir and create make.                               *)
LEMMA TalliedObject ==
  ASSUME NEW d, Sound(d), Tallied(d), CanNewInode(d), NEW name, NEW type,
         ~ BlocksRunOut(d, type), NEW i, i = NextInode(d),
         NEW e, e = NewObject(new_inode(d), i, name, type)
  PROVE  /\ Tallied(e)
         /\ e.used_dirs = IF type = FT_DIR THEN (d.used_dirs + 1) % UINT16 ELSE d.used_dirs
<1>. DEFINE a == new_inode(d)
<1>1. /\ i \in Inodes /\ Sound(a) /\ a \in Disk /\ a.inode_table[i] = init_inode
      /\ a.block_bitmap = d.block_bitmap /\ a.free_blocks = d.free_blocks
  BY NewInodeSound DEF Sound
<1>2. a.inode_bitmap = d.inode_bitmap \cup {i}
  BY NewInodeKeeps DEF Sound
<1>3. Tallied(a) /\ a.used_dirs = d.used_dirs
  BY TalliedInode
<1>. HIDE DEF a
<1>4. CASE type = FT_DIR
  <2>. DEFINE c == CountDir(a)
  <2>1. Sound(c) /\ c.block_bitmap = a.block_bitmap /\ c.free_blocks = a.free_blocks
    BY <1>1, CountDirSound
  <2>2. /\ c.inode_table = a.inode_table /\ c.inode_bitmap = a.inode_bitmap
        /\ c.free_inodes = a.free_inodes /\ c.used_dirs = (a.used_dirs + 1) % UINT16
    BY <1>1 DEF CountDir, Disk
  <2>. HIDE DEF c
  <2>3. Tallied(c)
    BY <1>3, <2>1, <2>2, TalliedSame
  <2>4. e = IF c.free_blocks = 0 THEN c ELSE NewDirectory(c, i, current_dir)
    BY <1>4 DEF NewObject, a, c
  <2>5. c.free_blocks # 0 => CanNewBlock(c)
    <3>1. d.free_blocks \in Nat
      BY DEF Sound, Disk
    <3>. QED BY <1>1, <1>4, <2>1, <3>1 DEF BlocksRunOut, CanNewBlock, FreeBlocks
  <2>6. i \in c.inode_bitmap /\ c.inode_table[i].block = <<>>
    BY <1>1, <1>2, <2>2 DEF init_inode, NoInode
  <2>7. c.free_blocks # 0 => Tallied(e) /\ e.used_dirs = c.used_dirs
    <3>1. ASSUME c.free_blocks # 0
          PROVE  Tallied(e) /\ e.used_dirs = c.used_dirs
      <4>1. e = NewDirectory(c, i, current_dir) /\ CanNewBlock(c)
        BY <2>4, <2>5, <3>1
      <4>. QED BY <1>1, <2>1, <2>3, <2>6, <4>1, TalliedDirectory
    <3>. QED BY <3>1
  <2>. QED BY <1>3, <1>4, <2>2, <2>3, <2>4, <2>7
<1>5. CASE type # FT_DIR
  <2>1. e = NewFile(a, i, name)
    BY <1>5 DEF NewObject, a
  <2>2. /\ e.free_blocks = a.free_blocks /\ e.free_inodes = a.free_inodes /\ e.used_dirs = a.used_dirs
        /\ e.block_bitmap = a.block_bitmap /\ e.inode_bitmap = a.inode_bitmap
        /\ \A j \in Inodes : /\ e.inode_table[j].block = a.inode_table[j].block
                             /\ e.inode_table[j].sub = a.inode_table[j].sub
    BY <1>1, <2>1 DEF NewFile, Disk, Inode
  <2>3. Tallied(e)
    BY <1>3, <2>2, TalliedSame
  <2>. QED BY <1>3, <1>5, <2>2, <2>3
<1>. QED BY <1>4, <1>5

(* rmdir and delete free just the blocks they count, as long as the inode   *)
(* has none beyond its direct ones.                                         *)
LEMMA TalliedFreed ==
  ASSUME NEW d, Sound(d), Tallied(d), NEW i \in Inodes, i \in d.inode_bitmap,
         Len(d.inode_table[i].block) <= DIRECT, NEW e, e = FreeObject(d, i)
  PROVE  Tallied(e) /\ e.used_dirs = d.used_dirs
<1>. DEFINE n == d.inode_table[i]
            R == Range(DataBlocks(n))
<1>0. /\ d \in Disk /\ n \in Inode /\ n.block \in Seq(Blocks) /\ OwnsBlocks(d)
      /\ d.block_bitmap \subseteq Blocks /\ d.inode_bitmap \subseteq Inodes
  BY InodeType DEF Sound, Disk
<1>1. R = Range(n.block) /\ Owned(n) = R
  <2>1. n.sub = <<>> /\ Range(<<>>) = {}
    BY DEF Tallied, Range
  <2>2. R = Range(n.block) \cup Range(n.sub)
    BY <1>0, WalkedBlocks
  <2>. HIDE DEF n, R
  <2>. QED BY <2>1, <2>2 DEF Owned
<1>2. R \subseteq d.block_bitmap /\ IsInjective(n.block)
  BY <1>0, <1>1 DEF OwnsBlocks
<1>3. Cardinality(R) = Len(n.block)
  <2>. HIDE DEF n, R
  <2>. QED BY <1>0, <1>1, <1>2, InjectiveCount
<1>4. /\ e.block_bitmap = d.block_bitmap \ R /\ e.inode_bitmap = d.inode_bitmap \ {i}
      /\ e.free_blocks = (d.free_blocks + Len(n.block)) % UINT16
      /\ e.free_inodes = (d.free_inodes + 1) % UINT16 /\ e.used_dirs = d.used_dirs
      /\ e.inode_table[i] = NoInode /\ \A j \in Inodes : j # i => e.inode_table[j] = d.inode_table[j]
  <2>1. e.inode_table[i] = NoInode /\ \A j \in Inodes : j # i => e.inode_table[j] = d.inode_table[j]
    BY FreeObjectKeeps
  <2>. DEFINE f == reset_inode_table(reset_block_entry(d, R), i)
  <2>2. /\ f.block_bitmap = d.block_bitmap \ R /\ f.inode_bitmap = d.inode_bitmap \ {i}
        /\ f.free_blocks = d.free_blocks /\ f.free_inodes = d.free_inodes /\ f.used_dirs = d.used_dirs
        /\ f = [f EXCEPT !.free_blocks = f.free_blocks]
        /\ {"free_blocks", "free_inodes"} \subseteq DOMAIN f
    <3>. HIDE DEF R
    <3>. QED BY <1>0 DEF reset_inode_table, reset_block_entry, Disk
  <2>3. e = [f EXCEPT !.free_blocks = (@ + Len(n.block)) % UINT16, !.free_inodes = (@ + 1) % UINT16]
    BY DEF FreeObject
  <2>. HIDE DEF f, n, R
  <2>. QED BY <2>1, <2>2, <2>3
<1>. HIDE DEF n, R
<1>5. /\ DATA_BLOCK_COUNT \in Nat /\ DATA_BLOCK_COUNT < UINT16
      /\ INODE_COUNT \in Nat /\ INODE_COUNT < UINT16 /\ UINT16 \in Nat
  BY Pools
<1>6. e.free_blocks = Cardinality(FreeBlocks(e))
  <2>1. FreeBlocks(d) = FreeBlocks(e) \ R /\ R \in SUBSET FreeBlocks(e)
    BY <1>0, <1>2, <1>4 DEF FreeBlocks
  <2>2. /\ IsFiniteSet(FreeBlocks(e)) /\ Cardinality(FreeBlocks(e)) \in Nat
        /\ Cardinality(FreeBlocks(e)) <= DATA_BLOCK_COUNT
    BY FinitePools
  <2>3. Cardinality(FreeBlocks(d)) = Cardinality(FreeBlocks(e)) - Cardinality(R) /\ Cardinality(R) \in Nat
    BY <2>1, <2>2, PoolShrinks
  <2>4. d.free_blocks + Len(n.block) = Cardinality(FreeBlocks(e))
    BY <1>3, <2>2, <2>3 DEF Tallied
  <2>5. \A m \in Nat : m <= DATA_BLOCK_COUNT => m % UINT16 = m
    BY <1>5
  <2>6. Cardinality(FreeBlocks(e)) % UINT16 = Cardinality(FreeBlocks(e))
    BY <2>2, <2>5
  <2>. QED BY <1>4, <2>4, <2>6
<1>7. e.free_inodes = Cardinality(FreeInodes(e))
  <2>1. FreeInodes(e) = FreeInodes(d) \cup {i} /\ i \notin FreeInodes(d)
    BY <1>0, <1>4 DEF FreeInodes
  <2>2. /\ IsFiniteSet(FreeInodes(d)) /\ Cardinality(FreeInodes(d)) \in Nat
        /\ Cardinality(FreeInodes(e)) \in Nat /\ Cardinality(FreeInodes(e)) <= INODE_COUNT
    BY FinitePools
  <2>3. Cardinality(FreeInodes(e)) = Cardinality(FreeInodes(d)) + 1
    BY <2>1, <2>2, FS_AddElement
  <2>4. \A m \in Nat : m <= INODE_COUNT => m % UINT16 = m
    BY <1>5
  <2>5. Cardinality(FreeInodes(e)) % UINT16 = Cardinality(FreeInodes(e))
    BY <2>2, <2>4
  <2>. QED BY <1>4, <2>3, <2>5 DEF Tallied
<1>8. NoInode.block = <<>> /\ NoInode.sub = <<>>
  BY DEF NoInode
<1>9. ASSUME NEW b \in e.block_bitmap
      PROVE  \E j \in Inodes : b \in Owned(e.inode_table[j])
  <2>1. b \in d.block_bitmap /\ b \notin R
    BY <1>4, <1>9
  <2>2. PICK j \in Inodes : b \in Owned(d.inode_table[j])
    BY <2>1 DEF Tallied
  <2>3. j # i
    BY <1>1, <2>1, <2>2 DEF n
  <2>. QED BY <1>4, <2>2, <2>3
<1>10. \A j \in Inodes : e.inode_table[j].sub = <<>>
  BY <1>4, <1>8 DEF Tallied
<1>11. \A j \in Inodes \ e.inode_bitmap : e.inode_table[j].block = <<>>
  BY <1>4, <1>8 DEF Tallied
<1>. QED BY <1>4, <1>6, <1>7, <1>9, <1>10, <1>11 DEF Tallied

LEMMA TalliedSize ==
  ASSUME NEW d \in Disk, Tallied(d), NEW i \in Inodes, NEW n
  PROVE  /\ Tallied(AddSize(d, i, n)) /\ AddSize(d, i, n).used_dirs = d.used_dirs
         /\ AddSize(d, i, n).free_blocks = d.free_blocks /\ AddSize(d, i, n).free_inodes = d.free_inodes
<1>. DEFINE e == AddSize(d, i, n)
<1>1. Kept(d, e) /\ \A j \in Inodes : /\ e.inode_table[j].block = d.inode_table[j].block
                                      /\ e.inode_table[j].sub = d.inode_table[j].sub
  <2>1. /\ Kept(d, e) /\ (\A j \in Inodes : j # i => e.inode_table[j] = d.inode_table[j])
        /\ e.inode_table[i].block = d.inode_table[i].block /\ e.inode_table[i].sub = d.inode_table[i].sub
    BY AddSizeKeeps
  <2>. HIDE DEF e
  <2>. QED BY <2>1
<1>2. e.free_blocks = d.free_blocks /\ e.free_inodes = d.free_inodes /\ e.used_dirs = d.used_dirs
  BY DEF AddSize, Disk
<1>. HIDE DEF e
<1>3. Tallied(e)
  BY <1>1, <1>2, TalliedSame DEF Kept
<1>. QED BY <1>2, <1>3 DEF e

LEMMA TalliedRemove ==
  ASSUME NEW d, Sound(d), Tallied(d), NEW i \in Inodes, i \in d.inode_bitmap, current_dir \in Inodes,
         Len(d.inode_table[i].block) <= DIRECT,
         NEW name, NEW type, NEW e, e = RemoveObject(d, i, name, type)
  PROVE  Tallied(e) /\ e.used_dirs = d.used_dirs
<1>. DEFINE f == FreeObject(d, i)
            a == AddSize(f, current_dir, - RecLen(name))
<1>1. Tallied(f) /\ f.used_dirs = d.used_dirs /\ f \in Disk
  BY TalliedFreed, FreeObjectSound DEF Sound
<1>. HIDE DEF f
<1>2. Tallied(a) /\ a.used_dirs = f.used_dirs
  BY <1>1, TalliedSize
<1>3. e = DeleteEntry(a, current_dir, name, type)
  BY DEF RemoveObject, a, f
<1>. HIDE DEF a
<1>4. /\ e.free_blocks = a.free_blocks /\ e.free_inodes = a.free_inodes /\ e.used_dirs = a.used_dirs
      /\ e.block_bitmap = a.block_bitmap /\ e.inode_bitmap = a.inode_bitmap
      /\ e.inode_table = a.inode_table
  BY <1>3 DEF DeleteEntry
<1>5. Tallied(e)
  BY <1>2, <1>4, TalliedSame
<1>. QED BY <1>1, <1>2, <1>4, <1>5

(* A write adds the blocks it takes.                                        *)
LEMMA TalliedFilled ==
  ASSUME Sound(disk), Tallied(disk), NEW i \in disk.inode_bitmap, i \in Inodes, NEW g \in Nat,
         NEW nb \in NewBlocks(disk, g), NEW size, NEW bs, NEW k, NEW rest,
         NEW e, e = FillBlocks(AddBlocks(disk, i, nb, size), bs, k, rest)
  PROVE  Tallied(e) /\ e.used_dirs = disk.used_dirs
<1>. DEFINE a == AddBlocks(disk, i, nb, size)
            z == [disk EXCEPT !.block_bitmap = @ \cup Range(nb),
                              !.free_blocks = @ - Len(nb),
                              !.inode_table[i].block = @ \o nb]
            fields == {"free_blocks", "free_inodes", "used_dirs", "block_bitmap", "inode_bitmap", "inode_table"}
<1>0. /\ disk \in Disk /\ nb \in Seq(Blocks) /\ IsInjective(nb) /\ Range(nb) \subseteq FreeBlocks(disk)
      /\ disk.inode_table[i].block \in Seq(Blocks)
  BY NewBlocksType, InodeType DEF Sound
<1>1. /\ a.inode_bitmap = disk.inode_bitmap
      /\ \A j \in Inodes : j # i => a.inode_table[j] = disk.inode_table[j]
      /\ a.inode_table[i].sub = disk.inode_table[i].sub
      /\ a.inode_table[i].block = disk.inode_table[i].block \o nb
  BY <1>0, AddBlocksKeeps
<1>2. /\ z.block_bitmap = disk.block_bitmap \cup Range(nb) /\ z.free_blocks = disk.free_blocks - Len(nb)
      /\ z.free_inodes = disk.free_inodes /\ z.used_dirs = disk.used_dirs
      /\ fields \subseteq DOMAIN z
  BY <1>0 DEF Disk
<1>3. a = AddSize(z, i, size)
  BY DEF AddBlocks
<1>. HIDE DEF z
<1>4. /\ a.block_bitmap = disk.block_bitmap \cup Range(nb) /\ a.free_blocks = disk.free_blocks - Len(nb)
      /\ a.free_inodes = disk.free_inodes /\ a.used_dirs = disk.used_dirs
      /\ fields \subseteq DOMAIN a
  <2>1. /\ a.block_bitmap = z.block_bitmap /\ a.free_blocks = z.free_blocks
        /\ a.free_inodes = z.free_inodes /\ a.used_dirs = z.used_dirs
        /\ fields \subseteq DOMAIN a
    BY <1>2, <1>3 DEF AddSize
  <2>. QED BY <1>2, <2>1
<1>. HIDE DEF a
<1>5. Range(a.inode_table[i].block) = Range(disk.inode_table[i].block) \cup Range(nb)
  BY <1>0, <1>1, ConcatRange
<1>6. Tallied(a)
  BY <1>0, <1>1, <1>4, <1>5, TalliedBlock
<1>7. e = FillBlocks(a, bs, k, rest)
  BY DEF a
<1>8. /\ e.free_blocks = a.free_blocks /\ e.free_inodes = a.free_inodes /\ e.used_dirs = a.used_dirs
      /\ e.block_bitmap = a.block_bitmap /\ e.inode_bitmap = a.inode_bitmap
      /\ e.inode_table = a.inode_table
  BY <1>4, <1>7 DEF FillBlocks
<1>9. Tallied(e)
  BY <1>6, <1>8, TalliedSame
<1>. QED BY <1>4, <1>8, <1>9

(* A file or directory that reaches the index block has it counted among    *)
(* its blocks.                                                              *)
LEMMA PastDirect ==
  ASSUME NEW d, Sound(d), NEW i \in Inodes, NEW st, ReachIndex(d, i, st), status' # "undefined",
         Len(d.inode_table[i].block) >= DIRECT
  PROVE  Len(disk'.inode_table[i].block) > DIRECT
<1>. DEFINE L == Len(d.inode_table[i].block)
            d1 == IndexBlock(d, i)
<1>0. d \in Disk /\ d.inode_table[i].block \in Seq(Blocks) /\ L \in Nat /\ DIRECT \in Nat
  <2>1. d \in Disk /\ d.inode_table[i].block \in Seq(Blocks)
    BY InodeType DEF Sound
  <2>. QED BY <2>1, ConstAssumption
<1>1. L = DIRECT => CanNewBlock(d)
  BY DEF ReachIndex, Undefined
<1>2. Sound(d1) /\ Len(d1.inode_table[i].block) > DIRECT
  <2>1. CASE L = DIRECT
    <3>1. d1 = AddBlock(d, i)
      BY <2>1 DEF IndexBlock
    <3>2. Sound(d1) /\ d1.inode_table[i].block = Append(d.inode_table[i].block, NextBlock(d))
      BY <1>1, <2>1, <3>1, AddBlockSound
    <3>3. Len(Append(d.inode_table[i].block, NextBlock(d))) = L + 1
      BY <1>0
    <3>. HIDE DEF d1, L
    <3>4. Len(d1.inode_table[i].block) = L + 1
      BY <3>2, <3>3
    <3>. QED BY <1>0, <2>1, <3>2, <3>4
  <2>2. CASE L # DIRECT
    <3>1. d1 = d
      BY <2>2 DEF IndexBlock
    <3>. QED BY <1>0, <2>2, <3>1
  <2>. QED BY <2>1, <2>2
<1>3. Saves(d1, st) \/ (CanNewBlock(d1) /\ Saves(AddSub(d1, i), st))
  BY DEF ReachIndex, Undefined
<1>. HIDE DEF d1
<1>4. CASE Saves(d1, st)
  BY <1>2, <1>4 DEF Saves
<1>5. CASE CanNewBlock(d1) /\ Saves(AddSub(d1, i), st)
  <2>1. AddSub(d1, i).inode_table[i].block = d1.inode_table[i].block
    BY <1>2, <1>5, AddBlockKeeps
  <2>. QED BY <1>2, <1>5, <2>1 DEF Saves
<1>. QED BY <1>3, <1>4, <1>5

(* As long as no inode has an index block.                                  *)
OnlyDirect == \A i \in Inodes : Len(disk.inode_table[i].block) <= DIRECT

LEMMA TalliedMake ==
  ASSUME IInv, Homed, Neat(disk), OneBlock', Homed', NEW name \in Made, NEW type \in {FT_REG_FILE, FT_DIR},
         MakeEntry(name, type), status' # "undefined", Tallied(disk)
  PROVE  /\ Tallied(disk')
         /\ disk'.used_dirs = IF status' = "shell" /\ type = FT_DIR
                              THEN (disk.used_dirs + 1) % UINT16 ELSE disk.used_dirs
<1>. DEFINE p == current_dir
            i == NextInode(disk)
            d1 == NewObject(new_inode(disk), i, name, type)
            d2 == AddSize(d1, p, RecLen(name))
            x == NewEntry(name, type, i)
<1>0. /\ Sound(disk) /\ disk \in Disk /\ p \in Inodes /\ name \in Names /\ MemoryOK
      /\ disk.inode_bitmap \subseteq Inodes /\ NoSelf(disk) /\ RecLen(name) \in Int
  <2>1. /\ Sound(disk) /\ disk \in Disk /\ p \in Inodes /\ name \in Names /\ MemoryOK
        /\ disk.inode_bitmap \subseteq Inodes /\ NoSelf(disk)
    BY IInvIsSound, ConstAssumption DEF MemoryOK, Sound, Disk, Homed
  <2>2. RecLen(name) \in Nat
    BY <2>1, NamesType
  <2>. QED BY <2>1, <2>2
<1>1. p \in disk.inode_bitmap /\ p \in LiveDirs(disk)
  BY <1>0, HomeInUse DEF Homed, LiveDirs
<1>2. PICK b \in Blocks : disk.inode_table[p].block = <<b>>
  BY <1>1 DEF Neat, NeatDir
<1>3. \/ Saves(AddSize(disk, p, RecLen(name)), "dead")
      \/ /\ disk.free_inodes > 0 /\ FreeInodes(disk) # {} /\ ~ BlocksRunOut(disk, type)
         /\ handle_append_directory(d2, p, x)
  BY DEF MakeEntry, Undefined
<1>4. CASE Saves(AddSize(disk, p, RecLen(name)), "dead")
  <2>1. disk' = AddSize(disk, p, RecLen(name)) /\ status' = "dead"
    BY <1>4 DEF Saves
  <2>2. /\ Tallied(AddSize(disk, p, RecLen(name)))
        /\ AddSize(disk, p, RecLen(name)).used_dirs = disk.used_dirs
    BY <1>0, TalliedSize
  <2>. QED BY <2>1, <2>2
<1>5. CASE /\ disk.free_inodes > 0 /\ FreeInodes(disk) # {} /\ ~ BlocksRunOut(disk, type)
           /\ handle_append_directory(d2, p, x)
  <2>1. CanNewInode(disk)
    BY <1>5 DEF CanNewInode
  <2>2. /\ i \in Inodes \ disk.inode_bitmap /\ Sound(d1) /\ d1 \in Disk
        /\ \A j \in Inodes : j # i => d1.inode_table[j] = disk.inode_table[j]
    BY <1>0, <1>5, <2>1, ObjectMade DEF Sound
  <2>3. /\ Tallied(d1)
        /\ d1.used_dirs = IF type = FT_DIR THEN (disk.used_dirs + 1) % UINT16 ELSE disk.used_dirs
    BY <1>0, <1>5, <2>1, TalliedObject
  <2>. HIDE DEF d1, i
  <2>4. Sound(d2) /\ d2 \in Disk
    BY <1>0, <2>2, AddSizeSound DEF Sound
  <2>5. d2.inode_table[p].block = <<b>>
    <3>1. d2.inode_table[p].block = d1.inode_table[p].block
      BY <1>0, <2>2, AddSizeKeeps
    <3>. QED BY <1>0, <1>1, <1>2, <2>2, <3>1
  <2>6. Tallied(d2) /\ d2.used_dirs = d1.used_dirs
    BY <1>0, <2>2, <2>3, TalliedSize
  <2>. HIDE DEF d2
  <2>7. x \in DirEntry
    BY <1>0, <2>2, NewEntryType
  <2>8. Len(disk'.inode_table[p].block) <= 1
    <3>1. current_dir' = p
      <4>. HIDE DEF x, p
      <4>1. current_dir' = current_dir
        BY <1>5, AppendStaysHere
      <4>. QED BY <4>1 DEF p
    <3>2. p \in disk'.inode_bitmap /\ disk'.inode_table[p].type = FT_DIR
      BY <1>0, <3>1 DEF Homed, NoSelf
    <3>3. \A q \in LiveDirs(disk') : Len(disk'.inode_table[q].block) <= 1
      BY DEF OneBlock
    <3>. QED BY <3>2, <3>3 DEF LiveDirs
  <2>. HIDE DEF x
  <2>9. disk' = AppendEntry(d2, b, x) /\ Saves(disk', "shell")
    BY <1>0, <1>5, <2>4, <2>5, <2>7, <2>8, AppendAlone
  <2>10. /\ disk'.free_blocks = d2.free_blocks /\ disk'.free_inodes = d2.free_inodes
         /\ disk'.used_dirs = d2.used_dirs /\ disk'.inode_table = d2.inode_table
         /\ disk'.block_bitmap = d2.block_bitmap /\ disk'.inode_bitmap = d2.inode_bitmap
    BY <2>4, <2>9 DEF AppendEntry, Disk
  <2>11. Tallied(disk')
    BY <2>6, <2>10, TalliedSame
  <2>12. status' = "shell"
    BY <2>9 DEF Saves
  <2>. QED BY <2>3, <2>6, <2>10, <2>11, <2>12
<1>. QED BY <1>3, <1>4, <1>5

(* What a name of a live file finds is in use.                              *)
LEMMA FoundInUse ==
  ASSUME IInv, Homed, Neat(disk), NEW name, NEW type, ~ (name \in {Dot, DotDot} /\ type = FT_DIR),
         NEW i, i = handle_search_inode(disk, current_dir, name, type), i # 0
  PROVE  i \in disk.inode_bitmap /\ i \in Inodes
<1>. DEFINE o == [inode |-> i, parent |-> current_dir, name |-> name, type |-> type]
<1>0. disk \in Disk /\ current_dir \in LiveDirs(disk) /\ disk.inode_bitmap \subseteq Inodes
  BY IInvIsSound, HomeInUse DEF Homed, LiveDirs, Sound, Disk
<1>1. o \in Lists(disk)
  BY <1>0, FoundObject
<1>2. o.inode = i
  OBVIOUS
<1>. HIDE DEF o
<1>. QED BY <1>0, <1>1, <1>2 DEF Neat

LEMMA TalliedWrite ==
  ASSUME IInv, IInv', Homed, Neat(disk), OnlyDirect', Tallied(disk),
         NEW name \in Names, NEW n \in WriteSizes, write(name, n), status' # "undefined"
  PROVE  Tallied(disk') /\ disk'.used_dirs = disk.used_dirs
<1>. DEFINE i == Named(name)
            ino == disk.inode_table[i]
<1>0. /\ i \in Inodes /\ n \in Nat /\ Sound(disk) /\ disk \in Disk /\ NoSelf(disk)
      /\ ino \in Inode /\ ino.block \in Seq(Blocks) /\ i \in disk.inode_bitmap
  <2>1. i \in Inodes /\ i \in disk.inode_bitmap /\ n \in Nat
    <3>1. ~ (name \in {Dot, DotDot} /\ FT_REG_FILE = FT_DIR)
      BY DEF FT_REG_FILE, FT_DIR
    <3>2. i = handle_search_inode(disk, current_dir, name, FT_REG_FILE) /\ i # 0
      BY DEF write, Named
    <3>. HIDE DEF i
    <3>. QED BY <3>1, <3>2, FoundInUse, ConstAssumption
  <2>2. Sound(disk) /\ disk \in Disk /\ NoSelf(disk)
    BY IInvIsSound DEF Homed, Sound
  <2>. QED BY <2>1, <2>2, InodeType
<1>1. (\E k \in 1 .. DIRECT : WriteFits(i, n, k)) \/ WriteOverflows(i, n)
  BY DEF write, Undefined
<1>. HIDE DEF i
<1>2. ASSUME NEW k \in 1 .. DIRECT, WriteFits(i, n, k)
      PROVE  Tallied(disk') /\ disk'.used_dirs = disk.used_dirs
  <2>. DEFINE L == Len(ino.block)
              g == IF k > L THEN k - L ELSE 0
              held == RoomBefore(disk, ino, k)
  <2>1. g \in Nat
    <3>1. L \in Nat /\ k \in Nat
      BY <1>0, ConstAssumption
    <3>. HIDE DEF L
    <3>. QED BY <3>1
  <2>2. PICK rest \in 0 .. RoomIn(disk, ino, k), nb \in NewBlocks(disk, g) :
          Saves(FillBlocks(AddBlocks(disk, i, nb, n + 1), ino.block \o nb, k, rest), AfterWrite(held))
    BY <1>2 DEF WriteFits, Undefined
  <2>. HIDE DEF g
  <2>. DEFINE e == FillBlocks(AddBlocks(disk, i, nb, n + 1), ino.block \o nb, k, rest)
  <2>3. Tallied(e) /\ e.used_dirs = disk.used_dirs
    BY <1>0, <2>1, TalliedFilled
  <2>4. disk' = e
    BY <2>2 DEF Saves
  <2>. QED BY <2>3, <2>4
<1>3. ~ WriteOverflows(i, n)
  <2>. SUFFICES ASSUME WriteOverflows(i, n) PROVE FALSE
    OBVIOUS
  <2>. DEFINE L == Len(ino.block)
              g == IF DIRECT > L THEN DIRECT - L ELSE 0
              held == RoomBefore(disk, ino, DIRECT + 1)
  <2>1. PICK nb \in NewBlocks(disk, g) :
          /\ CanNewBlocks(disk, g)
          /\ ReachIndex(FillBlocks(AddBlocks(disk, i, nb, n + 1),
                                   Direct(ino) \o nb, DIRECT + 1, 0), i, AfterWrite(held))
    BY DEF WriteOverflows, Undefined
  <2>. DEFINE e == FillBlocks(AddBlocks(disk, i, nb, n + 1), Direct(ino) \o nb, DIRECT + 1, 0)
  <2>2. Sound(e) /\ FilledAlone(e, i, nb, n + 1)
    <3>1. g = Gap(i)
      BY DEF Gap
    <3>2. e = FillBlocks(AddBlocks(disk, i, nb, n + 1), Direct(disk.inode_table[i]) \o nb, DIRECT + 1, 0)
      OBVIOUS
    <3>3. CanNewBlocks(disk, g) /\ nb \in NewBlocks(disk, g)
      BY <2>1
    <3>. HIDE DEF e, ino, g
    <3>. QED BY <1>0, <3>1, <3>2, <3>3, OverflowFills, ZenonT(30)
  <2>3. ReachIndex(e, i, AfterWrite(held))
    BY <2>1
  <2>. HIDE DEF e, held
  <2>4. Len(e.inode_table[i].block) >= DIRECT
    <3>1. e.inode_table[i].block = ino.block \o nb
      BY <2>2 DEF FilledAlone
    <3>2. L \in Nat /\ DIRECT \in Nat /\ g \in Nat /\ L + g >= DIRECT
      <4>1. L \in Nat /\ DIRECT \in Nat
        BY <1>0, ConstAssumption
      <4>. HIDE DEF L
      <4>. QED BY <4>1
    <3>3. nb \in Seq(Blocks) /\ Len(nb) = g
      <4>. HIDE DEF g
      <4>. QED BY <1>0, <3>2, NewBlocksType
    <3>4. Len(ino.block \o nb) = L + Len(nb)
      BY <1>0, <3>3
    <3>. HIDE DEF L, g
    <3>. QED BY <3>1, <3>2, <3>3, <3>4
  <2>. HIDE DEF g
  <2>5. Len(disk'.inode_table[i].block) > DIRECT
    BY <1>0, <2>2, <2>3, <2>4, PastDirect, ZenonT(30)
  <2>6. Len(disk'.inode_table[i].block) <= DIRECT
    BY <1>0 DEF OnlyDirect
  <2>7. Len(disk'.inode_table[i].block) \in Int /\ DIRECT \in Int
    <3>1. disk' \in Disk
      BY DEF IInv, TypeOK
    <3>2. disk'.inode_table[i].block \in Seq(Blocks)
      BY <1>0, <3>1, InodeType
    <3>. QED BY <3>2, ConstAssumption
  <2>8. \A m \in Int : ~ (m > DIRECT /\ m <= DIRECT)
    BY <2>7
  <2>. QED BY <2>5, <2>6, <2>7, <2>8
<1>. QED BY <1>1, <1>2, <1>3

(* A fresh image is accounted for.                                          *)
LEMMA TalliedFresh ==
  ASSUME NEW pw \in Passwords, NEW d, d = initialize_disk(pw)
  PROVE  Tallied(d) /\ d.used_dirs = 1
<1>. DEFINE a == EmptyDisk(pw)
            b == new_inode(a)
            c == CountDir(b)
<1>1. Sound(a) /\ CanNewInode(a) /\ a.inode_bitmap \subseteq Inodes
  BY EmptyDiskSound DEF Sound, Disk
<1>2. Tallied(a) /\ a.used_dirs = 0
  <2>1. FreeBlocks(a) = Blocks /\ FreeInodes(a) = Inodes
    BY DEF FreeBlocks, FreeInodes, EmptyDisk
  <2>2. \A i \in Inodes : a.inode_table[i].sub = <<>> /\ a.inode_table[i].block = <<>>
    BY DEF EmptyDisk, NoInode
  <2>3. /\ a.free_blocks = DATA_BLOCK_COUNT /\ a.free_inodes = INODE_COUNT /\ a.used_dirs = 0
        /\ a.block_bitmap = {}
    BY DEF EmptyDisk
  <2>. QED BY <2>1, <2>2, <2>3, Pools DEF Tallied
<1>. DEFINE r == NextInode(a)
<1>8. \A j \in Inodes : a.inode_table[j] = NoInode
  BY DEF EmptyDisk
<1>. HIDE DEF a
<1>3. Tallied(b) /\ b.used_dirs = 0
  BY <1>1, <1>2, TalliedInode
<1>4. Sound(c) /\ CanNewBlock(c) /\ 1 \in c.inode_bitmap /\ 1 \in Inodes
  <2>1. c.inode_bitmap = {1} /\ Sound(c) /\ CanNewBlock(c) /\ 1 \in Inodes
    BY RootTaken DEF a
  <2>. HIDE DEF c
  <2>. QED BY <2>1
<1>5. b \in Disk /\ \A j \in Inodes : b.inode_table[j].block = <<>>
  <2>1. b \in Disk /\ b.inode_table[r] = init_inode
    BY <1>1, NewInodeSound DEF Sound
  <2>2. \A j \in Inodes : j # r => b.inode_table[j] = a.inode_table[j]
    BY <1>1, NewInodeKeeps DEF Sound
  <2>. HIDE DEF b, r
  <2>. QED BY <1>8, <2>1, <2>2 DEF init_inode, NoInode
<1>. HIDE DEF b
<1>9. c.inode_table[1].block = <<>>
  <2>1. c.inode_table = b.inode_table
    BY <1>5 DEF CountDir, Disk
  <2>. QED BY <1>4, <1>5, <2>1
<1>6. Tallied(c) /\ c.used_dirs = 1
  <2>1. /\ c.free_blocks = b.free_blocks /\ c.free_inodes = b.free_inodes
        /\ c.block_bitmap = b.block_bitmap /\ c.inode_bitmap = b.inode_bitmap
        /\ c.inode_table = b.inode_table /\ c.used_dirs = (b.used_dirs + 1) % UINT16
    BY <1>5 DEF CountDir, Disk
  <2>2. (0 + 1) % UINT16 = 1
    BY Pools
  <2>. QED BY <1>3, <2>1, <2>2, TalliedSame
<1>7. d = NewDirectory(c, 1, 1)
  BY DEF initialize_disk, a, b, c
<1>. HIDE DEF c
<1>. QED BY <1>4, <1>6, <1>7, <1>9, TalliedDirectory

(* The directories among the objects.                                       *)
DirsOf(objs) == {o.inode : o \in {q \in objs : q.type = FT_DIR}}
DirsTallied(d) == d.used_dirs = 1 + Cardinality(DirsOf(Lists(d)))

(* They are inodes other than the root, so their number stays in 16 bits.   *)
LEMMA DirsFew ==
  ASSUME NEW d \in Disk, Neat(d), NEW S, S = DirsOf(Lists(d))
  PROVE  /\ IsFiniteSet(S) /\ Cardinality(S) \in Nat
         /\ Cardinality(S) + 1 <= INODE_COUNT
<1>1. S \in SUBSET Inodes /\ 1 \notin S
  BY DEF DirsOf, Neat, Disk
<1>2. IsFiniteSet(Inodes) /\ Cardinality(Inodes) = INODE_COUNT /\ 1 \in Inodes /\ INODE_COUNT \in Nat
  BY Pools, BlocksAreNats
<1>. DEFINE P == Inodes \ {1}
<1>3. IsFiniteSet(P) /\ Cardinality(P) = INODE_COUNT - 1
  BY <1>2, FS_RemoveElement
<1>4. S \in SUBSET P
  BY <1>1
<1>. HIDE DEF P
<1>5. IsFiniteSet(S) /\ Cardinality(S) <= INODE_COUNT - 1
  BY <1>3, <1>4, FS_Subset
<1>6. Cardinality(S) \in Nat
  BY <1>5, FS_CardinalityType
<1>. QED BY <1>2, <1>5, <1>6

LEMMA DirsMore ==
  ASSUME NEW d \in Disk, Neat(d), NEW e \in Disk, Neat(e), DirsTallied(d), NEW o,
         Lists(e) = Lists(d) \cup {o}, o.inode \notin d.inode_bitmap,
         e.used_dirs = IF o.type = FT_DIR THEN (d.used_dirs + 1) % UINT16 ELSE d.used_dirs
  PROVE  DirsTallied(e)
<1>. DEFINE S == DirsOf(Lists(d))
            T == DirsOf(Lists(e))
<1>1. /\ IsFiniteSet(S) /\ Cardinality(S) \in Nat
      /\ IsFiniteSet(T) /\ Cardinality(T) \in Nat /\ Cardinality(T) + 1 <= INODE_COUNT
  BY DirsFew
<1>2. CASE o.type = FT_DIR
  <2>1. T = S \cup {o.inode}
    BY <1>2 DEF DirsOf
  <2>2. o.inode \notin S
    BY DEF DirsOf, Neat
  <2>3. d.used_dirs = 1 + Cardinality(S)
    BY DEF DirsTallied
  <2>. HIDE DEF S, T
  <2>4. Cardinality(T) = Cardinality(S) + 1
    BY <1>1, <2>1, <2>2, FS_AddElement
  <2>5. \A m \in Nat : m <= INODE_COUNT => m % UINT16 = m
    BY Pools
  <2>6. d.used_dirs + 1 = Cardinality(T) + 1
    BY <1>1, <2>3, <2>4
  <2>7. (Cardinality(T) + 1) % UINT16 = Cardinality(T) + 1
    BY <1>1, <2>5
  <2>8. e.used_dirs = 1 + Cardinality(T)
    BY <1>1, <1>2, <2>6, <2>7
  <2>. QED BY <2>8 DEF DirsTallied, T
<1>3. CASE o.type # FT_DIR
  <2>1. T = S
    BY <1>3 DEF DirsOf
  <2>. QED BY <1>3, <2>1 DEF DirsTallied
<1>. QED BY <1>2, <1>3

LEMMA DirsLess ==
  ASSUME NEW d \in Disk, Neat(d), DirsTallied(d), NEW e, NEW o \in Lists(d),
         \A p, q \in Lists(d) : p.inode = q.inode => p = q,
         Lists(e) = Lists(d) \ {o},
         e.used_dirs = IF o.type = FT_DIR THEN (d.used_dirs - 1) % UINT16 ELSE d.used_dirs
  PROVE  DirsTallied(e)
<1>. DEFINE S == DirsOf(Lists(d))
            T == DirsOf(Lists(e))
<1>1. IsFiniteSet(S) /\ Cardinality(S) \in Nat /\ Cardinality(S) + 1 <= INODE_COUNT
  BY DirsFew
<1>2. CASE o.type = FT_DIR
  <2>1. T = S \ {o.inode} /\ o.inode \in S
    BY <1>2 DEF DirsOf
  <2>2. d.used_dirs = 1 + Cardinality(S)
    BY DEF DirsTallied
  <2>. HIDE DEF S, T
  <2>3. IsFiniteSet(T) /\ Cardinality(T) = Cardinality(S) - 1
    BY <1>1, <2>1, FS_RemoveElement
  <2>4. \A m \in Nat : m <= INODE_COUNT => m % UINT16 = m
    BY Pools
  <2>5. Cardinality(S) % UINT16 = Cardinality(S)
    BY <1>1, <2>4, Pools
  <2>6. d.used_dirs - 1 = Cardinality(S)
    BY <1>1, <2>2
  <2>7. e.used_dirs = 1 + Cardinality(T)
    BY <1>1, <1>2, <2>3, <2>5, <2>6
  <2>. QED BY <2>7 DEF DirsTallied, T
<1>3. CASE o.type # FT_DIR
  <2>1. T = S
    BY <1>3 DEF DirsOf
  <2>. QED BY <1>3, <2>1 DEF DirsTallied
<1>. QED BY <1>2, <1>3

(* The group descriptor of an image is right.                               *)
Booked(d) == Tallied(d) /\ DirsTallied(d)

LEMMA BookedSame ==
  ASSUME NEW c, Booked(c), NEW d, Lists(d) = Lists(c), Tallied(d), d.used_dirs = c.used_dirs
  PROVE  Booked(d)
BY DEF Booked, DirsTallied

LEMMA BookedFresh ==
  ASSUME NEW pw \in Passwords, NEW d, d = initialize_disk(pw)
  PROVE  Booked(d)
<1>1. Tallied(d) /\ d.used_dirs = 1 /\ Lists(d) = {}
  BY TalliedFresh, FreshNeat
<1>2. DirsOf({}) = {} /\ Cardinality({}) = 0
  BY FS_EmptySet DEF DirsOf
<1>. QED BY <1>1, <1>2 DEF Booked, DirsTallied

LEMMA BookedMake ==
  ASSUME MaxDirSize < UINT32, TreeInv, IInv', Homed', OneBlock', Booked(disk),
         NEW name \in Made, NEW type \in {FT_REG_FILE, FT_DIR}, MakeEntry(name, type)
  PROVE  Booked(disk')
<1>0. /\ disk \in Disk /\ disk' \in Disk /\ IInv /\ Homed /\ Neat(disk)
  BY DEF TreeInv, IInv, TypeOK
<1>1. CASE status' = "undefined"
  <2>1. disk' = disk
    BY <1>1, MakeUndefined
  <2>. QED BY <2>1
<1>2. CASE status' # "undefined"
  <2>1. /\ Tallied(disk')
        /\ disk'.used_dirs = IF status' = "shell" /\ type = FT_DIR
                             THEN (disk.used_dirs + 1) % UINT16 ELSE disk.used_dirs
    BY <1>0, <1>2, TalliedMake DEF Booked
  <2>2. CASE Saves(disk', "dead") /\ Lists(disk') = Lists(disk)
    <3>1. status' # "shell"
      BY <2>2 DEF Saves
    <3>. QED BY <2>1, <2>2, <3>1, BookedSame
  <2>3. ASSUME Saves(disk', "shell"), Neat(disk'), NEW i \in Inodes \ disk.inode_bitmap, NEW o,
               o = [inode |-> i, parent |-> current_dir, name |-> name, type |-> type],
               Lists(disk') = Lists(disk) \cup {o}
        PROVE  Booked(disk')
    <3>1. status' = "shell"
      BY <2>3 DEF Saves
    <3>2. o.inode = i /\ o.type = type
      BY <2>3
    <3>3. DirsTallied(disk')
      BY <1>0, <2>1, <2>3, <3>1, <3>2, DirsMore DEF Booked
    <3>. QED BY <2>1, <3>3 DEF Booked
  <2>. QED BY <1>0, <1>2, <2>2, <2>3, MakeNeat
<1>. QED BY <1>1, <1>2

LEMMA BookedRemove ==
  ASSUME TreeInv, OnlyDirect, Booked(disk), NEW name \in Names, rmdir(name) \/ delete(name)
  PROVE  Booked(disk')
<1>0. /\ Sound(disk) /\ disk \in Disk /\ IInv /\ Homed /\ Neat(disk) /\ current_dir \in Inodes
      /\ disk.inode_bitmap \subseteq Inodes
  <2>1. IInv /\ Homed /\ Neat(disk)
    BY DEF TreeInv
  <2>. QED BY <2>1, IInvIsSound DEF Sound, MemoryOK, Disk
<1>1. \A o, q \in Lists(disk) : o.inode = q.inode => o = q
  <2>1. objects = Lists(disk)
    BY <1>0, ListsAreObjects DEF objects
  <2>. QED BY <2>1 DEF TreeInv, NamesInv, Tree!NamesSound
<1>2. ASSUME NEW type \in {FT_REG_FILE, FT_DIR}, ~ (name \in {Dot, DotDot} /\ type = FT_DIR),
             NEW i, i = handle_search_inode(disk, current_dir, name, type), i # 0,
             type = FT_DIR => disk.inode_table[i].size = EmptySize,
             NEW d, Sound(d), Kept(disk, d), d.inode_table = disk.inode_table,
             d.free_blocks = disk.free_blocks, d.free_inodes = disk.free_inodes,
             d.used_dirs = IF type = FT_DIR THEN (disk.used_dirs - 1) % UINT16 ELSE disk.used_dirs,
             Saves(RemoveObject(d, i, name, type), "shell")
      PROVE  Booked(disk')
  <2>. DEFINE o == [inode |-> i, parent |-> current_dir, name |-> name, type |-> type]
  <2>1. o \in Lists(disk) /\ Lists(disk') = Lists(disk) \ {o}
    BY <1>0, <1>1, <1>2, RemoveLists
  <2>2. o.inode = i /\ o.type = type
    OBVIOUS
  <2>. HIDE DEF o
  <2>3. i \in Inodes /\ i \in disk.inode_bitmap
    BY <1>0, <2>1, <2>2 DEF Neat
  <2>4. Tallied(d)
    BY <1>2, TalliedSame DEF Kept, Booked
  <2>5. Len(d.inode_table[i].block) <= DIRECT /\ i \in d.inode_bitmap
    BY <1>2, <2>3 DEF OnlyDirect, Kept
  <2>6. disk' = RemoveObject(d, i, name, type)
    BY <1>2 DEF Saves
  <2>7. Tallied(disk') /\ disk'.used_dirs = d.used_dirs
    BY <1>0, <1>2, <2>3, <2>4, <2>5, <2>6, TalliedRemove
  <2>8. DirsTallied(disk')
    BY <1>0, <1>1, <1>2, <2>1, <2>2, <2>7, DirsLess DEF Booked
  <2>. QED BY <2>7, <2>8 DEF Booked
<1>3. FT_REG_FILE # FT_DIR
  BY DEF FT_REG_FILE, FT_DIR
<1>4. CASE rmdir(name)
  <2>. DEFINE d == UncountDir(disk)
  <2>1. Sound(d) /\ Kept(disk, d) /\ d.inode_table = disk.inode_table
    BY <1>0, CountDirSound, CountDirKeeps
  <2>2. /\ d.free_blocks = disk.free_blocks /\ d.free_inodes = disk.free_inodes
        /\ d.used_dirs = (disk.used_dirs - 1) % UINT16
    BY <1>0 DEF UncountDir, Disk
  <2>. QED BY <1>2, <1>4, <2>1, <2>2, Zenon DEF rmdir
<1>5. CASE delete(name)
  <2>1. Kept(disk, disk)
    BY DEF Kept
  <2>. QED BY <1>0, <1>2, <1>3, <1>5, <2>1, Zenon DEF delete
<1>. QED BY <1>4, <1>5

LEMMA BookedWrite ==
  ASSUME TreeInv, IInv', OnlyDirect', Booked(disk),
         NEW name \in Names, NEW n \in WriteSizes, write(name, n)
  PROVE  Booked(disk')
<1>0. IInv /\ Homed /\ Neat(disk)
  BY DEF TreeInv
<1>1. CASE status' = "undefined"
  <2>1. disk' = disk
    BY <1>1, WriteUndefined
  <2>. QED BY <2>1
<1>2. CASE status' # "undefined"
  <2>1. Named(name) # 0
    BY DEF write
  <2>2. Lists(disk') = Lists(disk)
    BY <1>0, <1>2, <2>1, WriteElsewhere, FileLists
  <2>3. Tallied(disk') /\ disk'.used_dirs = disk.used_dirs
    BY <1>0, <1>2, TalliedWrite DEF Booked
  <2>. QED BY <2>2, <2>3, BookedSame
<1>. QED BY <1>1, <1>2

LEMMA BookedChmod ==
  ASSUME TreeInv, Booked(disk), NEW name \in Names,
         NEW sign, NEW r, NEW w, NEW x, chmod(sign, r, w, x, name)
  PROVE  Booked(disk')
<1>. DEFINE i == Named(name)
            f == IF sign = "+" THEN disk.inode_table[i].perm \cup PermBits(r, w, x)
                               ELSE disk.inode_table[i].perm \ PermBits(r, w, x)
<1>1. i # 0 /\ disk \in Disk /\ IInv /\ Homed /\ Neat(disk)
  BY DEF chmod, TreeInv, IInv, TypeOK
<1>2. i \in Inodes
  BY <1>1, FoundInode DEF Named
<1>3. disk' = [disk EXCEPT !.inode_table[i].perm = f]
  BY DEF chmod
<1>. HIDE DEF f, i
<1>. DEFINE m == [disk.inode_table[i] EXCEPT !.perm = f]
            t == [disk.inode_table EXCEPT ![i] = m]
<1>4. disk' = [disk EXCEPT !.inode_table = t]
  BY <1>3
<1>5. /\ m.type = disk.inode_table[i].type /\ m.block = disk.inode_table[i].block
      /\ m.sub = disk.inode_table[i].sub
  BY <1>1, <1>2 DEF Disk, Inode
<1>. HIDE DEF m
<1>6. t[i] = m /\ \A j \in Inodes : j # i => t[j] = disk.inode_table[j]
  BY <1>1, <1>2 DEF Disk
<1>. HIDE DEF t
<1>7. /\ disk'.inode_bitmap = disk.inode_bitmap /\ disk'.dirents = disk.dirents
      /\ disk'.inode_table = t /\ disk'.block_bitmap = disk.block_bitmap
      /\ disk'.free_blocks = disk.free_blocks /\ disk'.free_inodes = disk.free_inodes
      /\ disk'.used_dirs = disk.used_dirs
  BY <1>1, <1>4 DEF Disk
<1>8. Lists(disk') = Lists(disk)
  BY <1>1, <1>5, <1>6, <1>7, FileLists DEF i
<1>9. \A j \in Inodes : /\ disk'.inode_table[j].block = disk.inode_table[j].block
                        /\ disk'.inode_table[j].sub = disk.inode_table[j].sub
  BY <1>5, <1>6, <1>7
<1>10. Tallied(disk')
  BY <1>7, <1>9, TalliedSame DEF Booked
<1>. QED BY <1>7, <1>8, <1>10, BookedSame

LEMMA BookedOthers ==
  ASSUME TreeInv, Booked(disk),
         \/ Start \/ quit \/ UNCHANGED vars
         \/ \E pw \in Passwords : login(pw) \/ pwd(pw) \/ format(pw)
         \/ \E name \in Names : cd(name) \/ open(name) \/ close(name)
  PROVE  Booked(disk')
<1>1. CASE \/ Start \/ quit \/ UNCHANGED vars \/ (\E pw \in Passwords : login(pw))
           \/ \E name \in Names : cd(name) \/ open(name) \/ close(name)
  <2>1. disk' = disk
    BY <1>1 DEF Start, quit, login, vars, cd, open, close, Undefined
  <2>. QED BY <2>1
<1>2. ASSUME NEW pw \in Passwords, pwd(pw)
      PROVE  Booked(disk')
  <2>1. disk \in Disk /\ disk' = [disk EXCEPT !.password = pw]
    BY <1>2 DEF pwd, TreeInv, IInv, TypeOK
  <2>2. /\ disk'.inode_bitmap = disk.inode_bitmap /\ disk'.inode_table = disk.inode_table
        /\ disk'.dirents = disk.dirents /\ disk'.block_bitmap = disk.block_bitmap
        /\ disk'.free_blocks = disk.free_blocks /\ disk'.free_inodes = disk.free_inodes
        /\ disk'.used_dirs = disk.used_dirs
    BY <2>1 DEF Disk
  <2>3. Lists(disk') = Lists(disk)
    BY <2>2 DEF Lists, LiveDirs, Chain
  <2>4. Tallied(disk')
    BY <2>2, TalliedSame DEF Booked
  <2>. QED BY <2>2, <2>3, <2>4, BookedSame
<1>3. ASSUME NEW pw \in Passwords, format(pw)
      PROVE  Booked(disk')
  BY <1>3, BookedFresh DEF format
<1>. QED BY <1>1, <1>2, <1>3

LEMMA BookedNext ==
  ASSUME MaxDirSize < UINT32
  PROVE  TreeInv /\ Booked(disk) /\ [Next]_vars /\ OneBlock' /\ OnlyDirect /\ OnlyDirect' => Booked(disk')
<1>. SUFFICES ASSUME TreeInv, Booked(disk), [Next]_vars, OneBlock', OnlyDirect, OnlyDirect' PROVE Booked(disk')
  OBVIOUS
<1>0. IInv' /\ Homed'
  BY HomedNext DEF TreeInv
<1>1. ASSUME NEW name \in Names, name \in Made, mkdir(name) \/ create(name) PROVE Booked(disk')
  BY <1>0, <1>1, BookedMake DEF mkdir, create
<1>2. ASSUME NEW name \in Names, rmdir(name) \/ delete(name) PROVE Booked(disk')
  BY <1>2, BookedRemove
<1>3. ASSUME NEW name \in Names, NEW n \in WriteSizes, write(name, n) PROVE Booked(disk')
  BY <1>0, <1>3, BookedWrite
<1>4. ASSUME NEW name \in Names, NEW sign, NEW r, NEW w, NEW x, chmod(sign, r, w, x, name) PROVE Booked(disk')
  BY <1>4, BookedChmod
<1>5. ASSUME \/ Start \/ quit \/ UNCHANGED vars
             \/ \E pw \in Passwords : login(pw) \/ pwd(pw) \/ format(pw)
             \/ \E name \in Names : cd(name) \/ open(name) \/ close(name)
      PROVE  Booked(disk')
  BY <1>5, BookedOthers
<1>. QED BY <1>1, <1>2, <1>3, <1>4, <1>5, Zenon DEF Next

(* Directories and the entries that name them are equally many.             *)
LEMMA DirPlaces ==
  ASSUME TreeInv, NEW P,
         P = UNION {{at \in ChildPlaces(disk, p) : EntryAt(disk, at).file_type = FT_DIR} : p \in LiveDirs(disk)}
  PROVE  Cardinality(P) = Cardinality(DirsOf(Lists(disk)))
<1>. DEFINE S == DirsOf(Lists(disk))
            f == [at \in P |-> EntryAt(disk, at).inode]
<1>0. disk \in Disk /\ Neat(disk) /\ EveryInodeNamed
  BY NamedOnce DEF TreeInv, IInv, TypeOK
<1>1. ASSUME NEW at \in P
      PROVE  f[at] \in S /\ f[at] \in disk.inode_bitmap \ {1}
  <2>1. PICK p \in LiveDirs(disk) : at \in ChildPlaces(disk, p) /\ EntryAt(disk, at).file_type = FT_DIR
    OBVIOUS
  <2>2. Said(EntryAt(disk, at), p) \in Lists(disk)
    BY <1>0, <2>1, PlaceListed
  <2>3. EntryAt(disk, at).inode \in S
    BY <2>1, <2>2 DEF DirsOf, Said
  <2>4. EntryAt(disk, at).inode \in disk.inode_bitmap \ {1}
    BY <1>0, <2>2 DEF Neat, Said
  <2>. QED BY <2>3, <2>4
<1>2. ASSUME NEW at \in P, NEW to \in P, f[at] = f[to]
      PROVE  at = to
  <2>1. PICK p \in LiveDirs(disk) : at \in ChildPlaces(disk, p)
    OBVIOUS
  <2>2. PICK q \in LiveDirs(disk) : to \in ChildPlaces(disk, q)
    OBVIOUS
  <2>3. f[at] \in disk.inode_bitmap \ {1} /\ EntryAt(disk, at).inode = f[at] /\ EntryAt(disk, to).inode = f[at]
    BY <1>1, <1>2
  <2>. HIDE DEF f
  <2>4. PICK go : \A s \in LiveDirs(disk) : \A x \in ChildPlaces(disk, s) :
                    EntryAt(disk, x).inode = f[at] => x = go
    BY <1>0, <2>3 DEF EveryInodeNamed
  <2>. QED BY <2>1, <2>2, <2>3, <2>4
<1>3. ASSUME NEW i \in S
      PROVE  \E at \in P : f[at] = i
  <2>1. PICK o \in Lists(disk) : o.inode = i /\ o.type = FT_DIR
    BY DEF DirsOf
  <2>2. PICK p \in LiveDirs(disk) : p = o.parent
    BY <1>0, ListedPlace
  <2>3. PICK at \in ChildPlaces(disk, p) : o = Said(EntryAt(disk, at), p)
    BY <1>0, <2>2, ListedPlace
  <2>4. EntryAt(disk, at).inode = i /\ EntryAt(disk, at).file_type = FT_DIR
    BY <2>1, <2>3 DEF Said
  <2>5. at \in P
    BY <2>4
  <2>. QED BY <2>4, <2>5
<1>4. f \in [P -> S]
  BY <1>1
<1>5. IsFiniteSet(S)
  BY <1>0, DirsFew
<1>. HIDE DEF f, S
<1>6. f \in Bijection(P, S)
  BY <1>2, <1>3, <1>4 DEF Bijection, Injection, Surjection, IsInjective
<1>7. f \in Injection(P, S) /\ f \in Surjection(P, S)
  BY <1>6 DEF Bijection
<1>8. IsFiniteSet(P)
  BY <1>5, <1>7, FS_Injection
<1>9. ExistsBijection(P, S)
  BY <1>6 DEF ExistsBijection
<1>. QED BY <1>8, <1>9, FS_Bijection DEF S

LEMMA BooksMatch == TreeInv /\ Booked(disk) => CountersMatch /\ NoLeakedBlock
<1>. SUFFICES ASSUME TreeInv, Booked(disk) PROVE CountersMatch /\ NoLeakedBlock
  OBVIOUS
<1>. DEFINE P == UNION {{at \in ChildPlaces(disk, p) : EntryAt(disk, at).file_type = FT_DIR} : p \in LiveDirs(disk)}
<1>1. disk.used_dirs = 1 + Cardinality(P)
  BY DirPlaces DEF Booked, DirsTallied
<1>. HIDE DEF P
<1>2. CountersMatch
  BY <1>1 DEF CountersMatch, Booked, Tallied, P
<1>3. NoLeakedBlock
  BY DEF NoLeakedBlock, Booked, Tallied
<1>. QED BY <1>2, <1>3

(* As long as no directory outgrows its first block and no inode its direct *)
(* blocks, the group descriptor is right: it counts the blocks and inodes   *)
(* that are not marked and the directories there are, through every mkdir,  *)
(* create, rmdir, delete and write, and every marked block is in an inode.  *)
THEOREM CountersAlwaysMatch ==
  ASSUME MaxDirSize < UINT32
  PROVE  Spec /\ [](OneBlock /\ OnlyDirect) => [](CountersMatch /\ NoLeakedBlock)
<1>1. Init => Booked(disk)
  BY BookedFresh DEF Init
<1>2. TreeInv /\ Booked(disk) /\ [Next]_vars /\ OneBlock' /\ OnlyDirect /\ OnlyDirect' => Booked(disk)'
  BY BookedNext
<1>3. TreeInv /\ Booked(disk) => CountersMatch /\ NoLeakedBlock
  BY BooksMatch
<1>. QED BY <1>1, <1>2, <1>3, TreeAlways, PTL DEF Spec
=============================================================================
