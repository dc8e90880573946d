------------------------- MODULE RamdiskTree_proofs -------------------------
(***************************************************************************)
(* Proofs about RamdiskTree.  First the facts about lists and about walks, *)
(* for any contents of the fields: so they serve the state before a step   *)
(* and the one after it.  Then the parts of the inductive invariant, and   *)
(* the theorems; last, that the tree implements FileNamespace.             *)
(***************************************************************************)
EXTENDS RamdiskTree, CommonFacts, SequenceTheorems

Lists == Files \cup {RootDir}

-----------------------------------------------------------------------------
(***************************************************************************)
(* Lists.                                                                  *)
(***************************************************************************)
\* The least number of a set is its Min.
LEMMA MinIsLeast ==
    ASSUME NEW K \in SUBSET Nat, K # {}
    PROVE  Min(K) \in K /\ \A k \in K : Min(K) <= k
<1>1. \E n \in K : \A m \in K : n <= m
  BY LeastNumber
<1> QED
  BY <1>1 DEF Min

LEMMA RangeIsIn ==
    ASSUME NEW S, NEW s \in Seq(S)
    PROVE  Range(s) \subseteq S /\ DOMAIN s = 1 .. Len(s) /\ Len(s) \in Nat
BY DEF Range

LEMMA Appends ==
    ASSUME NEW S, NEW s \in Seq(S), NEW x \in S
    PROVE  /\ Append(s, x) \in Seq(S)
           /\ DOMAIN Append(s, x) = 1 .. Len(s) + 1
           /\ \A k \in 1 .. Len(s) : Append(s, x)[k] = s[k]
           /\ Append(s, x)[Len(s) + 1] = x
           /\ Range(Append(s, x)) = Range(s) \cup {x}
<1>1. /\ Append(s, x) \in Seq(S)
      /\ DOMAIN Append(s, x) = 1 .. Len(s) + 1 /\ DOMAIN s = 1 .. Len(s)
      /\ \A k \in 1 .. Len(s) : Append(s, x)[k] = s[k]
      /\ Append(s, x)[Len(s) + 1] = x
  OBVIOUS
<1>2. Range(Append(s, x)) = Range(s) \cup {x}
  <2>1. ASSUME NEW y \in Range(Append(s, x)) PROVE y \in Range(s) \cup {x}
    BY <1>1 DEF Range
  <2>2. ASSUME NEW y \in Range(s) \cup {x} PROVE y \in Range(Append(s, x))
    BY <1>1 DEF Range
  <2> QED
    BY <2>1, <2>2
<1> QED
  BY <1>1, <1>2

\* del_l_elem: the first link of the element is cut out.
LEMMA Removes ==
    ASSUME NEW S, NEW s \in Seq(S), NEW x \in Range(s)
    PROVE  LET t == RemoveFirst(s, x)
           IN  /\ t \in Seq(S)
               /\ DOMAIN t = 1 .. Len(s) - 1
               /\ \E p \in 1 .. Len(s) :
                     /\ s[p] = x
                     /\ \A k \in 1 .. Len(s) - 1 :
                           t[k] = s[IF k < p THEN k ELSE k + 1]
<1> DEFINE I == {k \in 1 .. Len(s) : s[k] = x}
           p == Min(I)
<1>1. Len(s) \in Nat /\ DOMAIN s = 1 .. Len(s)
  OBVIOUS
<1>2. I # {} /\ I \in SUBSET Nat
  BY <1>1 DEF Range
<1>3. p \in 1 .. Len(s) /\ s[p] = x
  <2> HIDE DEF I
  <2>1. p \in I
    BY <1>2, MinIsLeast
  <2> QED
    BY <2>1 DEF I
<1>4. RemoveFirst(s, x) = SubSeq(s, 1, p - 1) \o SubSeq(s, p + 1, Len(s))
  BY <1>2 DEF RemoveFirst, RemoveAt, SelectInSeq
<1> HIDE DEF p
<1>5. /\ SubSeq(s, 1, p - 1) \in Seq(S) /\ Len(SubSeq(s, 1, p - 1)) = p - 1
      /\ \A k \in 1 .. p - 1 : SubSeq(s, 1, p - 1)[k] = s[k]
  <2>1. \A k \in 1 .. p - 1 : s[k] \in S
    BY <1>1, <1>3
  <2> QED
    BY <2>1, <1>1, <1>3, SubSeqProperties
<1>6. /\ SubSeq(s, p + 1, Len(s)) \in Seq(S)
      /\ Len(SubSeq(s, p + 1, Len(s))) = Len(s) - p
      /\ \A k \in 1 .. Len(s) - p : SubSeq(s, p + 1, Len(s))[k] = s[p + k]
  <2>1. \A k \in p + 1 .. Len(s) : s[k] \in S
    BY <1>1, <1>3
  <2>2. /\ SubSeq(s, p + 1, Len(s)) \in Seq(S)
        /\ Len(SubSeq(s, p + 1, Len(s)))
             = IF p + 1 <= Len(s) THEN Len(s) - (p + 1) + 1 ELSE 0
        /\ \A k \in 1 .. Len(s) - (p + 1) + 1 :
              SubSeq(s, p + 1, Len(s))[k] = s[p + 1 + k - 1]
    BY <2>1, <1>1, <1>3, SubSeqProperties
  <2>3. /\ \A k \in 1 .. Len(s) - p : p + 1 + k - 1 = p + k
        /\ Len(s) - (p + 1) + 1 = Len(s) - p
        /\ (IF p + 1 <= Len(s) THEN Len(s) - (p + 1) + 1 ELSE 0) = Len(s) - p
    <3>1. Len(s) \in Int /\ p \in Int /\ p <= Len(s)
      BY <1>1, <1>3
    <3> QED
      BY <3>1
  <2> QED
    BY <2>2, <2>3
<1> DEFINE a == SubSeq(s, 1, p - 1)
           b == SubSeq(s, p + 1, Len(s))
<1> HIDE DEF a, b
<1>7. /\ a \o b \in Seq(S) /\ Len(a \o b) = Len(s) - 1
      /\ \A k \in 1 .. Len(s) - 1 :
            (a \o b)[k] = IF k < p THEN a[k] ELSE b[k - p + 1]
  <2>1. a \in Seq(S) /\ b \in Seq(S) /\ Len(a) = p - 1 /\ Len(b) = Len(s) - p
    BY <1>5, <1>6 DEF a, b
  <2>2. /\ a \o b \in Seq(S) /\ Len(a \o b) = Len(a) + Len(b)
        /\ \A k \in 1 .. Len(a) + Len(b) :
              (a \o b)[k] = IF k <= Len(a) THEN a[k] ELSE b[k - Len(a)]
    BY <2>1, ConcatProperties
  <2>3. \A k \in 1 .. Len(s) - 1 : k - (p - 1) = k - p + 1 /\ (k <= p - 1 <=> k < p)
    BY <1>1, <1>3
  <2> QED
    BY <2>1, <2>2, <2>3, <1>1, <1>3
<1>8. \A k \in 1 .. Len(s) - 1 : (a \o b)[k] = s[IF k < p THEN k ELSE k + 1]
  <2> TAKE k \in 1 .. Len(s) - 1
  <2>1. CASE k < p
    <3>1. k \in 1 .. p - 1
      BY <2>1, <1>1, <1>3
    <3> QED
      BY <2>1, <3>1, <1>5, <1>7 DEF a
  <2>2. CASE ~(k < p)
    <3>1. k - p + 1 \in 1 .. Len(s) - p /\ p + (k - p + 1) = k + 1
      BY <2>2, <1>1, <1>3
    <3> QED
      BY <2>2, <3>1, <1>6, <1>7 DEF b
  <2> QED
    BY <2>1, <2>2
<1>9. RemoveFirst(s, x) = a \o b
  BY <1>4 DEF a, b
<1>10. DOMAIN (a \o b) = 1 .. Len(s) - 1
  BY <1>7
<1> QED
  BY <1>3, <1>7, <1>8, <1>9, <1>10

LEMMA RemovesNothing ==
    ASSUME NEW S, NEW s \in Seq(S), NEW x, x \notin Range(s)
    PROVE  RemoveFirst(s, x) = s
BY DEF RemoveFirst, Range

\* x is on the list s once.
Once(s, x) == \E j \in DOMAIN s : \A k \in DOMAIN s : s[k] = x <=> k = j

\* What a deletion leaves on the list.
LEMMA RemovesRange ==
    ASSUME NEW S, NEW s \in Seq(S), NEW x
    PROVE  LET t == RemoveFirst(s, x)
           IN  /\ t \in Seq(S)
               /\ Range(t) \subseteq Range(s)
               /\ Range(s) \ {x} \subseteq Range(t)
               /\ Once(s, x) => x \notin Range(t)
               /\ \A y : y # x /\ Once(s, y) => Once(t, y)
<1>1. CASE x \notin Range(s)
  <2>1. RemoveFirst(s, x) = s
    BY <1>1, RemovesNothing
  <2> QED
    BY <2>1, <1>1
<1>2. CASE x \in Range(s)
  <2> DEFINE t == RemoveFirst(s, x)
  <2>1. PICK p \in 1 .. Len(s) :
           /\ s[p] = x
           /\ \A k \in 1 .. Len(s) - 1 : t[k] = s[IF k < p THEN k ELSE k + 1]
    BY <1>2, Removes
  <2>2. /\ t \in Seq(S) /\ DOMAIN t = 1 .. Len(s) - 1
        /\ DOMAIN s = 1 .. Len(s) /\ Len(s) \in Nat
    BY <1>2, Removes
  <2> HIDE DEF t
  <2> DEFINE Old(k) == IF k < p THEN k ELSE k + 1
             New(k) == IF k < p THEN k ELSE k - 1
  <2>3. \A k \in DOMAIN t : Old(k) \in DOMAIN s /\ Old(k) # p /\ t[k] = s[Old(k)]
    BY <2>1, <2>2
  <2>4. \A k \in DOMAIN s \ {p} : New(k) \in DOMAIN t /\ Old(New(k)) = k
    BY <2>2
  <2>5. \A j, k \in DOMAIN t : Old(j) = Old(k) => j = k
    BY <2>2
  <2> HIDE DEF Old, New
  <2>6. Range(t) \subseteq Range(s)
    BY <2>3 DEF Range
  <2>7. Range(s) \ {x} \subseteq Range(t)
    <3> SUFFICES ASSUME NEW y \in Range(s) \ {x} PROVE y \in Range(t)
      OBVIOUS
    <3>1. PICK k \in DOMAIN s : s[k] = y
      BY DEF Range
    <3>2. k # p
      BY <3>1, <2>1
    <3> QED
      BY <3>1, <3>2, <2>3, <2>4 DEF Range
  <2>8. ASSUME Once(s, x) PROVE x \notin Range(t)
    BY <2>8, <2>1, <2>2, <2>3 DEF Once, Range
  <2>9. ASSUME NEW y, y # x, Once(s, y) PROVE Once(t, y)
    <3>1. PICK j \in DOMAIN s : \A k \in DOMAIN s : s[k] = y <=> k = j
      BY <2>9 DEF Once
    <3>2. j # p
      BY <3>1, <2>1, <2>9
    <3>3. New(j) \in DOMAIN t /\ \A k \in DOMAIN t : t[k] = y <=> k = New(j)
      BY <3>1, <3>2, <2>3, <2>4, <2>5
    <3> QED
      BY <3>3 DEF Once
  <2> QED
    BY <2>2, <2>6, <2>7, <2>8, <2>9 DEF t
<1> QED
  BY <1>1, <1>2

\* What an addition at the end makes of the list.
LEMMA AppendsOnce ==
    ASSUME NEW S, NEW s \in Seq(S), NEW x \in S
    PROVE  /\ x \notin Range(s) => Once(Append(s, x), x)
           /\ \A y : y # x /\ Once(s, y) => Once(Append(s, x), y)
<1> DEFINE t == Append(s, x)
<1>1. /\ DOMAIN t = 1 .. Len(s) + 1 /\ DOMAIN s = 1 .. Len(s) /\ Len(s) \in Nat
      /\ \A k \in 1 .. Len(s) : t[k] = s[k]
      /\ t[Len(s) + 1] = x
  BY Appends
<1> HIDE DEF t
<1>2. ASSUME x \notin Range(s) PROVE Once(t, x)
  <2>1. Len(s) + 1 \in DOMAIN t
    BY <1>1
  <2>2. \A k \in DOMAIN t : t[k] = x <=> k = Len(s) + 1
    <3> TAKE k \in DOMAIN t
    <3>1. CASE k \in 1 .. Len(s)
      BY <3>1, <1>1, <1>2 DEF Range
    <3>2. CASE k \notin 1 .. Len(s)
      BY <3>2, <1>1
    <3> QED
      BY <3>1, <3>2
  <2> QED
    BY <2>1, <2>2 DEF Once
<1>3. ASSUME NEW y, y # x, Once(s, y) PROVE Once(t, y)
  <2>1. PICK j \in DOMAIN s : \A k \in DOMAIN s : s[k] = y <=> k = j
    BY <1>3 DEF Once
  <2>2. j \in DOMAIN t
    BY <1>1
  <2>3. \A k \in DOMAIN t : t[k] = y <=> k = j
    <3> TAKE k \in DOMAIN t
    <3>1. CASE k \in 1 .. Len(s)
      BY <3>1, <1>1, <2>1
    <3>2. CASE k \notin 1 .. Len(s)
      <4>1. k = Len(s) + 1
        BY <3>2, <1>1
      <4> QED
        BY <4>1, <1>1, <1>3
    <3> QED
      BY <3>1, <3>2
  <2> QED
    BY <2>2, <2>3 DEF Once
<1> QED
  BY <1>2, <1>3 DEF t

\* A path without its last name.
LEMMA FrontProps ==
    ASSUME NEW S, NEW p \in Seq(S), p # <<>>
    PROVE  /\ Front(p) \in Seq(S) /\ Last(p) \in S
           /\ Len(p) \in Nat /\ Len(p) > 0 /\ Len(Front(p)) = Len(p) - 1
           /\ \A k \in 1 .. Len(p) - 1 : p[k] = Front(p)[k]
<1>1. Len(p) \in Nat /\ Len(p) > 0 /\ \A k \in 1 .. Len(p) : p[k] \in S
  OBVIOUS
<1>2. \A k \in 1 .. Len(p) - 1 : p[k] \in S
  BY <1>1
<1>3. PICK n \in Nat : n = Len(p) - 1
  BY <1>1
<1>4. /\ SubSeq(p, 1, n) \in Seq(S)
      /\ Len(SubSeq(p, 1, n)) = IF 1 <= n THEN n - 1 + 1 ELSE 0
      /\ \A k \in 1 .. n - 1 + 1 : SubSeq(p, 1, n)[k] = p[1 + k - 1]
  BY <1>2, <1>3, SubSeqProperties
<1>5. /\ (IF 1 <= n THEN n - 1 + 1 ELSE 0) = n
      /\ \A k \in 1 .. n : k \in 1 .. n - 1 + 1 /\ 1 + k - 1 = k
  BY <1>3
<1>6. /\ Front(p) \in Seq(S) /\ Len(Front(p)) = n
      /\ \A k \in 1 .. n : Front(p)[k] = p[k]
  BY <1>3, <1>4, <1>5 DEF Front
<1> QED
  BY <1>1, <1>3, <1>6 DEF Last

-----------------------------------------------------------------------------
(***************************************************************************)
(* Links.                                                                  *)
(***************************************************************************)
LinksIn(sub, f) ==
    UNION {{<<d, k>> : k \in {j \in DOMAIN sub[d] : sub[d][j] = f}} :
              d \in Files \cup {RootDir}}

\* f is on the list of d, once, and on no other.
OnlyOn(sub, f, d) ==
    /\ d \in Lists
    /\ Once(sub[d], f)
    /\ \A c \in Lists \ {d} : f \notin Range(sub[c])

LEMMA LinkIs ==
    ASSUME NEW sub \in [Lists -> Seq(Files)], NEW f
    PROVE  LinksIn(sub, f)
             = {z \in Lists \X Nat : z[2] \in DOMAIN sub[z[1]] /\ sub[z[1]][z[2]] = f}
<1>1. \A d \in Lists : sub[d] \in Seq(Files)
  OBVIOUS
<1>2. \A d \in Lists : DOMAIN sub[d] \subseteq Nat
  BY <1>1
<1> QED
  BY <1>2 DEF LinksIn, Lists

LEMMA LinksFinite ==
    ASSUME NEW sub \in [Lists -> Seq(Files)], NEW f
    PROVE  IsFiniteSet(LinksIn(sub, f))
<1> DEFINE At(d) == {<<d, k>> : k \in {j \in DOMAIN sub[d] : sub[d][j] = f}}
           g == [d \in Lists |-> At(d)]
           T == {At(d) : d \in Lists}
<1>1. IsFiniteSet(Lists)
  BY FilesAssumption, FS_AddElement DEF Lists
<1>2. IsFiniteSet(T)
  <2> HIDE DEF At
  <2>1. g \in Surjection(Lists, T)
    BY DEF Surjection
  <2> QED
    BY <1>1, <2>1, FS_Surjection
<1>3. ASSUME NEW d \in Lists PROVE IsFiniteSet(At(d))
  <2> DEFINE D == {j \in DOMAIN sub[d] : sub[d][j] = f}
             h == [k \in D |-> <<d, k>>]
  <2>1. sub[d] \in Seq(Files) /\ Len(sub[d]) \in Nat /\ DOMAIN sub[d] = 1 .. Len(sub[d])
    BY <1>3
  <2>2. IsFiniteSet(1 .. Len(sub[d]))
    BY <2>1, FS_Interval
  <2>3. IsFiniteSet(D)
    BY <2>1, <2>2, FS_Subset
  <2>4. h \in Surjection(D, At(d))
    BY DEF Surjection
  <2> QED
    BY <2>3, <2>4, FS_Surjection
<1>4. \A X \in T : IsFiniteSet(X)
  BY <1>3
<1>5. LinksIn(sub, f) = UNION T
  BY DEF LinksIn, Lists
<1> HIDE DEF T
<1> QED
  BY <1>2, <1>4, <1>5, FS_UNION

LEMMA OneLink ==
    ASSUME NEW sub \in [Lists -> Seq(Files)], NEW f
    PROVE  /\ Cardinality(LinksIn(sub, f)) = 1
                <=> \E d \in Lists : OnlyOn(sub, f, d)
           /\ ~(Cardinality(LinksIn(sub, f)) > 1) =>
                \A d \in Lists : f \in Range(sub[d]) => OnlyOn(sub, f, d)
<1> DEFINE L == {z \in Lists \X Nat : z[2] \in DOMAIN sub[z[1]] /\ sub[z[1]][z[2]] = f}
<1>1. LinksIn(sub, f) = L /\ IsFiniteSet(L)
  <2>1. IsFiniteSet(LinksIn(sub, f))
    BY LinksFinite
  <2>2. LinksIn(sub, f) = L
    BY LinkIs
  <2> QED
    BY <2>1, <2>2
<1>2. \A d \in Lists : DOMAIN sub[d] \subseteq Nat
  OBVIOUS
<1>3. ASSUME NEW z, L = {z} PROVE OnlyOn(sub, f, z[1])
  <2>1. z \in L
    BY <1>3
  <2>2. z[1] \in Lists /\ z[2] \in DOMAIN sub[z[1]] /\ sub[z[1]][z[2]] = f
    BY <2>1
  <2>3. \A d \in Lists : \A k \in DOMAIN sub[d] :
           sub[d][k] = f => d = z[1] /\ k = z[2]
    <3> TAKE d \in Lists
    <3> TAKE k \in DOMAIN sub[d]
    <3> HAVE sub[d][k] = f
    <3>1. <<d, k>> \in L
      BY <1>2
    <3>2. <<d, k>> = z
      BY <3>1, <1>3
    <3> QED
      BY <3>2
  <2>4. Once(sub[z[1]], f)
    BY <2>2, <2>3 DEF Once
  <2>5. \A c \in Lists \ {z[1]} : f \notin Range(sub[c])
    BY <2>3 DEF Range
  <2> QED
    BY <2>2, <2>4, <2>5 DEF OnlyOn
<1>4. ASSUME NEW d \in Lists, OnlyOn(sub, f, d) PROVE \E z : L = {z}
  <2>1. PICK j \in DOMAIN sub[d] : \A k \in DOMAIN sub[d] : sub[d][k] = f <=> k = j
    BY <1>4 DEF OnlyOn, Once
  <2>2. <<d, j>> \in L
    BY <1>2, <2>1
  <2>3. ASSUME NEW z \in L PROVE z = <<d, j>>
    <3>1. /\ z = <<z[1], z[2]>> /\ z[1] \in Lists
          /\ z[2] \in DOMAIN sub[z[1]] /\ sub[z[1]][z[2]] = f
      OBVIOUS
    <3>2. z[1] = d
      BY <3>1, <1>4 DEF OnlyOn, Range
    <3>3. z[2] = j
      BY <3>1, <3>2, <2>1
    <3> QED
      BY <3>1, <3>2, <3>3
  <2> QED
    BY <2>2, <2>3
<1>5. ASSUME ~(Cardinality(L) > 1), NEW d \in Lists, f \in Range(sub[d])
      PROVE  OnlyOn(sub, f, d)
  <2>1. PICK k \in DOMAIN sub[d] : sub[d][k] = f
    BY <1>5 DEF Range
  <2>2. <<d, k>> \in L
    BY <1>2, <2>1
  <2> HIDE DEF L
  <2>3. Cardinality(L) \in Nat /\ Cardinality(L) # 0
    BY <2>2, <1>1, FS_CardinalityType, FS_EmptySet
  <2>4. Cardinality(L) = 1
    BY <2>3, <1>5
  <2>5. PICK z : L = {z}
    BY <2>4, <1>1, FS_Singleton
  <2>6. z = <<d, k>>
    BY <2>2, <2>5
  <2> QED
    BY <2>5, <2>6, <1>3
<1>6. (\E z : L = {z}) <=> \E d \in Lists : OnlyOn(sub, f, d)
  <2>1. ASSUME NEW z, L = {z} PROVE \E d \in Lists : OnlyOn(sub, f, d)
    BY <2>1, <1>3 DEF OnlyOn
  <2> QED
    BY <2>1, <1>4
<1> HIDE DEF L
<1> QED
  BY <1>1, <1>5, <1>6, FS_Singleton

-----------------------------------------------------------------------------
(***************************************************************************)
(* Walks.  StepIn and WalkIn are Descend and Lookup in a disk with these   *)
(* fields.                                                                 *)
(***************************************************************************)
StepIn(ty, nm, sub, d, x) ==
    IF d = RootDir \/ (d \in Files /\ ty[d] = "FILE_DIR")
    THEN LET K == {k \in DOMAIN sub[d] : nm[sub[d][k]] = x}
         IN  IF K = {} THEN NoFile ELSE sub[d][Min(K)]
    ELSE NoFile
WalkIn(ty, nm, sub, path) ==
    LET at[k \in 0 .. Len(path)] ==
            IF k = 0 THEN RootDir ELSE StepIn(ty, nm, sub, at[k - 1], path[k])
    IN  at[Len(path)]

\* at is the walk along the first n names of the path.
IsWalk(ty, nm, sub, path, n, at) ==
    at = [k \in 0 .. n |->
            IF k = 0 THEN RootDir ELSE StepIn(ty, nm, sub, at[k - 1], path[k])]

LEMMA WalkExists ==
    ASSUME NEW ty, NEW nm, NEW sub, NEW p, NEW n \in Nat
    PROVE  \E a : IsWalk(ty, nm, sub, p, n, a)
<1> DEFINE C == {m \in 0 .. n : ~ \E a : IsWalk(ty, nm, sub, p, m, a)}
<1>1. SUFFICES ASSUME C # {} PROVE FALSE
  OBVIOUS
<1>2. PICK m \in C : \A j \in C : m <= j
  <2>1. C \in SUBSET Nat
    OBVIOUS
  <2> HIDE DEF C
  <2> QED
    BY <1>1, <2>1, LeastNumber
<1>3. m # 0
  <2> DEFINE a == [k \in 0 .. 0 |-> RootDir]
  <2>1. IsWalk(ty, nm, sub, p, 0, a)
    BY DEF IsWalk
  <2> HIDE DEF a
  <2> QED
    BY <2>1, <1>2
<1>4. m - 1 \in 0 .. n /\ m - 1 \notin C
  BY <1>2, <1>3
<1>5. PICK a : IsWalk(ty, nm, sub, p, m - 1, a)
  BY <1>4
<1> DEFINE b == [k \in 0 .. m |-> IF k = m THEN StepIn(ty, nm, sub, a[m - 1], p[m])
                                  ELSE a[k]]
           E(f, k) == IF k = 0 THEN RootDir ELSE StepIn(ty, nm, sub, f[k - 1], p[k])
<1>6. \A k \in 0 .. m : b[k] = E(b, k)
  <2> TAKE k \in 0 .. m
  <2>1. CASE k = m
    BY <2>1, <1>2, <1>3
  <2>2. CASE k # m
    <3>1. k \in 0 .. m - 1 /\ b[k] = a[k]
      BY <2>2, <1>2
    <3>2. a[k] = E(a, k)
      BY <3>1, <1>5 DEF IsWalk
    <3>3. k # 0 => b[k - 1] = a[k - 1]
      BY <3>1, <1>2
    <3> QED
      BY <3>1, <3>2, <3>3
  <2> QED
    BY <2>1, <2>2
<1>7. b = [k \in 0 .. m |-> E(b, k)]
  <2> DEFINE c == [k \in 0 .. m |-> E(b, k)]
  <2>1. \A k \in 0 .. m : b[k] = c[k]
    BY <1>6
  <2>2. b = [k \in 0 .. m |-> b[k]] /\ c = [k \in 0 .. m |-> c[k]]
    OBVIOUS
  <2> HIDE DEF b, c
  <2>3. b = c
    BY <2>1, <2>2
  <2> QED
    BY <2>3 DEF c
<1>8. IsWalk(ty, nm, sub, p, m, b)
  BY <1>7 DEF IsWalk
<1> QED
  BY <1>8, <1>2

\* A walk starts at the root, and its last step is one of StepIn.
LEMMA WalkSteps ==
    ASSUME NEW ty, NEW nm, NEW sub
    PROVE  /\ WalkIn(ty, nm, sub, <<>>) = RootDir
           /\ \A S : \A p \in Seq(S) : p # <<>> =>
                 WalkIn(ty, nm, sub, p)
                   = StepIn(ty, nm, sub, WalkIn(ty, nm, sub, Front(p)), Last(p))
<1> DEFINE W(p) == CHOOSE a : IsWalk(ty, nm, sub, p, Len(p), a)
<1>1. ASSUME NEW S, NEW p \in Seq(S)
      PROVE  /\ IsWalk(ty, nm, sub, p, Len(p), W(p))
             /\ WalkIn(ty, nm, sub, p) = W(p)[Len(p)]
  <2>1. \E a : IsWalk(ty, nm, sub, p, Len(p), a)
    <3>1. Len(p) \in Nat
      OBVIOUS
    <3> QED
      BY <3>1, WalkExists
  <2>2. WalkIn(ty, nm, sub, p) = W(p)[Len(p)]
    BY DEF WalkIn, IsWalk
  <2> QED
    BY <2>1, <2>2
<1> HIDE DEF W
<1>2. WalkIn(ty, nm, sub, <<>>) = RootDir
  <2>1. <<>> \in Seq({}) /\ Len(<<>>) = 0
    OBVIOUS
  <2>2. IsWalk(ty, nm, sub, <<>>, 0, W(<<>>)) /\ WalkIn(ty, nm, sub, <<>>) = W(<<>>)[0]
    BY <1>1, <2>1
  <2> QED
    BY <2>2 DEF IsWalk
<1>3. ASSUME NEW S, NEW p \in Seq(S), p # <<>>
      PROVE  WalkIn(ty, nm, sub, p)
               = StepIn(ty, nm, sub, WalkIn(ty, nm, sub, Front(p)), Last(p))
  <2> DEFINE n == Len(p)
             q == Front(p)
  <2>1. /\ q \in Seq(S) /\ n \in Nat /\ n > 0 /\ Len(q) = n - 1
        /\ \A k \in 1 .. n - 1 : p[k] = q[k]
    BY <1>3, FrontProps
  <2>2. IsWalk(ty, nm, sub, p, n, W(p)) /\ IsWalk(ty, nm, sub, q, n - 1, W(q))
    BY <2>1, <1>1
  <2>3. \A k \in 0 .. n - 1 : W(p)[k] = W(q)[k]
    <3> DEFINE C == {k \in 0 .. n - 1 : W(p)[k] # W(q)[k]}
    <3>1. SUFFICES ASSUME C # {} PROVE FALSE
      OBVIOUS
    <3>2. PICK k \in C : \A j \in C : k <= j
      <4>1. C \in SUBSET Nat
        OBVIOUS
      <4> HIDE DEF C
      <4> QED
        BY <3>1, <4>1, LeastNumber
    <3>3. /\ \A j \in 0 .. n : W(p)[j] = IF j = 0 THEN RootDir
                                  ELSE StepIn(ty, nm, sub, W(p)[j - 1], p[j])
          /\ \A j \in 0 .. n - 1 : W(q)[j] = IF j = 0 THEN RootDir
                                  ELSE StepIn(ty, nm, sub, W(q)[j - 1], q[j])
      BY <2>2 DEF IsWalk
    <3>4. k \in 1 .. n - 1
      BY <3>2, <3>3
    <3>5. W(p)[k - 1] = W(q)[k - 1]
      BY <3>2, <3>4
    <3> QED
      BY <2>1, <3>2, <3>3, <3>4, <3>5
  <2>4. W(p)[n] = StepIn(ty, nm, sub, W(p)[n - 1], p[n])
    <3>1. \A k \in 0 .. n : W(p)[k] = IF k = 0 THEN RootDir
                              ELSE StepIn(ty, nm, sub, W(p)[k - 1], p[k])
      BY <2>2 DEF IsWalk
    <3>2. n \in 0 .. n /\ n # 0
      BY <2>1
    <3> QED
      BY <3>1, <3>2
  <2>5. WalkIn(ty, nm, sub, q) = W(q)[n - 1] /\ WalkIn(ty, nm, sub, p) = W(p)[n]
    BY <2>1, <1>1
  <2> QED
    BY <2>1, <2>3, <2>4, <2>5 DEF Last
<1> QED
  BY <1>2, <1>3

-----------------------------------------------------------------------------
(***************************************************************************)
(* What a handler finds.                                                   *)
(***************************************************************************)
LEMMA PathsAre == \A path \in Paths : path \in Seq(Names) /\ path # <<>>
<1> SUFFICES ASSUME NEW path \in Paths PROVE path \in Seq(Names) /\ path # <<>>
  OBVIOUS
<1>1. PICK n \in 0 .. Cardinality(Files) : path \in [1 .. n -> Names]
  BY DEF Paths, BoundedSeq, SeqOf
<1>2. n \in Nat
  BY <1>1
<1> QED
  BY <1>1, <1>2 DEF Paths

LEMMA RootIsNoFile == RootDir \notin Files /\ NoFile \notin Lists /\ Garbage \notin Lists
<1>1. NoFile # RootDir /\ Garbage # RootDir
  <2>1. ASSUME NoFile = RootDir \/ Garbage = RootDir \/ NoFile = Garbage PROVE FALSE
    <3>1. PICK x, y : {NoFile, Garbage, RootDir} = {x, y}
      BY <2>1
    <3>2. Cardinality({x, y}) <= 2
      <4>1. IsFiniteSet({x}) /\ Cardinality({x}) = 1 /\ {x, y} = {x} \cup {y}
        BY FS_Singleton
      <4> QED
        BY <4>1, FS_AddElement
    <3>3. Cardinality({x, y}) = 3
      BY <3>1, DistinctAssumption
    <3> QED
      BY <3>2, <3>3
  <2> QED
    BY <2>1
<1> QED
  BY <1>1, DistinctAssumption DEF Lists

LEMMA Walks ==
    /\ \A path : Lookup(path) = WalkIn(type, name, sub_files, path)
    /\ \A d, x : Descend(d, x) = StepIn(type, name, sub_files, d, x)
    /\ \A f : Links(f) = LinksIn(sub_files, f)
BY DEF Lookup, WalkIn, Descend, StepIn, Links, LinksIn, Find, IsDir

LEMMA WalksAfter ==
    /\ \A path : Lookup(path)' = WalkIn(type', name', sub_files', path)
    /\ \A d, x : Descend(d, x)' = StepIn(type', name', sub_files', d, x)
    /\ \A f : Links(f)' = LinksIn(sub_files', f)
BY DEF Lookup, WalkIn, Descend, StepIn, Links, LinksIn, Find, IsDir

\* One level of a walk.
IsDirIn(ty, d) == d = RootDir \/ (d \in Files /\ ty[d] = "FILE_DIR")
AreLists(sub) == sub \in [Lists -> Seq(Files)]
\* f is what a step finds in d under the name x.
Leads(ty, nm, sub, d, x, f) ==
    /\ f \in Files \cup {NoFile}
    /\ f \in Files => IsDirIn(ty, d) /\ f \in Range(sub[d]) /\ nm[f] = x
    /\ f = NoFile /\ IsDirIn(ty, d) => \A k \in DOMAIN sub[d] : nm[sub[d][k]] # x
LEMMA Steps ==
    ASSUME NEW ty, NEW nm, NEW sub, AreLists(sub), NEW d, NEW x
    PROVE  Leads(ty, nm, sub, d, x, StepIn(ty, nm, sub, d, x))
<1> DEFINE K == {k \in DOMAIN sub[d] : nm[sub[d][k]] = x}
           f == StepIn(ty, nm, sub, d, x)
<1>1. CASE ~IsDirIn(ty, d)
  BY <1>1, RootIsNoFile DEF StepIn, IsDirIn, Lists, Leads
<1>2. CASE IsDirIn(ty, d)
  <2>1. d \in Lists /\ sub[d] \in Seq(Files) /\ DOMAIN sub[d] \subseteq Nat
    BY <1>2 DEF IsDirIn, Lists, AreLists
  <2>2. f = IF K = {} THEN NoFile ELSE sub[d][Min(K)]
    BY <1>2 DEF StepIn, IsDirIn
  <2>3. CASE K = {}
    BY <2>2, <2>3, RootIsNoFile DEF Lists, Leads
  <2>4. CASE K # {}
    <3>1. Min(K) \in K
      <4>1. K \in SUBSET Nat
        BY <2>1
      <4> HIDE DEF K
      <4> QED
        BY <2>4, <4>1, MinIsLeast
    <3>2. sub[d][Min(K)] \in Range(sub[d]) /\ sub[d][Min(K)] \in Files
      <4>1. Min(K) \in DOMAIN sub[d]
        BY <3>1
      <4> HIDE DEF K
      <4> QED
        BY <2>1, <4>1 DEF Range
    <3> QED
      BY <1>2, <2>2, <2>4, <3>1, <3>2, RootIsNoFile DEF Lists, Leads
  <2> QED
    BY <2>3, <2>4
<1> QED
  BY <1>1, <1>2

LEMMA Found ==
    ASSUME TypeOK, NEW path \in Paths
    PROVE  /\ Last(path) \in Names
           /\ Lookup(path) \in Files \cup {NoFile}
           /\ Lookup(path) \in Files =>
                /\ IsDir(DirOf(path)) /\ DirOf(path) \in Lists
                /\ Lookup(path) \in Range(sub_files[DirOf(path)])
                /\ name[Lookup(path)] = Last(path)
           /\ Lookup(path) = NoFile /\ IsDir(DirOf(path)) =>
                \A k \in DOMAIN sub_files[DirOf(path)] :
                    name[sub_files[DirOf(path)][k]] # Last(path)
           /\ IsDir(DirOf(path)) => DirOf(path) \in Lists
<1>1. path \in Seq(Names) /\ path # <<>>
  BY PathsAre
<1>2. Lookup(path) = StepIn(type, name, sub_files, DirOf(path), Last(path))
  BY <1>1, WalkSteps, Walks DEF DirOf
<1>3. Last(path) \in Names
  BY <1>1, FrontProps
<1>4. AreLists(sub_files)
  BY DEF TypeOK, Lists, AreLists
<1>5. \A d : IsDirIn(type, d) <=> IsDir(d)
  BY DEF IsDirIn, IsDir
<1>6. IsDir(DirOf(path)) => DirOf(path) \in Lists
  BY DEF IsDir, Lists
<1> DEFINE d == DirOf(path)
           x == Last(path)
           f == StepIn(type, name, sub_files, d, x)
<1>7. /\ f \in Files \cup {NoFile}
      /\ f \in Files =>
            IsDirIn(type, d) /\ f \in Range(sub_files[d]) /\ name[f] = x
      /\ f = NoFile /\ IsDirIn(type, d) =>
            \A k \in DOMAIN sub_files[d] : name[sub_files[d][k]] # x
  <2> HIDE DEF d, x
  <2>1. Leads(type, name, sub_files, d, x, f)
    BY <1>4, Steps
  <2> HIDE DEF f
  <2> QED
    BY <2>1 DEF Leads
<1> QED
  BY <1>2, <1>3, <1>5, <1>6, <1>7

-----------------------------------------------------------------------------
(***************************************************************************)
(* The accounts.                                                           *)
(***************************************************************************)
AreSizes(sz) == sz \in [Files -> 0 .. MaxSize]
CostIn(ty, sz, f) == IF ty[f] = "FILE_DIR" THEN DirSize ELSE sz[f]
Costs(ty, sz) == [f \in Files |-> CostIn(ty, sz, f)]
Total(lv, ty, sz) == SumFunctionOnSet(Costs(ty, sz), lv)

LEMMA CostsAreNumbers ==
    ASSUME NEW ty, NEW sz, AreSizes(sz), NEW f \in Files
    PROVE  Costs(ty, sz)[f] = CostIn(ty, sz, f) /\ CostIn(ty, sz, f) \in Nat
BY SizesAssumption DEF Costs, CostIn, AreSizes

LEMMA TotalIs ==
    ASSUME NEW lv \in SUBSET Files, NEW ty, NEW sz, AreSizes(sz)
    PROVE  /\ SumFunction([f \in lv |-> CostIn(ty, sz, f)]) = Total(lv, ty, sz)
           /\ Total(lv, ty, sz) \in Nat
           /\ \A f \in lv : CostIn(ty, sz, f) <= Total(lv, ty, sz)
           /\ Total({}, ty, sz) = 0
<1> DEFINE g == [f \in lv |-> CostIn(ty, sz, f)]
           c == Costs(ty, sz)
<1>1. IsFiniteSet(lv)
  BY FilesAssumption, FS_Subset
<1>2. \A f \in lv : c[f] = g[f] /\ c[f] \in Nat /\ c[f] = CostIn(ty, sz, f)
  BY CostsAreNumbers
<1>3. DOMAIN g = lv
  OBVIOUS
<1> HIDE DEF g, c
<1>4. SumFunctionOnSet(g, lv) = SumFunctionOnSet(c, lv)
  BY <1>1, <1>2, SumAgrees
<1>5. /\ SumFunctionOnSet(c, lv) \in Nat
      /\ \A f \in lv : c[f] <= SumFunctionOnSet(c, lv)
  BY <1>1, <1>2, SumBounds
<1>6. SumFunction(g) = Total(lv, ty, sz)
  BY <1>3, <1>4 DEF SumFunction, Total, c
<1> QED
  BY <1>2, <1>5, <1>6, SumOfNone DEF Total, g, c

\* The files of lv cost in one disk what they cost in the other.
Agree(lv, ty, sz, ty2, sz2) == \A f \in lv : ty2[f] = ty[f] /\ sz2[f] = sz[f]

LEMMA TotalAdds ==
    ASSUME NEW lv \in SUBSET Files, NEW x \in Files, x \notin lv,
           NEW ty, NEW sz, AreSizes(sz),
           NEW ty2, NEW sz2, AreSizes(sz2),
           Agree(lv, ty, sz, ty2, sz2)
    PROVE  Total(lv \cup {x}, ty2, sz2) = Total(lv, ty, sz) + CostIn(ty2, sz2, x)
<1> DEFINE c == Costs(ty, sz)
           e == Costs(ty2, sz2)
<1>1. IsFiniteSet(lv)
  BY FilesAssumption, FS_Subset
<1>2. \A f \in lv : c[f] \in Int /\ e[f] = c[f]
  BY CostsAreNumbers DEF CostIn, Agree
<1>3. e[x] \in Int /\ e[x] = CostIn(ty2, sz2, x)
  BY CostsAreNumbers
<1> HIDE DEF c, e
<1>4. SumFunctionOnSet(e, lv \cup {x}) = SumFunctionOnSet(c, lv) + e[x]
  BY <1>1, <1>2, <1>3, SumAdds
<1> QED
  BY <1>3, <1>4 DEF Total, c, e

LEMMA TotalDrops ==
    ASSUME NEW lv \in SUBSET Files, NEW x \in Files, x \notin lv,
           NEW ty, NEW sz, AreSizes(sz),
           NEW ty2, NEW sz2, AreSizes(sz2),
           Agree(lv, ty, sz, ty2, sz2)
    PROVE  Total(lv, ty2, sz2) = Total(lv \cup {x}, ty, sz) - CostIn(ty, sz, x)
<1>1. CostIn(ty, sz, x) \in Nat /\ Total(lv, ty2, sz2) \in Nat
  BY CostsAreNumbers, TotalIs
<1>2. Agree(lv, ty2, sz2, ty, sz)
  BY DEF Agree
<1>3. Total(lv \cup {x}, ty, sz) = Total(lv, ty2, sz2) + CostIn(ty, sz, x)
  BY <1>2, TotalAdds
<1> QED
  BY <1>1, <1>3

LEMMA TotalChanges ==
    ASSUME NEW lv \in SUBSET Files, NEW x \in Files, x \notin lv,
           NEW ty, NEW sz, AreSizes(sz),
           NEW ty2, NEW sz2, AreSizes(sz2),
           Agree(lv, ty, sz, ty2, sz2)
    PROVE  Total(lv \cup {x}, ty2, sz2)
             = Total(lv \cup {x}, ty, sz) - CostIn(ty, sz, x) + CostIn(ty2, sz2, x)
<1>1. Total(lv, ty2, sz2) = Total(lv \cup {x}, ty, sz) - CostIn(ty, sz, x)
  BY TotalDrops
<1>2. Total(lv \cup {x}, ty2, sz2) = Total(lv, ty2, sz2) + CostIn(ty2, sz2, x)
  <2>1. Agree(lv, ty2, sz2, ty2, sz2)
    BY DEF Agree
  <2> QED
    BY <2>1, TotalAdds
<1> QED
  BY <1>1, <1>2

\* The accounts, in these terms.
Paid == live \ lost

LEMMA QuotaIs ==
    /\ TypeOK => (QuotaIsTheSum <=>
                  current_size = Total(Paid, type, size) + phantoms * DirSize)
    /\ TypeOK' => (QuotaIsTheSum' <=>
                   current_size' = Total(Paid', type', size') + phantoms' * DirSize)
<1>1. ASSUME TypeOK
      PROVE  QuotaIsTheSum <=>
                current_size = Total(Paid, type, size) + phantoms * DirSize
  <2>1. Paid \in SUBSET Files /\ AreSizes(size)
    BY <1>1 DEF TypeOK, AreSizes, Paid
  <2>2. [f \in Paid |-> Cost(f)] = [f \in Paid |-> CostIn(type, size, f)]
    BY <2>1, RootIsNoFile DEF Cost, CostIn, IsDir
  <2>3. QuotaIsTheSum <=>
           current_size = SumFunction([f \in Paid |-> Cost(f)]) + phantoms * DirSize
    BY DEF QuotaIsTheSum, Paid
  <2> QED
    BY <2>1, <2>2, <2>3, TotalIs
<1>2. ASSUME TypeOK'
      PROVE  QuotaIsTheSum' <=>
                current_size' = Total(Paid', type', size') + phantoms' * DirSize
  <2>1. Paid' \in SUBSET Files /\ AreSizes(size')
    BY <1>2 DEF TypeOK, AreSizes, Paid
  <2>2. [f \in Paid' |-> Cost(f)'] = [f \in Paid' |-> CostIn(type', size', f)]
    BY <2>1, RootIsNoFile DEF Cost, CostIn, IsDir
  <2>3. QuotaIsTheSum' <=>
           current_size' = SumFunction([f \in Paid' |-> Cost(f)']) + phantoms' * DirSize
    BY DEF QuotaIsTheSum, Paid
  <2> QED
    BY <2>1, <2>2, <2>3, TotalIs
<1> QED
  BY <1>1, <1>2

-----------------------------------------------------------------------------
(***************************************************************************)
(* What the handlers do, when they find what they look for: a file is made *)
(* in d, freed, gets another size, or is moved from the list old (and was  *)
(* found in c) to that of d.  These are the cases of every proof below.    *)
(***************************************************************************)
BaseInv ==
    /\ TypeOK /\ leaked \subseteq live
    /\ ListedAreLive /\ DeadAreBlank /\ OnlyDirsHoldFiles /\ LostAreFiles
    /\ QuotaIsTheSum

Adds(f, ty, d, nm) ==
    /\ status = "mounted"
    /\ f \in Files /\ d \in Lists /\ IsDir(d) /\ nm \in Names
    /\ ty \in {"FILE_REG", "FILE_DIR"}
    /\ \A k \in DOMAIN sub_files[d] : name[sub_files[d][k]] # nm
    /\ NewFile(f, ty, d, nm)
    /\ current_size' = current_size + (IF ty = "FILE_DIR" THEN DirSize ELSE 0)
    /\ current_size' <= MaxSize
    /\ parent' = IF ty = "FILE_DIR" THEN parent
                 ELSE [parent EXCEPT ![f] = IF d = RootDir THEN NoFile ELSE d]
    /\ UNCHANGED <<status, size, accidents>>

Drops(f, d) ==
    /\ status = "mounted"
    /\ f \in live \ lost /\ d \in Lists /\ f \in Range(sub_files[d])
    /\ sub_files[f] = <<>>
    /\ Free(f, d, CostIn(type, size, f))
    /\ UNCHANGED <<parent, accidents>>

Fills(f, n) ==
    /\ status = "mounted"
    /\ f \in live \ lost /\ type[f] = "FILE_REG" /\ n \in Nat
    /\ size' = [size EXCEPT ![f] = n]
    /\ current_size' = current_size - size[f] + n
    /\ current_size' <= MaxSize
    /\ UNCHANGED <<status, live, type, name, at_root, parent, sub_files, accidents>>

TakesFrom(f, c, old) ==
    /\ status = "mounted"
    /\ f \in live /\ c \in Lists /\ IsDir(c) /\ old \in Lists
    /\ f \in Range(sub_files[c])
    /\ old = FormerList(f)
    /\ misled' = (misled \/ old # c)
    /\ UNCHANGED <<live, type, size, current_size, phantoms, lost>>

LEMMA Makes ==
    ASSUME BaseInv, NEW path \in Paths, NEW f \in Files
    PROVE  /\ Create(path, f) => Adds(f, "FILE_REG", DirOf(path), Last(path))
           /\ Mkdir(path, f) => Adds(f, "FILE_DIR", DirOf(path), Last(path))
<1> DEFINE d == DirOf(path)
           nm == Last(path)
<1>1. /\ nm \in Names
      /\ IsDir(d) => d \in Lists
      /\ Lookup(path) = NoFile /\ IsDir(d) =>
            \A k \in DOMAIN sub_files[d] : name[sub_files[d][k]] # nm
  BY Found DEF BaseInv
<1>2. current_size \in 0 .. MaxSize /\ MaxSize \in Nat
  BY SizesAssumption DEF BaseInv, TypeOK
<1>3. ASSUME Create(path, f) PROVE Adds(f, "FILE_REG", d, nm)
  <2>1. /\ status = "mounted" /\ Lookup(path) = NoFile /\ IsDir(d)
        /\ NewFile(f, "FILE_REG", d, nm)
        /\ parent' = [parent EXCEPT ![f] = IF d = RootDir THEN NoFile ELSE d]
        /\ UNCHANGED <<status, size, current_size, accidents>>
    BY <1>3 DEF Create
  <2> HIDE DEF d, nm
  <2> QED
    BY <2>1, <1>1, <1>2 DEF Adds
<1>4. ASSUME Mkdir(path, f) PROVE Adds(f, "FILE_DIR", d, nm)
  <2>1. /\ status = "mounted" /\ Lookup(path) = NoFile /\ IsDir(d)
        /\ NewFile(f, "FILE_DIR", d, nm)
        /\ current_size + DirSize <= MaxSize
        /\ current_size' = current_size + DirSize
        /\ UNCHANGED <<status, parent, size, accidents>>
    BY <1>4 DEF Mkdir, HasRoom, IsNew
  <2> HIDE DEF d, nm
  <2> QED
    BY <2>1, <1>1, <1>2 DEF Adds
<1> QED
  BY <1>3, <1>4

LEMMA Deletes ==
    ASSUME BaseInv, NEW path \in Paths
    PROVE  Unlink(path) \/ Rmdir(path) =>
              Lookup(path) \in Files /\ Drops(Lookup(path), DirOf(path))
<1> DEFINE d == DirOf(path)
           f == Lookup(path)
<1>1. SUFFICES ASSUME Unlink(path) \/ Rmdir(path) PROVE f \in Files /\ Drops(f, d)
  OBVIOUS
<1>2. status = "mounted" /\ f \in Files /\ f # RootDir
  BY <1>1, RootIsNoFile DEF Unlink, Rmdir
<1>3. d \in Lists /\ f \in Range(sub_files[d])
  <2> HIDE DEF d, f
  <2> QED
    BY <1>2, Found DEF BaseInv, d, f
<1>4. f \in live
  BY <1>2, <1>3 DEF BaseInv, ListedAreLive, Lists
<1>5. CASE Unlink(path)
  <2>1. f \notin lost /\ ~IsDir(f) /\ Free(f, d, size[f])
        /\ UNCHANGED <<parent, accidents>>
    BY <1>5 DEF Unlink
  <2> HIDE DEF d, f
  <2>2. sub_files[f] = <<>>
    BY <1>2, <2>1 DEF BaseInv, OnlyDirsHoldFiles
  <2>3. CostIn(type, size, f) = size[f]
    BY <1>2, <2>1 DEF CostIn, IsDir
  <2> QED
    BY <1>2, <1>3, <1>4, <2>1, <2>2, <2>3 DEF Drops
<1>6. CASE Rmdir(path)
  <2>1. IsDir(f) /\ sub_files[f] = <<>> /\ Free(f, d, DirSize)
        /\ UNCHANGED <<parent, accidents>>
    BY <1>6 DEF Rmdir, Removable
  <2> HIDE DEF d, f
  <2>2. CostIn(type, size, f) = DirSize
    BY <1>2, <2>1 DEF CostIn, IsDir
  <2>3. f \notin lost
    BY <2>1 DEF BaseInv, LostAreFiles
  <2> QED
    BY <1>2, <1>3, <1>4, <2>1, <2>2, <2>3 DEF Drops
<1> QED
  BY <1>1, <1>5, <1>6

LEMMA Resizes ==
    ASSUME BaseInv, NEW path \in Paths
    PROVE  /\ \A n \in 1 .. MaxSize : Write(path, n) =>
                 Fills(Lookup(path), size[Lookup(path)] + n)
           /\ Truncate(path) => Fills(Lookup(path), 0)
<1> DEFINE f == Lookup(path)
<1>1. ASSUME f \in Files \ lost, status = "mounted", ~IsDir(f)
      PROVE  /\ f \in live /\ type[f] = "FILE_REG" /\ size[f] \in Nat
             /\ current_size \in Nat /\ current_size <= MaxSize /\ MaxSize \in Nat
             /\ size[f] <= current_size
  <2>1. DirOf(path) \in Lists /\ f \in Range(sub_files[DirOf(path)])
    BY <1>1, Found DEF BaseInv
  <2> HIDE DEF f
  <2>2. f \in live
    BY <1>1, <2>1 DEF BaseInv, ListedAreLive, Lists
  <2>3. type[f] = "FILE_REG"
    BY <1>1 DEF IsDir, BaseInv, TypeOK
  <2>4. /\ AreSizes(size) /\ current_size \in 0 .. MaxSize
        /\ MaxSize \in Nat /\ Paid \in SUBSET Files /\ f \in Paid
        /\ phantoms \in Nat /\ DirSize \in Nat
        /\ size \in [Files -> 0 .. MaxSize]
    BY <1>1, <2>2, SizesAssumption DEF BaseInv, TypeOK, AreSizes, Paid
  <2>5. CostIn(type, size, f) = size[f]
    BY <2>3 DEF CostIn
  <2>6. size[f] <= Total(Paid, type, size) /\ Total(Paid, type, size) \in Nat
    BY <2>2, <2>4, <2>5, TotalIs
  <2>7. current_size = Total(Paid, type, size) + phantoms * DirSize
    BY QuotaIs DEF BaseInv
  <2>8. phantoms * DirSize \in Nat
    BY <2>4
  <2> QED
    BY <1>1, <2>2, <2>3, <2>4, <2>6, <2>7, <2>8
<1>2. ASSUME NEW n \in 1 .. MaxSize, Write(path, n) PROVE Fills(f, size[f] + n)
  <2>1. /\ status = "mounted" /\ f \in Files \ lost /\ ~IsDir(f)
        /\ current_size + n <= MaxSize
        /\ size' = [size EXCEPT ![f] = size[f] + n]
        /\ current_size' = current_size + n
        /\ UNCHANGED <<status, live, type, name, at_root, parent, sub_files, accidents>>
    BY <1>2 DEF Write, HasRoom
  <2> HIDE DEF f
  <2> QED
    BY <1>1, <2>1 DEF Fills
<1>3. ASSUME Truncate(path) PROVE Fills(f, 0)
  <2>1. /\ status = "mounted" /\ f \in Files \ lost /\ ~IsDir(f)
        /\ current_size' = current_size - size[f]
        /\ size' = [size EXCEPT ![f] = 0]
        /\ UNCHANGED <<status, live, type, name, at_root, parent, sub_files, accidents>>
    BY <1>3 DEF Truncate
  <2> HIDE DEF f
  <2> QED
    BY <1>1, <2>1 DEF Fills
<1> QED
  BY <1>2, <1>3

LEMMA Renames ==
    ASSUME BaseInv, NEW from \in Paths, NEW to \in Paths
    PROVE  LET f == Lookup(from)
               old == FormerList(f)
           IN  Rename(from, to) \/ RenameFails(from, to) =>
                  f \in Files /\ IsDir(DirOf(to)) /\ TakesFrom(f, DirOf(from), old)
<1> DEFINE f == Lookup(from)
           old == FormerList(f)
           c == DirOf(from)
<1>1. SUFFICES ASSUME Rename(from, to) \/ RenameFails(from, to)
               PROVE  f \in Files /\ IsDir(DirOf(to)) /\ TakesFrom(f, c, old)
  OBVIOUS
<1>2. /\ status = "mounted" /\ f \in Files /\ old \in Lists /\ IsDir(DirOf(to))
      /\ misled' = (misled \/ old # c)
      /\ UNCHANGED <<live, type, size, current_size, phantoms, lost>>
  BY <1>1 DEF Rename, RenameFails, MayRename, Lists, fields
<1>3. c \in Lists /\ IsDir(c) /\ f \in Range(sub_files[c])
  <2> HIDE DEF c, f
  <2> QED
    BY <1>2, Found DEF BaseInv, c, f
<1>4. f \in live
  BY <1>2, <1>3 DEF BaseInv, ListedAreLive, Lists
<1> HIDE DEF f, c
<1> QED
  BY <1>2, <1>3, <1>4 DEF TakesFrom, old

-----------------------------------------------------------------------------
(***************************************************************************)
(* The types, the accounts, and what is on the lists: inductive, whatever  *)
(* the renames did.                                                        *)
(***************************************************************************)
LEMMA BaseInit == Init => BaseInv
<1> SUFFICES ASSUME Init PROVE BaseInv
  OBVIOUS
<1>1. AnyName \in Names
  BY FilesAssumption DEF AnyName
<1>2. IsFiniteSet({}) /\ Cardinality({}) = 0
  BY FS_EmptySet
<1>3. TypeOK
  <2>1. sub_files \in [Files \cup {RootDir} -> Seq(Files)]
    BY DEF Init
  <2>2. /\ size \in [Files -> 0 .. MaxSize] /\ current_size \in 0 .. MaxSize
        /\ phantoms \in 0 .. MaxFailures
    BY SizesAssumption DEF Init
  <2>3. /\ type \in [Files -> {"FILE_REG", "FILE_DIR"}]
        /\ name \in [Files -> Names]
        /\ at_root \in [Files -> BOOLEAN]
        /\ parent \in [Files -> Files \cup {NoFile, Garbage}]
    BY <1>1 DEF Init
  <2> QED
    BY <2>1, <2>2, <2>3 DEF Init, TypeOK
<1>4. QuotaIsTheSum
  <2>1. Total({}, type, size) = 0
    BY <1>3, TotalIs DEF TypeOK, AreSizes
  <2>2. Paid = {}
    BY DEF Init, Paid
  <2>3. current_size = Total(Paid, type, size) + phantoms * DirSize
    BY <2>1, <2>2, SizesAssumption DEF Init
  <2> QED
    BY <1>3, <2>3, QuotaIs
<1>5. ListedAreLive /\ OnlyDirsHoldFiles /\ DeadAreBlank /\ LostAreFiles
  BY DEF Init, ListedAreLive, OnlyDirsHoldFiles, DeadAreBlank, LostAreFiles, Range
<1> QED
  BY <1>3, <1>4, <1>5 DEF BaseInv, Init

LEMMA BaseAdds ==
    ASSUME BaseInv, NEW f, NEW ty, NEW d, NEW nm, Adds(f, ty, d, nm)
    PROVE  BaseInv'
<1>1. /\ f \in Files /\ f \notin live /\ d \in Lists /\ nm \in Names
      /\ ty \in {"FILE_REG", "FILE_DIR"}
      /\ type[f] = "FILE_REG" /\ size[f] = 0 /\ sub_files[f] = <<>> /\ d # f
  BY RootIsNoFile DEF Adds, NewFile, BaseInv, DeadAreBlank, OnlyDirsHoldFiles, IsDir, Lists
<1>2. /\ type' = [type EXCEPT ![f] = ty]
      /\ sub_files' = [sub_files EXCEPT ![d] = Append(sub_files[d], f)]
      /\ live' = live \cup {f} /\ size' = size /\ phantoms' = phantoms
  BY DEF Adds, NewFile, accidents
<1>3. sub_files \in [Lists -> Seq(Files)]
  BY DEF BaseInv, TypeOK, Lists
<1>4. /\ Append(sub_files[d], f) \in Seq(Files)
      /\ Range(Append(sub_files[d], f)) = Range(sub_files[d]) \cup {f}
  BY <1>1, <1>3, Appends
<1>5. current_size' \in 0 .. MaxSize
  BY SizesAssumption DEF Adds, BaseInv, TypeOK
<1>6. TypeOK'
  <2>1. sub_files' \in [Lists -> Seq(Files)]
    BY <1>1, <1>2, <1>3, <1>4
  <2>2. parent' \in [Files -> Files \cup {NoFile, Garbage}]
    BY <1>1 DEF Adds, BaseInv, TypeOK, Lists
  <2>3. /\ type' \in [Files -> {"FILE_REG", "FILE_DIR"}]
        /\ live' \in SUBSET Files
        /\ name' \in [Files -> Names]
        /\ at_root' \in [Files -> BOOLEAN]
    BY <1>1, <1>2 DEF Adds, NewFile, BaseInv, TypeOK
  <2> QED
    BY <1>2, <1>5, <2>1, <2>2, <2>3 DEF Adds, BaseInv, TypeOK, accidents, Lists
<1>7. (leaked \subseteq live)' /\ DeadAreBlank' /\ LostAreFiles' /\ lost' = lost
  <2>1. lost' = lost /\ lost \subseteq live
    BY DEF Adds, accidents, BaseInv, LostAreFiles
  <2>2. LostAreFiles'
    BY <1>1, <1>2, <2>1 DEF BaseInv, TypeOK, LostAreFiles, IsDir
  <2> QED
    BY <1>1, <1>2, <2>1, <2>2 DEF Adds, BaseInv, TypeOK, DeadAreBlank, accidents
<1>8. ListedAreLive'
  BY <1>1, <1>2, <1>3, <1>4 DEF Adds, BaseInv, ListedAreLive, Lists, accidents
<1>9. OnlyDirsHoldFiles'
  <2> SUFFICES ASSUME NEW g \in Files, ~IsDir(g)' PROVE sub_files'[g] = <<>>
    BY DEF OnlyDirsHoldFiles
  <2>1. ~IsDir(g)
    BY <1>1, <1>2 DEF IsDir, BaseInv, TypeOK
  <2>2. g # d
    BY <2>1 DEF Adds
  <2> QED
    BY <1>1, <1>2, <1>3, <2>1, <2>2 DEF BaseInv, OnlyDirsHoldFiles, Lists
<1>10. QuotaIsTheSum'
  <2>1. Total(Paid', type', size') = Total(Paid, type, size) + CostIn(type', size', f)
    <3>1. /\ Paid \in SUBSET Files /\ f \notin Paid /\ AreSizes(size)
          /\ AreSizes(size')
      BY <1>1, <1>2 DEF BaseInv, TypeOK, AreSizes, Paid
    <3>2. Agree(Paid, type, size, type', size')
      BY <1>1, <1>2 DEF BaseInv, TypeOK, Agree, Paid
    <3>3. Total(Paid \cup {f}, type', size')
            = Total(Paid, type, size) + CostIn(type', size', f)
      BY <1>1, <3>1, <3>2, TotalAdds
    <3>4. Paid' = Paid \cup {f}
      BY <1>1, <1>2, <1>7 DEF Paid, BaseInv, LostAreFiles
    <3> QED
      BY <3>3, <3>4
  <2>2. CostIn(type', size', f) = IF ty = "FILE_DIR" THEN DirSize ELSE 0
    BY <1>1, <1>2 DEF CostIn, BaseInv, TypeOK
  <2>3. current_size = Total(Paid, type, size) + phantoms * DirSize
    BY QuotaIs DEF BaseInv
  <2>4. Total(Paid, type, size) \in Nat /\ phantoms * DirSize \in Nat /\ DirSize \in Nat
    <3>1. Total(Paid, type, size) \in Nat
      BY TotalIs DEF BaseInv, TypeOK, AreSizes, Paid
    <3>2. phantoms \in Nat /\ DirSize \in Nat
      BY SizesAssumption DEF BaseInv, TypeOK
    <3> QED
      BY <3>1, <3>2
  <2>5. current_size' = current_size + (IF ty = "FILE_DIR" THEN DirSize ELSE 0)
    BY DEF Adds
  <2>6. current_size' = Total(Paid', type', size') + phantoms' * DirSize
    BY <1>2, <2>1, <2>2, <2>3, <2>4, <2>5
  <2> QED
    BY <1>6, <2>6, QuotaIs
<1> QED
  BY <1>6, <1>7, <1>8, <1>9, <1>10 DEF BaseInv

LEMMA BaseDrops ==
    ASSUME BaseInv, NEW f, NEW d, Drops(f, d)
    PROVE  BaseInv' /\ d # f
<1>1. /\ f \in live /\ f \in Files /\ d \in Lists /\ f \in Range(sub_files[d])
      /\ sub_files[f] = <<>> /\ d # f /\ f \notin lost
  BY DEF Drops, BaseInv, TypeOK, Range
<1>2. /\ live' = live \ {f}
      /\ sub_files' = [sub_files EXCEPT ![d] = RemoveFirst(sub_files[d], f)]
      /\ status' = IF Cardinality(Links(f)) > 1 THEN "dangling" ELSE status
      /\ current_size' = current_size - CostIn(type, size, f)
      /\ type' = [type EXCEPT ![f] = "FILE_REG"]
      /\ size' = [size EXCEPT ![f] = 0]
      /\ phantoms' = phantoms /\ lost' = lost
  BY DEF Drops, Free, accidents
<1>3. sub_files \in [Lists -> Seq(Files)]
  BY DEF BaseInv, TypeOK, Lists
<1>4. /\ RemoveFirst(sub_files[d], f) \in Seq(Files)
      /\ Range(RemoveFirst(sub_files[d], f)) \subseteq Range(sub_files[d])
      /\ Once(sub_files[d], f) => f \notin Range(RemoveFirst(sub_files[d], f))
  BY <1>1, <1>3, RemovesRange
<1>5. /\ Paid \in SUBSET Files /\ f \in Paid /\ AreSizes(size)
      /\ AreSizes(size') /\ Paid' = Paid \ {f}
      /\ Agree(Paid \ {f}, type, size, type', size')
  BY <1>1, <1>2, SizesAssumption DEF BaseInv, TypeOK, AreSizes, Agree, Paid
<1>6. /\ Total(Paid', type', size') = Total(Paid, type, size) - CostIn(type, size, f)
      /\ Total(Paid, type, size) \in Nat
      /\ CostIn(type, size, f) <= Total(Paid, type, size)
      /\ CostIn(type, size, f) \in Nat
  <2>1. Total(Paid \ {f}, type', size')
          = Total(Paid, type, size) - CostIn(type, size, f)
    <3> DEFINE w == Paid \ {f}
    <3>1. w \in SUBSET Files /\ f \notin w /\ w \cup {f} = Paid
      BY <1>1, <1>5
    <3> HIDE DEF w
    <3>2. Agree(w, type, size, type', size')
      BY <1>5 DEF w
    <3>3. Total(w, type', size') = Total(w \cup {f}, type, size) - CostIn(type, size, f)
      BY <1>1, <1>5, <3>1, <3>2, TotalDrops
    <3> QED
      BY <3>1, <3>3 DEF w
  <2> QED
    BY <1>1, <1>2, <1>5, <2>1, TotalIs, CostsAreNumbers
<1>7. /\ current_size = Total(Paid, type, size) + phantoms * DirSize
      /\ phantoms * DirSize \in Nat
      /\ current_size \in 0 .. MaxSize /\ MaxSize \in Nat
  BY QuotaIs, SizesAssumption DEF BaseInv, TypeOK
<1>8. TypeOK'
  <2>1. sub_files' \in [Lists -> Seq(Files)]
    BY <1>1, <1>2, <1>3, <1>4
  <2>2. current_size' \in 0 .. MaxSize
    BY <1>2, <1>6, <1>7
  <2>3. AnyName \in Names
    BY FilesAssumption DEF AnyName
  <2>4. /\ type' \in [Files -> {"FILE_REG", "FILE_DIR"}]
        /\ live' \in SUBSET Files
        /\ name' \in [Files -> Names]
        /\ at_root' \in [Files -> BOOLEAN]
        /\ status' \in {"mounted", "crashed", "dangling"}
    BY <1>1, <1>2, <2>3 DEF Drops, Free, BaseInv, TypeOK
  <2> QED
    BY <1>5, <2>1, <2>2, <2>4 DEF Drops, BaseInv, TypeOK, accidents, Lists, AreSizes
<1>9. DeadAreBlank'
  BY <1>1, <1>2 DEF BaseInv, TypeOK, DeadAreBlank
<1>10. ListedAreLive'
  <2> SUFFICES ASSUME status' = "mounted", NEW c \in Lists
               PROVE  Range(sub_files'[c]) \subseteq (live \ leaked) \ {f}
    BY <1>2 DEF ListedAreLive, Lists, Drops, accidents
  <2>1. ~(Cardinality(LinksIn(sub_files, f)) > 1)
    BY <1>2, Walks
  <2>2. OnlyOn(sub_files, f, d)
    BY <1>1, <1>3, <2>1, OneLink
  <2>3. Range(sub_files[c]) \subseteq live \ leaked
    BY DEF Drops, BaseInv, ListedAreLive, Lists
  <2>4. CASE c = d
    BY <1>1, <1>2, <1>3, <1>4, <2>2, <2>3, <2>4 DEF OnlyOn
  <2>5. CASE c # d
    BY <1>1, <1>2, <1>3, <2>2, <2>3, <2>5 DEF OnlyOn
  <2> QED
    BY <2>4, <2>5
<1>11. OnlyDirsHoldFiles'
  <2> SUFFICES ASSUME NEW g \in Files, ~IsDir(g)' PROVE sub_files'[g] = <<>>
    BY DEF OnlyDirsHoldFiles
  <2>1. sub_files[g] = <<>>
    BY <1>1, <1>2 DEF IsDir, BaseInv, TypeOK, OnlyDirsHoldFiles
  <2>2. g # d
    BY <1>1, <2>1 DEF Range
  <2> QED
    BY <1>2, <1>3, <2>1, <2>2 DEF Lists
<1>12. QuotaIsTheSum'
  <2>1. current_size' = Total(Paid', type', size') + phantoms' * DirSize
    BY <1>2, <1>6, <1>7
  <2> QED
    BY <1>8, <2>1, QuotaIs
<1>13. leaked' \subseteq live' /\ LostAreFiles'
  <2>1. leaked' \subseteq live'
    BY <1>1, <1>2 DEF Drops, accidents, BaseInv, ListedAreLive, Lists
  <2>2. LostAreFiles'
    BY <1>1, <1>2 DEF BaseInv, TypeOK, LostAreFiles, IsDir
  <2> QED
    BY <2>1, <2>2
<1> QED
  BY <1>1, <1>8, <1>9, <1>10, <1>11, <1>12, <1>13 DEF BaseInv

LEMMA BaseFills ==
    ASSUME BaseInv, NEW f, NEW n, Fills(f, n)
    PROVE  BaseInv'
<1>1. /\ f \in live /\ f \in Files /\ n \in Nat /\ f \notin lost
      /\ type[f] = "FILE_REG" /\ size[f] \in 0 .. MaxSize
  BY DEF Fills, BaseInv, TypeOK
<1>2. /\ size' = [size EXCEPT ![f] = n]
      /\ live' = live /\ type' = type /\ phantoms' = phantoms /\ lost' = lost
      /\ current_size' = current_size - size[f] + n
      /\ current_size' <= MaxSize
  BY DEF Fills, accidents
<1>3. /\ current_size = Total(Paid, type, size) + phantoms * DirSize
      /\ phantoms \in Nat /\ DirSize \in Nat
      /\ current_size \in 0 .. MaxSize /\ MaxSize \in Nat
  BY QuotaIs, SizesAssumption DEF BaseInv, TypeOK
<1>4. Paid \in SUBSET Files /\ f \in Paid /\ Paid' = Paid /\ AreSizes(size)
  BY <1>1, <1>2 DEF BaseInv, TypeOK, AreSizes, Paid
<1>5. /\ Total(Paid, type, size) \in Nat /\ size[f] <= Total(Paid, type, size)
      /\ CostIn(type, size, f) = size[f] /\ CostIn(type, size', f) = n
      /\ phantoms * DirSize \in Nat
  <2>1. CostIn(type, size, f) = size[f] /\ CostIn(type, size', f) = n
    BY <1>1, <1>2, <1>4 DEF CostIn, AreSizes
  <2>2. Total(Paid, type, size) \in Nat /\ size[f] <= Total(Paid, type, size)
    BY <1>1, <1>4, <2>1, TotalIs
  <2>3. phantoms * DirSize \in Nat
    BY <1>3
  <2> QED
    BY <2>1, <2>2, <2>3
<1>6. current_size' \in 0 .. MaxSize /\ n <= MaxSize
  <2>1. size[f] \in Int /\ Total(Paid, type, size) \in Int /\ phantoms * DirSize \in Nat
    BY <1>1, <1>5
  <2> QED
    BY <1>1, <1>2, <1>3, <1>5, <2>1
<1>7. AreSizes(size')
  BY <1>1, <1>2, <1>4, <1>6 DEF AreSizes
<1>8. TypeOK'
  BY <1>2, <1>6, <1>7 DEF Fills, BaseInv, TypeOK, AreSizes, accidents
<1>9. QuotaIsTheSum'
  <2> DEFINE w == Paid \ {f}
  <2>1. w \in SUBSET Files /\ f \notin w /\ w \cup {f} = Paid
    BY <1>1, <1>4
  <2>2. Agree(w, type, size, type, size')
    BY <1>2, <1>4 DEF Agree, AreSizes
  <2> HIDE DEF w
  <2>3. Total(w \cup {f}, type, size')
          = Total(w \cup {f}, type, size) - CostIn(type, size, f) + CostIn(type, size', f)
    BY <1>1, <1>4, <1>7, <2>1, <2>2, TotalChanges
  <2>4. current_size' = Total(Paid', type', size') + phantoms' * DirSize
    <3>1. Total(Paid', type', size') = Total(Paid, type, size) - size[f] + n
      BY <1>2, <1>4, <1>5, <2>1, <2>3
    <3>2. size[f] \in Int /\ Total(Paid, type, size) \in Int /\ phantoms * DirSize \in Nat
      BY <1>1, <1>5
    <3> QED
      BY <1>1, <1>2, <1>3, <3>1, <3>2
  <2> QED
    BY <1>8, <2>4, QuotaIs
<1> QED
  BY <1>1, <1>2, <1>4, <1>8, <1>9
     DEF Fills, BaseInv, ListedAreLive, DeadAreBlank, OnlyDirsHoldFiles, LostAreFiles,
         IsDir, accidents, AreSizes

\* del_l_elem, when r_rename calls it.
LEMMA Deleted ==
    ASSUME BaseInv, NEW f, NEW c, NEW old, TakesFrom(f, c, old)
    PROVE  LET mid == DeletedFrom(old, f)
           IN  /\ AreLists(mid) /\ f \in Files
               /\ IsDir(old) => mid[old] = RemoveFirst(sub_files[old], f)
               /\ \A e \in Lists : /\ e # old \/ ~IsDir(old) => mid[e] = sub_files[e]
                                   /\ Range(mid[e]) \subseteq Range(sub_files[e])
                                   /\ Range(sub_files[e]) \ {f} \subseteq Range(mid[e])
<1> DEFINE mid == DeletedFrom(old, f)
<1>1. old \in Lists /\ f \in Files
  BY DEF TakesFrom, BaseInv, TypeOK
<1>2. AreLists(sub_files)
  BY DEF BaseInv, TypeOK, AreLists, Lists
<1>3. CASE IsDir(old)
  <2>1. mid = [sub_files EXCEPT ![old] = RemoveFirst(sub_files[old], f)]
    BY <1>3 DEF DeletedFrom
  <2>2. /\ RemoveFirst(sub_files[old], f) \in Seq(Files)
        /\ Range(RemoveFirst(sub_files[old], f)) \subseteq Range(sub_files[old])
        /\ Range(sub_files[old]) \ {f} \subseteq Range(RemoveFirst(sub_files[old], f))
    BY <1>1, <1>2, RemovesRange DEF AreLists
  <2> QED
    BY <1>1, <1>2, <1>3, <2>1, <2>2 DEF AreLists
<1>4. CASE ~IsDir(old)
  BY <1>1, <1>2, <1>4 DEF DeletedFrom
<1> QED
  BY <1>3, <1>4

LEMMA BaseRename ==
    ASSUME BaseInv, NEW from \in Paths, NEW to \in Paths, Rename(from, to)
    PROVE  BaseInv'
<1> DEFINE f == Lookup(from)
           c == DirOf(from)
           d == DirOf(to)
           old == FormerList(f)
           mid == DeletedFrom(old, f)
<1>1. f \in Files /\ IsDir(d) /\ TakesFrom(f, c, old)
  BY Renames
<1>2. Last(to) \in Names /\ d \in Lists
  BY <1>1, Found DEF BaseInv
<1>3. /\ sub_files' = [mid EXCEPT ![d] = Append(mid[d], f)]
      /\ name' = [name EXCEPT ![f] = Last(to)]
      /\ at_root' = [at_root EXCEPT ![f] = (d = RootDir)]
      /\ parent' = [parent EXCEPT ![f] = IF d = RootDir THEN NoFile ELSE d]
      /\ misled' = (misled \/ old # c)
      /\ shadowed' = (shadowed \/ Lookup(to) # NoFile)
      /\ UNCHANGED <<status, live, type, size, current_size, phantoms, leaked, lost>>
  BY DEF Rename, NewParent
<1> HIDE DEF f, c, d, old
<1>4. /\ AreLists(mid)
      /\ \A e \in Lists : /\ e # old \/ ~IsDir(old) => mid[e] = sub_files[e]
                          /\ Range(mid[e]) \subseteq Range(sub_files[e])
  BY <1>1, Deleted
<1> HIDE DEF mid
<1>5. /\ Append(mid[d], f) \in Seq(Files)
      /\ Range(Append(mid[d], f)) = Range(mid[d]) \cup {f}
  BY <1>1, <1>2, <1>4, Appends DEF AreLists
<1>6. TypeOK'
  <2>1. sub_files' \in [Lists -> Seq(Files)]
    BY <1>2, <1>3, <1>4, <1>5 DEF AreLists
  <2>2. parent' \in [Files -> Files \cup {NoFile, Garbage}]
    BY <1>1, <1>2, <1>3 DEF BaseInv, TypeOK, Lists
  <2>3. name' \in [Files -> Names] /\ at_root' \in [Files -> BOOLEAN]
    BY <1>1, <1>2, <1>3 DEF BaseInv, TypeOK
  <2>4. {misled', shadowed'} \subseteq BOOLEAN
    BY <1>3 DEF BaseInv, TypeOK
  <2> QED
    BY <1>3, <2>1, <2>2, <2>3, <2>4 DEF BaseInv, TypeOK, Lists
<1>7. ListedAreLive'
  <2>1. f \in live \ leaked
    BY <1>1 DEF TakesFrom, BaseInv, ListedAreLive, Lists
  <2> QED
    BY <1>2, <1>3, <1>4, <1>5, <2>1 DEF BaseInv, ListedAreLive, Lists, AreLists
<1>8. OnlyDirsHoldFiles'
  <2> SUFFICES ASSUME NEW g \in Files, ~IsDir(g)' PROVE sub_files'[g] = <<>>
    BY DEF OnlyDirsHoldFiles
  <2>1. ~IsDir(g) /\ sub_files[g] = <<>>
    BY <1>3 DEF IsDir, BaseInv, OnlyDirsHoldFiles
  <2>2. g # d /\ (g # old \/ ~IsDir(old))
    BY <1>1, <2>1
  <2> QED
    BY <1>2, <1>3, <1>4, <2>1, <2>2 DEF Lists, AreLists
<1>9. QuotaIsTheSum'
  <2>1. current_size = Total(Paid, type, size) + phantoms * DirSize
    BY QuotaIs DEF BaseInv
  <2>2. current_size' = Total(Paid', type', size') + phantoms' * DirSize
    BY <1>3, <2>1 DEF Paid
  <2> QED
    BY <1>6, <2>2, QuotaIs
<1>10. LostAreFiles'
  BY <1>3 DEF BaseInv, LostAreFiles, IsDir
<1> QED
  BY <1>3, <1>6, <1>7, <1>8, <1>9, <1>10 DEF BaseInv, DeadAreBlank

LEMMA BaseRenameFails ==
    ASSUME BaseInv, NEW from \in Paths, NEW to \in Paths, RenameFails(from, to)
    PROVE  BaseInv'
<1> DEFINE f == Lookup(from)
           c == DirOf(from)
           old == FormerList(f)
           mid == DeletedFrom(old, f)
<1>1. f \in Files /\ TakesFrom(f, c, old)
  BY Renames
<1>2. /\ sub_files' = mid
      /\ misled' = (misled \/ old # c)
      /\ leaked' = leaked \cup {f}
      /\ status' = IF \E e \in DOMAIN mid : f \in Range(mid[e])
                   THEN "dangling" ELSE status
      /\ UNCHANGED <<live, fields, current_size, shadowed, phantoms, lost>>
  BY DEF RenameFails
<1> HIDE DEF f, c, old
<1>3. /\ AreLists(mid)
      /\ \A e \in Lists : /\ e # old \/ ~IsDir(old) => mid[e] = sub_files[e]
                          /\ Range(mid[e]) \subseteq Range(sub_files[e])
  BY <1>1, Deleted
<1> HIDE DEF mid
<1>4. f \in live
  BY <1>1 DEF TakesFrom
<1>5. TypeOK'
  <2>1. misled' \in BOOLEAN
    BY <1>2 DEF BaseInv, TypeOK
  <2>2. status' \in {"mounted", "crashed", "dangling"}
    BY <1>2 DEF BaseInv, TypeOK
  <2>3. leaked' \in SUBSET Files
    BY <1>1, <1>2 DEF BaseInv, TypeOK
  <2> QED
    BY <1>2, <1>3, <2>1, <2>2, <2>3 DEF BaseInv, TypeOK, AreLists, Lists, fields
<1>6. ListedAreLive'
  <2> SUFFICES ASSUME status' = "mounted", NEW e \in Lists
               PROVE  Range(mid[e]) \subseteq (live \ leaked) \ {f}
    BY <1>2 DEF ListedAreLive, Lists
  <2>1. f \notin Range(mid[e])
    BY <1>2, <1>3 DEF AreLists
  <2>2. Range(sub_files[e]) \subseteq live \ leaked
    BY <1>1 DEF TakesFrom, BaseInv, ListedAreLive, Lists
  <2> QED
    BY <1>3, <2>1, <2>2
<1>7. OnlyDirsHoldFiles'
  <2> SUFFICES ASSUME NEW g \in Files, ~IsDir(g)' PROVE sub_files'[g] = <<>>
    BY DEF OnlyDirsHoldFiles
  <2>1. ~IsDir(g) /\ sub_files[g] = <<>>
    BY <1>2 DEF IsDir, BaseInv, OnlyDirsHoldFiles, fields
  <2>2. g # old \/ ~IsDir(old)
    BY <2>1
  <2> QED
    BY <1>2, <1>3, <2>1, <2>2 DEF Lists
<1>8. QuotaIsTheSum'
  <2>1. current_size = Total(Paid, type, size) + phantoms * DirSize
    BY QuotaIs DEF BaseInv
  <2>2. current_size' = Total(Paid', type', size') + phantoms' * DirSize
    BY <1>2, <2>1 DEF fields, Paid
  <2> QED
    BY <1>5, <2>2, QuotaIs
<1>9. LostAreFiles'
  BY <1>2 DEF BaseInv, LostAreFiles, IsDir, fields
<1> QED
  BY <1>2, <1>4, <1>5, <1>6, <1>7, <1>8, <1>9 DEF BaseInv, DeadAreBlank, fields

LEMMA BaseMkdirFails ==
    ASSUME BaseInv, NEW path \in Paths, MkdirFails(path)
    PROVE  BaseInv'
<1>1. /\ status = "mounted" /\ Failures < MaxFailures
      /\ current_size + DirSize <= MaxSize
      /\ current_size' = current_size + DirSize
      /\ phantoms' = phantoms + 1
      /\ UNCHANGED <<status, live, fields, sub_files, misled, shadowed, leaked, lost>>
  BY DEF MkdirFails, HasRoom
<1>2. phantoms + 1 \in 0 .. MaxFailures
  <2>1. Cardinality(leaked) \in Nat /\ Cardinality(lost) \in Nat
    BY FilesAssumption, FS_Subset, FS_CardinalityType DEF BaseInv, TypeOK
  <2> QED
    BY <1>1, <2>1, SizesAssumption DEF Failures, BaseInv, TypeOK
<1>3. TypeOK'
  <2>1. current_size' \in 0 .. MaxSize
    BY <1>1, SizesAssumption DEF BaseInv, TypeOK
  <2> QED
    BY <1>1, <1>2, <2>1 DEF BaseInv, TypeOK, fields
<1>4. QuotaIsTheSum'
  <2>1. current_size = Total(Paid, type, size) + phantoms * DirSize
    BY QuotaIs DEF BaseInv
  <2>2. phantoms' * DirSize = phantoms * DirSize + DirSize
    BY <1>1, SizesAssumption DEF BaseInv, TypeOK
  <2>3. /\ Total(Paid, type, size) \in Nat /\ phantoms * DirSize \in Nat
        /\ DirSize \in Nat
    <3>1. Total(Paid, type, size) \in Nat
      BY TotalIs DEF BaseInv, TypeOK, AreSizes, Paid
    <3>2. phantoms \in Nat /\ DirSize \in Nat
      BY SizesAssumption DEF BaseInv, TypeOK
    <3> QED
      BY <3>1, <3>2
  <2>4. current_size' = Total(Paid', type', size') + phantoms' * DirSize
    BY <1>1, <2>1, <2>2, <2>3 DEF fields, Paid
  <2> QED
    BY <1>3, <2>4, QuotaIs
<1> QED
  BY <1>1, <1>3, <1>4
     DEF BaseInv, ListedAreLive, DeadAreBlank, OnlyDirsHoldFiles, LostAreFiles, IsDir,
         fields

LEMMA BaseTruncateFails ==
    ASSUME BaseInv, NEW path \in Paths, TruncateFails(path)
    PROVE  BaseInv'
<1> DEFINE f == Lookup(path)
<1>1. /\ status = "mounted" /\ f \in Files \ lost /\ ~IsDir(f)
      /\ current_size' = current_size - size[f]
      /\ lost' = lost \cup {f}
      /\ UNCHANGED <<status, live, fields, sub_files, misled, shadowed, phantoms, leaked>>
  BY DEF TruncateFails
<1>2. f \in live
  <2>1. DirOf(path) \in Lists /\ f \in Range(sub_files[DirOf(path)])
    BY <1>1, Found DEF BaseInv
  <2> HIDE DEF f
  <2> QED
    BY <1>1, <2>1 DEF BaseInv, ListedAreLive, Lists
<1> HIDE DEF f
<1>3. /\ Paid \in SUBSET Files /\ f \in Paid /\ Paid' = Paid \ {f}
      /\ AreSizes(size) /\ type[f] = "FILE_REG" /\ size[f] \in Nat
  BY <1>1, <1>2 DEF BaseInv, TypeOK, AreSizes, Paid, IsDir
<1>4. /\ Total(Paid', type, size) = Total(Paid, type, size) - size[f]
      /\ Total(Paid, type, size) \in Nat /\ size[f] <= Total(Paid, type, size)
  <2> DEFINE w == Paid \ {f}
  <2>1. w \in SUBSET Files /\ f \notin w /\ w \cup {f} = Paid
    BY <1>3
  <2>2. Agree(w, type, size, type, size)
    BY DEF Agree
  <2> HIDE DEF w
  <2>3. Total(w, type, size) = Total(w \cup {f}, type, size) - CostIn(type, size, f)
    BY <1>3, <2>1, <2>2, TotalDrops
  <2>4. CostIn(type, size, f) = size[f]
    BY <1>3 DEF CostIn
  <2> QED
    BY <1>3, <2>1, <2>3, <2>4, TotalIs DEF w
<1>5. /\ current_size = Total(Paid, type, size) + phantoms * DirSize
      /\ phantoms * DirSize \in Nat
      /\ current_size \in 0 .. MaxSize /\ MaxSize \in Nat
  BY QuotaIs, SizesAssumption DEF BaseInv, TypeOK
<1>6. TypeOK'
  <2>1. current_size' \in 0 .. MaxSize
    BY <1>1, <1>3, <1>4, <1>5
  <2> QED
    BY <1>1, <2>1 DEF BaseInv, TypeOK, fields
<1>7. QuotaIsTheSum'
  <2>1. current_size' = Total(Paid', type', size') + phantoms' * DirSize
    BY <1>1, <1>3, <1>4, <1>5 DEF fields
  <2> QED
    BY <1>6, <2>1, QuotaIs
<1>8. LostAreFiles'
  BY <1>1, <1>2 DEF BaseInv, LostAreFiles, IsDir, fields
<1> QED
  BY <1>1, <1>6, <1>7, <1>8
     DEF BaseInv, ListedAreLive, DeadAreBlank, OnlyDirsHoldFiles, IsDir, fields

\* What keeps everything but the status keeps the invariant, unless it mounts.
LEMMA BaseKeeps ==
    ASSUME BaseInv, status' \in {status, "crashed"},
           UNCHANGED <<live, fields, sub_files, current_size, accidents>>
    PROVE  BaseInv'
<1>1. TypeOK'
  BY DEF BaseInv, TypeOK, fields, accidents
<1>2. QuotaIsTheSum'
  <2>1. current_size = Total(Paid, type, size) + phantoms * DirSize
    BY QuotaIs DEF BaseInv
  <2>2. current_size' = Total(Paid', type', size') + phantoms' * DirSize
    BY <2>1 DEF fields, accidents, Paid
  <2> QED
    BY <1>1, <2>2, QuotaIs
<1> QED
  BY <1>1, <1>2
     DEF BaseInv, ListedAreLive, DeadAreBlank, OnlyDirsHoldFiles, LostAreFiles, IsDir,
         fields, accidents

LEMMA BaseNext == BaseInv /\ [Next]_vars => BaseInv'
<1> SUFFICES ASSUME BaseInv, [Next]_vars PROVE BaseInv'
  OBVIOUS
<1>1. CASE UNCHANGED vars
  BY <1>1, BaseKeeps DEF vars
<1>2. ASSUME NEW path \in Paths, NEW f \in Files, Create(path, f) PROVE BaseInv'
  BY <1>2, Makes, BaseAdds
<1>3. ASSUME NEW path \in Paths, NEW f \in Files, Mkdir(path, f) PROVE BaseInv'
  BY <1>3, Makes, BaseAdds
<1>4. ASSUME NEW path \in Paths, MkdirFails(path) PROVE BaseInv'
  BY <1>4, BaseMkdirFails
<1>5. ASSUME NEW path \in Paths, Unlink(path) PROVE BaseInv'
  BY <1>5, Deletes, BaseDrops
<1>6. ASSUME NEW path \in Paths, Rmdir(path) PROVE BaseInv'
  BY <1>6, Deletes, BaseDrops
<1>7. ASSUME NEW path \in Paths, Truncate(path) PROVE BaseInv'
  BY <1>7, Resizes, BaseFills
<1>8. ASSUME NEW path \in Paths, NEW n \in 1 .. MaxSize, Write(path, n)
      PROVE  BaseInv'
  BY <1>8, Resizes, BaseFills
<1>9. ASSUME NEW path \in Paths, NEW to \in Paths, Rename(path, to) PROVE BaseInv'
  BY <1>9, BaseRename
<1>10. ASSUME NEW path \in Paths, NEW to \in Paths, RenameFails(path, to)
       PROVE  BaseInv'
  BY <1>10, BaseRenameFails
<1>11. ASSUME NEW path \in Paths, NEW to \in Paths, RenameCrashes(path, to)
       PROVE  BaseInv'
  BY <1>11, BaseKeeps DEF RenameCrashes
<1>12. ASSUME NEW path \in Paths, TruncateFails(path) PROVE BaseInv'
  BY <1>12, BaseTruncateFails
<1>13. ASSUME NEW path \in Paths, LostCrashes(path) PROVE BaseInv'
  BY <1>13, BaseKeeps DEF LostCrashes
<1> QED
  BY <1>1, <1>2, <1>3, <1>4, <1>5, <1>6, <1>7, <1>8, <1>9, <1>10, <1>11, <1>12, <1>13
     DEF Next

LEMMA BaseHolds == Spec => []BaseInv
BY BaseInit, BaseNext, PTL DEF Spec

(***************************************************************************)
(* The fields have their types, and the disk never counts more than its    *)
(* size or less than nothing.                                              *)
(***************************************************************************)
THEOREM TypeCorrect == Spec => []TypeOK
<1>1. BaseInv => TypeOK
  BY DEF BaseInv
<1> QED
  BY <1>1, BaseHolds, PTL

(***************************************************************************)
(* The accounts are right (r_create, r_mkdir, r_unlink, r_rmdir, r_write,  *)
(* r_truncate): current_size is what is on the disk, for any number of     *)
(* files, whatever the renames did; a truncate that found no memory has    *)
(* paid the file back, and nothing pays it back again.                     *)
(***************************************************************************)
THEOREM QuotaRight == Spec => []QuotaIsTheSum
<1>1. BaseInv => QuotaIsTheSum
  BY DEF BaseInv
<1> QED
  BY <1>1, BaseHolds, PTL

-----------------------------------------------------------------------------
(***************************************************************************)
(* One list for every file, as long as no rename was misled.               *)
(***************************************************************************)
\* f is on no list.
Absent(sub, f) == \A c \in Lists : f \notin Range(sub[c])

LEMMA OnlyAppends ==
    ASSUME NEW sub, AreLists(sub), NEW f \in Files, NEW d \in Lists
    PROVE  LET new == [sub EXCEPT ![d] = Append(sub[d], f)]
           IN  /\ AreLists(new)
               /\ \A c \in Lists : /\ Range(new[c]) \subseteq Range(sub[c]) \cup {f}
                                   /\ Range(sub[c]) \subseteq Range(new[c])
                                   /\ c # d => new[c] = sub[c]
               /\ Absent(sub, f) => OnlyOn(new, f, d)
               /\ \A g, e : g # f /\ OnlyOn(sub, g, e) => OnlyOn(new, g, e)
<1> DEFINE new == [sub EXCEPT ![d] = Append(sub[d], f)]
<1>1. sub[d] \in Seq(Files)
  BY DEF AreLists
<1>2. /\ Append(sub[d], f) \in Seq(Files)
      /\ Range(Append(sub[d], f)) = Range(sub[d]) \cup {f}
      /\ f \notin Range(sub[d]) => Once(Append(sub[d], f), f)
      /\ \A g : g # f /\ Once(sub[d], g) => Once(Append(sub[d], f), g)
  BY <1>1, Appends, AppendsOnce
<1>3. /\ AreLists(new) /\ new[d] = Append(sub[d], f)
      /\ \A c \in Lists : c # d => new[c] = sub[c]
  BY <1>2 DEF AreLists
<1> HIDE DEF new
<1>4. \A c \in Lists : /\ Range(new[c]) \subseteq Range(sub[c]) \cup {f}
                       /\ Range(sub[c]) \subseteq Range(new[c])
                       /\ c # d => new[c] = sub[c]
  BY <1>2, <1>3
<1>5. ASSUME Absent(sub, f) PROVE OnlyOn(new, f, d)
  BY <1>2, <1>3, <1>4, <1>5 DEF OnlyOn, Absent
<1>6. ASSUME NEW g, NEW e, g # f, OnlyOn(sub, g, e) PROVE OnlyOn(new, g, e)
  <2>1. Once(new[e], g)
    BY <1>2, <1>3, <1>6 DEF OnlyOn
  <2> QED
    BY <1>4, <1>6, <2>1 DEF OnlyOn
<1> QED
  BY <1>3, <1>4, <1>5, <1>6 DEF new

LEMMA OnlyRemoves ==
    ASSUME NEW sub, AreLists(sub), NEW f, NEW d \in Lists
    PROVE  LET new == [sub EXCEPT ![d] = RemoveFirst(sub[d], f)]
           IN  /\ AreLists(new)
               /\ \A c \in Lists : /\ Range(new[c]) \subseteq Range(sub[c])
                                   /\ Range(sub[c]) \ {f} \subseteq Range(new[c])
               /\ OnlyOn(sub, f, d) => \A c \in Lists : f \notin Range(new[c])
               /\ \A g, e : g # f /\ OnlyOn(sub, g, e) => OnlyOn(new, g, e)
<1> DEFINE new == [sub EXCEPT ![d] = RemoveFirst(sub[d], f)]
           t == RemoveFirst(sub[d], f)
<1>1. sub[d] \in Seq(Files)
  BY DEF AreLists
<1>2. /\ t \in Seq(Files) /\ Range(t) \subseteq Range(sub[d])
      /\ Range(sub[d]) \ {f} \subseteq Range(t)
      /\ Once(sub[d], f) => f \notin Range(t)
      /\ \A g : g # f /\ Once(sub[d], g) => Once(t, g)
  BY <1>1, RemovesRange
<1> HIDE DEF t
<1>3. /\ AreLists(new) /\ new[d] = t
      /\ \A c \in Lists : c # d => new[c] = sub[c]
  BY <1>2 DEF AreLists, t
<1> HIDE DEF new
<1>4. \A c \in Lists : /\ Range(new[c]) \subseteq Range(sub[c])
                       /\ Range(sub[c]) \ {f} \subseteq Range(new[c])
  BY <1>2, <1>3
<1>5. ASSUME OnlyOn(sub, f, d) PROVE \A c \in Lists : f \notin Range(new[c])
  BY <1>2, <1>3, <1>5 DEF OnlyOn
<1>6. ASSUME NEW g, NEW e, g # f, OnlyOn(sub, g, e) PROVE OnlyOn(new, g, e)
  <2>1. Once(new[e], g)
    BY <1>2, <1>3, <1>6 DEF OnlyOn
  <2> QED
    BY <1>4, <1>6, <2>1 DEF OnlyOn
<1> QED
  BY <1>3, <1>4, <1>5, <1>6 DEF new

\* d is where f is, and its fields say so as far as r_rename reads them.
IsHome(sub, root, par, ty, f, d) ==
    /\ OnlyOn(sub, f, d)
    /\ root[f] <=> d = RootDir
    /\ ty[f] = "FILE_REG" /\ d # RootDir => par[f] = d
HaveHomes(files, sub, root, par, ty) ==
    /\ \A c \in Lists : Range(sub[c]) \subseteq files
    /\ \A f \in files : \E d \in Lists : IsHome(sub, root, par, ty, f, d)

LEMMA HomeIs ==
    ASSUME NEW sub, AreLists(sub), NEW root, NEW par, NEW ty, NEW f \in Files,
           ty[f] \in {"FILE_REG", "FILE_DIR"}, root[f] \in BOOLEAN
    PROVE  LET former == IF root[f] THEN RootDir ELSE par[f]
           IN  (/\ Cardinality(LinksIn(sub, f)) = 1
                /\ root[f] <=> f \in Range(sub[RootDir])
                /\ ~IsDirIn(ty, f) => former \in DOMAIN sub /\ f \in Range(sub[former]))
               <=> \E d \in Lists : IsHome(sub, root, par, ty, f, d)
<1> DEFINE former == IF root[f] THEN RootDir ELSE par[f]
<1>1. Cardinality(LinksIn(sub, f)) = 1 <=> \E d \in Lists : OnlyOn(sub, f, d)
  BY OneLink DEF AreLists
<1>2. DOMAIN sub = Lists /\ RootDir \in Lists
  BY DEF AreLists, Lists
<1>3. IsDirIn(ty, f) <=> ty[f] # "FILE_REG"
  BY RootIsNoFile DEF IsDirIn
<1>4. \A d \in Lists : OnlyOn(sub, f, d) =>
         \A c \in Lists : f \in Range(sub[c]) <=> c = d
  BY DEF OnlyOn, Once, Range
<1>5. ASSUME NEW d \in Lists, OnlyOn(sub, f, d)
      PROVE  (/\ root[f] <=> f \in Range(sub[RootDir])
              /\ ~IsDirIn(ty, f) => former \in DOMAIN sub /\ f \in Range(sub[former]))
             <=> IsHome(sub, root, par, ty, f, d)
  BY <1>2, <1>3, <1>4, <1>5 DEF IsHome
<1>6. \A d \in Lists : IsHome(sub, root, par, ty, f, d) => OnlyOn(sub, f, d)
  BY DEF IsHome
<1> QED
  BY <1>1, <1>5, <1>6

LEMMA SoundIs ==
    /\ TypeOK => (ListsAreSound <=>
          status # "dangling" /\ HaveHomes(live \ leaked, sub_files, at_root, parent, type))
    /\ TypeOK' => (ListsAreSound' <=>
          /\ status' # "dangling"
          /\ HaveHomes(live' \ leaked', sub_files', at_root', parent', type'))
<1>1. ASSUME TypeOK
      PROVE  ListsAreSound <=>
               /\ status # "dangling"
               /\ HaveHomes(live \ leaked, sub_files, at_root, parent, type)
  <2>1. AreLists(sub_files)
    BY <1>1 DEF TypeOK, AreLists, Lists
  <2>2. ASSUME NEW f \in live \ leaked
        PROVE  OnOneList(f) <=>
                 \E d \in Lists : IsHome(sub_files, at_root, parent, type, f, d)
    <3>1. /\ f \in Files /\ type[f] \in {"FILE_REG", "FILE_DIR"}
          /\ at_root[f] \in BOOLEAN
      BY <1>1 DEF TypeOK
    <3>2. IsDir(f) <=> IsDirIn(type, f)
      BY DEF IsDir, IsDirIn
    <3> QED
      BY <2>1, <3>1, <3>2, HomeIs, Walks DEF OnOneList, FormerList
  <2> QED
    BY <2>2 DEF ListsAreSound, HaveHomes, Lists
<1>2. ASSUME TypeOK'
      PROVE  ListsAreSound' <=>
               /\ status' # "dangling"
               /\ HaveHomes(live' \ leaked', sub_files', at_root', parent', type')
  <2>1. AreLists(sub_files')
    BY <1>2 DEF TypeOK, AreLists, Lists
  <2>2. ASSUME NEW f \in live' \ leaked'
        PROVE  OnOneList(f)' <=>
                 \E d \in Lists : IsHome(sub_files', at_root', parent', type', f, d)
    <3>1. /\ f \in Files /\ type'[f] \in {"FILE_REG", "FILE_DIR"}
          /\ at_root'[f] \in BOOLEAN
      BY <1>2 DEF TypeOK
    <3>2. IsDir(f)' <=> IsDirIn(type', f)
      BY DEF IsDir, IsDirIn
    <3> QED
      BY <2>1, <3>1, <3>2, HomeIs, WalksAfter DEF OnOneList, FormerList
  <2> QED
    BY <2>2 DEF ListsAreSound, HaveHomes, Lists
<1> QED
  BY <1>1, <1>2

SoundInv == ~misled => ListsAreSound
Homes == HaveHomes(live \ leaked, sub_files, at_root, parent, type)

\* While no rename was misled, a file is nowhere but where a walk finds it.
LEMMA HomeFound ==
    ASSUME BaseInv, SoundInv, ~misled
    PROVE  /\ status # "dangling" /\ Homes /\ AreLists(sub_files)
           /\ \A f, d : d \in Lists /\ f \in Range(sub_files[d]) =>
                 /\ f \in live \ leaked
                 /\ IsHome(sub_files, at_root, parent, type, f, d)
<1>1. status # "dangling" /\ Homes
  BY SoundIs DEF BaseInv, SoundInv, Homes
<1>2. AreLists(sub_files)
  BY DEF BaseInv, TypeOK, AreLists, Lists
<1>3. ASSUME NEW f, NEW d \in Lists, f \in Range(sub_files[d])
      PROVE  f \in live \ leaked /\ IsHome(sub_files, at_root, parent, type, f, d)
  <2>1. f \in live \ leaked
    BY <1>1, <1>3 DEF Homes, HaveHomes
  <2>2. PICK e \in Lists : IsHome(sub_files, at_root, parent, type, f, e)
    BY <1>1, <2>1 DEF Homes, HaveHomes
  <2>3. e = d
    BY <1>3, <2>2 DEF IsHome, OnlyOn
  <2> QED
    BY <2>1, <2>2, <2>3
<1> QED
  BY <1>1, <1>2, <1>3

LEMMA SoundAdds ==
    ASSUME BaseInv, SoundInv, NEW f, NEW ty, NEW d, NEW nm, Adds(f, ty, d, nm)
    PROVE  SoundInv'
<1> SUFFICES ASSUME ~misled PROVE ListsAreSound'
  BY DEF SoundInv, Adds, accidents
<1>1. /\ status # "dangling" /\ Homes /\ AreLists(sub_files)
      /\ Absent(sub_files, f)
  BY HomeFound DEF Adds, NewFile, Absent
<1>2. /\ f \in Files /\ f \notin live /\ d \in Lists
      /\ ty \in {"FILE_REG", "FILE_DIR"} /\ leaked \subseteq live
      /\ live \in SUBSET Files
  BY DEF Adds, NewFile, BaseInv, TypeOK
<1>3. /\ type' = [type EXCEPT ![f] = ty]
      /\ at_root' = [at_root EXCEPT ![f] = (d = RootDir)]
      /\ sub_files' = [sub_files EXCEPT ![d] = Append(sub_files[d], f)]
      /\ live' = live \cup {f} /\ leaked' = leaked /\ status' = status
      /\ parent' = IF ty = "FILE_DIR" THEN parent
                   ELSE [parent EXCEPT ![f] = IF d = RootDir THEN NoFile ELSE d]
  BY DEF Adds, NewFile, accidents
<1>4. /\ \A c \in Lists : Range(sub_files'[c]) \subseteq Range(sub_files[c]) \cup {f}
      /\ OnlyOn(sub_files', f, d)
      /\ \A g, e : g # f /\ OnlyOn(sub_files, g, e) => OnlyOn(sub_files', g, e)
  BY <1>1, <1>2, <1>3, OnlyAppends
<1>5. /\ type'[f] = ty /\ at_root'[f] = (d = RootDir)
      /\ ty = "FILE_REG" /\ d # RootDir => parent'[f] = d
      /\ \A g \in Files \ {f} : /\ type'[g] = type[g] /\ at_root'[g] = at_root[g]
                               /\ parent'[g] = parent[g]
  BY <1>2, <1>3 DEF BaseInv, TypeOK
<1>6. HaveHomes(live' \ leaked', sub_files', at_root', parent', type')
  <2>1. \A c \in Lists : Range(sub_files'[c]) \subseteq live' \ leaked'
    BY <1>1, <1>2, <1>3, <1>4 DEF Homes, HaveHomes
  <2>2. ASSUME NEW g \in live' \ leaked'
        PROVE  \E e \in Lists : IsHome(sub_files', at_root', parent', type', g, e)
    <3>1. CASE g = f
      BY <1>2, <1>4, <1>5, <3>1 DEF IsHome
    <3>2. CASE g # f
      <4>1. g \in live \ leaked /\ g \in Files
        BY <1>2, <1>3, <3>2
      <4>2. PICK e \in Lists : IsHome(sub_files, at_root, parent, type, g, e)
        BY <1>1, <4>1 DEF Homes, HaveHomes
      <4> QED
        BY <1>4, <1>5, <3>2, <4>1, <4>2 DEF IsHome
    <3> QED
      BY <3>1, <3>2
  <2> QED
    BY <2>1, <2>2 DEF HaveHomes
<1>7. BaseInv'
  BY BaseAdds
<1> QED
  BY <1>1, <1>3, <1>6, <1>7, SoundIs DEF BaseInv

LEMMA SoundDrops ==
    ASSUME BaseInv, SoundInv, NEW f, NEW d, Drops(f, d)
    PROVE  SoundInv'
<1> SUFFICES ASSUME ~misled PROVE ListsAreSound'
  BY DEF SoundInv, Drops, accidents
<1>1. /\ f \in live /\ f \in Files /\ d \in Lists /\ f \in Range(sub_files[d])
      /\ live \in SUBSET Files
  BY DEF Drops, BaseInv, TypeOK
<1>2. /\ status # "dangling" /\ Homes /\ AreLists(sub_files)
      /\ OnlyOn(sub_files, f, d)
  BY <1>1, HomeFound DEF IsHome
<1>3. /\ live' = live \ {f} /\ leaked' = leaked /\ parent' = parent
      /\ sub_files' = [sub_files EXCEPT ![d] = RemoveFirst(sub_files[d], f)]
      /\ status' = IF Cardinality(Links(f)) > 1 THEN "dangling" ELSE status
      /\ type' = [type EXCEPT ![f] = "FILE_REG"]
      /\ at_root' = [at_root EXCEPT ![f] = FALSE]
  BY DEF Drops, Free, accidents
<1>4. status' # "dangling"
  <2>1. Cardinality(LinksIn(sub_files, f)) = 1
    BY <1>1, <1>2, OneLink DEF AreLists
  <2> QED
    BY <1>2, <1>3, <2>1, Walks
<1>5. /\ \A c \in Lists : Range(sub_files'[c]) \subseteq Range(sub_files[c])
      /\ \A c \in Lists : f \notin Range(sub_files'[c])
      /\ \A g, e : g # f /\ OnlyOn(sub_files, g, e) => OnlyOn(sub_files', g, e)
  BY <1>1, <1>2, <1>3, OnlyRemoves
<1>6. \A g \in Files \ {f} : type'[g] = type[g] /\ at_root'[g] = at_root[g]
  BY <1>1, <1>3 DEF BaseInv, TypeOK
<1>7. HaveHomes(live' \ leaked', sub_files', at_root', parent', type')
  <2>1. \A c \in Lists : Range(sub_files'[c]) \subseteq live' \ leaked'
    BY <1>2, <1>3, <1>5 DEF Homes, HaveHomes
  <2>2. ASSUME NEW g \in live' \ leaked'
        PROVE  \E e \in Lists : IsHome(sub_files', at_root', parent', type', g, e)
    <3>1. g \in live \ leaked /\ g \in Files /\ g # f
      BY <1>1, <1>3
    <3>2. PICK e \in Lists : IsHome(sub_files, at_root, parent, type, g, e)
      BY <1>2, <3>1 DEF Homes, HaveHomes
    <3> QED
      BY <1>3, <1>5, <1>6, <3>1, <3>2 DEF IsHome
  <2> QED
    BY <2>1, <2>2 DEF HaveHomes
<1>8. BaseInv'
  BY BaseDrops
<1> QED
  BY <1>4, <1>7, <1>8, SoundIs DEF BaseInv

\* A file is taken from the list it was found on.
LEMMA SoundTakes ==
    ASSUME BaseInv, SoundInv, NEW f, NEW c, NEW old, TakesFrom(f, c, old), ~misled'
    PROVE  LET mid == DeletedFrom(old, f)
           IN  /\ ~misled /\ old = c /\ f \in Files /\ f \in live \ leaked
               /\ Homes /\ status # "dangling" /\ AreLists(mid)
               /\ mid = [sub_files EXCEPT ![c] = RemoveFirst(sub_files[c], f)]
               /\ \A e \in Lists : /\ Range(mid[e]) \subseteq Range(sub_files[e])
                                   /\ f \notin Range(mid[e])
                                   /\ Range(sub_files[e]) \ {f} \subseteq Range(mid[e])
               /\ \A g, e : g # f /\ OnlyOn(sub_files, g, e) => OnlyOn(mid, g, e)
<1> DEFINE mid == DeletedFrom(old, f)
<1>1. ~misled /\ old = c /\ c \in Lists /\ IsDir(c) /\ f \in Range(sub_files[c])
  BY DEF TakesFrom
<1>2. /\ Homes /\ status # "dangling" /\ f \in live \ leaked
      /\ AreLists(sub_files) /\ OnlyOn(sub_files, f, c)
  BY <1>1, HomeFound DEF IsHome
<1>3. mid = [sub_files EXCEPT ![c] = RemoveFirst(sub_files[c], f)]
  BY <1>1 DEF DeletedFrom
<1>4. f \in Files
  BY <1>2 DEF BaseInv, TypeOK
<1> HIDE DEF mid
<1>5. /\ AreLists(mid)
      /\ \A e \in Lists : /\ Range(mid[e]) \subseteq Range(sub_files[e])
                          /\ Range(sub_files[e]) \ {f} \subseteq Range(mid[e])
      /\ \A e \in Lists : f \notin Range(mid[e])
      /\ \A g, e : g # f /\ OnlyOn(sub_files, g, e) => OnlyOn(mid, g, e)
  BY <1>1, <1>2, <1>3, OnlyRemoves
<1> QED
  BY <1>1, <1>2, <1>3, <1>4, <1>5 DEF mid

LEMMA SoundRename ==
    ASSUME BaseInv, SoundInv, NEW from \in Paths, NEW to \in Paths, Rename(from, to)
    PROVE  SoundInv'
<1> SUFFICES ASSUME ~misled' PROVE ListsAreSound'
  BY DEF SoundInv
<1> DEFINE f == Lookup(from)
           c == DirOf(from)
           d == DirOf(to)
           old == FormerList(f)
           mid == DeletedFrom(old, f)
<1>1. f \in Files /\ IsDir(d) /\ TakesFrom(f, c, old)
  BY Renames
<1>2. d \in Lists
  BY <1>1 DEF IsDir, Lists
<1>3. /\ sub_files' = [mid EXCEPT ![d] = Append(mid[d], f)]
      /\ at_root' = [at_root EXCEPT ![f] = (d = RootDir)]
      /\ parent' = [parent EXCEPT ![f] = IF d = RootDir THEN NoFile ELSE d]
      /\ UNCHANGED <<status, live, type, leaked>>
  BY DEF Rename, NewParent
<1> HIDE DEF f, c, d, old
<1>4. /\ f \in live \ leaked /\ Homes /\ status # "dangling" /\ AreLists(mid)
      /\ \A e \in Lists : /\ Range(mid[e]) \subseteq Range(sub_files[e])
                          /\ f \notin Range(mid[e])
      /\ \A g, e : g # f /\ OnlyOn(sub_files, g, e) => OnlyOn(mid, g, e)
  BY <1>1, SoundTakes
<1> HIDE DEF mid
<1>5. /\ \A e \in Lists : Range(sub_files'[e]) \subseteq Range(mid[e]) \cup {f}
      /\ OnlyOn(sub_files', f, d)
      /\ \A g, e : g # f /\ OnlyOn(mid, g, e) => OnlyOn(sub_files', g, e)
  <2>1. Absent(mid, f)
    BY <1>4 DEF Absent
  <2> QED
    BY <1>1, <1>2, <1>3, <1>4, <2>1, OnlyAppends
<1>6. /\ at_root'[f] = (d = RootDir) /\ (d # RootDir => parent'[f] = d)
      /\ \A g \in Files \ {f} : at_root'[g] = at_root[g] /\ parent'[g] = parent[g]
  BY <1>1, <1>3 DEF BaseInv, TypeOK
<1>7. HaveHomes(live' \ leaked', sub_files', at_root', parent', type')
  <2>1. \A e \in Lists : Range(sub_files'[e]) \subseteq live' \ leaked'
    BY <1>3, <1>4, <1>5 DEF Homes, HaveHomes
  <2>2. ASSUME NEW g \in live' \ leaked'
        PROVE  \E e \in Lists : IsHome(sub_files', at_root', parent', type', g, e)
    <3>1. CASE g = f
      BY <1>2, <1>5, <1>6, <3>1 DEF IsHome
    <3>2. CASE g # f
      <4>1. g \in live \ leaked /\ g \in Files
        BY <1>3 DEF BaseInv, TypeOK
      <4>2. PICK e \in Lists : IsHome(sub_files, at_root, parent, type, g, e)
        BY <1>4, <4>1 DEF Homes, HaveHomes
      <4>3. OnlyOn(sub_files', g, e)
        BY <1>4, <1>5, <3>2, <4>2 DEF IsHome
      <4> QED
        BY <1>3, <1>6, <3>2, <4>1, <4>2, <4>3 DEF IsHome
    <3> QED
      BY <3>1, <3>2
  <2> QED
    BY <2>1, <2>2 DEF HaveHomes
<1>8. BaseInv'
  BY BaseRename
<1> QED
  BY <1>3, <1>4, <1>7, <1>8, SoundIs DEF BaseInv

LEMMA SoundRenameFails ==
    ASSUME BaseInv, SoundInv, NEW from \in Paths, NEW to \in Paths,
           RenameFails(from, to)
    PROVE  SoundInv'
<1> SUFFICES ASSUME ~misled' PROVE ListsAreSound'
  BY DEF SoundInv
<1> DEFINE f == Lookup(from)
           c == DirOf(from)
           old == FormerList(f)
           mid == DeletedFrom(old, f)
<1>1. f \in Files /\ TakesFrom(f, c, old)
  BY Renames
<1>2. /\ sub_files' = mid
      /\ leaked' = leaked \cup {f}
      /\ status' = IF \E e \in DOMAIN mid : f \in Range(mid[e])
                   THEN "dangling" ELSE status
      /\ UNCHANGED <<live, fields>>
  BY DEF RenameFails
<1> HIDE DEF f, c, old
<1>3. /\ Homes /\ status # "dangling" /\ AreLists(mid)
      /\ \A e \in Lists : /\ Range(mid[e]) \subseteq Range(sub_files[e])
                          /\ f \notin Range(mid[e])
      /\ \A g, e : g # f /\ OnlyOn(sub_files, g, e) => OnlyOn(mid, g, e)
  BY <1>1, SoundTakes
<1> HIDE DEF mid
<1>4. HaveHomes(live' \ leaked', sub_files', at_root', parent', type')
  <2>1. \A e \in Lists : Range(sub_files'[e]) \subseteq live' \ leaked'
    BY <1>2, <1>3 DEF Homes, HaveHomes
  <2>2. ASSUME NEW g \in live' \ leaked'
        PROVE  \E e \in Lists : IsHome(sub_files', at_root', parent', type', g, e)
    <3>1. g \in live \ leaked /\ g # f
      BY <1>2
    <3>2. PICK e \in Lists : IsHome(sub_files, at_root, parent, type, g, e)
      BY <1>3, <3>1 DEF Homes, HaveHomes
    <3> QED
      BY <1>2, <1>3, <3>1, <3>2 DEF IsHome, fields
  <2> QED
    BY <2>1, <2>2 DEF HaveHomes
<1>5. status' # "dangling"
  BY <1>2, <1>3 DEF AreLists
<1>6. BaseInv'
  BY BaseRenameFails
<1> QED
  BY <1>4, <1>5, <1>6, SoundIs DEF BaseInv

\* What leaves the lists and the fields of r_rename alone.
LEMMA SoundKeeps ==
    ASSUME BaseInv, SoundInv, BaseInv', status' \in {status, "crashed"},
           UNCHANGED <<live, type, at_root, parent, sub_files, misled, leaked>>
    PROVE  SoundInv'
<1> SUFFICES ASSUME ~misled PROVE ListsAreSound'
  BY DEF SoundInv
<1>1. status # "dangling" /\ Homes
  BY HomeFound
<1>2. HaveHomes(live' \ leaked', sub_files', at_root', parent', type')
  BY <1>1 DEF Homes
<1> QED
  BY <1>1, <1>2, SoundIs DEF BaseInv

LEMMA SoundNext == BaseInv /\ BaseInv' /\ SoundInv /\ [Next]_vars => SoundInv'
<1> SUFFICES ASSUME BaseInv, BaseInv', SoundInv, [Next]_vars PROVE SoundInv'
  OBVIOUS
<1>1. CASE UNCHANGED vars
  BY <1>1, SoundKeeps DEF vars, fields, accidents
<1>2. ASSUME NEW path \in Paths, NEW f \in Files, Create(path, f) PROVE SoundInv'
  BY <1>2, Makes, SoundAdds
<1>3. ASSUME NEW path \in Paths, NEW f \in Files, Mkdir(path, f) PROVE SoundInv'
  BY <1>3, Makes, SoundAdds
<1>4. ASSUME NEW path \in Paths, MkdirFails(path) PROVE SoundInv'
  BY <1>4, SoundKeeps DEF MkdirFails, fields
<1>5. ASSUME NEW path \in Paths, Unlink(path) PROVE SoundInv'
  BY <1>5, Deletes, SoundDrops
<1>6. ASSUME NEW path \in Paths, Rmdir(path) PROVE SoundInv'
  BY <1>6, Deletes, SoundDrops
<1>7. ASSUME NEW path \in Paths, Truncate(path) PROVE SoundInv'
  BY <1>7, SoundKeeps DEF Truncate, accidents
<1>8. ASSUME NEW path \in Paths, NEW n \in 1 .. MaxSize, Write(path, n)
      PROVE  SoundInv'
  BY <1>8, SoundKeeps DEF Write, accidents
<1>9. ASSUME NEW path \in Paths, NEW to \in Paths, Rename(path, to) PROVE SoundInv'
  BY <1>9, SoundRename
<1>10. ASSUME NEW path \in Paths, NEW to \in Paths, RenameFails(path, to)
       PROVE  SoundInv'
  BY <1>10, SoundRenameFails
<1>11. ASSUME NEW path \in Paths, NEW to \in Paths, RenameCrashes(path, to)
       PROVE  SoundInv'
  BY <1>11, SoundKeeps DEF RenameCrashes, fields, accidents
<1>12. ASSUME NEW path \in Paths, TruncateFails(path) PROVE SoundInv'
  BY <1>12, SoundKeeps DEF TruncateFails, fields
<1>13. ASSUME NEW path \in Paths, LostCrashes(path) PROVE SoundInv'
  BY <1>13, SoundKeeps DEF LostCrashes, fields, accidents
<1> QED
  BY <1>1, <1>2, <1>3, <1>4, <1>5, <1>6, <1>7, <1>8, <1>9, <1>10, <1>11, <1>12, <1>13
     DEF Next

LEMMA SoundInit == Init => SoundInv
<1> SUFFICES ASSUME Init PROVE ListsAreSound
  BY DEF SoundInv
<1>1. HaveHomes(live \ leaked, sub_files, at_root, parent, type)
  BY DEF Init, HaveHomes, Range, Lists
<1> QED
  BY <1>1, BaseInit, SoundIs DEF BaseInv, Init

-----------------------------------------------------------------------------
(***************************************************************************)
(* No directory has two files of one name.                                 *)
(***************************************************************************)
Apart(nm, s) == \A j, k \in DOMAIN s : nm[s[j]] = nm[s[k]] => j = k
SameNames(nm, nm2, s) == \A k \in DOMAIN s : nm2[s[k]] = nm[s[k]]
Unused(nm, s, x) == \A k \in DOMAIN s : nm[s[k]] # x

LEMMA ApartRemoves ==
    ASSUME NEW S, NEW s \in Seq(S), NEW x, NEW nm, Apart(nm, s)
    PROVE  Apart(nm, RemoveFirst(s, x))
<1>1. CASE x \notin Range(s)
  BY <1>1, RemovesNothing
<1>2. CASE x \in Range(s)
  <2> DEFINE t == RemoveFirst(s, x)
  <2>1. PICK p \in 1 .. Len(s) :
           \A k \in 1 .. Len(s) - 1 : t[k] = s[IF k < p THEN k ELSE k + 1]
    BY <1>2, Removes
  <2>2. /\ DOMAIN t = 1 .. Len(s) - 1
        /\ DOMAIN s = 1 .. Len(s) /\ Len(s) \in Nat
    BY <1>2, Removes
  <2> HIDE DEF t
  <2> DEFINE Old(k) == IF k < p THEN k ELSE k + 1
  <2>3. \A k \in DOMAIN t : Old(k) \in DOMAIN s /\ t[k] = s[Old(k)]
    BY <2>1, <2>2
  <2>4. \A j, k \in DOMAIN t : Old(j) = Old(k) => j = k
    BY <2>2
  <2> HIDE DEF Old
  <2>5. \A j, k \in DOMAIN t : nm[t[j]] = nm[t[k]] => j = k
    BY <2>3, <2>4 DEF Apart
  <2> QED
    BY <2>5 DEF Apart, t
<1> QED
  BY <1>1, <1>2

LEMMA ApartAppends ==
    ASSUME NEW S, NEW s \in Seq(S), NEW x \in S, NEW nm, NEW nm2,
           Apart(nm, s), SameNames(nm, nm2, s), Unused(nm, s, nm2[x])
    PROVE  Apart(nm2, Append(s, x))
<1> DEFINE t == Append(s, x)
<1>1. /\ DOMAIN t = 1 .. Len(s) + 1 /\ DOMAIN s = 1 .. Len(s) /\ Len(s) \in Nat
      /\ \A k \in 1 .. Len(s) : t[k] = s[k]
      /\ t[Len(s) + 1] = x
  BY Appends
<1> HIDE DEF t
<1>2. /\ \A k \in DOMAIN t : k \notin DOMAIN s => k = Len(s) + 1 /\ nm2[t[k]] = nm2[x]
      /\ \A k \in DOMAIN s : nm2[t[k]] = nm[s[k]] /\ nm2[t[k]] # nm2[x]
  BY <1>1 DEF SameNames, Unused
<1>3. ASSUME NEW j \in DOMAIN t, NEW k \in DOMAIN t, nm2[t[j]] = nm2[t[k]]
      PROVE  j = k
  BY <1>2, <1>3 DEF Apart
<1> QED
  BY <1>3 DEF Apart, t

NamedInv == ~misled /\ ~shadowed => NamesDiffer

\* The lists and the names after a step, where a list lost files and no file
\* that is left on it has another name.
LEMMA NamesStay ==
    ASSUME NEW nm, NEW nm2, NEW s, Apart(nm, s), SameNames(nm, nm2, s)
    PROVE  Apart(nm2, s)
BY DEF Apart, SameNames

LEMMA NamesAre ==
    /\ NamesDiffer <=> \A d \in Lists : Apart(name, sub_files[d])
    /\ NamesDiffer' <=> \A d \in Lists : Apart(name', sub_files'[d])
BY DEF NamesDiffer, Apart, Lists

LEMMA NamesAdds ==
    ASSUME BaseInv, SoundInv, NamedInv,
           NEW f, NEW ty, NEW d, NEW nm, Adds(f, ty, d, nm)
    PROVE  NamedInv'
<1> SUFFICES ASSUME ~misled, ~shadowed, NEW e \in Lists
             PROVE  Apart(name', sub_files'[e])
  BY NamesAre DEF NamedInv, Adds, accidents
<1>1. /\ AreLists(sub_files) /\ f \in Files /\ d \in Lists
      /\ f \notin Range(sub_files[e]) /\ f \notin Range(sub_files[d])
  BY HomeFound DEF Adds, NewFile
<1>2. /\ sub_files' = [sub_files EXCEPT ![d] = Append(sub_files[d], f)]
      /\ name' = [name EXCEPT ![f] = nm]
  BY DEF Adds, NewFile
<1>3. Apart(name, sub_files[e]) /\ Apart(name, sub_files[d])
  BY <1>1, NamesAre DEF NamedInv
<1>4. /\ sub_files[e] \in Seq(Files) /\ sub_files[d] \in Seq(Files)
      /\ name \in [Files -> Names]
  BY <1>1 DEF AreLists, BaseInv, TypeOK
<1>5. SameNames(name, name', sub_files[e]) /\ SameNames(name, name', sub_files[d])
  BY <1>1, <1>2, <1>4 DEF SameNames, Range
<1>6. CASE e = d
  <2>1. name'[f] = nm
    BY <1>1, <1>2, <1>4
  <2>2. Unused(name, sub_files[d], name'[f])
    BY <2>1 DEF Adds, Unused
  <2>3. Apart(name', Append(sub_files[d], f))
    BY <1>1, <1>3, <1>4, <1>5, <2>2, ApartAppends
  <2> QED
    BY <1>1, <1>2, <1>6, <2>3 DEF AreLists
<1>7. CASE e # d
  <2>1. sub_files'[e] = sub_files[e]
    BY <1>1, <1>2, <1>7 DEF AreLists
  <2> QED
    BY <1>3, <1>5, <2>1, NamesStay
<1> QED
  BY <1>6, <1>7

LEMMA NamesDrops ==
    ASSUME BaseInv, SoundInv, NamedInv, NEW f, NEW d, Drops(f, d)
    PROVE  NamedInv'
<1> SUFFICES ASSUME ~misled, ~shadowed, NEW e \in Lists
             PROVE  Apart(name', sub_files'[e])
  BY NamesAre DEF NamedInv, Drops, accidents
<1>1. /\ AreLists(sub_files) /\ f \in Files /\ d \in Lists
      /\ OnlyOn(sub_files, f, d)
  BY HomeFound DEF Drops, BaseInv, TypeOK, IsHome
<1>2. /\ sub_files' = [sub_files EXCEPT ![d] = RemoveFirst(sub_files[d], f)]
      /\ name' = [name EXCEPT ![f] = AnyName]
  BY DEF Drops, Free
<1>3. AreLists(sub_files') /\ f \notin Range(sub_files'[e])
  BY <1>1, <1>2, OnlyRemoves
<1>4. Apart(name, sub_files'[e])
  <2>1. Apart(name, sub_files[e]) /\ sub_files[e] \in Seq(Files)
    BY <1>1, NamesAre DEF NamedInv, AreLists
  <2>2. CASE e = d
    <3>1. sub_files'[e] = RemoveFirst(sub_files[e], f)
      BY <1>1, <1>2, <2>2 DEF AreLists
    <3> QED
      BY <2>1, <3>1, ApartRemoves
  <2>3. CASE e # d
    BY <1>1, <1>2, <2>1, <2>3 DEF AreLists
  <2> QED
    BY <2>2, <2>3
<1>5. SameNames(name, name', sub_files'[e])
  <2>1. name \in [Files -> Names] /\ sub_files'[e] \in Seq(Files)
    BY <1>3 DEF BaseInv, TypeOK, AreLists
  <2> QED
    BY <1>2, <1>3, <2>1 DEF SameNames, Range
<1> QED
  BY <1>4, <1>5, NamesStay

LEMMA NamesTakes ==
    ASSUME BaseInv, SoundInv, NamedInv, NEW f, NEW c, NEW old, TakesFrom(f, c, old),
           ~misled', ~shadowed
    PROVE  \A e \in Lists : Apart(name, DeletedFrom(old, f)[e])
<1> DEFINE mid == DeletedFrom(old, f)
<1>1. ~misled /\ mid = [sub_files EXCEPT ![c] = RemoveFirst(sub_files[c], f)]
  BY SoundTakes
<1>2. AreLists(sub_files)
  BY DEF BaseInv, TypeOK, AreLists, Lists
<1> HIDE DEF mid
<1>3. SUFFICES ASSUME NEW e \in Lists PROVE Apart(name, mid[e])
  BY DEF mid
<1>4. Apart(name, sub_files[e]) /\ sub_files[e] \in Seq(Files)
  BY <1>1, <1>2, NamesAre DEF NamedInv, AreLists
<1>5. CASE e = c
  <2>1. mid[e] = RemoveFirst(sub_files[e], f)
    BY <1>1, <1>2, <1>5 DEF AreLists
  <2> QED
    BY <1>4, <2>1, ApartRemoves
<1>6. CASE e # c
  BY <1>1, <1>2, <1>4, <1>6 DEF AreLists
<1> QED
  BY <1>5, <1>6

LEMMA NamesRename ==
    ASSUME BaseInv, SoundInv, NamedInv,
           NEW from \in Paths, NEW to \in Paths, Rename(from, to)
    PROVE  NamedInv'
<1> SUFFICES ASSUME ~misled', ~shadowed', NEW e \in Lists
             PROVE  Apart(name', sub_files'[e])
  BY NamesAre DEF NamedInv
<1> DEFINE f == Lookup(from)
           c == DirOf(from)
           d == DirOf(to)
           old == FormerList(f)
           mid == DeletedFrom(old, f)
           x == Last(to)
<1>1. f \in Files /\ IsDir(d) /\ TakesFrom(f, c, old)
  BY Renames
<1>2. /\ sub_files' = [mid EXCEPT ![d] = Append(mid[d], f)]
      /\ name' = [name EXCEPT ![f] = x]
      /\ ~shadowed /\ Lookup(to) = NoFile
  BY DEF Rename
<1>3. d \in Lists /\ Unused(name, sub_files[d], x)
  BY <1>1, <1>2, Found DEF BaseInv, Unused
<1> HIDE DEF f, c, d, old, x
<1>4. /\ AreLists(mid)
      /\ \A b \in Lists : Range(mid[b]) \subseteq Range(sub_files[b]) /\ f \notin Range(mid[b])
  BY <1>1, SoundTakes
<1>5. Apart(name, mid[e]) /\ Apart(name, mid[d])
  BY <1>1, <1>2, <1>3, NamesTakes
<1> HIDE DEF mid
<1>6. /\ mid[e] \in Seq(Files) /\ mid[d] \in Seq(Files)
      /\ name \in [Files -> Names]
  BY <1>3, <1>4 DEF AreLists, BaseInv, TypeOK
<1>7. SameNames(name, name', mid[e]) /\ SameNames(name, name', mid[d])
  BY <1>1, <1>2, <1>3, <1>4, <1>6 DEF SameNames, Range
<1>8. CASE e = d
  <2>1. name'[f] = x
    BY <1>1, <1>2, <1>6
  <2>2. Unused(name, mid[d], name'[f])
    BY <1>3, <1>4, <2>1 DEF Unused, Range
  <2>3. Apart(name', Append(mid[d], f))
    BY <1>1, <1>5, <1>6, <1>7, <2>2, ApartAppends
  <2> QED
    BY <1>2, <1>3, <1>4, <1>8, <2>3 DEF AreLists
<1>9. CASE e # d
  <2>1. sub_files'[e] = mid[e]
    BY <1>2, <1>3, <1>4, <1>9 DEF AreLists
  <2> QED
    BY <1>5, <1>7, <2>1, NamesStay
<1> QED
  BY <1>8, <1>9

LEMMA NamesRenameFails ==
    ASSUME BaseInv, SoundInv, NamedInv,
           NEW from \in Paths, NEW to \in Paths, RenameFails(from, to)
    PROVE  NamedInv'
<1> SUFFICES ASSUME ~misled', ~shadowed' PROVE NamesDiffer'
  BY DEF NamedInv
<1> DEFINE f == Lookup(from)
           old == FormerList(f)
<1>1. TakesFrom(f, DirOf(from), old)
  BY Renames
<1>2. sub_files' = DeletedFrom(old, f) /\ name' = name /\ ~shadowed
  BY DEF RenameFails, fields
<1> HIDE DEF f, old
<1>3. \A e \in Lists : Apart(name, DeletedFrom(old, f)[e])
  BY <1>1, <1>2, NamesTakes
<1> QED
  BY <1>2, <1>3, NamesAre

LEMMA NamesKeep ==
    ASSUME NamedInv, UNCHANGED <<name, sub_files, misled, shadowed>>
    PROVE  NamedInv'
BY DEF NamedInv, NamesDiffer

LEMMA NamesNext == BaseInv /\ SoundInv /\ NamedInv /\ [Next]_vars => NamedInv'
<1> SUFFICES ASSUME BaseInv, SoundInv, NamedInv, [Next]_vars PROVE NamedInv'
  OBVIOUS
<1>1. CASE UNCHANGED vars
  BY <1>1, NamesKeep DEF vars, fields, accidents
<1>2. ASSUME NEW path \in Paths, NEW f \in Files, Create(path, f) PROVE NamedInv'
  BY <1>2, Makes, NamesAdds
<1>3. ASSUME NEW path \in Paths, NEW f \in Files, Mkdir(path, f) PROVE NamedInv'
  BY <1>3, Makes, NamesAdds
<1>4. ASSUME NEW path \in Paths, MkdirFails(path) PROVE NamedInv'
  BY <1>4, NamesKeep DEF MkdirFails, fields
<1>5. ASSUME NEW path \in Paths, Unlink(path) PROVE NamedInv'
  BY <1>5, Deletes, NamesDrops
<1>6. ASSUME NEW path \in Paths, Rmdir(path) PROVE NamedInv'
  BY <1>6, Deletes, NamesDrops
<1>7. ASSUME NEW path \in Paths, Truncate(path) PROVE NamedInv'
  BY <1>7, NamesKeep DEF Truncate, accidents
<1>8. ASSUME NEW path \in Paths, NEW n \in 1 .. MaxSize, Write(path, n)
      PROVE  NamedInv'
  BY <1>8, NamesKeep DEF Write, accidents
<1>9. ASSUME NEW path \in Paths, NEW to \in Paths, Rename(path, to) PROVE NamedInv'
  BY <1>9, NamesRename
<1>10. ASSUME NEW path \in Paths, NEW to \in Paths, RenameFails(path, to)
       PROVE  NamedInv'
  BY <1>10, NamesRenameFails
<1>11. ASSUME NEW path \in Paths, NEW to \in Paths, RenameCrashes(path, to)
       PROVE  NamedInv'
  BY <1>11, NamesKeep DEF RenameCrashes, fields, accidents
<1>12. ASSUME NEW path \in Paths, TruncateFails(path) PROVE NamedInv'
  BY <1>12, NamesKeep DEF TruncateFails, fields
<1>13. ASSUME NEW path \in Paths, LostCrashes(path) PROVE NamedInv'
  BY <1>13, NamesKeep DEF LostCrashes, fields, accidents
<1> QED
  BY <1>1, <1>2, <1>3, <1>4, <1>5, <1>6, <1>7, <1>8, <1>9, <1>10, <1>11, <1>12, <1>13
     DEF Next

LEMMA NamesInit == Init => NamedInv
BY NamesAre DEF Init, NamedInv, Apart, Lists

-----------------------------------------------------------------------------
(***************************************************************************)
(* A tree: as no file is on two lists, no two paths lead to one file.      *)
(***************************************************************************)
OneList(sub) ==
    \A d, e \in Lists : Range(sub[d]) \cap Range(sub[e]) # {} => d = e

\* q is a beginning of the path p.
Starts(q, p) == Len(q) <= Len(p) /\ \A k \in 1 .. Len(q) : q[k] = p[k]

LEMMA PrefixIs ==
    ASSUME NEW S, NEW q \in Seq(S), NEW p \in Seq(S)
    PROVE  IsPrefix(q, p) <=> Starts(q, p)
<1>1. PICK n \in Nat : n = Len(q)
  OBVIOUS
<1>2. SubSeq(q, 1, n) = q
  <2>1. \A k \in 1 .. n : q[k] \in S
    BY <1>1
  <2>2. /\ SubSeq(q, 1, n) \in Seq(S)
        /\ Len(SubSeq(q, 1, n)) = IF 1 <= n THEN n - 1 + 1 ELSE 0
        /\ \A k \in 1 .. n - 1 + 1 : SubSeq(q, 1, n)[k] = q[1 + k - 1]
    BY <2>1, SubSeqProperties
  <2>3. /\ (IF 1 <= n THEN n - 1 + 1 ELSE 0) = n
        /\ \A k \in 1 .. n : k \in 1 .. n - 1 + 1 /\ 1 + k - 1 = k
    OBVIOUS
  <2> QED
    BY <1>1, <2>2, <2>3, SeqEqual
<1>3. ASSUME n <= Len(p)
      PROVE  /\ SubSeq(p, 1, n) \in Seq(S) /\ Len(SubSeq(p, 1, n)) = n
             /\ \A k \in 1 .. n : SubSeq(p, 1, n)[k] = p[k]
  <2>1. \A k \in 1 .. n : p[k] \in S
    BY <1>3
  <2>2. /\ SubSeq(p, 1, n) \in Seq(S)
        /\ Len(SubSeq(p, 1, n)) = IF 1 <= n THEN n - 1 + 1 ELSE 0
        /\ \A k \in 1 .. n - 1 + 1 : SubSeq(p, 1, n)[k] = p[1 + k - 1]
    BY <2>1, SubSeqProperties
  <2>3. /\ (IF 1 <= n THEN n - 1 + 1 ELSE 0) = n
        /\ \A k \in 1 .. n : k \in 1 .. n - 1 + 1 /\ 1 + k - 1 = k
    OBVIOUS
  <2> QED
    BY <2>2, <2>3
<1>4. IsPrefix(q, p) <=> n <= Len(p) /\ q = SubSeq(p, 1, n)
  BY <1>1, <1>2 DEF IsPrefix
<1>5. ASSUME n <= Len(p), \A k \in 1 .. n : q[k] = p[k] PROVE q = SubSeq(p, 1, n)
  <2> DEFINE t == SubSeq(p, 1, n)
  <2>1. t \in Seq(S) /\ Len(t) = Len(q) /\ \A k \in 1 .. Len(q) : q[k] = t[k]
    BY <1>1, <1>3, <1>5
  <2> HIDE DEF t
  <2>2. q = t
    BY <2>1, SeqEqual
  <2> QED
    BY <2>2 DEF t
<1> QED
  BY <1>1, <1>3, <1>4, <1>5 DEF Starts

LEMMA FrontStarts ==
    ASSUME NEW S, NEW q \in Seq(S), NEW p \in Seq(S), q # <<>>, Starts(q, p)
    PROVE  Starts(Front(q), p)
<1>1. /\ Len(q) \in Nat /\ Len(q) > 0 /\ Len(Front(q)) = Len(q) - 1
      /\ \A k \in 1 .. Len(q) - 1 : q[k] = Front(q)[k]
      /\ Len(p) \in Nat
  BY FrontProps
<1> QED
  BY <1>1 DEF Starts

LEMMA SameFrontAndLast ==
    ASSUME NEW S, NEW p \in Seq(S), NEW q \in Seq(S), p # <<>>, q # <<>>,
           Front(p) = Front(q), Last(p) = Last(q)
    PROVE  p = q
<1>1. /\ Len(p) \in Nat /\ Len(p) > 0 /\ Len(Front(p)) = Len(p) - 1
      /\ \A k \in 1 .. Len(p) - 1 : p[k] = Front(p)[k]
  BY FrontProps
<1>2. /\ Len(q) \in Nat /\ Len(q) > 0 /\ Len(Front(q)) = Len(q) - 1
      /\ \A k \in 1 .. Len(q) - 1 : q[k] = Front(q)[k]
  BY FrontProps
<1>3. Len(p) = Len(q)
  BY <1>1, <1>2
<1>4. \A k \in 1 .. Len(p) : p[k] = q[k]
  BY <1>1, <1>2, <1>3 DEF Last
<1> QED
  BY <1>3, <1>4, SeqEqual

\* A path that is found: its last file is on the list of the directory before.
LEMMA WalkEnds ==
    ASSUME NEW ty, NEW nm, NEW sub, AreLists(sub), NEW p \in Seq(Names)
    PROVE  LET d == WalkIn(ty, nm, sub, Front(p))
               f == WalkIn(ty, nm, sub, p)
           IN  /\ p = <<>> => f = RootDir
               /\ p # <<>> => f \in Files \cup {NoFile}
               /\ p # <<>> /\ f \in Files =>
                     /\ IsDirIn(ty, d) /\ d \in Lists /\ f \in Range(sub[d])
                     /\ nm[f] = Last(p)
<1> DEFINE d == WalkIn(ty, nm, sub, Front(p))
           x == Last(p)
<1>1. WalkIn(ty, nm, sub, <<>>) = RootDir
  BY WalkSteps
<1>2. ASSUME p # <<>> PROVE WalkIn(ty, nm, sub, p) = StepIn(ty, nm, sub, d, x)
  BY <1>2, WalkSteps
<1> HIDE DEF d, x
<1>3. Leads(ty, nm, sub, d, x, StepIn(ty, nm, sub, d, x))
  BY Steps
<1>4. IsDirIn(ty, d) => d \in Lists
  BY DEF IsDirIn, Lists
<1> QED
  BY <1>1, <1>2, <1>3, <1>4 DEF d, x, Leads

LEMMA OnePath ==
    ASSUME NEW ty, NEW nm, NEW sub, AreLists(sub), OneList(sub),
           NEW p0 \in Seq(Names), NEW q0 \in Seq(Names),
           WalkIn(ty, nm, sub, p0) = WalkIn(ty, nm, sub, q0),
           WalkIn(ty, nm, sub, p0) # NoFile
    PROVE  p0 = q0
<1> DEFINE W(p) == WalkIn(ty, nm, sub, p)
           Same(p, q) == W(p) = W(q) /\ W(p) # NoFile /\ p # q
           C == {n \in Nat : \E p, q \in Seq(Names) : n = Len(p) /\ Same(p, q)}
<1>1. SUFFICES ASSUME C # {} PROVE FALSE
  <2>1. Len(p0) \in Nat
    OBVIOUS
  <2> QED
    BY <2>1
<1>2. PICK n \in C : \A m \in C : n <= m
  <2>1. C \in SUBSET Nat
    OBVIOUS
  <2> HIDE DEF C
  <2> QED
    BY <1>1, <2>1, LeastNumber
<1>3. PICK p \in Seq(Names), q \in Seq(Names) : n = Len(p) /\ Same(p, q)
  BY <1>2
<1>4. /\ p = <<>> => W(p) = RootDir
      /\ p # <<>> => W(p) \in Files \cup {NoFile}
      /\ p # <<>> /\ W(p) \in Files =>
            /\ W(Front(p)) \in Lists /\ W(p) \in Range(sub[W(Front(p))])
            /\ nm[W(p)] = Last(p)
  BY WalkEnds
<1>5. /\ q = <<>> => W(q) = RootDir
      /\ q # <<>> => W(q) \in Files \cup {NoFile}
      /\ q # <<>> /\ W(q) \in Files =>
            /\ W(Front(q)) \in Lists /\ W(q) \in Range(sub[W(Front(q))])
            /\ nm[W(q)] = Last(q)
  BY WalkEnds
<1> HIDE DEF W
<1>6. p # <<>> /\ q # <<>> /\ W(p) \in Files
  BY <1>3, <1>4, <1>5, RootIsNoFile
<1>7. W(Front(p)) = W(Front(q)) /\ W(Front(p)) # NoFile
  BY <1>3, <1>4, <1>5, <1>6, RootIsNoFile DEF OneList
<1>8. Last(p) = Last(q)
  BY <1>3, <1>4, <1>5, <1>6
<1>9. /\ Front(p) \in Seq(Names) /\ Front(q) \in Seq(Names)
      /\ Len(Front(p)) = n - 1 /\ n - 1 \in Nat
  <2>1. /\ Front(p) \in Seq(Names)
        /\ Len(p) \in Nat /\ Len(p) > 0 /\ Len(Front(p)) = Len(p) - 1
    BY <1>6, FrontProps
  <2>2. Front(q) \in Seq(Names)
    BY <1>6, FrontProps
  <2> QED
    BY <1>3, <2>1, <2>2
<1>10. Front(p) = Front(q)
  <2>1. n - 1 \notin C
    BY <1>2, <1>9
  <2> QED
    BY <1>7, <1>9, <2>1
<1> QED
  BY <1>3, <1>6, <1>8, <1>10, SameFrontAndLast

\* On the way to a file of S the walk enters S: from a directory outside it.
LEMMA WalkEnters ==
    ASSUME NEW ty, NEW nm, NEW sub, AreLists(sub), NEW S \in SUBSET Files,
           NEW p \in Seq(Names), NEW q0 \in Seq(Names), Starts(q0, p),
           WalkIn(ty, nm, sub, q0) \in S
    PROVE  \E q \in Seq(Names) :
              LET d == WalkIn(ty, nm, sub, Front(q))
                  g == WalkIn(ty, nm, sub, q)
              IN  /\ q # <<>> /\ Starts(q, p)
                  /\ d \in Lists \ S /\ g \in S /\ g \in Range(sub[d])
<1> DEFINE W(q) == WalkIn(ty, nm, sub, q)
           C == {n \in Nat : \E q \in Seq(Names) :
                                n = Len(q) /\ Starts(q, p) /\ W(q) \in S}
<1>1. C # {}
  <2>1. Len(q0) \in Nat
    OBVIOUS
  <2> QED
    BY <2>1
<1>2. PICK n \in C : \A m \in C : n <= m
  <2>1. C \in SUBSET Nat
    OBVIOUS
  <2> HIDE DEF C
  <2> QED
    BY <1>1, <2>1, LeastNumber
<1>3. PICK q \in Seq(Names) : n = Len(q) /\ Starts(q, p) /\ W(q) \in S
  BY <1>2
<1>4. /\ q = <<>> => W(q) = RootDir
      /\ q # <<>> /\ W(q) \in Files =>
            W(Front(q)) \in Lists /\ W(q) \in Range(sub[W(Front(q))])
  BY WalkEnds
<1> HIDE DEF W
<1>5. q # <<>> /\ W(q) \in Files
  BY <1>3, <1>4, RootIsNoFile
<1>6. Front(q) \in Seq(Names) /\ Len(Front(q)) = n - 1 /\ n - 1 \in Nat
  BY <1>3, <1>5, FrontProps
<1>7. Starts(Front(q), p)
  BY <1>3, <1>5, FrontStarts
<1>8. W(Front(q)) \notin S
  <2>1. n - 1 \notin C
    BY <1>2, <1>6
  <2> QED
    BY <1>6, <1>7, <2>1
<1> QED
  BY <1>3, <1>4, <1>5, <1>8 DEF W

-----------------------------------------------------------------------------
(***************************************************************************)
(* No files hang together by themselves: a rename moves a file only to     *)
(* where the walk along its old path does not lead through.                *)
(***************************************************************************)
Entered(sub, S) == \E d \in Lists \ S : S \cap Range(sub[d]) # {}
RootedInv == ~misled /\ ~shadowed /\ leaked = {} => IsRooted

LEMMA RootedIs ==
    /\ IsRooted <=> \A S \in SUBSET live : S # {} => Entered(sub_files, S)
    /\ IsRooted' <=> \A S \in SUBSET live' : S # {} => Entered(sub_files', S)
BY DEF IsRooted, Entered, Lists

LEMMA RootedAdds ==
    ASSUME BaseInv, RootedInv, NEW f, NEW ty, NEW d, NEW nm, Adds(f, ty, d, nm)
    PROVE  RootedInv'
<1> SUFFICES ASSUME ~misled, ~shadowed, leaked = {},
                    NEW S \in SUBSET live', S # {}
             PROVE  Entered(sub_files', S)
  BY RootedIs DEF RootedInv, Adds, accidents
<1>1. /\ AreLists(sub_files) /\ f \in Files /\ d \in Lists /\ IsDir(d)
      /\ f \notin live /\ live' = live \cup {f}
      /\ sub_files' = [sub_files EXCEPT ![d] = Append(sub_files[d], f)]
  BY DEF Adds, NewFile, BaseInv, TypeOK, AreLists, Lists
<1>2. ~IsDir(f) /\ sub_files[f] = <<>>
  BY <1>1, RootIsNoFile DEF BaseInv, DeadAreBlank, OnlyDirsHoldFiles, IsDir
<1>3. \A c \in Lists : Range(sub_files[c]) \subseteq Range(sub_files'[c])
  BY <1>1, OnlyAppends
<1>4. f \in Range(sub_files'[d])
  <2>1. sub_files[d] \in Seq(Files) /\ sub_files'[d] = Append(sub_files[d], f)
    BY <1>1 DEF AreLists
  <2> QED
    BY <1>1, <2>1, Appends
<1>5. CASE S \subseteq {f}
  BY <1>1, <1>2, <1>4, <1>5 DEF Entered
<1>6. CASE ~(S \subseteq {f})
  <2> DEFINE T == S \ {f}
  <2>1. T \in SUBSET live /\ T # {}
    BY <1>1, <1>6
  <2>2. Entered(sub_files, T)
    BY <2>1, RootedIs DEF RootedInv
  <2>3. PICK e \in Lists \ T : T \cap Range(sub_files[e]) # {}
    BY <2>2 DEF Entered
  <2>4. e # f
    BY <1>2, <2>3 DEF Range
  <2> QED
    BY <1>3, <2>3, <2>4 DEF Entered
<1> QED
  BY <1>5, <1>6

LEMMA RootedDrops ==
    ASSUME BaseInv, RootedInv, NEW f, NEW d, Drops(f, d)
    PROVE  RootedInv'
<1> SUFFICES ASSUME ~misled, ~shadowed, leaked = {},
                    NEW S \in SUBSET live', S # {}
             PROVE  Entered(sub_files', S)
  BY RootedIs DEF RootedInv, Drops, accidents
<1>1. /\ AreLists(sub_files) /\ d \in Lists /\ live' = live \ {f}
      /\ sub_files' = [sub_files EXCEPT ![d] = RemoveFirst(sub_files[d], f)]
  BY DEF Drops, Free, BaseInv, TypeOK, AreLists, Lists
<1>2. \A c \in Lists : Range(sub_files[c]) \ {f} \subseteq Range(sub_files'[c])
  BY <1>1, OnlyRemoves
<1>3. S \in SUBSET live /\ f \notin S
  BY <1>1
<1>4. Entered(sub_files, S)
  BY <1>3, RootedIs DEF RootedInv
<1> QED
  BY <1>2, <1>3, <1>4 DEF Entered

\* While no rename was misled, no file is on two lists.
LEMMA ListsAreOne ==
    ASSUME BaseInv, SoundInv, ~misled
    PROVE  OneList(sub_files)
<1>1. \A f, d : d \in Lists /\ f \in Range(sub_files[d]) => OnlyOn(sub_files, f, d)
  BY HomeFound DEF IsHome
<1>2. ASSUME NEW d \in Lists, NEW e \in Lists,
             NEW f \in Range(sub_files[d]) \cap Range(sub_files[e])
      PROVE  d = e
  BY <1>1 DEF OnlyOn
<1> QED
  BY <1>2 DEF OneList

LEMMA RootedRename ==
    ASSUME BaseInv, SoundInv, RootedInv,
           NEW from \in Paths, NEW to \in Paths, Rename(from, to)
    PROVE  RootedInv'
<1> SUFFICES ASSUME ~misled', ~shadowed', leaked' = {},
                    NEW S \in SUBSET live', S # {}
             PROVE  Entered(sub_files', S)
  BY RootedIs DEF RootedInv
<1> DEFINE f == Lookup(from)
           c == DirOf(from)
           d == DirOf(to)
           old == FormerList(f)
           mid == DeletedFrom(old, f)
<1>1. f \in Files /\ IsDir(d) /\ TakesFrom(f, c, old)
  BY Renames
<1>2. /\ sub_files' = [mid EXCEPT ![d] = Append(mid[d], f)]
      /\ live' = live /\ leaked = {} /\ ~misled /\ ~shadowed
      /\ ~IsPrefix(from, to)
  BY DEF Rename, MayRename
<1>3. d \in Lists
  BY <1>1 DEF IsDir, Lists
<1>4. /\ AreLists(mid)
      /\ \A e \in Lists : Range(sub_files[e]) \ {f} \subseteq Range(mid[e])
  BY <1>1, SoundTakes
<1> HIDE DEF mid
<1>5. \A e \in Lists : Range(sub_files[e]) \ {f} \subseteq Range(sub_files'[e])
  <2> HIDE DEF f, d
  <2>1. \A e \in Lists : Range(mid[e]) \subseteq Range(sub_files'[e])
    BY <1>1, <1>2, <1>3, <1>4, OnlyAppends
  <2> QED
    BY <1>4, <2>1
<1>6. f \in Range(sub_files'[d])
  <2> HIDE DEF f, d
  <2>1. mid[d] \in Seq(Files) /\ sub_files'[d] = Append(mid[d], f)
    BY <1>2, <1>3, <1>4 DEF AreLists
  <2> QED
    BY <1>1, <2>1, Appends
<1>7. CASE f \notin S
  <2> HIDE DEF f
  <2>1. Entered(sub_files, S)
    BY <1>2, RootedIs DEF RootedInv
  <2> QED
    BY <1>5, <1>7, <2>1 DEF Entered
<1>8. CASE f \in S /\ d \notin S
  BY <1>3, <1>6, <1>8 DEF Entered
<1>9. CASE f \in S /\ d \in S
  <2> DEFINE W(p) == WalkIn(type, name, sub_files, p)
  <2>1. /\ from \in Seq(Names) /\ to \in Seq(Names) /\ to # <<>>
        /\ Front(to) \in Seq(Names) /\ Starts(Front(to), to)
    <3>1. from \in Seq(Names) /\ to \in Seq(Names) /\ to # <<>>
      BY PathsAre
    <3>2. Starts(to, to)
      BY <3>1 DEF Starts
    <3> QED
      BY <3>1, <3>2, FrontStarts, FrontProps
  <2>2. /\ AreLists(sub_files) /\ S \in SUBSET Files
        /\ W(Front(to)) \in S /\ W(from) = f
    BY <1>2, <1>9, Walks DEF BaseInv, TypeOK, AreLists, Lists, DirOf
  <2>3. PICK q \in Seq(Names) :
           /\ q # <<>> /\ Starts(q, to)
           /\ W(Front(q)) \in Lists \ S /\ W(q) \in S
           /\ W(q) \in Range(sub_files[W(Front(q))])
    BY <2>1, <2>2, WalkEnters
  <2>4. W(q) # f
    <3>1. SUFFICES ASSUME W(q) = f PROVE FALSE
      OBVIOUS
    <3>2. OneList(sub_files)
      BY <1>2, ListsAreOne
    <3>3. W(from) = W(q) /\ W(from) # NoFile
      BY <1>1, <2>2, <3>1, RootIsNoFile DEF Lists
    <3>4. from = q
      BY <2>1, <2>2, <3>2, <3>3, OnePath
    <3>5. IsPrefix(from, to)
      BY <2>1, <2>3, <3>4, PrefixIs
    <3> QED
      BY <1>2, <3>5
  <2> HIDE DEF W, f
  <2> QED
    BY <1>5, <2>3, <2>4 DEF Entered
<1> QED
  BY <1>7, <1>8, <1>9

LEMMA RootedKeeps ==
    ASSUME RootedInv, UNCHANGED <<live, sub_files, misled, shadowed, leaked>>
    PROVE  RootedInv'
BY DEF RootedInv, IsRooted

LEMMA RootedNext == BaseInv /\ SoundInv /\ RootedInv /\ [Next]_vars => RootedInv'
<1> SUFFICES ASSUME BaseInv, SoundInv, RootedInv, [Next]_vars PROVE RootedInv'
  OBVIOUS
<1>1. CASE UNCHANGED vars
  BY <1>1, RootedKeeps DEF vars, accidents
<1>2. ASSUME NEW path \in Paths, NEW f \in Files, Create(path, f) PROVE RootedInv'
  BY <1>2, Makes, RootedAdds
<1>3. ASSUME NEW path \in Paths, NEW f \in Files, Mkdir(path, f) PROVE RootedInv'
  BY <1>3, Makes, RootedAdds
<1>4. ASSUME NEW path \in Paths, MkdirFails(path) PROVE RootedInv'
  BY <1>4, RootedKeeps DEF MkdirFails
<1>5. ASSUME NEW path \in Paths, Unlink(path) PROVE RootedInv'
  BY <1>5, Deletes, RootedDrops
<1>6. ASSUME NEW path \in Paths, Rmdir(path) PROVE RootedInv'
  BY <1>6, Deletes, RootedDrops
<1>7. ASSUME NEW path \in Paths, Truncate(path) PROVE RootedInv'
  BY <1>7, RootedKeeps DEF Truncate, accidents
<1>8. ASSUME NEW path \in Paths, NEW n \in 1 .. MaxSize, Write(path, n)
      PROVE  RootedInv'
  BY <1>8, RootedKeeps DEF Write, accidents
<1>9. ASSUME NEW path \in Paths, NEW to \in Paths, Rename(path, to) PROVE RootedInv'
  BY <1>9, RootedRename
<1>10. ASSUME NEW path \in Paths, NEW to \in Paths, RenameFails(path, to)
       PROVE  RootedInv'
  BY <1>10 DEF RenameFails, RootedInv
<1>11. ASSUME NEW path \in Paths, NEW to \in Paths, RenameCrashes(path, to)
       PROVE  RootedInv'
  BY <1>11, RootedKeeps DEF RenameCrashes, accidents
<1>12. ASSUME NEW path \in Paths, TruncateFails(path) PROVE RootedInv'
  BY <1>12, RootedKeeps DEF TruncateFails
<1>13. ASSUME NEW path \in Paths, LostCrashes(path) PROVE RootedInv'
  BY <1>13, RootedKeeps DEF LostCrashes, accidents
<1> QED
  BY <1>1, <1>2, <1>3, <1>4, <1>5, <1>6, <1>7, <1>8, <1>9, <1>10, <1>11, <1>12, <1>13
     DEF Next

LEMMA RootedInit == Init => RootedInv
BY DEF Init, RootedInv, IsRooted

(***************************************************************************)
(* The inductive invariant holds, with all its parts.                      *)
(***************************************************************************)
THEOREM Invariance == Spec => []IInv
<1>1. IInv <=> BaseInv /\ SoundInv /\ NamedInv /\ RootedInv
  BY DEF IInv, BaseInv, SoundInv, NamedInv, RootedInv
<1>2. Init => BaseInv /\ SoundInv /\ NamedInv /\ RootedInv
  BY BaseInit, SoundInit, NamesInit, RootedInit
<1>3. BaseInv /\ SoundInv /\ NamedInv /\ RootedInv /\ [Next]_vars
        => (BaseInv /\ SoundInv /\ NamedInv /\ RootedInv)'
  BY BaseNext, SoundNext, NamesNext, RootedNext
<1> QED
  BY <1>1, <1>2, <1>3, PTL DEF Spec

-----------------------------------------------------------------------------
(***************************************************************************)
(* Every file is reached, by a path no longer than there are files.        *)
(***************************************************************************)
LEMMA AppendWalk ==
    ASSUME NEW ty, NEW nm, NEW sub, NEW p \in Seq(Names), NEW x \in Names
    PROVE  /\ Append(p, x) \in Seq(Names) /\ Append(p, x) # <<>>
           /\ WalkIn(ty, nm, sub, Append(p, x))
                = StepIn(ty, nm, sub, WalkIn(ty, nm, sub, p), x)
<1> DEFINE t == Append(p, x)
<1>1. /\ t \in Seq(Names) /\ t # <<>> /\ Len(t) = Len(p) + 1
      /\ \A k \in 1 .. Len(p) : t[k] = p[k]
      /\ t[Len(p) + 1] = x
  BY AppendProperties
<1> HIDE DEF t
<1>2. /\ Front(t) \in Seq(Names) /\ Len(Front(t)) = Len(t) - 1
      /\ \A k \in 1 .. Len(t) - 1 : t[k] = Front(t)[k]
  BY <1>1, FrontProps
<1>3. Front(t) = p /\ Last(t) = x
  <2>1. Len(Front(t)) = Len(p)
    BY <1>1, <1>2
  <2>2. \A k \in 1 .. Len(p) : Front(t)[k] = p[k]
    BY <1>1, <1>2
  <2>3. Front(t) = p
    BY <1>2, <2>1, <2>2, SeqEqual
  <2> QED
    BY <1>1, <2>3 DEF Last
<1> QED
  BY <1>1, <1>3, WalkSteps DEF t

\* The files on the way, one after the other.
LEMMA WalkOf ==
    ASSUME NEW ty, NEW nm, NEW sub, NEW p \in Seq(Names)
    PROVE  \E a : IsWalk(ty, nm, sub, p, Len(p), a) /\ WalkIn(ty, nm, sub, p) = a[Len(p)]
<1> DEFINE a == CHOOSE b : IsWalk(ty, nm, sub, p, Len(p), b)
<1>1. \E b : IsWalk(ty, nm, sub, p, Len(p), b)
  <2>1. Len(p) \in Nat
    OBVIOUS
  <2> QED
    BY <2>1, WalkExists
<1>2. WalkIn(ty, nm, sub, p) = a[Len(p)]
  BY DEF WalkIn, IsWalk
<1> QED
  BY <1>1, <1>2

LEMMA ShortPath ==
    ASSUME NEW ty, NEW nm, NEW sub, AreLists(sub), OneList(sub),
           NEW p \in Seq(Names), WalkIn(ty, nm, sub, p) \in Files
    PROVE  Len(p) <= Cardinality(Files)
<1>1. PICK n \in Nat : n = Len(p)
  OBVIOUS
<1>2. PICK a : IsWalk(ty, nm, sub, p, n, a) /\ a[n] \in Files
  BY <1>1, WalkOf
<1>3. a[0] = RootDir
  BY <1>2 DEF IsWalk
<1>4. ASSUME NEW k \in 1 .. n
      PROVE  /\ a[k] \in Files \cup {NoFile}
             /\ a[k] \in Files => /\ a[k - 1] \in Lists
                                  /\ a[k] \in Range(sub[a[k - 1]])
  <2>1. a[k] = StepIn(ty, nm, sub, a[k - 1], p[k])
    BY <1>2 DEF IsWalk
  <2>2. Leads(ty, nm, sub, a[k - 1], p[k], a[k])
    BY <2>1, Steps
  <2> QED
    BY <2>2 DEF Leads, IsDirIn, Lists
<1>5. ASSUME NEW k \in 1 .. n PROVE a[k] \in Files
  <2> DEFINE C == {m \in 0 .. n - 1 : a[n - m] \notin Files}
  <2>1. SUFFICES ASSUME a[k] \notin Files PROVE FALSE
    OBVIOUS
  <2>2. PICK m \in C : \A j \in C : m <= j
    <3>1. n - k \in 0 .. n - 1 /\ n - (n - k) = k
      OBVIOUS
    <3>2. n - k \in C
      BY <2>1, <3>1
    <3>3. C \in SUBSET Nat
      OBVIOUS
    <3> HIDE DEF C
    <3> QED
      BY <3>2, <3>3, LeastNumber
  <2>3. m # 0
    BY <1>2, <2>2
  <2>4. m - 1 \in 0 .. n - 1 /\ m - 1 \notin C /\ n - m \in 1 .. n
        /\ n - (m - 1) \in 1 .. n /\ n - (m - 1) - 1 = n - m
    BY <2>2, <2>3
  <2>5. a[n - (m - 1)] \in Files
    BY <2>4
  <2>6. a[n - m] \in Lists
    BY <1>4, <2>4, <2>5
  <2>7. a[n - m] \in Files
    BY <1>4, <2>4, <2>6, RootIsNoFile
  <2> QED
    BY <2>2, <2>7
<1>6. ASSUME NEW j0 \in 1 .. n, NEW k0 \in 1 .. n, a[j0] = a[k0], j0 # k0
      PROVE  FALSE
  <2> DEFINE C == {j \in 1 .. n : \E k \in 1 .. n : k # j /\ a[j] = a[k]}
  <2>1. PICK j \in C : \A i \in C : j <= i
    <3>1. C \in SUBSET Nat /\ C # {}
      BY <1>6
    <3> HIDE DEF C
    <3> QED
      BY <3>1, LeastNumber
  <2>2. PICK k \in 1 .. n : k # j /\ a[j] = a[k]
    BY <2>1
  <2>3. j \in 1 .. n
    BY <2>1
  <2>4. a[j - 1] = a[k - 1]
    BY <1>4, <1>5, <2>2, <2>3 DEF OneList
  <2>5. ASSUME NEW i \in 1 .. n PROVE i = 1 \/ i - 1 \in 1 .. n
    OBVIOUS
  <2>6. ASSUME NEW i \in 1 .. n PROVE a[i - 1] = RootDir <=> i = 1
    BY <1>3, <1>5, <2>5, RootIsNoFile
  <2>7. j # 1 /\ k # 1
    BY <2>2, <2>3, <2>4, <2>6
  <2>8. j - 1 \in 1 .. n /\ k - 1 \in 1 .. n /\ j - 1 # k - 1
    BY <2>2, <2>3, <2>5, <2>7
  <2>9. j - 1 \in C
    BY <2>4, <2>8
  <2> QED
    BY <2>1, <2>3, <2>9
<1> DEFINE g == [k \in 1 .. n |-> a[k]]
<1>7. g \in Injection(1 .. n, Files)
  BY <1>5, <1>6 DEF Injection, IsInjective
<1>8. Cardinality(1 .. n) <= Cardinality(Files)
  <2> HIDE DEF g
  <2> QED
    BY <1>7, FilesAssumption, FS_Injection
<1>9. Cardinality(1 .. n) = n
  BY FS_Interval
<1> QED
  BY <1>1, <1>8, <1>9

LEMMA AreReached ==
    ASSUME IInv, ~misled, ~shadowed, leaked = {}
    PROVE  \A f \in live : IsReached(f)
<1> DEFINE W(p) == WalkIn(type, name, sub_files, p)
           S == {f \in live : \A p \in Seq(Names) : W(p) # f}
<1>1. /\ AreLists(sub_files) /\ OneList(sub_files)
      /\ live \subseteq Files /\ name \in [Files -> Names]
      /\ NamesDiffer /\ OnlyDirsHoldFiles /\ DeadAreBlank /\ IsRooted
  <2>1. BaseInv /\ SoundInv
    BY DEF IInv, BaseInv, SoundInv
  <2> QED
    BY <2>1, ListsAreOne DEF IInv, TypeOK, AreLists, Lists
<1>2. S = {}
  <2>1. SUFFICES ASSUME S # {} PROVE FALSE
    OBVIOUS
  <2>2. PICK d \in Lists \ S : S \cap Range(sub_files[d]) # {}
    <3>1. S \in SUBSET live
      OBVIOUS
    <3> HIDE DEF S
    <3> QED
      BY <1>1, <2>1, <3>1 DEF IsRooted, Lists
  <2>3. PICK i \in DOMAIN sub_files[d] : sub_files[d][i] \in S
    BY <2>2 DEF Range
  <2> DEFINE x == name[sub_files[d][i]]
  <2>4. sub_files[d] \in Seq(Files) /\ x \in Names
    BY <1>1, <2>2, <2>3 DEF AreLists
  <2>5. IsDirIn(type, d)
    <3>1. CASE d = RootDir
      BY <3>1 DEF IsDirIn
    <3>2. CASE d # RootDir
      <4>1. d \in Files /\ sub_files[d] # <<>>
        BY <2>2, <2>3, <3>2 DEF Lists
      <4> QED
        BY <1>1, <4>1 DEF OnlyDirsHoldFiles, IsDir, IsDirIn
    <3> QED
      BY <3>1, <3>2
  <2>6. \E p \in Seq(Names) : W(p) = d
    <3>1. CASE d = RootDir
      <4>1. <<>> \in Seq(Names) /\ W(<<>>) = RootDir
        BY WalkSteps
      <4> QED
        BY <3>1, <4>1
    <3>2. CASE d # RootDir
      <4>1. d \in live
        BY <1>1, <2>2, <2>5, <3>2 DEF IsDirIn, DeadAreBlank, Lists
      <4> QED
        BY <2>2, <4>1
    <3> QED
      BY <3>1, <3>2
  <2>7. PICK p \in Seq(Names) : W(p) = d
    BY <2>6
  <2>8. StepIn(type, name, sub_files, d, x) = sub_files[d][i]
    <3> DEFINE K == {k \in DOMAIN sub_files[d] : name[sub_files[d][k]] = x}
    <3>1. K = {i}
      BY <1>1, <2>2, <2>3 DEF NamesDiffer, Lists
    <3>2. Min(K) = i
      <4>1. i \in Nat
        BY <2>3, <2>4
      <4>2. Min({i}) \in {i}
        BY <4>1, MinIsLeast
      <4> QED
        BY <3>1, <4>2
    <3> HIDE DEF x
    <3> QED
      BY <2>5, <3>1, <3>2 DEF StepIn, IsDirIn
  <2>9. /\ Append(p, x) \in Seq(Names)
        /\ W(Append(p, x)) = StepIn(type, name, sub_files, W(p), x)
    <3> HIDE DEF x
    <3> QED
      BY <2>4, AppendWalk
  <2>10. W(Append(p, x)) = sub_files[d][i]
    BY <2>7, <2>8, <2>9
  <2> HIDE DEF W, x
  <2> QED
    BY <2>3, <2>9, <2>10
<1>3. ASSUME NEW f \in live PROVE IsReached(f)
  <2>1. PICK p \in Seq(Names) : W(p) = f
    BY <1>2
  <2>2. f \in Files
    BY <1>1
  <2>3. Len(p) <= Cardinality(Files)
    BY <1>1, <2>1, <2>2, ShortPath
  <2>4. p # <<>>
    BY <2>1, <2>2, WalkSteps, RootIsNoFile
  <2>5. Len(p) \in 0 .. Cardinality(Files) /\ p \in [1 .. Len(p) -> Names]
    <3>1. Len(p) \in Nat /\ p \in [1 .. Len(p) -> Names]
      OBVIOUS
    <3>2. Cardinality(Files) \in Nat
      BY FilesAssumption, FS_CardinalityType
    <3> QED
      BY <2>3, <3>1, <3>2
  <2>6. p \in Paths
    BY <2>4, <2>5 DEF Paths, BoundedSeq, SeqOf
  <2>7. Lookup(p) = f
    BY <2>1, Walks
  <2> QED
    BY <2>6, <2>7 DEF IsReached
<1> QED
  BY <1>3

(***************************************************************************)
(* The name space is a tree (r_create, r_mkdir, r_unlink, r_rmdir,         *)
(* r_rename), for any number of files and names and after any sequence of  *)
(* operations: until a rename deletes from the wrong list, each file is on *)
(* the one list its fields name, and none on a list is freed; and until a  *)
(* rename takes a name in use or fails, each can be reached by a path.     *)
(***************************************************************************)
THEOREM TreeSound == Spec => []TreeIsSound
<1>1. IInv => TreeIsSound
  BY AreReached DEF IInv, TreeIsSound
<1> QED
  BY <1>1, Invariance, PTL

-----------------------------------------------------------------------------
(***************************************************************************)
(* The answers.                                                            *)
(***************************************************************************)
Consistent(path) ==
    LET there == Getattr(path)
    IN  /\ Opendir(path) <=> there = DirAttributes
        /\ Open(path) <=> there # ENOENT /\ ~Opendir(path)
Listed(path, nm) ==
    LET child == Getattr(Append(path, nm))
    IN  IF child = ENOENT THEN Entries(path, nm) = {}
        ELSE \E k \in Entries(path, nm) :
                /\ Entries(path, nm) = {k}
                /\ Readdir(path)[k].attr = child

LEMMA KindsDiffer ==
    \A f : DirAttributes # ENOENT /\ Attributes(f) # ENOENT
           /\ (Attributes(f) = DirAttributes <=> IsDir(f))
<1>1. /\ ENOENT.kind = "none" /\ DirAttributes.kind = "dir"
      /\ \A s : [kind |-> "file", size |-> s].kind = "file"
  BY DEF ENOENT, DirAttributes
<1> QED
  BY <1>1 DEF Attributes

LEMMA PathIsConsistent ==
    ASSUME TypeOK, NEW path \in Paths \cup {<<>>}
    PROVE  Consistent(path)
<1>1. CASE path = <<>>
  <2>1. Lookup(path) = RootDir /\ Getattr(path) = DirAttributes
    BY <1>1, Walks, WalkSteps DEF Getattr
  <2> QED
    BY <1>1, <2>1, KindsDiffer DEF Consistent, Open, Opendir, IsDir
<1>2. CASE path # <<>>
  <2>1. path \in Paths /\ Lookup(path) \in Files \cup {NoFile}
    BY <1>2, Found
  <2>2. Getattr(path) = IF Lookup(path) = NoFile THEN ENOENT ELSE Attributes(Lookup(path))
    BY <1>2 DEF Getattr
  <2>3. NoFile \notin Files /\ ~IsDir(NoFile)
    BY RootIsNoFile DEF IsDir, Lists
  <2> QED
    BY <1>2, <2>1, <2>2, <2>3, KindsDiffer DEF Consistent, Open, Opendir
<1> QED
  BY <1>1, <1>2

LEMMA NameIsListed ==
    ASSUME TypeOK, NamesDiffer, NEW path \in Paths \cup {<<>>}, Opendir(path),
           NEW x \in Names
    PROVE  Listed(path, x)
<1> DEFINE d == Lookup(path)
           K == {k \in DOMAIN sub_files[d] : name[sub_files[d][k]] = x}
           f == StepIn(type, name, sub_files, d, x)
<1>1. IsDir(d) /\ d \in Lists
  BY DEF Opendir, IsDir, Lists
<1>2. sub_files[d] \in Seq(Files) /\ DOMAIN sub_files[d] \subseteq Nat
  BY <1>1 DEF TypeOK, Lists
<1>3. /\ Append(path, x) # <<>>
      /\ Lookup(Append(path, x)) = f
  <2>1. path \in Seq(Names)
    <3>1. <<>> \in Seq(Names)
      OBVIOUS
    <3> QED
      BY <3>1, PathsAre
  <2>2. /\ Append(path, x) # <<>>
        /\ WalkIn(type, name, sub_files, Append(path, x))
             = StepIn(type, name, sub_files, WalkIn(type, name, sub_files, path), x)
    BY <2>1, AppendWalk
  <2> QED
    BY <2>2, Walks
<1>4. /\ DOMAIN Readdir(path) = DOMAIN sub_files[d]
      /\ \A k \in DOMAIN sub_files[d] :
            Readdir(path)[k] = [name |-> name[sub_files[d][k]],
                                attr |-> Attributes(sub_files[d][k])]
  BY <1>1 DEF Readdir
<1>5. Entries(path, x) = K
  <2> HIDE DEF d
  <2>1. Entries(path, x) = {k \in DOMAIN sub_files[d] : Readdir(path)[k].name = x}
    BY <1>4 DEF Entries
  <2>2. ASSUME NEW k \in DOMAIN sub_files[d]
        PROVE  Readdir(path)[k].name = name[sub_files[d][k]]
    <3>1. Readdir(path)[k] = [name |-> name[sub_files[d][k]],
                              attr |-> Attributes(sub_files[d][k])]
      BY <1>4
    <3>2. [name |-> name[sub_files[d][k]], attr |-> Attributes(sub_files[d][k])].name
            = name[sub_files[d][k]]
      OBVIOUS
    <3> QED
      BY <3>1, <3>2, Zenon
  <2>3. ASSUME NEW k PROVE k \in Entries(path, x) <=> k \in K
    BY <2>1, <2>2
  <2> QED
    BY <2>3
<1>6. f = IF K = {} THEN NoFile ELSE sub_files[d][Min(K)]
  <2> HIDE DEF d
  <2> QED
    BY <1>1 DEF StepIn, IsDir
<1>7. Getattr(Append(path, x)) = IF f = NoFile THEN ENOENT ELSE Attributes(f)
  BY <1>3 DEF Getattr
<1>8. CASE K = {}
  BY <1>5, <1>6, <1>7, <1>8 DEF Listed
<1>9. CASE K # {}
  <2>1. PICK k \in DOMAIN sub_files[d] : k \in K
    BY <1>9
  <2>2. K = {k}
    <3> HIDE DEF d
    <3> QED
      BY <1>1, <2>1 DEF NamesDiffer, Lists
  <2>3. f = sub_files[d][k]
    <3>1. Min({k}) \in {k}
      BY <1>2, <2>1, MinIsLeast
    <3> QED
      BY <1>6, <2>2, <3>1
  <2>4. sub_files[d][k] \in Files
    <3> HIDE DEF d
    <3> QED
      BY <1>2, <2>1
  <2> HIDE DEF d, K, f
  <2>5. f # NoFile
    BY <2>3, <2>4, RootIsNoFile DEF Lists
  <2>6. Getattr(Append(path, x)) = Attributes(f) /\ Attributes(f) # ENOENT
    <3>1. Getattr(Append(path, x)) = Attributes(f)
      BY <1>7, <2>5
    <3>2. Attributes(f) # ENOENT
      BY KindsDiffer
    <3> QED
      BY <3>1, <3>2
  <2>7. Readdir(path)[k].attr = Attributes(f)
    <3>1. Readdir(path)[k] = [name |-> name[sub_files[d][k]], attr |-> Attributes(f)]
      BY <1>4, <2>1, <2>3
    <3>2. [name |-> name[sub_files[d][k]], attr |-> Attributes(f)].attr = Attributes(f)
      OBVIOUS
    <3> QED
      BY <3>1, <3>2, Zenon
  <2> QED
    BY <1>5, <2>2, <2>6, <2>7 DEF Listed
<1> QED
  BY <1>8, <1>9

(***************************************************************************)
(* Whoever asks gets the same answer (r_getattr, r_readdir, r_opendir and  *)
(* r_open), in a disk of any size: a directory lists exactly the names     *)
(* that getattr finds in it, each once and with its own attributes.        *)
(***************************************************************************)
THEOREM AnswersRight == Spec => []AnswersAgree
<1>1. IInv => AnswersAgree
  <2> SUFFICES ASSUME IInv, status = "mounted", ~misled, ~shadowed,
                      NEW path \in Paths \cup {<<>>}
               PROVE  /\ Consistent(path)
                      /\ Opendir(path) => \A nm \in Names : Listed(path, nm)
    BY DEF AnswersAgree, Consistent, Listed
  <2> QED
    BY PathIsConsistent, NameIsListed DEF IInv
<1> QED
  BY <1>1, Invariance, PTL

-----------------------------------------------------------------------------
(***************************************************************************)
(* Paths that begin with another, and paths with another beginning.        *)
(***************************************************************************)
LEMMA StartsIs ==
    ASSUME NEW S, NEW p \in Seq(S), NEW q \in Seq(S), q # <<>>
    PROVE  /\ Front(q) \in Seq(S)
           /\ Starts(p, q) <=> p = q \/ Starts(p, Front(q))
           /\ ~Starts(q, Front(q))
<1>1. /\ Front(q) \in Seq(S) /\ Len(q) \in Nat /\ Len(p) \in Nat /\ Len(q) > 0
      /\ Len(Front(q)) = Len(q) - 1
      /\ \A k \in 1 .. Len(q) - 1 : q[k] = Front(q)[k]
  BY FrontProps
<1>2. ~Starts(q, Front(q))
  BY <1>1 DEF Starts
<1>3. ASSUME Starts(p, q), p # q PROVE Starts(p, Front(q))
  <2>1. Len(p) # Len(q)
    BY <1>3, SeqEqual DEF Starts
  <2>2. Len(p) <= Len(q) - 1 /\ \A k \in 1 .. Len(p) : k \in 1 .. Len(q) - 1
    BY <1>1, <1>3, <2>1 DEF Starts
  <2> QED
    BY <1>1, <1>3, <2>2 DEF Starts
<1>4. ASSUME Starts(p, Front(q)) PROVE Starts(p, q)
  <2>1. Len(p) <= Len(q) - 1 /\ \A k \in 1 .. Len(p) : k \in 1 .. Len(q) - 1
    BY <1>1, <1>4 DEF Starts
  <2> QED
    BY <1>1, <1>4, <2>1 DEF Starts
<1>5. Starts(q, q)
  BY <1>1 DEF Starts
<1> QED
  BY <1>1, <1>2, <1>3, <1>4, <1>5

\* r with the beginning q where it had p.
Swap(p, q, r) == q \o SubSeq(r, Len(p) + 1, Len(r))

\* s is that: l, m and n are the lengths of q, r and p.
IsSwap(p, q, r, s, l, m, n) ==
    /\ Len(s) = l + (m - n)
    /\ \A k \in 1 .. l : s[k] = q[k]
    /\ \A j \in 1 .. m - n : s[l + j] = r[n + j]

LEMMA SwapIs ==
    ASSUME NEW S, NEW p \in Seq(S), NEW q \in Seq(S), NEW r \in Seq(S), Starts(p, r)
    PROVE  /\ Swap(p, q, r) \in Seq(S)
           /\ IsSwap(p, q, r, Swap(p, q, r), Len(q), Len(r), Len(p))
<1> DEFINE t == SubSeq(r, Len(p) + 1, Len(r))
<1>1. PICK n \in Nat, m \in Nat, l \in Nat : n = Len(p) /\ m = Len(r) /\ l = Len(q)
  OBVIOUS
<1>2. n <= m
  BY <1>1 DEF Starts
<1>3. /\ t \in Seq(S) /\ Len(t) = m - n
      /\ \A j \in 1 .. m - n : t[j] = r[n + j]
  <2>1. \A i \in n + 1 .. m : i \in 1 .. m /\ r[i] \in S
    BY <1>1
  <2>2. /\ SubSeq(r, n + 1, m) \in Seq(S)
        /\ Len(SubSeq(r, n + 1, m)) = IF n + 1 <= m THEN m - (n + 1) + 1 ELSE 0
        /\ \A j \in 1 .. m - (n + 1) + 1 :
              SubSeq(r, n + 1, m)[j] = r[(n + 1) + j - 1]
    <3>1. n + 1 \in Int /\ m \in Int
      OBVIOUS
    <3> QED
      BY <2>1, <3>1, SubSeqProperties
  <2>3. /\ (IF n + 1 <= m THEN m - (n + 1) + 1 ELSE 0) = m - n
        /\ m - (n + 1) + 1 = m - n
        /\ \A j \in 1 .. m - n : (n + 1) + j - 1 = n + j
    BY <1>2
  <2> QED
    BY <1>1, <2>2, <2>3
<1> HIDE DEF t
<1>4. /\ q \o t \in Seq(S) /\ Len(q \o t) = l + (m - n)
      /\ \A i \in 1 .. l + (m - n) : (q \o t)[i] = IF i <= l THEN q[i] ELSE t[i - l]
  <2>1. /\ q \o t \in Seq(S) /\ Len(q \o t) = Len(q) + Len(t)
        /\ \A i \in 1 .. Len(q) + Len(t) :
              (q \o t)[i] = IF i <= Len(q) THEN q[i] ELSE t[i - Len(q)]
    BY <1>3, ConcatProperties
  <2>2. Len(q) = l /\ Len(t) = m - n
    BY <1>1, <1>3
  <2> QED
    BY <2>1, <2>2, Zenon
<1>5. \A k \in 1 .. l : (q \o t)[k] = q[k]
  BY <1>2, <1>4
<1>6. \A j \in 1 .. m - n : (q \o t)[l + j] = r[n + j]
  <2> TAKE j \in 1 .. m - n
  <2>1. l + j \in 1 .. l + (m - n) /\ ~(l + j <= l) /\ (l + j) - l = j
    OBVIOUS
  <2> QED
    BY <1>3, <1>4, <2>1
<1> QED
  BY <1>1, <1>4, <1>5, <1>6 DEF Swap, t, IsSwap

LEMMA SwapsBack ==
    ASSUME NEW S, NEW p \in Seq(S), NEW q \in Seq(S), NEW r \in Seq(S), Starts(p, r)
    PROVE  LET s == Swap(p, q, r)
           IN  /\ s \in Seq(S) /\ Starts(q, s) /\ Swap(q, p, s) = r
               /\ r = p => s = q
               /\ r # p => /\ r # <<>> /\ s # <<>> /\ s # q
                           /\ Front(s) = Swap(p, q, Front(r)) /\ Last(s) = Last(r)
<1> DEFINE s == Swap(p, q, r)
<1>1. PICK n \in Nat, m \in Nat, l \in Nat : n = Len(p) /\ m = Len(r) /\ l = Len(q)
  OBVIOUS
<1>2. n <= m /\ \A k \in 1 .. n : p[k] = r[k]
  BY <1>1 DEF Starts
<1>3. /\ s \in Seq(S) /\ Len(s) = l + (m - n)
      /\ \A k \in 1 .. l : s[k] = q[k]
      /\ \A j \in 1 .. m - n : s[l + j] = r[n + j]
  <2>1. s \in Seq(S) /\ IsSwap(p, q, r, s, l, m, n)
    BY <1>1, SwapIs
  <2> HIDE DEF s
  <2> QED
    BY <2>1 DEF IsSwap
<1> HIDE DEF s
<1>4. Starts(q, s)
  BY <1>1, <1>2, <1>3 DEF Starts
<1>5. Swap(q, p, s) = r
  <2> DEFINE u == Swap(q, p, s)
  <2>1. /\ u \in Seq(S) /\ Len(u) = n + (l + (m - n) - l)
        /\ \A k \in 1 .. n : u[k] = p[k]
        /\ \A j \in 1 .. l + (m - n) - l : u[n + j] = s[l + j]
    <3>1. u \in Seq(S) /\ IsSwap(q, p, s, u, n, l + (m - n), l)
      BY <1>1, <1>3, <1>4, SwapIs
    <3> HIDE DEF u
    <3> QED
      BY <3>1 DEF IsSwap
  <2> HIDE DEF u
  <2>2. Len(u) = m /\ l + (m - n) - l = m - n
    BY <1>2, <2>1
  <2>3. \A k \in 1 .. m : u[k] = r[k]
    <3> TAKE k \in 1 .. m
    <3>1. CASE k <= n
      BY <1>2, <2>1, <3>1
    <3>2. CASE ~(k <= n)
      <4>1. k - n \in 1 .. m - n /\ n + (k - n) = k
        BY <3>2
      <4> QED
        BY <1>3, <2>1, <2>2, <4>1
    <3> QED
      BY <3>1, <3>2
  <2>4. u = r
    BY <1>1, <2>1, <2>2, <2>3, SeqEqual
  <2> QED
    BY <2>4 DEF u
<1>6. ASSUME r = p PROVE s = q
  <2>1. m = n /\ Len(s) = l
    BY <1>1, <1>3, <1>6
  <2> QED
    BY <1>1, <1>3, <2>1, SeqEqual
<1>7. ASSUME r # p
      PROVE  /\ r # <<>> /\ s # <<>> /\ s # q
             /\ Front(s) = Swap(p, q, Front(r)) /\ Last(s) = Last(r)
  <2>1. n < m
    <3>1. n # m
      BY <1>1, <1>2, <1>7, SeqEqual
    <3> QED
      BY <1>2, <3>1
  <2>2. r # <<>> /\ s # <<>> /\ s # q
    BY <1>1, <1>3, <2>1
  <2>3. /\ Front(r) \in Seq(S) /\ Len(Front(r)) = m - 1
        /\ \A k \in 1 .. m - 1 : r[k] = Front(r)[k]
    BY <1>1, <2>2, FrontProps
  <2>4. /\ Front(s) \in Seq(S) /\ Len(Front(s)) = l + (m - n) - 1
        /\ \A k \in 1 .. l + (m - n) - 1 : s[k] = Front(s)[k]
    <3>1. /\ Front(s) \in Seq(S) /\ Len(Front(s)) = Len(s) - 1
          /\ \A k \in 1 .. Len(s) - 1 : s[k] = Front(s)[k]
      BY <1>3, <2>2, FrontProps
    <3> QED
      BY <1>3, <3>1
  <2>5. Starts(p, Front(r))
    BY <1>7, <2>2, StartsIs
  <2> DEFINE u == Swap(p, q, Front(r))
  <2>6. /\ u \in Seq(S) /\ Len(u) = l + (m - 1 - n)
        /\ \A k \in 1 .. l : u[k] = q[k]
        /\ \A j \in 1 .. m - 1 - n : u[l + j] = Front(r)[n + j]
    <3>1. u \in Seq(S) /\ IsSwap(p, q, Front(r), u, l, m - 1, n)
      BY <1>1, <2>3, <2>5, SwapIs
    <3> HIDE DEF u
    <3> QED
      BY <3>1 DEF IsSwap
  <2> HIDE DEF u
  <2>7. \A k \in 1 .. l + (m - n) - 1 : Front(s)[k] = u[k]
    <3> TAKE k \in 1 .. l + (m - n) - 1
    <3>1. CASE k <= l
      BY <1>3, <2>4, <2>6, <3>1
    <3>2. CASE ~(k <= l)
      <4>1. /\ k - l \in 1 .. m - 1 - n /\ k - l \in 1 .. m - n /\ l + (k - l) = k
            /\ n + (k - l) \in 1 .. m - 1
        BY <2>1, <3>2
      <4>2. Front(s)[k] = s[k] /\ s[k] = r[n + (k - l)]
        BY <1>3, <2>4, <4>1
      <4>3. u[k] = Front(r)[n + (k - l)] /\ r[n + (k - l)] = Front(r)[n + (k - l)]
        BY <2>3, <2>6, <4>1
      <4> QED
        BY <4>2, <4>3
    <3> QED
      BY <3>1, <3>2
  <2>8. Front(s) = u
    <3>1. l + (m - n) - 1 = l + (m - 1 - n)
      BY <2>1
    <3> QED
      BY <2>4, <2>6, <2>7, <3>1, SeqEqual
  <2>9. Last(s) = Last(r)
    <3>1. m - n \in 1 .. m - n /\ n + (m - n) = m
      BY <2>1
    <3>2. s[l + (m - n)] = r[m]
      BY <1>3, <3>1
    <3> QED
      BY <1>1, <1>3, <3>2 DEF Last
  <2> QED
    BY <2>2, <2>8, <2>9 DEF u
<1> QED
  BY <1>3, <1>4, <1>5, <1>6, <1>7 DEF s

-----------------------------------------------------------------------------
(***************************************************************************)
(* How a change of the lists changes the walks.                            *)
(***************************************************************************)
\* What starts at the root and takes the steps of a walk is the walk.
TakesSteps(ty, nm, sub, W) ==
    /\ W[<<>>] = RootDir
    /\ \A q \in Seq(Names) : q # <<>> =>
          W[q] = StepIn(ty, nm, sub, W[Front(q)], Last(q))
LEMMA WalkIs ==
    ASSUME NEW ty, NEW nm, NEW sub, NEW W, TakesSteps(ty, nm, sub, W)
    PROVE  \A q \in Seq(Names) : WalkIn(ty, nm, sub, q) = W[q]
<1> DEFINE V(q) == WalkIn(ty, nm, sub, q)
           C == {n \in Nat : \E q \in Seq(Names) : n = Len(q) /\ V(q) # W[q]}
<1>1. SUFFICES ASSUME C # {} PROVE FALSE
  <2>1. \A q \in Seq(Names) : Len(q) \in Nat
    OBVIOUS
  <2> HIDE DEF V
  <2>2. C = {} => \A q \in Seq(Names) : V(q) = W[q]
    BY <2>1
  <2> QED
    BY <2>2 DEF V
<1>2. PICK n \in C : \A m \in C : n <= m
  <2>1. C \in SUBSET Nat
    OBVIOUS
  <2> HIDE DEF C
  <2> QED
    BY <1>1, <2>1, LeastNumber
<1>3. PICK q \in Seq(Names) : n = Len(q) /\ V(q) # W[q]
  BY <1>2
<1>4. q # <<>>
  BY <1>3, WalkSteps DEF TakesSteps
<1>5. V(q) = StepIn(ty, nm, sub, V(Front(q)), Last(q))
  BY <1>4, WalkSteps
<1>6. Front(q) \in Seq(Names) /\ Len(Front(q)) = n - 1 /\ n - 1 \in Nat
  BY <1>3, <1>4, FrontProps
<1> HIDE DEF V
<1>7. V(Front(q)) = W[Front(q)]
  <2>1. n - 1 \notin C
    BY <1>2, <1>6
  <2> QED
    BY <1>6, <2>1
<1> QED
  BY <1>3, <1>4, <1>5, <1>7 DEF TakesSteps

\* No path leads through what has nothing on its list.
LEMMA NothingBeyond ==
    ASSUME NEW ty, NEW nm, NEW sub, NEW p \in Seq(Names),
           \A x \in Names : StepIn(ty, nm, sub, WalkIn(ty, nm, sub, p), x) = NoFile
    PROVE  \A q \in Seq(Names) : Starts(p, q) /\ q # p => WalkIn(ty, nm, sub, q) = NoFile
<1> DEFINE V(q) == WalkIn(ty, nm, sub, q)
           W == [q \in Seq(Names) |-> IF Starts(p, q) /\ q # p THEN NoFile ELSE V(q)]
<1>1. W[<<>>] = RootDir
  <2>1. <<>> \in Seq(Names) /\ V(<<>>) = RootDir
    BY WalkSteps
  <2>2. Starts(p, <<>>) => p = <<>>
    BY DEF Starts
  <2> HIDE DEF V
  <2> QED
    BY <2>1, <2>2
<1>2. ASSUME NEW q \in Seq(Names), q # <<>>
      PROVE  W[q] = StepIn(ty, nm, sub, W[Front(q)], Last(q))
  <2>1. V(q) = StepIn(ty, nm, sub, V(Front(q)), Last(q))
    BY <1>2, WalkSteps
  <2>2. /\ Front(q) \in Seq(Names) /\ Last(q) \in Names
        /\ Starts(p, q) <=> p = q \/ Starts(p, Front(q))
        /\ ~Starts(q, Front(q))
    BY <1>2, StartsIs, FrontProps
  <2>3. \A x : StepIn(ty, nm, sub, NoFile, x) = NoFile
    BY RootIsNoFile DEF StepIn, Lists
  <2>4. StepIn(ty, nm, sub, V(p), Last(q)) = NoFile
    BY <2>2
  <2> HIDE DEF V
  <2> QED
    BY <1>2, <2>1, <2>2, <2>3, <2>4
<1>3. \A q \in Seq(Names) : V(q) = W[q]
  <2> HIDE DEF W
  <2>1. TakesSteps(ty, nm, sub, W)
    BY <1>1, <1>2 DEF TakesSteps
  <2> QED
    BY <2>1, WalkIs
<1> HIDE DEF V
<1>4. \A q \in Seq(Names) : Starts(p, q) /\ q # p => V(q) = NoFile
  BY <1>3
<1> QED
  BY <1>4 DEF V

\* What is on the list of d, under the name x.
On(nm, sub, d, x, f) == f \in Range(sub[d]) /\ nm[f] = x
Tidy(nm, sub) ==
    AreLists(sub) /\ OneList(sub) /\ \A d \in Lists : Apart(nm, sub[d])

LEMMA StepFinds ==
    ASSUME NEW ty, NEW nm, NEW sub, Tidy(nm, sub), NEW d, NEW x, NEW f,
           IsDirIn(ty, d), On(nm, sub, d, x, f)
    PROVE  StepIn(ty, nm, sub, d, x) = f
<1>1. d \in Lists /\ AreLists(sub) /\ Apart(nm, sub[d])
  BY DEF IsDirIn, Lists, Tidy
<1>2. Leads(ty, nm, sub, d, x, StepIn(ty, nm, sub, d, x))
  BY <1>1, Steps
<1>3. PICK j \in DOMAIN sub[d] : sub[d][j] = f
  BY DEF On, Range
<1> DEFINE g == StepIn(ty, nm, sub, d, x)
<1> HIDE DEF g
<1>4. g \in Files
  BY <1>2, <1>3 DEF g, Leads, On
<1>5. PICK k \in DOMAIN sub[d] : sub[d][k] = g
  BY <1>2, <1>4 DEF g, Leads, Range
<1>6. j = k
  BY <1>1, <1>2, <1>3, <1>4, <1>5 DEF g, Leads, On, Apart
<1> QED
  BY <1>3, <1>5, <1>6 DEF g

LEMMA StepMisses ==
    ASSUME NEW ty, NEW nm, NEW sub, AreLists(sub), NEW d, NEW x,
           IsDirIn(ty, d) => \A f \in Files : ~On(nm, sub, d, x, f)
    PROVE  StepIn(ty, nm, sub, d, x) = NoFile
<1>1. Leads(ty, nm, sub, d, x, StepIn(ty, nm, sub, d, x))
  BY Steps
<1> QED
  BY <1>1 DEF Leads, On

\* A step that finds the same before and after.
LEMMA StepStays ==
    ASSUME NEW ty, NEW nm, NEW sub, Tidy(nm, sub),
           NEW ty2, NEW nm2, NEW sub2, Tidy(nm2, sub2), NEW d, NEW x,
           IsDirIn(ty2, d) <=> IsDirIn(ty, d),
           \A f \in Files : On(nm2, sub2, d, x, f) <=> On(nm, sub, d, x, f)
    PROVE  StepIn(ty2, nm2, sub2, d, x) = StepIn(ty, nm, sub, d, x)
<1>0. AreLists(sub) /\ AreLists(sub2)
  BY DEF Tidy
<1>1. CASE IsDirIn(ty, d) /\ \E f \in Files : On(nm, sub, d, x, f)
  <2>1. PICK f \in Files : On(nm, sub, d, x, f)
    BY <1>1
  <2>2. StepIn(ty, nm, sub, d, x) = f
    BY <1>1, <2>1, StepFinds
  <2>3. StepIn(ty2, nm2, sub2, d, x) = f
    BY <1>1, <2>1, StepFinds
  <2> QED
    BY <2>2, <2>3
<1>2. CASE ~(IsDirIn(ty, d) /\ \E f \in Files : On(nm, sub, d, x, f))
  <2>1. StepIn(ty, nm, sub, d, x) = NoFile
    BY <1>0, <1>2, StepMisses
  <2>2. StepIn(ty2, nm2, sub2, d, x) = NoFile
    BY <1>0, <1>2, StepMisses
  <2> QED
    BY <2>1, <2>2
<1> QED
  BY <1>1, <1>2

LEMMA NoFileLeadsNowhere ==
    \A ty, nm, sub, x : StepIn(ty, nm, sub, NoFile, x) = NoFile
BY RootIsNoFile DEF StepIn, Lists

\* Where a walk ends, and that only one leads there.
WalkLaws(ty, nm, sub) ==
    /\ WalkIn(ty, nm, sub, <<>>) = RootDir
    /\ \A p \in Seq(Names) :
          /\ WalkIn(ty, nm, sub, p) \in Lists \cup {NoFile}
          /\ p # <<>> => /\ WalkIn(ty, nm, sub, p) \in Files \cup {NoFile}
                         /\ Front(p) \in Seq(Names) /\ Last(p) \in Names
                         /\ WalkIn(ty, nm, sub, p)
                              = StepIn(ty, nm, sub,
                                       WalkIn(ty, nm, sub, Front(p)), Last(p))
    /\ \A p, q \in Seq(Names) :
          WalkIn(ty, nm, sub, p) = WalkIn(ty, nm, sub, q)
            /\ WalkIn(ty, nm, sub, p) # NoFile => p = q
    /\ \A p, q \in Seq(Names) :
          /\ Starts(p, q) /\ WalkIn(ty, nm, sub, p) = NoFile
          => WalkIn(ty, nm, sub, q) = NoFile
LEMMA WalkFacts ==
    ASSUME NEW ty, NEW nm, NEW sub, Tidy(nm, sub)
    PROVE  WalkLaws(ty, nm, sub)
<1>1. AreLists(sub) /\ OneList(sub)
  BY DEF Tidy
<1>2. WalkIn(ty, nm, sub, <<>>) = RootDir
  BY WalkSteps
<1>3. ASSUME NEW p \in Seq(Names)
      PROVE  /\ WalkIn(ty, nm, sub, p) \in Lists \cup {NoFile}
             /\ p # <<>> => /\ WalkIn(ty, nm, sub, p) \in Files \cup {NoFile}
                            /\ Front(p) \in Seq(Names) /\ Last(p) \in Names
                            /\ WalkIn(ty, nm, sub, p)
                                 = StepIn(ty, nm, sub,
                                          WalkIn(ty, nm, sub, Front(p)), Last(p))
  BY <1>1, <1>2, WalkEnds, WalkSteps, FrontProps DEF Lists
<1>4. ASSUME NEW p \in Seq(Names), NEW q \in Seq(Names),
             WalkIn(ty, nm, sub, p) = WalkIn(ty, nm, sub, q),
             WalkIn(ty, nm, sub, p) # NoFile
      PROVE  p = q
  BY <1>1, <1>4, OnePath
<1>5. ASSUME NEW p \in Seq(Names), NEW q \in Seq(Names),
             Starts(p, q), WalkIn(ty, nm, sub, p) = NoFile
      PROVE  WalkIn(ty, nm, sub, q) = NoFile
  BY <1>5, NoFileLeadsNowhere, NothingBeyond
<1> QED
  BY <1>2, <1>3, <1>4, <1>5 DEF WalkLaws

\* f appears at path; is gone from path; is taken from one path to another.
AddsAt(ty, nm, sub, ty2, nm2, sub2, path, f) ==
    LET d == WalkIn(ty, nm, sub, Front(path))
    IN  /\ IsDirIn(ty, d) /\ WalkIn(ty, nm, sub, path) = NoFile
        /\ nm2[f] = Last(path) /\ Range(sub2[f]) = {}
        /\ \A g \in Files \ {f} : nm2[g] = nm[g] /\ ty2[g] = ty[g]
        /\ \A e \in Lists :
              /\ f \notin Range(sub[e])
              /\ Range(sub2[e]) = IF e = d THEN Range(sub[e]) \cup {f}
                                  ELSE Range(sub[e])
DropsAt(ty, nm, sub, ty2, nm2, sub2, path, f) ==
    /\ WalkIn(ty, nm, sub, path) = f /\ Range(sub[f]) = {}
    /\ \A g \in Files \ {f} : nm2[g] = nm[g] /\ ty2[g] = ty[g]
    /\ \A e \in Lists : Range(sub2[e]) = Range(sub[e]) \ {f}
MovesTo(ty, nm, sub, nm2, sub2, from, to, f) ==
    LET d == WalkIn(ty, nm, sub, Front(to))
    IN  /\ WalkIn(ty, nm, sub, from) = f /\ WalkIn(ty, nm, sub, to) = NoFile
        /\ ~Starts(from, to) /\ ~Starts(to, from) /\ IsDirIn(ty, d)
        /\ nm2[f] = Last(to)
        /\ \A g \in Files \ {f} : nm2[g] = nm[g]
        /\ \A e \in Lists : Range(sub2[e]) = IF e = d THEN Range(sub[e]) \cup {f}
                                             ELSE Range(sub[e]) \ {f}

LEMMA WalksAdd ==
    ASSUME NEW ty, NEW nm, NEW sub, Tidy(nm, sub),
           NEW ty2, NEW nm2, NEW sub2, Tidy(nm2, sub2),
           NEW path \in Seq(Names), path # <<>>, NEW f \in Files,
           AddsAt(ty, nm, sub, ty2, nm2, sub2, path, f)
    PROVE  \A q \in Seq(Names) :
              WalkIn(ty2, nm2, sub2, q) = IF q = path THEN f ELSE WalkIn(ty, nm, sub, q)
<1> DEFINE V(q) == WalkIn(ty, nm, sub, q)
           W == [q \in Seq(Names) |-> IF q = path THEN f ELSE V(q)]
           d == V(Front(path))
<1>1. /\ V(<<>>) = RootDir
      /\ \A p \in Seq(Names) :
            /\ V(p) \in Lists \cup {NoFile}
            /\ p # <<>> => /\ V(p) \in Files \cup {NoFile}
                           /\ Front(p) \in Seq(Names) /\ Last(p) \in Names
                           /\ V(p) = StepIn(ty, nm, sub, V(Front(p)), Last(p))
      /\ \A p, q \in Seq(Names) : V(p) = V(q) /\ V(p) # NoFile => p = q
  <2>1. WalkLaws(ty, nm, sub)
    BY WalkFacts
  <2> QED
    BY <2>1 DEF WalkLaws
<1>2. AreLists(sub) /\ AreLists(sub2) /\ f # NoFile /\ f # RootDir
  BY RootIsNoFile DEF Tidy, Lists
<1>3. \A q \in Seq(Names) : V(q) # f
  <2> TAKE q \in Seq(Names)
  <2>1. q # <<>> /\ V(q) \in Files => \E e \in Lists : V(q) \in Range(sub[e])
    BY <1>2, WalkEnds
  <2>2. \A e \in Lists : f \notin Range(sub[e])
    BY DEF AddsAt
  <2> HIDE DEF V
  <2> QED
    BY <1>1, <1>2, <2>1, <2>2
<1>4. IsDirIn(ty, d) /\ d \in Lists /\ d # NoFile /\ d # f
  <2>1. IsDirIn(ty, d)
    BY DEF AddsAt
  <2>2. Front(path) \in Seq(Names)
    BY <1>1
  <2> HIDE DEF V
  <2> QED
    BY <1>1, <1>3, <2>1, <2>2, RootIsNoFile DEF IsDirIn, Lists
<1>5. V(path) = NoFile /\ nm2[f] = Last(path)
      /\ \A g \in Files \ {f} : nm2[g] = nm[g]
  BY DEF AddsAt
<1>6. \A e \in Lists \ {f} : IsDirIn(ty2, e) <=> IsDirIn(ty, e)
  BY DEF IsDirIn, Lists, AddsAt
<1>7. /\ \A e \in Lists : Range(sub2[e]) = IF e = d THEN Range(sub[e]) \cup {f}
                                         ELSE Range(sub[e])
      /\ \A e \in Lists : f \notin Range(sub[e])
      /\ \A e \in Lists : Range(sub[e]) \subseteq Files
  BY <1>2, RangeIsIn DEF AreLists, AddsAt
<1> HIDE DEF V, d
<1>8. ASSUME NEW e \in Lists \ {f}, NEW x, e # d \/ x # Last(path)
      PROVE  StepIn(ty2, nm2, sub2, e, x) = StepIn(ty, nm, sub, e, x)
  <2>1. \A g \in Files : On(nm2, sub2, e, x, g) <=> On(nm, sub, e, x, g)
    BY <1>5, <1>7, <1>8 DEF On
  <2> QED
    BY <1>6, <2>1, StepStays
<1>9. StepIn(ty2, nm2, sub2, d, Last(path)) = f
  <2>1. On(nm2, sub2, d, Last(path), f)
    BY <1>4, <1>5, <1>7 DEF On
  <2>2. IsDirIn(ty2, d)
    BY <1>4, <1>6
  <2> QED
    BY <2>1, <2>2, StepFinds
<1>10. \A x : StepIn(ty2, nm2, sub2, f, x) = NoFile
  BY <1>2, StepMisses DEF On, AddsAt
<1>11. W[<<>>] = RootDir
  <2>1. <<>> \in Seq(Names)
    OBVIOUS
  <2> QED
    BY <1>1, <2>1
<1>12. ASSUME NEW q \in Seq(Names), q # <<>>
       PROVE  W[q] = StepIn(ty2, nm2, sub2, W[Front(q)], Last(q))
  <2>1. /\ Front(q) \in Seq(Names) /\ Last(q) \in Names
        /\ V(q) = StepIn(ty, nm, sub, V(Front(q)), Last(q))
    BY <1>1, <1>12
  <2>2. Front(path) # path
    BY FrontProps
  <2>3. CASE q = path
    BY <1>9, <2>1, <2>2, <2>3 DEF d
  <2>4. CASE q # path /\ Front(q) = path
    BY <1>5, <1>10, <2>1, <2>4, NoFileLeadsNowhere
  <2>5. CASE q # path /\ Front(q) # path
    <3> DEFINE e == V(Front(q))
    <3>1. W[q] = V(q) /\ W[Front(q)] = e
      BY <2>1, <2>5
    <3>2. e \in Lists \cup {NoFile} /\ e # f
      BY <1>1, <1>3, <2>1
    <3>3. e # d \/ Last(q) # Last(path)
      <4>1. Front(path) \in Seq(Names)
        BY <1>1
      <4>2. e = d => Front(q) = Front(path)
        BY <1>1, <1>4, <2>1, <4>1 DEF d
      <4> QED
        BY <1>12, <2>5, <4>2, SameFrontAndLast
    <3> HIDE DEF W, e
    <3>4. CASE e = NoFile
      BY <2>1, <3>1, <3>4, NoFileLeadsNowhere DEF e
    <3>5. CASE e # NoFile
      BY <1>8, <2>1, <3>1, <3>2, <3>3, <3>5 DEF e
    <3> QED
      BY <3>4, <3>5
  <2> QED
    BY <2>3, <2>4, <2>5
<1>13. \A q \in Seq(Names) : WalkIn(ty2, nm2, sub2, q) = W[q]
  <2> HIDE DEF W
  <2>1. TakesSteps(ty2, nm2, sub2, W)
    BY <1>11, <1>12 DEF TakesSteps
  <2> QED
    BY <2>1, WalkIs
<1> QED
  BY <1>13 DEF V

LEMMA WalksDrop ==
    ASSUME NEW ty, NEW nm, NEW sub, Tidy(nm, sub),
           NEW ty2, NEW nm2, NEW sub2, Tidy(nm2, sub2),
           NEW path \in Seq(Names), path # <<>>, NEW f \in Files,
           DropsAt(ty, nm, sub, ty2, nm2, sub2, path, f)
    PROVE  \A q \in Seq(Names) :
              /\ Starts(path, q) /\ q # path => WalkIn(ty, nm, sub, q) = NoFile
              /\ WalkIn(ty2, nm2, sub2, q)
                   = IF q = path THEN NoFile ELSE WalkIn(ty, nm, sub, q)
<1> DEFINE V(q) == WalkIn(ty, nm, sub, q)
           W == [q \in Seq(Names) |-> IF q = path THEN NoFile ELSE V(q)]
           d == V(Front(path))
<1>1. /\ V(<<>>) = RootDir
      /\ \A p \in Seq(Names) :
            /\ V(p) \in Lists \cup {NoFile}
            /\ p # <<>> => /\ V(p) \in Files \cup {NoFile}
                           /\ Front(p) \in Seq(Names) /\ Last(p) \in Names
                           /\ V(p) = StepIn(ty, nm, sub, V(Front(p)), Last(p))
      /\ \A p, q \in Seq(Names) : V(p) = V(q) /\ V(p) # NoFile => p = q
  <2>1. WalkLaws(ty, nm, sub)
    BY WalkFacts
  <2> QED
    BY <2>1 DEF WalkLaws
<1>2. AreLists(sub) /\ AreLists(sub2) /\ f # NoFile /\ f # RootDir /\ OneList(sub)
  BY RootIsNoFile DEF Tidy, Lists
<1>3. /\ IsDirIn(ty, d) /\ d \in Lists /\ f \in Range(sub[d]) /\ nm[f] = Last(path)
      /\ V(path) = f /\ d # NoFile
  BY <1>2, WalkEnds, RootIsNoFile DEF DropsAt
<1>4. \A e \in Lists \ {f} : IsDirIn(ty2, e) <=> IsDirIn(ty, e)
  BY DEF IsDirIn, Lists, DropsAt
<1>5. /\ \A e \in Lists : Range(sub2[e]) = Range(sub[e]) \ {f}
      /\ \A g \in Files \ {f} : nm2[g] = nm[g]
      /\ Range(sub[f]) = {} /\ d # f
  BY <1>3 DEF DropsAt
<1> HIDE DEF V, d
<1>6. \A x : StepIn(ty, nm, sub, f, x) = NoFile
  BY <1>2, <1>5, StepMisses DEF On
<1>7. ASSUME NEW q \in Seq(Names), Starts(path, q), q # path PROVE V(q) = NoFile
  BY <1>3, <1>6, <1>7, NothingBeyond DEF V
<1>8. ASSUME NEW e \in Lists \ {f}, NEW x, e # d \/ x # Last(path)
      PROVE  StepIn(ty2, nm2, sub2, e, x) = StepIn(ty, nm, sub, e, x)
  <2>1. e # d => f \notin Range(sub[e])
    BY <1>2, <1>3 DEF OneList
  <2>2. \A g \in Files : On(nm2, sub2, e, x, g) <=> On(nm, sub, e, x, g)
    BY <1>3, <1>5, <1>8, <2>1 DEF On
  <2> QED
    BY <1>4, <2>2, StepStays
<1>9. StepIn(ty2, nm2, sub2, d, Last(path)) = NoFile
  <2>1. ASSUME NEW g \in Files, On(nm2, sub2, d, Last(path), g) PROVE FALSE
    <3>1. g # f /\ On(nm, sub, d, Last(path), g) /\ On(nm, sub, d, Last(path), f)
      BY <1>3, <1>5, <2>1 DEF On
    <3>2. StepIn(ty, nm, sub, d, Last(path)) = g
      BY <1>3, <3>1, StepFinds
    <3>3. StepIn(ty, nm, sub, d, Last(path)) = f
      BY <1>3, <3>1, StepFinds
    <3> QED
      BY <3>1, <3>2, <3>3
  <2> QED
    BY <1>2, <2>1, StepMisses
<1>10. W[<<>>] = RootDir
  <2>1. <<>> \in Seq(Names)
    OBVIOUS
  <2> QED
    BY <1>1, <2>1
<1>11. ASSUME NEW q \in Seq(Names), q # <<>>
       PROVE  W[q] = StepIn(ty2, nm2, sub2, W[Front(q)], Last(q))
  <2>1. /\ Front(q) \in Seq(Names) /\ Last(q) \in Names
        /\ V(q) = StepIn(ty, nm, sub, V(Front(q)), Last(q))
    BY <1>1, <1>11
  <2>2. Front(path) # path
    BY FrontProps
  <2>3. CASE q = path
    BY <1>9, <2>1, <2>2, <2>3 DEF d
  <2>4. CASE q # path /\ Front(q) = path
    BY <1>3, <1>6, <2>1, <2>4, NoFileLeadsNowhere
  <2>5. CASE q # path /\ Front(q) # path
    <3> DEFINE e == V(Front(q))
    <3>1. W[q] = V(q) /\ W[Front(q)] = e
      BY <2>1, <2>5
    <3>2. e \in Lists \cup {NoFile} /\ e # f
      BY <1>1, <1>2, <1>3, <2>1, <2>5
    <3>3. e # d \/ Last(q) # Last(path)
      <4>1. Front(path) \in Seq(Names)
        BY <1>1
      <4>2. e = d => Front(q) = Front(path)
        BY <1>1, <1>3, <2>1, <4>1 DEF d
      <4> QED
        BY <1>11, <2>5, <4>2, SameFrontAndLast
    <3> HIDE DEF W, e
    <3>4. CASE e = NoFile
      BY <2>1, <3>1, <3>4, NoFileLeadsNowhere DEF e
    <3>5. CASE e # NoFile
      BY <1>8, <2>1, <3>1, <3>2, <3>3, <3>5 DEF e
    <3> QED
      BY <3>4, <3>5
  <2> QED
    BY <2>3, <2>4, <2>5
<1>12. \A q \in Seq(Names) : WalkIn(ty2, nm2, sub2, q) = W[q]
  <2> HIDE DEF W
  <2>1. TakesSteps(ty2, nm2, sub2, W)
    BY <1>10, <1>11 DEF TakesSteps
  <2> QED
    BY <2>1, WalkIs
<1> QED
  BY <1>7, <1>12 DEF V

HasMoved(ty, nm, sub, nm2, sub2, from, to) ==
    \A q \in Seq(Names) :
       WalkIn(ty, nm2, sub2, q)
         = IF Starts(to, q) THEN WalkIn(ty, nm, sub, Swap(to, from, q))
           ELSE IF Starts(from, q) THEN NoFile ELSE WalkIn(ty, nm, sub, q)
LEMMA WalksMove ==
    ASSUME NEW ty, NEW nm, NEW sub, Tidy(nm, sub), NEW nm2, NEW sub2, Tidy(nm2, sub2),
           NEW from \in Seq(Names), NEW to \in Seq(Names), from # <<>>, to # <<>>,
           NEW f \in Files, MovesTo(ty, nm, sub, nm2, sub2, from, to, f)
    PROVE  HasMoved(ty, nm, sub, nm2, sub2, from, to)
<1> DEFINE V(q) == WalkIn(ty, nm, sub, q)
           W == [q \in Seq(Names) |-> IF Starts(to, q) THEN V(Swap(to, from, q))
                                      ELSE IF Starts(from, q) THEN NoFile ELSE V(q)]
           c == V(Front(from))
           d == V(Front(to))
<1>1. /\ V(<<>>) = RootDir
      /\ \A p \in Seq(Names) :
            /\ V(p) \in Lists \cup {NoFile}
            /\ p # <<>> => /\ V(p) \in Files \cup {NoFile}
                           /\ Front(p) \in Seq(Names) /\ Last(p) \in Names
                           /\ V(p) = StepIn(ty, nm, sub, V(Front(p)), Last(p))
      /\ \A p, q \in Seq(Names) : V(p) = V(q) /\ V(p) # NoFile => p = q
  <2>1. WalkLaws(ty, nm, sub)
    BY WalkFacts
  <2> QED
    BY <2>1 DEF WalkLaws
<1>2. AreLists(sub) /\ AreLists(sub2) /\ f # NoFile /\ f # RootDir /\ OneList(sub)
  BY RootIsNoFile DEF Tidy, Lists
<1>3. /\ IsDirIn(ty, c) /\ c \in Lists /\ f \in Range(sub[c]) /\ nm[f] = Last(from)
      /\ V(from) = f /\ c # NoFile
  BY <1>2, WalkEnds, RootIsNoFile DEF MovesTo
<1>4. /\ \A e \in Lists : Range(sub2[e]) = IF e = d THEN Range(sub[e]) \cup {f}
                                           ELSE Range(sub[e]) \ {f}
      /\ \A g \in Files \ {f} : nm2[g] = nm[g]
      /\ nm2[f] = Last(to) /\ IsDirIn(ty, d) /\ V(to) = NoFile
      /\ ~Starts(from, to) /\ ~Starts(to, from)
  BY DEF MovesTo
<1>5. d \in Lists /\ d # NoFile
  BY <1>4, RootIsNoFile DEF IsDirIn, Lists
<1>6. /\ Front(from) \in Seq(Names) /\ Front(to) \in Seq(Names)
      /\ Last(from) \in Names /\ Last(to) \in Names
      /\ ~Starts(from, Front(from)) /\ ~Starts(to, Front(to))
      /\ ~Starts(from, Front(to)) /\ ~Starts(to, Front(from))
      /\ Starts(from, from) /\ Starts(to, to)
  BY <1>1, <1>4, StartsIs
<1> HIDE DEF V, c, d
<1>7. ~(c = d /\ Last(from) = Last(to))
  <2>1. from # to
    BY <1>4, <1>6
  <2>2. c = d => Front(from) = Front(to)
    BY <1>1, <1>3, <1>6 DEF c, d
  <2> QED
    BY <2>1, <2>2, SameFrontAndLast
<1>8. ASSUME NEW e \in Lists, NEW x,
             e # c \/ x # Last(from), e # d \/ x # Last(to)
      PROVE  StepIn(ty, nm2, sub2, e, x) = StepIn(ty, nm, sub, e, x)
  <2>1. e # c => f \notin Range(sub[e])
    BY <1>2, <1>3 DEF OneList
  <2>2. ASSUME NEW g \in Files PROVE On(nm2, sub2, e, x, g) <=> On(nm, sub, e, x, g)
    <3>1. CASE g = f
      BY <1>3, <1>4, <1>8, <2>1, <3>1 DEF On
    <3>2. CASE g # f
      BY <1>4, <3>2 DEF On
    <3> QED
      BY <3>1, <3>2
  <2> QED
    BY <2>2, StepStays
<1>9. StepIn(ty, nm2, sub2, c, Last(from)) = NoFile
  <2>1. ASSUME NEW g \in Files, On(nm2, sub2, c, Last(from), g) PROVE FALSE
    <3>1. g # f
      BY <1>3, <1>4, <1>7, <2>1 DEF On
    <3>2. On(nm, sub, c, Last(from), g) /\ On(nm, sub, c, Last(from), f)
      BY <1>3, <1>4, <2>1, <3>1 DEF On
    <3>3. StepIn(ty, nm, sub, c, Last(from)) = g
      BY <1>3, <3>2, StepFinds
    <3>4. StepIn(ty, nm, sub, c, Last(from)) = f
      BY <1>3, <3>2, StepFinds
    <3> QED
      BY <3>1, <3>3, <3>4
  <2> QED
    BY <1>2, <2>1, StepMisses
<1>10. StepIn(ty, nm2, sub2, d, Last(to)) = f
  <2>1. On(nm2, sub2, d, Last(to), f)
    BY <1>4, <1>5 DEF On
  <2> QED
    BY <1>4, <2>1, StepFinds
<1>11. W[<<>>] = RootDir
  <2>1. <<>> \in Seq(Names)
    OBVIOUS
  <2>2. Len(from) \in Nat \ {0} /\ Len(to) \in Nat \ {0} /\ Len(<<>>) = 0
    OBVIOUS
  <2>3. ~Starts(to, <<>>) /\ ~Starts(from, <<>>)
    BY <2>2 DEF Starts
  <2> QED
    BY <1>1, <2>1, <2>3
<1>12. ASSUME NEW q \in Seq(Names), q # <<>>
       PROVE  W[q] = StepIn(ty, nm2, sub2, W[Front(q)], Last(q))
  <2>1. /\ Front(q) \in Seq(Names) /\ Last(q) \in Names
        /\ V(q) = StepIn(ty, nm, sub, V(Front(q)), Last(q))
    BY <1>1, <1>12
  <2>2. /\ Starts(from, q) <=> from = q \/ Starts(from, Front(q))
        /\ Starts(to, q) <=> to = q \/ Starts(to, Front(q))
    BY <1>12, StartsIs
  <2>3. CASE q = to
    <3>1. Swap(to, from, q) = from
      BY <1>6, <2>3, SwapsBack
    <3>2. W[q] = f
      BY <1>3, <1>6, <2>3, <3>1
    <3>3. W[Front(q)] = d
      BY <1>6, <2>3 DEF d
    <3> QED
      BY <1>10, <2>3, <3>2, <3>3
  <2>4. CASE Starts(to, q) /\ q # to
    <3> DEFINE r == Swap(to, from, q)
               r0 == Swap(to, from, Front(q))
               e == V(r0)
    <3>1. /\ r \in Seq(Names) /\ r # <<>> /\ Front(r) = r0 /\ Last(r) = Last(q)
      BY <2>4, SwapsBack
    <3>2. Starts(to, Front(q)) /\ r0 \in Seq(Names) /\ Starts(from, r0)
      BY <2>1, <2>2, <2>4, SwapsBack
    <3>3. W[q] = V(r) /\ W[Front(q)] = e
      BY <2>1, <2>4, <3>2
    <3> HIDE DEF r, r0
    <3>4. V(r) = StepIn(ty, nm, sub, e, Last(q)) /\ e \in Lists \cup {NoFile}
      BY <1>1, <3>1, <3>2
    <3>5. e # c
      BY <1>1, <1>3, <1>6, <3>2 DEF c
    <3>6. e # d
      BY <1>1, <1>5, <1>6, <3>2 DEF d
    <3> HIDE DEF W, e
    <3>7. CASE e = NoFile
      BY <3>3, <3>4, <3>7, NoFileLeadsNowhere
    <3>8. CASE e # NoFile
      BY <1>8, <3>3, <3>4, <3>5, <3>6, <3>8
    <3> QED
      BY <3>7, <3>8
  <2>5. CASE q = from
    <3>1. W[q] = NoFile
      BY <1>4, <1>6, <2>5
    <3>2. W[Front(q)] = c
      BY <1>6, <2>5 DEF c
    <3> QED
      BY <1>9, <2>5, <3>1, <3>2
  <2>6. CASE ~Starts(to, q) /\ Starts(from, q) /\ q # from
    <3>1. W[q] = NoFile /\ W[Front(q)] = NoFile
      BY <2>1, <2>2, <2>6
    <3> QED
      BY <3>1, NoFileLeadsNowhere
  <2>7. CASE ~Starts(to, q) /\ ~Starts(from, q)
    <3> DEFINE e == V(Front(q))
    <3>1. W[q] = V(q) /\ W[Front(q)] = e
      BY <2>1, <2>2, <2>7
    <3>2. e \in Lists \cup {NoFile}
      BY <1>1, <2>1
    <3>3. e # c \/ Last(q) # Last(from)
      <4>1. e = c => Front(q) = Front(from)
        BY <1>1, <1>3, <1>6, <2>1 DEF c
      <4> QED
        BY <1>6, <1>12, <2>7, <4>1, SameFrontAndLast
    <3>4. e # d \/ Last(q) # Last(to)
      <4>1. e = d => Front(q) = Front(to)
        BY <1>1, <1>5, <1>6, <2>1 DEF d
      <4> QED
        BY <1>6, <1>12, <2>7, <4>1, SameFrontAndLast
    <3> HIDE DEF W, e
    <3>5. CASE e = NoFile
      BY <2>1, <3>1, <3>5, NoFileLeadsNowhere DEF e
    <3>6. CASE e # NoFile
      BY <1>8, <2>1, <3>1, <3>2, <3>3, <3>4, <3>6 DEF e
    <3> QED
      BY <3>5, <3>6
  <2> QED
    BY <2>3, <2>4, <2>5, <2>6, <2>7
<1>13. \A q \in Seq(Names) : WalkIn(ty, nm2, sub2, q) = W[q]
  <2> HIDE DEF W
  <2>1. TakesSteps(ty, nm2, sub2, W)
    BY <1>11, <1>12 DEF TakesSteps
  <2> QED
    BY <2>1, WalkIs
<1> QED
  BY <1>13 DEF V, HasMoved

-----------------------------------------------------------------------------
(***************************************************************************)
(* The map from paths to files.                                            *)
(***************************************************************************)
Sound == IInv /\ ~Broken
Places == {p \in Paths : Lookup(p) # NoFile}
Map == [p \in Places |-> Getattr(p)]
AttrIn(ty, sz, f) ==
    IF ty[f] = "FILE_DIR" THEN DirAttributes ELSE [kind |-> "file", size |-> sz[f]]

LEMMA MapAfter ==
    /\ DOMAIN Map = Places /\ DOMAIN Map' = Places'
    /\ Places' \subseteq Paths
    /\ \A p \in Paths : /\ p \in Places <=> Lookup(p) # NoFile
                        /\ p \in Places' <=> Lookup(p)' # NoFile
                        /\ p # <<>>
                        /\ Lookup(p) \in Files => Getattr(p) = AttrIn(type, size, Lookup(p))
                        /\ Lookup(p)' \in Files =>
                              Getattr(p)' = AttrIn(type', size', Lookup(p)')
    /\ \A p \in Places : Map[p] = Getattr(p)
    /\ \A p \in Places' : Map'[p] = Getattr(p)'
<1>1. ASSUME NEW p \in Paths
      PROVE  /\ p # <<>>
             /\ Lookup(p) \in Files => Getattr(p) = AttrIn(type, size, Lookup(p))
             /\ Lookup(p)' \in Files => Getattr(p)' = AttrIn(type', size', Lookup(p)')
  <2>1. p # <<>>
    BY PathsAre
  <2>2. NoFile \notin Files /\ RootDir \notin Files
    BY RootIsNoFile DEF Lists
  <2>3. Lookup(p) \in Files => Getattr(p) = AttrIn(type, size, Lookup(p))
    BY <2>1, <2>2 DEF Getattr, Attributes, IsDir, AttrIn
  <2>4. Lookup(p)' \in Files => Getattr(p)' = AttrIn(type', size', Lookup(p)')
    BY <2>1, <2>2 DEF Getattr, Attributes, IsDir, AttrIn
  <2> QED
    BY <2>1, <2>3, <2>4
<1> QED
  BY <1>1 DEF Map, Places

\* What holds where the map does.
LEMMA SoundFacts ==
    Sound => /\ Tidy(name, sub_files) /\ BaseInv /\ SoundInv /\ NamedInv /\ RootedInv
             /\ status = "mounted" /\ ~misled /\ ~shadowed
             /\ phantoms = 0 /\ leaked = {} /\ lost = {}
             /\ \A p \in Paths : Lookup(p) \in live \cup {NoFile}
             /\ \A f \in live : \E p \in Paths : Lookup(p) = f
             /\ \A p, q \in Paths : Lookup(p) = Lookup(q) /\ Lookup(p) # NoFile => p = q
<1> SUFFICES ASSUME Sound
             PROVE  /\ Tidy(name, sub_files) /\ BaseInv /\ SoundInv /\ NamedInv
                    /\ RootedInv
                    /\ status = "mounted" /\ ~misled /\ ~shadowed
                    /\ phantoms = 0 /\ leaked = {} /\ lost = {}
                    /\ \A p \in Paths : Lookup(p) \in live \cup {NoFile}
                    /\ \A f \in live : \E p \in Paths : Lookup(p) = f
                    /\ \A p, q \in Paths :
                          Lookup(p) = Lookup(q) /\ Lookup(p) # NoFile => p = q
  OBVIOUS
<1>1. BaseInv /\ SoundInv /\ NamedInv /\ RootedInv /\ IInv
  BY DEF Sound, IInv, BaseInv, SoundInv, NamedInv, RootedInv
<1>2. status = "mounted" /\ ~misled /\ ~shadowed /\ ~(Failures > 0)
  BY DEF Sound, Broken
<1>3. phantoms = 0 /\ leaked = {} /\ lost = {}
  <2>1. IsFiniteSet(leaked) /\ IsFiniteSet(lost) /\ phantoms \in Nat
    BY <1>1, FilesAssumption, SizesAssumption, FS_Subset DEF BaseInv, TypeOK
  <2>2. /\ Cardinality(leaked) \in Nat /\ (Cardinality(leaked) = 0 <=> leaked = {})
        /\ Cardinality(lost) \in Nat /\ (Cardinality(lost) = 0 <=> lost = {})
    BY <2>1, FS_CardinalityType, FS_EmptySet
  <2> QED
    BY <1>2, <2>1, <2>2 DEF Failures
<1>4. Tidy(name, sub_files)
  <2>1. OneList(sub_files)
    BY <1>1, <1>2, ListsAreOne
  <2>2. AreLists(sub_files)
    BY <1>1 DEF BaseInv, TypeOK, AreLists, Lists
  <2> QED
    BY <1>1, <1>2, <2>1, <2>2, NamesAre DEF Tidy, NamedInv
<1>5. ASSUME NEW p \in Paths PROVE Lookup(p) \in live \cup {NoFile}
  <2>1. TypeOK
    BY <1>1 DEF BaseInv
  <2>2. /\ Lookup(p) \in Files \cup {NoFile}
        /\ Lookup(p) \in Files => /\ DirOf(p) \in Lists
                                  /\ Lookup(p) \in Range(sub_files[DirOf(p)])
    BY <2>1, Found
  <2> QED
    BY <1>1, <1>2, <2>2 DEF BaseInv, ListedAreLive, Lists
<1>6. ASSUME NEW f \in live PROVE \E p \in Paths : Lookup(p) = f
  BY <1>1, <1>2, <1>3, AreReached DEF IsReached
<1>7. ASSUME NEW p \in Paths, NEW q \in Paths, Lookup(p) = Lookup(q),
             Lookup(p) # NoFile
      PROVE  p = q
  <2>1. AreLists(sub_files) /\ OneList(sub_files)
    BY <1>4 DEF Tidy
  <2>2. p \in Seq(Names) /\ q \in Seq(Names)
    BY PathsAre
  <2> QED
    BY <1>7, <2>1, <2>2, Walks, OnePath
<1> QED
  BY <1>1, <1>2, <1>3, <1>4, <1>5, <1>6, <1>7

\* The map takes of the disk what is counted.
LEMMA UsedIs == Sound => Namespace!Used(Map) <= MaxSize
<1> SUFFICES ASSUME Sound PROVE Namespace!Used(Map) <= MaxSize
  OBVIOUS
<1>1. /\ BaseInv /\ phantoms = 0 /\ lost = {}
      /\ \A p \in Paths : Lookup(p) \in live \cup {NoFile}
      /\ \A f \in live : \E p \in Paths : Lookup(p) = f
      /\ \A p, q \in Paths : Lookup(p) = Lookup(q) /\ Lookup(p) # NoFile => p = q
  BY SoundFacts
<1>2. /\ live \in SUBSET Files /\ AreSizes(size) /\ IsFiniteSet(live)
      /\ current_size \in 0 .. MaxSize /\ MaxSize \in Nat /\ DirSize \in Nat
  BY <1>1, FilesAssumption, SizesAssumption, FS_Subset DEF BaseInv, TypeOK, AreSizes
<1>3. current_size = Total(live, type, size)
  <2>1. current_size = Total(live, type, size) + phantoms * DirSize
    BY <1>1, QuotaIs DEF BaseInv, Paid
  <2>2. Total(live, type, size) \in Nat
    BY <1>2, TotalIs
  <2> QED
    BY <1>1, <1>2, <2>1, <2>2
<1> DEFINE sizes == [p \in DOMAIN Map |-> Map[p].size]
           b == [f \in live |-> CHOOSE p \in Paths : Lookup(p) = f]
<1>4. \A f \in live : b[f] \in Places /\ Lookup(b[f]) = f
  <2>1. NoFile \notin live
    BY <1>2, RootIsNoFile DEF Lists
  <2> QED
    BY <1>1, <2>1 DEF Places
<1>5. {b[f] : f \in live} = Places
  <2>1. ASSUME NEW p \in Places PROVE Lookup(p) \in live /\ b[Lookup(p)] = p
    BY <1>1, <1>4, <2>1 DEF Places
  <2> HIDE DEF b
  <2> QED
    BY <1>4, <2>1
<1>6. DOMAIN Map = Places /\ DOMAIN sizes = Places
  BY DEF Map
<1>7. ASSUME NEW f \in live
      PROVE  Costs(type, size)[f] \in Int /\ sizes[b[f]] = Costs(type, size)[f]
  <2>1. f \in Files /\ b[f] \in Paths /\ b[f] \in Places /\ Lookup(b[f]) = f
    BY <1>2, <1>4 DEF Places
  <2> HIDE DEF b
  <2>2. sizes[b[f]] = AttrIn(type, size, f).size
    BY <1>6, <2>1, MapAfter
  <2>3. AttrIn(type, size, f).size = CostIn(type, size, f)
    BY DEF AttrIn, DirAttributes, CostIn
  <2> QED
    BY <1>2, <2>1, <2>2, <2>3, CostsAreNumbers
<1> HIDE DEF b, sizes
<1>8. SumFunctionOnSet(sizes, Places) = SumFunctionOnSet(Costs(type, size), live)
  <2>1. \A f, g \in live : b[f] = b[g] => f = g
    BY <1>4
  <2>2. SumFunctionOnSet(sizes, {b[f] : f \in live})
          = SumFunctionOnSet(Costs(type, size), live)
    BY <1>2, <1>7, <2>1, SumMapped
  <2> QED
    BY <1>5, <2>2
<1>9. Namespace!Used(Map) = SumFunctionOnSet(sizes, Places)
  <2>1. Namespace!Used(Map) = Namespace!SumFunctionOnSet(sizes, DOMAIN sizes)
    BY DEF Namespace!Used, Namespace!SumFunction, sizes
  <2>2. Namespace!SumFunctionOnSet(sizes, Places) = SumFunctionOnSet(sizes, Places)
    BY DEF Namespace!SumFunctionOnSet, Namespace!FoldFunctionOnSet,
           Namespace!MapThenFoldSet,
           SumFunctionOnSet, FoldFunctionOnSet, MapThenFoldSet
  <2> QED
    BY <1>6, <2>1, <2>2
<1> QED
  BY <1>2, <1>3, <1>8, <1>9 DEF Total

-----------------------------------------------------------------------------
(***************************************************************************)
(* Each handler takes the step of the map that its user expects.           *)
(***************************************************************************)
LEMMA NamespaceTerms ==
    /\ \A p, q \in Seq(Names) :
          /\ Namespace!IsPrefix(p, q) <=> Starts(p, q)
          /\ Namespace!IsStrictPrefix(p, q) <=> Starts(p, q) /\ p # q
          /\ \A r \in Seq(Names) :
                Namespace!Moved(p, q, r) = IF Starts(p, r) THEN Swap(p, q, r) ELSE r
    /\ \A p : Namespace!Front(p) = Front(p)
    /\ Namespace!Directory = DirAttributes
    /\ \A n : Namespace!File(n) = [kind |-> "file", size |-> n]
<1>1. \A p, q \in Seq(Names) : Namespace!IsPrefix(p, q) <=> Starts(p, q)
  <2>1. \A p, q \in Seq(Names) : IsPrefix(p, q) <=> Starts(p, q)
    BY PrefixIs
  <2> QED
    BY <2>1 DEF IsPrefix, Namespace!IsPrefix
<1>2. \A p, q \in Seq(Names) : Namespace!IsStrictPrefix(p, q) <=> Starts(p, q) /\ p # q
  BY <1>1 DEF Namespace!IsStrictPrefix
<1>3. \A p, q, r \in Seq(Names) :
         Namespace!Moved(p, q, r) = IF Starts(p, r) THEN Swap(p, q, r) ELSE r
  BY <1>1 DEF Namespace!Moved, Swap
<1>4. /\ \A p : Namespace!Front(p) = Front(p)
      /\ Namespace!Directory = DirAttributes
      /\ \A n : Namespace!File(n) = [kind |-> "file", size |-> n]
  BY DEF Namespace!Front, Front, Namespace!Directory, DirAttributes, Namespace!File
<1> QED
  BY <1>1, <1>2, <1>3, <1>4

LEMMA SoundAfter ==
    Sound' => /\ Tidy(name', sub_files')
              /\ \A p \in Paths : Lookup(p)' \in live' \cup {NoFile}
              /\ Namespace!Used(Map') <= MaxSize
              /\ status' = "mounted" /\ phantoms' = 0 /\ leaked' = {} /\ lost' = {}
<1>1. Sound => /\ Tidy(name, sub_files)
               /\ \A p \in Paths : Lookup(p) \in live \cup {NoFile}
               /\ Namespace!Used(Map) <= MaxSize
               /\ status = "mounted" /\ phantoms = 0 /\ leaked = {} /\ lost = {}
  BY SoundFacts, UsedIs
<1>2. (Sound => /\ Tidy(name, sub_files)
                /\ \A p \in Paths : Lookup(p) \in live \cup {NoFile}
                /\ Namespace!Used(Map) <= MaxSize
                /\ status = "mounted" /\ phantoms = 0 /\ leaked = {} /\ lost = {})'
  BY <1>1, PTL
<1> QED
  BY <1>2

\* The directory of an operation is one of the map.
LEMMA DirIsThere ==
    ASSUME Sound, NEW path \in Paths, IsDir(DirOf(path))
    PROVE  Namespace!IsDirectory(Map, Namespace!Front(path))
<1> DEFINE p == Front(path)
<1>1. path \in Seq(Names) /\ path # <<>>
  BY PathsAre
<1>2. p \in Seq(Names) /\ Len(p) <= Len(path)
  BY <1>1, FrontProps
<1>3. CASE p = <<>>
  BY <1>3, NamespaceTerms DEF Namespace!IsDirectory
<1>4. CASE p # <<>>
  <2>1. p \in Paths
    <3>1. Len(path) <= Cardinality(Files) /\ Cardinality(Files) \in Nat
      <4>1. Cardinality(Files) \in Nat
        BY FilesAssumption, FS_CardinalityType
      <4>2. PICK n \in 0 .. Cardinality(Files) : path \in [1 .. n -> Names]
        BY DEF Paths, BoundedSeq, SeqOf
      <4>3. Len(path) = n
        BY <1>1, <4>1, <4>2
      <4> QED
        BY <4>1, <4>3
    <3>2. Len(p) \in 0 .. Cardinality(Files) /\ p \in [1 .. Len(p) -> Names]
      <4>1. Len(p) \in Nat /\ p \in [1 .. Len(p) -> Names]
        BY <1>2
      <4> QED
        BY <1>1, <1>2, <3>1, <4>1
    <3> QED
      BY <1>4, <3>2 DEF Paths, BoundedSeq, SeqOf
  <2>2. DirOf(path) = Lookup(p)
    BY DEF DirOf
  <2>3. Lookup(p) \in live \cup {NoFile} /\ live \subseteq Files
    BY <2>1, SoundFacts DEF BaseInv, TypeOK
  <2>4. Lookup(p) \in Files /\ type[Lookup(p)] = "FILE_DIR"
    BY <2>2, <2>3, RootIsNoFile DEF IsDir, Lists
  <2>5. p \in Places /\ Map[p] = AttrIn(type, size, Lookup(p))
    BY <2>1, <2>4, MapAfter, RootIsNoFile DEF Lists
  <2>6. Map[p] = DirAttributes /\ p \in DOMAIN Map
    BY <2>4, <2>5, MapAfter DEF AttrIn
  <2> QED
    BY <2>6, NamespaceTerms DEF Namespace!IsDirectory
<1> QED
  BY <1>3, <1>4

\* How the new map compares with the old one at the other paths.
LEMMA MapKeeps ==
    ASSUME Sound, Sound', NEW p \in Paths, Lookup(p)' = Lookup(p), Lookup(p) # NoFile,
           type'[Lookup(p)] = type[Lookup(p)], size'[Lookup(p)] = size[Lookup(p)]
    PROVE  p \in Places /\ p \in Places' /\ Map'[p] = Map[p]
<1>1. Lookup(p) \in Files
  BY SoundFacts DEF BaseInv, TypeOK
<1> QED
  BY <1>1, MapAfter DEF AttrIn

LEMMA StepAdds ==
    ASSUME Sound, Sound', NEW path \in Paths, NEW f \in Files, NEW ty,
           Adds(f, ty, DirOf(path), Last(path)), Lookup(path) = NoFile
    PROVE  path \in DOMAIN Map' /\ Namespace!Makes(Map, Map', path)
<1> DEFINE d == DirOf(path)
<1>1. /\ Tidy(name, sub_files) /\ Tidy(name', sub_files') /\ BaseInv /\ SoundInv /\ ~misled
      /\ \A p \in Paths : Lookup(p) \in live \cup {NoFile}
      /\ Namespace!Used(Map') <= MaxSize
  BY SoundFacts, SoundAfter
<1>2. /\ f \notin live /\ d \in Lists /\ IsDir(d)
      /\ ty \in {"FILE_REG", "FILE_DIR"}
      /\ type' = [type EXCEPT ![f] = ty]
      /\ name' = [name EXCEPT ![f] = Last(path)]
      /\ sub_files' = [sub_files EXCEPT ![d] = Append(sub_files[d], f)]
      /\ size' = size
  BY DEF Adds, NewFile
<1>3. /\ type \in [Files -> {"FILE_REG", "FILE_DIR"}] /\ name \in [Files -> Names]
      /\ size \in [Files -> 0 .. MaxSize] /\ live \subseteq Files
      /\ AreLists(sub_files) /\ type[f] = "FILE_REG" /\ size[f] = 0
      /\ f # RootDir /\ f # NoFile /\ f \in Lists
  BY <1>1, <1>2, RootIsNoFile DEF BaseInv, TypeOK, Tidy, DeadAreBlank, Lists
<1>4. path \in Seq(Names) /\ path # <<>>
  BY PathsAre
<1>5. f # d /\ sub_files[f] = <<>>
  BY <1>1, <1>2, <1>3 DEF IsDir, BaseInv, OnlyDirsHoldFiles
<1>6. d = WalkIn(type, name, sub_files, Front(path))
  BY Walks DEF DirOf
<1> HIDE DEF d
<1>7. AddsAt(type, name, sub_files, type', name', sub_files', path, f)
  <2>1. IsDirIn(type, d) /\ WalkIn(type, name, sub_files, path) = NoFile
    BY <1>2, Walks DEF IsDir, IsDirIn
  <2>2. name'[f] = Last(path) /\ sub_files'[f] = <<>>
    BY <1>2, <1>3, <1>5 DEF AreLists
  <2>3. Range(sub_files'[f]) = {}
    BY <2>2 DEF Range
  <2>4. \A g \in Files \ {f} : name'[g] = name[g] /\ type'[g] = type[g]
    BY <1>2, <1>3
  <2>5. ASSUME NEW e \in Lists PROVE f \notin Range(sub_files[e])
    BY <1>1, <1>2, HomeFound
  <2>6. ASSUME NEW e \in Lists
        PROVE  Range(sub_files'[e]) = IF e = d THEN Range(sub_files[e]) \cup {f}
                                      ELSE Range(sub_files[e])
    <3>1. sub_files[e] \in Seq(Files)
      BY <1>3 DEF AreLists
    <3>2. Range(Append(sub_files[e], f)) = Range(sub_files[e]) \cup {f}
      BY <3>1, Appends
    <3> QED
      BY <1>2, <1>3, <3>2 DEF AreLists
  <2> QED
    BY <1>6, <2>1, <2>2, <2>3, <2>4, <2>5, <2>6 DEF AddsAt
<1>8. \A p \in Paths : Lookup(p)' = IF p = path THEN f ELSE Lookup(p)
  <2>1. \A q \in Seq(Names) :
           WalkIn(type', name', sub_files', q)
             = IF q = path THEN f ELSE WalkIn(type, name, sub_files, q)
    BY <1>1, <1>4, <1>7, WalksAdd
  <2> QED
    BY <2>1, PathsAre, Walks, WalksAfter
<1>9. Places' = Places \cup {path} /\ path \notin Places
  BY <1>3, <1>8, MapAfter DEF Places
<1>10. ASSUME NEW p \in Places PROVE Map'[p] = Map[p]
  <2>1. p \in Paths /\ Lookup(p) \in live /\ Lookup(p) # f /\ Lookup(p)' = Lookup(p)
    BY <1>1, <1>2, <1>8, <1>9 DEF Places
  <2>2. /\ type'[Lookup(p)] = type[Lookup(p)] /\ size'[Lookup(p)] = size[Lookup(p)]
        /\ Lookup(p) # NoFile
    BY <1>2, <1>3, <2>1, RootIsNoFile DEF Lists
  <2> QED
    BY <2>1, <2>2, MapKeeps
<1>11. Map'[path] = IF ty = "FILE_DIR" THEN Namespace!Directory ELSE Namespace!File(0)
  <2>1. Lookup(path)' = f /\ path \in Places' /\ type'[f] = ty /\ size'[f] = 0
    BY <1>2, <1>3, <1>8, <1>9
  <2>2. Map'[path] = AttrIn(type', size', f)
    BY <2>1, MapAfter
  <2> QED
    BY <2>1, <2>2, NamespaceTerms DEF AttrIn
<1>12. \A e : Map'[path] = e => Map' = Namespace!With(Map, path, e)
  <2> SUFFICES ASSUME NEW e, Map'[path] = e PROVE Map' = Namespace!With(Map, path, e)
    OBVIOUS
  <2>1. Map' = [q \in Places' |-> Map'[q]]
    BY DEF Map
  <2>2. Namespace!With(Map, path, e)
          = [q \in Places \cup {path} |-> IF q = path THEN e ELSE Map[q]]
    BY MapAfter DEF Namespace!With
  <2> QED
    BY <1>9, <1>10, <2>1, <2>2
<1>13. \/ Map' = Namespace!With(Map, path, Namespace!File(0))
       \/ Map' = Namespace!With(Map, path, Namespace!Directory)
  BY <1>2, <1>11, <1>12
<1>14. Namespace!IsDirectory(Map, Namespace!Front(path))
  BY <1>2, DirIsThere DEF d
<1> QED
  BY <1>1, <1>9, <1>13, <1>14, MapAfter DEF Namespace!Makes

LEMMA StepDrops ==
    ASSUME Sound, Sound', NEW path \in Paths, Lookup(path) \in Files,
           Drops(Lookup(path), DirOf(path))
    PROVE  path \in DOMAIN Map /\ Namespace!Deletes(Map, Map', path)
<1> DEFINE d == DirOf(path)
           f == Lookup(path)
<1>1. /\ Tidy(name, sub_files) /\ Tidy(name', sub_files') /\ BaseInv /\ SoundInv /\ ~misled
      /\ \A p \in Paths : Lookup(p) \in live \cup {NoFile}
      /\ \A p, q \in Paths : Lookup(p) = Lookup(q) /\ Lookup(p) # NoFile => p = q
  BY SoundFacts, SoundAfter
<1>2. /\ f \in live /\ d \in Lists /\ f \in Range(sub_files[d]) /\ sub_files[f] = <<>>
      /\ type' = [type EXCEPT ![f] = "FILE_REG"]
      /\ name' = [name EXCEPT ![f] = AnyName]
      /\ size' = [size EXCEPT ![f] = 0]
      /\ sub_files' = [sub_files EXCEPT ![d] = RemoveFirst(sub_files[d], f)]
  BY DEF Drops, Free
<1>3. /\ type \in [Files -> {"FILE_REG", "FILE_DIR"}] /\ name \in [Files -> Names]
      /\ size \in [Files -> 0 .. MaxSize] /\ live \subseteq Files
      /\ AreLists(sub_files) /\ f \in Files /\ f # NoFile
  BY <1>1, RootIsNoFile DEF BaseInv, TypeOK, Tidy, Lists
<1>4. path \in Seq(Names) /\ path # <<>>
  BY PathsAre
<1>5. OnlyOn(sub_files, f, d)
  BY <1>1, <1>2, HomeFound DEF IsHome
<1>6. DropsAt(type, name, sub_files, type', name', sub_files', path, f)
  <2>1. WalkIn(type, name, sub_files, path) = f
    BY Walks
  <2> HIDE DEF f, d
  <2>2. Range(sub_files[f]) = {}
    BY <1>2 DEF Range
  <2>3. \A g \in Files \ {f} : name'[g] = name[g] /\ type'[g] = type[g]
    BY <1>2, <1>3
  <2>4. \A e \in Lists : Range(sub_files'[e]) = Range(sub_files[e]) \ {f}
    <3> DEFINE new == [sub_files EXCEPT ![d] = RemoveFirst(sub_files[d], f)]
    <3>1. \A e \in Lists : /\ Range(new[e]) \subseteq Range(sub_files[e])
                           /\ Range(sub_files[e]) \ {f} \subseteq Range(new[e])
                           /\ f \notin Range(new[e])
      BY <1>2, <1>3, <1>5, OnlyRemoves
    <3>2. sub_files' = new
      BY <1>2
    <3> HIDE DEF new
    <3> QED
      BY <3>1, <3>2
  <2> QED
    BY <2>1, <2>2, <2>3, <2>4 DEF DropsAt
<1> HIDE DEF f
<1>7. \A q \in Seq(Names) :
         /\ Starts(path, q) /\ q # path => WalkIn(type, name, sub_files, q) = NoFile
         /\ WalkIn(type', name', sub_files', q)
              = IF q = path THEN NoFile ELSE WalkIn(type, name, sub_files, q)
  BY <1>1, <1>3, <1>4, <1>6, WalksDrop
<1>8. \A p \in Paths : /\ Lookup(p)' = IF p = path THEN NoFile ELSE Lookup(p)
                       /\ Starts(path, p) /\ path # p => Lookup(p) = NoFile
  BY <1>7, PathsAre, Walks, WalksAfter
<1>9. Places' = Places \ {path} /\ path \in Places
  BY <1>3, <1>8, MapAfter DEF Places, f
<1>10. ASSUME NEW p \in Places \ {path} PROVE Map'[p] = Map[p]
  <2>1. /\ p \in Paths /\ Lookup(p) # NoFile /\ Lookup(p)' = Lookup(p)
        /\ Lookup(p) \in live
    BY <1>1, <1>8 DEF Places
  <2>2. Lookup(p) # f
    BY <1>1, <2>1 DEF f
  <2>3. type'[Lookup(p)] = type[Lookup(p)] /\ size'[Lookup(p)] = size[Lookup(p)]
    BY <1>2, <1>3, <2>1, <2>2
  <2> QED
    BY <2>1, <2>3, MapKeeps
<1>11. Map' = [q \in DOMAIN Map \ {path} |-> Map[q]]
  <2>1. Map' = [q \in Places' |-> Map'[q]]
    BY DEF Map
  <2>2. DOMAIN Map = Places
    BY MapAfter
  <2> QED
    BY <1>9, <1>10, <2>1, <2>2
<1>12. Namespace!IsEmpty(Map, path)
  <2>1. ASSUME NEW q \in DOMAIN Map PROVE ~Namespace!IsStrictPrefix(path, q)
    <3>1. q \in Paths /\ Lookup(q) # NoFile /\ q \in Seq(Names)
      BY MapAfter, PathsAre DEF Places
    <3> QED
      BY <1>4, <1>8, <3>1, NamespaceTerms
  <2> QED
    BY <2>1 DEF Namespace!IsEmpty
<1> QED
  BY <1>9, <1>11, <1>12, MapAfter DEF Namespace!Deletes

LEMMA StepFills ==
    ASSUME Sound, Sound', NEW path \in Paths, Lookup(path) \in Files, NEW n \in Nat,
           Fills(Lookup(path), n),
           n = 0 \/ \E bytes \in 1 .. MaxSize : n = size[Lookup(path)] + bytes
    PROVE  path \in DOMAIN Map /\ Namespace!Resizes(Map, Map', path)
<1> DEFINE f == Lookup(path)
<1>1. /\ BaseInv /\ Namespace!Used(Map') <= MaxSize
      /\ \A p \in Paths : Lookup(p) \in live \cup {NoFile}
      /\ \A p, q \in Paths : Lookup(p) = Lookup(q) /\ Lookup(p) # NoFile => p = q
  BY SoundFacts, SoundAfter
<1>2. /\ f \in live /\ type[f] = "FILE_REG"
      /\ size' = [size EXCEPT ![f] = n]
      /\ UNCHANGED <<type, name, sub_files>>
  BY DEF Fills
<1>3. /\ size \in [Files -> 0 .. MaxSize] /\ live \subseteq Files
      /\ f \in Files /\ f # NoFile
  BY <1>1, RootIsNoFile DEF BaseInv, TypeOK, Lists
<1>4. \A p \in Paths : Lookup(p)' = Lookup(p)
  BY <1>2, Walks, WalksAfter
<1>5. Places' = Places /\ path \in Places
  BY <1>3, <1>4, MapAfter DEF Places
<1>6. ASSUME NEW p \in Places \ {path} PROVE Map'[p] = Map[p]
  <2>1. /\ p \in Paths /\ Lookup(p) # NoFile /\ Lookup(p)' = Lookup(p)
        /\ Lookup(p) \in live
    BY <1>1, <1>4 DEF Places
  <2>2. Lookup(p) # f
    BY <1>1, <2>1
  <2>3. type'[Lookup(p)] = type[Lookup(p)] /\ size'[Lookup(p)] = size[Lookup(p)]
    BY <1>2, <1>3, <2>1, <2>2
  <2> QED
    BY <2>1, <2>3, MapKeeps
<1>7. Map[path] = Namespace!File(size[f]) /\ Map'[path] = Namespace!File(n)
  <2>1. Map[path] = AttrIn(type, size, f)
    BY <1>3, <1>5, MapAfter
  <2>2. Map'[path] = AttrIn(type', size', f)
    BY <1>3, <1>4, <1>5, MapAfter
  <2> HIDE DEF f
  <2>3. size'[f] = n /\ type'[f] = "FILE_REG"
    BY <1>2, <1>3
  <2> QED
    BY <1>2, <2>1, <2>2, <2>3, NamespaceTerms DEF AttrIn
<1>8. Map' = Namespace!With(Map, path, Namespace!File(n))
  <2> DEFINE e == Namespace!File(n)
  <2>1. Map' = [q \in Places' |-> Map'[q]] /\ DOMAIN Map = Places
    BY MapAfter DEF Map
  <2>2. Map'[path] = e
    BY <1>7
  <2> HIDE DEF e
  <2>3. Namespace!With(Map, path, e)
          = [q \in Places \cup {path} |-> IF q = path THEN e ELSE Map[q]]
    BY <2>1 DEF Namespace!With
  <2>4. Map' = Namespace!With(Map, path, e)
    BY <1>5, <1>6, <2>1, <2>2, <2>3
  <2> QED
    BY <2>4 DEF e
<1>9. Map[path].kind = "file" /\ Map[path].size = size[f]
  BY <1>7, NamespaceTerms
<1> HIDE DEF f
<1>10. n = 0 \/ \E bytes \in 1 .. MaxSize : n = Map[path].size + bytes
  BY <1>9 DEF f
<1> QED
  BY <1>1, <1>5, <1>8, <1>9, <1>10, MapAfter DEF Namespace!Resizes

\* Every path that leads to a file is one of Paths.
LEMMA PathFound ==
    Sound => \A p \in Seq(Names) :
                WalkIn(type, name, sub_files, p) \in Files => p \in Paths
<1> SUFFICES ASSUME Sound, NEW p \in Seq(Names),
                    WalkIn(type, name, sub_files, p) \in Files
             PROVE  p \in Paths
  OBVIOUS
<1>1. AreLists(sub_files) /\ OneList(sub_files)
  BY SoundFacts DEF Tidy
<1>2. Len(p) <= Cardinality(Files)
  BY <1>1, ShortPath
<1>3. p # <<>>
  BY WalkSteps, RootIsNoFile
<1>4. Len(p) \in 0 .. Cardinality(Files) /\ p \in [1 .. Len(p) -> Names]
  <2>1. Len(p) \in Nat /\ p \in [1 .. Len(p) -> Names]
    OBVIOUS
  <2>2. Cardinality(Files) \in Nat
    BY FilesAssumption, FS_CardinalityType
  <2> QED
    BY <1>2, <2>1, <2>2
<1> QED
  BY <1>3, <1>4 DEF Paths, BoundedSeq, SeqOf

LEMMA StepMoves ==
    ASSUME Sound, Sound', NEW from \in Paths, NEW to \in Paths, Rename(from, to)
    PROVE  from \in DOMAIN Map /\ to \in DOMAIN Map' /\ Namespace!Moves(Map, Map', from, to)
<1> DEFINE f == Lookup(from)
           d == DirOf(to)
           old == FormerList(f)
           mid == DeletedFrom(old, f)
<1>1. /\ Tidy(name, sub_files) /\ Tidy(name', sub_files') /\ BaseInv /\ SoundInv
      /\ ~misled' /\ ~shadowed'
      /\ \A p \in Paths : Lookup(p) \in live \cup {NoFile}
  <2>1. ~misled' /\ ~shadowed'
    BY DEF Sound, Broken
  <2> QED
    BY <2>1, SoundFacts, SoundAfter
<1>2. f \in Files /\ IsDir(d) /\ TakesFrom(f, DirOf(from), old)
  BY <1>1, Renames
<1>3. /\ sub_files' = [mid EXCEPT ![d] = Append(mid[d], f)]
      /\ name' = [name EXCEPT ![f] = Last(to)]
      /\ shadowed' = (shadowed \/ Lookup(to) # NoFile)
      /\ UNCHANGED <<type, size>>
      /\ ~IsPrefix(from, to) /\ ~IsPrefix(to, from)
  BY DEF Rename, MayRename
<1>4. /\ from \in Seq(Names) /\ from # <<>> /\ to \in Seq(Names) /\ to # <<>>
      /\ ~Starts(from, to) /\ ~Starts(to, from)
  BY <1>3, PathsAre, PrefixIs
<1>5. Lookup(to) = NoFile
  BY <1>1, <1>3
<1>6. /\ AreLists(mid) /\ f \in live
      /\ \A e \in Lists : Range(mid[e]) = Range(sub_files[e]) \ {f}
  <2> HIDE DEF f, old, d
  <2>1. /\ AreLists(mid) /\ f \in live
        /\ \A e \in Lists : /\ Range(mid[e]) \subseteq Range(sub_files[e])
                            /\ f \notin Range(mid[e])
                            /\ Range(sub_files[e]) \ {f} \subseteq Range(mid[e])
    BY <1>1, <1>2, SoundTakes, Deleted
  <2> HIDE DEF mid
  <2> QED
    BY <2>1
<1>7. /\ name \in [Files -> Names] /\ live \subseteq Files
      /\ d \in Lists /\ d = WalkIn(type, name, sub_files, Front(to)) /\ IsDirIn(type, d)
      /\ f # NoFile
  <2>1. d = WalkIn(type, name, sub_files, Front(to))
    BY Walks DEF DirOf
  <2>2. name \in [Files -> Names] /\ live \subseteq Files
    BY <1>1 DEF BaseInv, TypeOK
  <2> HIDE DEF d
  <2> QED
    BY <1>2, <2>1, <2>2, RootIsNoFile DEF IsDir, IsDirIn, Lists
<1>8. MovesTo(type, name, sub_files, name', sub_files', from, to, f)
  <2>1. /\ WalkIn(type, name, sub_files, from) = f
        /\ WalkIn(type, name, sub_files, to) = NoFile
    BY <1>5, Walks
  <2> HIDE DEF f, d, mid
  <2>2. name'[f] = Last(to) /\ \A g \in Files \ {f} : name'[g] = name[g]
    BY <1>2, <1>3, <1>7
  <2>3. ASSUME NEW e \in Lists
        PROVE  Range(sub_files'[e]) = IF e = d THEN Range(sub_files[e]) \cup {f}
                                      ELSE Range(sub_files[e]) \ {f}
    <3>1. mid[e] \in Seq(Files)
      BY <1>6 DEF AreLists
    <3>2. Range(Append(mid[e], f)) = Range(mid[e]) \cup {f}
      BY <1>2, <3>1, Appends
    <3>3. sub_files'[e] = IF e = d THEN Append(mid[e], f) ELSE mid[e]
      BY <1>3, <1>6 DEF AreLists
    <3> QED
      BY <1>6, <3>2, <3>3
  <2> QED
    BY <1>4, <1>7, <2>1, <2>2, <2>3 DEF MovesTo
<1> HIDE DEF f, d, mid, old
<1>9. \A q \in Seq(Names) :
         WalkIn(type', name', sub_files', q)
           = IF Starts(to, q) THEN WalkIn(type, name, sub_files, Swap(to, from, q))
             ELSE IF Starts(from, q) THEN NoFile ELSE WalkIn(type, name, sub_files, q)
  <2>1. HasMoved(type, name, sub_files, name', sub_files', from, to)
    BY <1>1, <1>2, <1>4, <1>8, WalksMove
  <2> QED
    BY <1>3, <2>1 DEF HasMoved
<1>10. /\ \A p \in Seq(Names) : WalkIn(type, name, sub_files, p) \in Files => p \in Paths
       /\ \A p \in Seq(Names) :
             WalkIn(type', name', sub_files', p) \in Files => p \in Paths
  <2>1. (\A p \in Seq(Names) : WalkIn(type, name, sub_files, p) \in Files => p \in Paths)'
    BY PathFound, PTL
  <2>2. \A p \in Seq(Names) :
           WalkIn(type', name', sub_files', p) \in Files => p \in Paths
    BY <2>1 DEF WalkIn, StepIn
  <2> QED
    BY <2>2, PathFound
<1>11. NoFile \notin Files
  BY RootIsNoFile DEF Lists
\* A file keeps what getattr says of it.
<1>12. ASSUME NEW r \in Paths, NEW s \in Paths, Lookup(r) \in Files, Lookup(s)' = Lookup(r)
       PROVE  s \in Places' /\ r \in Places /\ Map'[s] = Map[r]
  BY <1>3, <1>11, <1>12, MapAfter DEF AttrIn
\* A path of the old map, and where it leads now.
<1>13. ASSUME NEW r \in Places
       PROVE  LET s == Namespace!Moved(from, to, r)
              IN  s \in Places' /\ Map'[s] = Map[r]
  <2>1. r \in Paths /\ r \in Seq(Names) /\ Lookup(r) \in Files
    BY <1>1, <1>7, PathsAre DEF Places
  <2>2. CASE Starts(from, r)
    <3> DEFINE s == Swap(from, to, r)
    <3>1. s \in Seq(Names) /\ Starts(to, s) /\ Swap(to, from, s) = r
      BY <1>4, <2>1, <2>2, SwapsBack
    <3> HIDE DEF s
    <3>2. WalkIn(type', name', sub_files', s) = Lookup(r)
      BY <1>9, <3>1, Walks
    <3>3. s \in Paths /\ Lookup(s)' = Lookup(r)
      BY <1>10, <2>1, <3>1, <3>2, WalksAfter
    <3>4. Namespace!Moved(from, to, r) = s
      BY <1>4, <2>1, <2>2, NamespaceTerms DEF s
    <3> QED
      BY <1>12, <2>1, <3>3, <3>4
  <2>3. CASE ~Starts(from, r)
    <3>1. ~Starts(to, r)
      <4>1. WalkLaws(type, name, sub_files)
        BY <1>1, WalkFacts
      <4>2. WalkIn(type, name, sub_files, to) = NoFile
        BY <1>5, Walks
      <4>3. WalkIn(type, name, sub_files, r) \in Files
        BY <2>1, Walks
      <4> QED
        BY <1>4, <1>11, <2>1, <4>1, <4>2, <4>3 DEF WalkLaws
    <3>2. Lookup(r)' = Lookup(r)
      BY <1>9, <2>1, <2>3, <3>1, Walks, WalksAfter
    <3>3. Namespace!Moved(from, to, r) = r
      BY <1>4, <2>1, <2>3, NamespaceTerms
    <3> QED
      BY <1>12, <2>1, <3>2, <3>3
  <2> QED
    BY <2>2, <2>3
\* A path of the new map, and where it led before.
<1>14. ASSUME NEW s \in Places'
       PROVE  \E r \in Places : s = Namespace!Moved(from, to, r)
  <2>1. s \in Paths /\ s \in Seq(Names) /\ Lookup(s)' # NoFile
    BY MapAfter, PathsAre
  <2>2. Lookup(s)' \in Files
    <3>1. Lookup(s)' \in live'
      BY <2>1, SoundAfter
    <3>2. live' = live
      BY <1>2 DEF TakesFrom
    <3> QED
      BY <1>7, <3>1, <3>2
  <2>3. CASE Starts(to, s)
    <3> DEFINE r == Swap(to, from, s)
    <3>1. r \in Seq(Names) /\ Starts(from, r) /\ Swap(from, to, r) = s
      BY <1>4, <2>1, <2>3, SwapsBack
    <3>2. WalkIn(type, name, sub_files, r) \in Files
      BY <1>9, <2>1, <2>2, <2>3, WalksAfter
    <3> HIDE DEF r
    <3>3. r \in Paths /\ Lookup(r) \in Files
      BY <1>10, <3>1, <3>2, Walks
    <3>4. r \in Places /\ Namespace!Moved(from, to, r) = s
      BY <1>4, <1>11, <3>1, <3>3, NamespaceTerms DEF Places
    <3> QED
      BY <3>4
  <2>4. CASE ~Starts(to, s)
    <3>1. ~Starts(from, s) /\ Lookup(s) = Lookup(s)'
      BY <1>9, <2>1, <2>4, Walks, WalksAfter
    <3>2. s \in Places /\ Namespace!Moved(from, to, s) = s
      BY <1>4, <2>1, <3>1, NamespaceTerms DEF Places
    <3> QED
      BY <3>2
  <2> QED
    BY <2>3, <2>4
<1>15. from \in Places /\ to \in Places' /\ to \notin Places
  <2>1. from \in Places
    BY <1>2, <1>11 DEF Places, f
  <2>2. Starts(from, from) /\ Swap(from, to, from) = to
    <3>1. Starts(from, from)
      BY <1>4 DEF Starts
    <3> QED
      BY <1>4, <3>1, SwapsBack
  <2>3. Namespace!Moved(from, to, from) = to
    BY <1>4, <2>2, NamespaceTerms
  <2>4. to \in Places'
    BY <1>13, <2>1, <2>3
  <2> QED
    BY <1>5, <2>1, <2>4 DEF Places
<1>16. Namespace!IsDirectory(Map, Namespace!Front(to))
  BY <1>2, DirIsThere DEF d
<1>17. ~Namespace!IsPrefix(from, to)
  BY <1>4, NamespaceTerms
<1>18. DOMAIN Map' = {Namespace!Moved(from, to, r) : r \in DOMAIN Map}
  <2>1. DOMAIN Map = Places /\ DOMAIN Map' = Places'
    BY MapAfter
  <2> QED
    BY <1>13, <1>14, <2>1
<1> QED
  BY <1>13, <1>15, <1>16, <1>17, <1>18, MapAfter DEF Namespace!Moves

(***************************************************************************)
(* The step of the map that a step of the disk is.                         *)
(***************************************************************************)
LEMMA NextIsAStep ==
    Next /\ Sound /\ Sound' => Namespace!Step(Map, Map')
<1> SUFFICES ASSUME Next, Sound, Sound' PROVE Namespace!Step(Map, Map')
  OBVIOUS
<1>1. /\ BaseInv /\ status' = "mounted" /\ phantoms' = 0 /\ leaked' = {}
      /\ phantoms = 0 /\ leaked = {} /\ lost' = {}
  BY SoundFacts, SoundAfter
<1>2. ASSUME NEW path \in Paths, NEW f \in Files, Create(path, f) \/ Mkdir(path, f)
      PROVE  Namespace!Step(Map, Map')
  <2>1. Lookup(path) = NoFile
    BY <1>2 DEF Create, Mkdir, IsNew
  <2>2. PICK ty : Adds(f, ty, DirOf(path), Last(path))
    BY <1>1, <1>2, Makes
  <2>3. path \in DOMAIN Map' /\ Namespace!Makes(Map, Map', path)
    BY <2>1, <2>2, StepAdds
  <2> QED
    BY <2>3 DEF Namespace!Step
<1>3. ASSUME NEW path \in Paths, MkdirFails(path) PROVE FALSE
  BY <1>1, <1>3 DEF MkdirFails
<1>4. ASSUME NEW path \in Paths, Unlink(path) \/ Rmdir(path)
      PROVE  Namespace!Step(Map, Map')
  <2>1. Lookup(path) \in Files /\ Drops(Lookup(path), DirOf(path))
    BY <1>1, <1>4, Deletes
  <2>2. path \in DOMAIN Map /\ Namespace!Deletes(Map, Map', path)
    BY <2>1, StepDrops
  <2> QED
    BY <2>2 DEF Namespace!Step
<1>5. ASSUME NEW path \in Paths, Truncate(path) PROVE Namespace!Step(Map, Map')
  <2>1. Lookup(path) \in Files /\ Fills(Lookup(path), 0)
    BY <1>1, <1>5, Resizes DEF Truncate
  <2>2. path \in DOMAIN Map /\ Namespace!Resizes(Map, Map', path)
    BY <2>1, StepFills
  <2> QED
    BY <2>2 DEF Namespace!Step
<1>6. ASSUME NEW path \in Paths, NEW n \in 1 .. MaxSize, Write(path, n)
      PROVE  Namespace!Step(Map, Map')
  <2> DEFINE k == size[Lookup(path)] + n
  <2>1. Lookup(path) \in Files /\ Fills(Lookup(path), k)
    BY <1>1, <1>6, Resizes DEF Write
  <2>2. k \in Nat
    BY <2>1 DEF Fills
  <2>3. \E bytes \in 1 .. MaxSize : k = size[Lookup(path)] + bytes
    OBVIOUS
  <2> HIDE DEF k
  <2>4. path \in DOMAIN Map /\ Namespace!Resizes(Map, Map', path)
    BY <2>1, <2>2, <2>3, StepFills
  <2> QED
    BY <2>4 DEF Namespace!Step
<1>7. ASSUME NEW path \in Paths, NEW to \in Paths, Rename(path, to)
      PROVE  Namespace!Step(Map, Map')
  <2>1. /\ path \in DOMAIN Map /\ to \in DOMAIN Map'
        /\ Namespace!Moves(Map, Map', path, to)
    BY <1>7, StepMoves
  <2> QED
    BY <2>1 DEF Namespace!Step
<1>8. ASSUME NEW path \in Paths, NEW to \in Paths, RenameFails(path, to) PROVE FALSE
  BY <1>1, <1>8 DEF RenameFails
<1>9. ASSUME NEW path \in Paths, NEW to \in Paths, RenameCrashes(path, to) PROVE FALSE
  BY <1>1, <1>9 DEF RenameCrashes
<1>10. ASSUME NEW path \in Paths, TruncateFails(path) PROVE FALSE
  BY <1>1, <1>10 DEF TruncateFails
<1>11. ASSUME NEW path \in Paths, LostCrashes(path) PROVE FALSE
  BY <1>1, <1>11 DEF LostCrashes
<1> QED
  BY <1>2, <1>3, <1>4, <1>5, <1>6, <1>7, <1>8, <1>9, <1>10, <1>11 DEF Next

\* Once the disk is broken it stays so.
LEMMA StaysBroken ==
    BaseInv /\ Next /\ Broken => Broken'
<1> SUFFICES ASSUME BaseInv, Next, Broken PROVE Broken'
  OBVIOUS
<1>1. /\ misled \/ shadowed \/ Failures > 0
      /\ phantoms \in Nat /\ IsFiniteSet(leaked) /\ IsFiniteSet(lost)
  <2>1. status = "mounted"
    BY DEF Next, Create, Mkdir, MkdirFails, Unlink, Rmdir, Truncate, Write, Rename,
           RenameFails, RenameCrashes, TruncateFails, LostCrashes
  <2>2. phantoms \in Nat /\ IsFiniteSet(leaked) /\ IsFiniteSet(lost)
    BY FilesAssumption, SizesAssumption, FS_Subset DEF BaseInv, TypeOK
  <2> QED
    BY <2>1, <2>2 DEF Broken
<1> DEFINE Keeps == /\ misled => misled'
                    /\ shadowed => shadowed'
                    /\ phantoms' \in {phantoms, phantoms + 1}
                    /\ leaked' = leaked \/ \E f : leaked' = leaked \cup {f}
                    /\ lost' = lost \/ \E f : lost' = lost \cup {f}
<1>2. Keeps
  <2>1. ASSUME NEW path \in Paths, NEW f \in Files, Create(path, f) \/ Mkdir(path, f)
        PROVE  Keeps
    BY <2>1 DEF Create, Mkdir, accidents
  <2>2. ASSUME NEW path \in Paths, MkdirFails(path) PROVE Keeps
    BY <2>2 DEF MkdirFails
  <2>3. ASSUME NEW path \in Paths, Unlink(path) \/ Rmdir(path) \/ Truncate(path)
        PROVE  Keeps
    BY <2>3 DEF Unlink, Rmdir, Truncate, accidents
  <2>4. ASSUME NEW path \in Paths, NEW n \in 1 .. MaxSize, Write(path, n) PROVE Keeps
    BY <2>4 DEF Write, accidents
  <2>5. ASSUME NEW path \in Paths, NEW to \in Paths, Rename(path, to) PROVE Keeps
    BY <2>5 DEF Rename
  <2>6. ASSUME NEW path \in Paths, NEW to \in Paths, RenameFails(path, to) PROVE Keeps
    BY <2>6 DEF RenameFails
  <2>7. ASSUME NEW path \in Paths, NEW to \in Paths, RenameCrashes(path, to) PROVE Keeps
    BY <2>7 DEF RenameCrashes, accidents
  <2>8. ASSUME NEW path \in Paths, TruncateFails(path) PROVE Keeps
    BY <2>8 DEF TruncateFails
  <2>9. ASSUME NEW path \in Paths, LostCrashes(path) PROVE Keeps
    BY <2>9 DEF LostCrashes, accidents
  <2> HIDE DEF Keeps
  <2> QED
    BY <2>1, <2>2, <2>3, <2>4, <2>5, <2>6, <2>7, <2>8, <2>9 DEF Next
<1>3. ASSUME NEW S, NEW T, IsFiniteSet(S), T = S \/ \E f : T = S \cup {f}
      PROVE  Cardinality(T) >= Cardinality(S) /\ Cardinality(T) \in Nat
             /\ Cardinality(S) \in Nat
  <2>1. CASE T = S
    BY <1>3, <2>1, FS_CardinalityType
  <2>2. ASSUME NEW f, T = S \cup {f}
        PROVE  Cardinality(T) >= Cardinality(S) /\ Cardinality(T) \in Nat
               /\ Cardinality(S) \in Nat
    <3>1. IsFiniteSet(T) /\ Cardinality(T) \in {Cardinality(S), Cardinality(S) + 1}
      BY <1>3, <2>2, FS_AddElement
    <3> QED
      BY <1>3, <3>1, FS_CardinalityType
  <2> QED
    BY <1>3, <2>1, <2>2
<1>4. Failures > 0 => Failures' > 0
  <2>1. /\ Cardinality(leaked') >= Cardinality(leaked)
        /\ Cardinality(leaked') \in Nat /\ Cardinality(leaked) \in Nat
    BY <1>1, <1>2, <1>3
  <2>2. /\ Cardinality(lost') >= Cardinality(lost)
        /\ Cardinality(lost') \in Nat /\ Cardinality(lost) \in Nat
    BY <1>1, <1>2, <1>3
  <2>3. phantoms' \in {phantoms, phantoms + 1}
    BY <1>2
  <2> QED
    BY <1>1, <2>1, <2>2, <2>3 DEF Failures
<1> QED
  BY <1>1, <1>2, <1>4 DEF Broken

(***************************************************************************)
(* The tree behaves like a map from paths to files (all the handlers of    *)
(* ramdisk.c that change the name space), for any number of files, names   *)
(* and operations: each handler makes, deletes, resizes or moves what is   *)
(* at the path it was given, with everything below it, and nothing else;   *)
(* until a rename takes a name in use, deletes from the wrong list or      *)
(* crashes, or memory runs out in a rename, a mkdir or a truncate.         *)
(***************************************************************************)
THEOREM ImplementsNamespace == Spec => KeepsNamespace
<1>1. Init => Namespace!NInit
  <2> SUFFICES ASSUME Init PROVE Namespace!NInit
    OBVIOUS
  <2>1. \A p \in Paths : Lookup(p) = NoFile
    <3>1. \A d \in Lists : Range(sub_files[d]) = {}
      BY DEF Init, Lists, Range
    <3>2. AreLists(sub_files)
      BY DEF Init, AreLists, Lists
    <3>3. ASSUME NEW p \in Paths PROVE WalkIn(type, name, sub_files, p) = NoFile
      <4>1. p \in Seq(Names) /\ p # <<>>
        BY PathsAre
      <4> DEFINE f == WalkIn(type, name, sub_files, p)
                 d == WalkIn(type, name, sub_files, Front(p))
      <4>2. f \in Files \cup {NoFile}
            /\ (f \in Files => d \in Lists /\ f \in Range(sub_files[d]))
        BY <3>2, <4>1, WalkEnds
      <4> HIDE DEF f, d
      <4>3. f = NoFile
        BY <3>1, <4>2
      <4> QED
        BY <4>3 DEF f
    <3> QED
      BY <3>3, Walks
  <2>2. Places = {}
    BY <2>1 DEF Places
  <2>3. Map = <<>>
    BY <2>2 DEF Map
  <2>4. ~Broken
    BY FS_EmptySet DEF Init, Broken, Failures
  <2> QED
    BY <2>3, <2>4 DEF Namespace!NInit, Map, Places
<1>2. IInv /\ IInv' /\ [Next]_vars => [Namespace!NNext]_(Namespace!nvars)
  <2> SUFFICES ASSUME IInv, IInv', [Next]_vars
               PROVE  [Namespace!NNext]_(Namespace!nvars)
    OBVIOUS
  <2>1. CASE UNCHANGED vars
    <3>1. \A p : Lookup(p)' = Lookup(p)
      BY <2>1, Walks, WalksAfter DEF vars, fields
    <3>2. \A p : Getattr(p)' = Getattr(p)
      BY <2>1, <3>1 DEF vars, fields, Getattr, Attributes, IsDir
    <3>3. Map' = Map
      BY <3>1, <3>2 DEF Map, Places
    <3>4. Broken' = Broken
      BY <2>1 DEF vars, accidents, Broken, Failures
    <3> QED
      BY <3>3, <3>4 DEF Namespace!nvars, Map, Places
  <2>2. CASE Next /\ Broken'
    BY <2>2 DEF Namespace!NNext
  <2>3. CASE Next /\ ~Broken'
    <3>1. ~Broken
      BY <2>3, StaysBroken DEF IInv, BaseInv
    <3>2. Sound /\ Sound'
      BY <2>3, <3>1 DEF Sound
    <3>3. Namespace!Step(Map, Map')
      BY <2>3, <3>2, NextIsAStep
    <3>4. ~Broken /\ ~Broken' => (Namespace!Step(Map, Map') => Namespace!NNext)
      BY DEF Namespace!NNext, Map, Places
    <3> QED
      BY <2>3, <3>1, <3>3, <3>4
  <2> QED
    BY <2>1, <2>2, <2>3
<1> QED
  BY <1>1, <1>2, Invariance, PTL DEF Spec, KeepsNamespace, Namespace!NSpec

=============================================================================
