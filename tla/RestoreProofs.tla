--------------------------- MODULE RestoreProofs ----------------------------
(***************************************************************************)
(* The invariant of Restore is inductive for every set of archives and of  *)
(* other keys, every part and page size and every set of faults; its       *)
(* safety properties follow.                                               *)
(***************************************************************************)
EXTENDS Restore, CatalogueProofs, SequenceTheorems

-----------------------------------------------------------------------------
(* Keys and their order.                                                   *)

Place == [fs : Nat, archive : Nat, volume : Nat]

\* The sizes of the volumes are there, and no archive is without a volume.
LEMMA SizesType ==
    ASSUME NEW a \in Archives
    PROVE  /\ a \in Nat /\ a + 1 \in DOMAIN Sizes /\ Len(Sizes) \in Nat
           /\ Sizes[a + 1] \in Seq(Nat \ {0})
           /\ Len(Sizes[a + 1]) \in 1 .. Contents
           /\ 0 \in Volume(a)
<1>1. Sizes \in Seq(Seq(Nat \ {0})) /\ Contents \in Nat
  BY RestoreAssumption DEF Contents
<1>2. Len(Sizes) \in Nat /\ DOMAIN Sizes = 1 .. Len(Sizes)
  BY <1>1
<1>3. a \in Nat /\ a + 1 \in DOMAIN Sizes
  BY <1>2 DEF Archives
<1>4. Sizes[a + 1] \in Seq(Nat \ {0})
  BY <1>1, <1>2, <1>3
<1>5. Sizes[a + 1] # <<>> /\ Len(Sizes[a + 1]) <= Contents
  BY <1>3, RestoreAssumption
<1>6. Len(Sizes[a + 1]) \in Nat \ {0}
  BY <1>4, <1>5, EmptySeq
<1>7. Len(Sizes[a + 1]) \in 1 .. Contents /\ 0 \in Volume(a)
  BY <1>1, <1>5, <1>6 DEF Volume
<1> QED
  BY <1>2, <1>3, <1>4, <1>7

\* Volumes have numbers below that which stands for the contents.
LEMMA VolumeType ==
    ASSUME NEW a \in Archives, NEW v \in Volume(a)
    PROVE  v \in Nat /\ v < Contents
<1> DEFINE n == Len(Sizes[a + 1])
<1>1. n \in 1 .. Contents
  BY SizesType
<1>2. Contents \in Nat
  BY DEF Contents
<1>3. v \in 0 .. n - 1
  BY DEF Volume
<1> HIDE DEF n
<1> QED
  BY <1>1, <1>2, <1>3

\* A key of the file system is the key of a volume or of contents.
LEMMA OwnIs ==
    ASSUME NEW k \in Own
    PROVE  /\ k \in Place /\ k.fs = FileSystem
           /\ k.archive \in Archives /\ k.volume \in 0 .. Contents
           /\ k = Key(k.archive, k.volume)
           /\ k.volume # Contents => k \in Volumes
           /\ k \in Volumes => k.volume \in Volume(k.archive) /\ k.volume # Contents
<1>1. PICK a \in Archives : k = Key(a, Contents) \/ \E v \in Volume(a) : k = Key(a, v)
  BY DEF Own, Volumes
<1>2. /\ a \in Nat /\ FileSystem \in Nat /\ Contents \in Nat /\ 0 <= Contents
      /\ \A v \in Volume(a) : v \in Nat /\ v < Contents
  BY VolumeType, RestoreAssumption DEF Contents, Archives
<1>3. ASSUME NEW v \in Volume(a), k = Key(a, v)
      PROVE  /\ k \in Place /\ k.fs = FileSystem
             /\ k.archive = a /\ k.volume = v /\ k.volume \in 0 .. Contents
             /\ k \in Volumes
  BY <1>2, <1>3 DEF Key, Place, Volumes
<1>4. ASSUME k = Key(a, Contents)
      PROVE  /\ k \in Place /\ k.fs = FileSystem
             /\ k.archive = a /\ k.volume = Contents /\ k.volume \in 0 .. Contents
             /\ k \notin Volumes
  <2>1. k \notin Volumes
    <3> SUFFICES ASSUME NEW b \in Archives, NEW v \in Volume(b), k = Key(b, v) PROVE FALSE
      BY DEF Volumes
    <3>1. v = Contents
      BY <1>4 DEF Key
    <3>2. v < Contents /\ v \in Nat
      BY VolumeType
    <3> QED BY <1>2, <3>1, <3>2
  <2> QED BY <1>2, <1>4, <2>1 DEF Key, Place
<1> QED
  <2>1. CASE k = Key(a, Contents)
    BY <1>4, <2>1
  <2>2. CASE \E v \in Volume(a) : k = Key(a, v)
    <3>1. PICK v \in Volume(a) : k = Key(a, v)
      BY <2>2
    <3>2. v < Contents /\ Contents \in Nat
      BY <1>2
    <3> QED BY <1>3, <3>1, <3>2
  <2> QED BY <1>1, <2>1, <2>2

\* The keys of the volumes are there.
LEMMA VolumeIs ==
    ASSUME NEW a \in Archives, NEW v \in Volume(a)
    PROVE  Key(a, v) \in Volumes /\ Key(a, v) \in Own
  BY DEF Volumes, Own

\* A key is a place, whatever file system it is of.
LEMMA KeyIs == Neighbours \cup Own \subseteq Place
<1>1. Neighbours \subseteq Place
  BY RestoreAssumption DEF Place
<1> QED
  BY <1>1, OwnIs

\* The order of keys is strict and total.
LEMMA Order ==
    ASSUME NEW k \in Place, NEW l \in Place, NEW m \in Place
    PROVE  /\ ~Before(k, k)
           /\ Before(k, l) /\ Before(l, m) => Before(k, m)
           /\ Before(k, l) \/ Before(l, k) \/ k = l
<1>1. \A x \in {k, l, m} : x.fs \in Nat /\ x.archive \in Nat /\ x.volume \in Nat
  BY DEF Place
<1>2. k.fs = l.fs /\ k.archive = l.archive /\ k.volume = l.volume => k = l
  BY DEF Place
<1>3. ~Before(k, k)
  BY <1>1 DEF Before
<1>4. Before(k, l) \/ Before(l, k) \/ k = l
  BY <1>1, <1>2 DEF Before
<1>5. Before(k, l) /\ Before(l, m) => Before(k, m)
  BY <1>1 DEF Before
<1> QED
  BY <1>3, <1>4, <1>5

\* There are finitely many keys.
LEMMA FiniteKeys == IsFiniteSet(Neighbours \cup Own)
<1> DEFINE D == Archives \X (0 .. Contents)
           f == [x \in D |-> Key(x[1], x[2])]
<1>1. IsFiniteSet(Archives) /\ IsFiniteSet(0 .. Contents)
  <2>1. Len(Sizes) \in Nat
    BY RestoreAssumption
  <2> DEFINE n == Len(Sizes) - 1
  <2>2. n \in Int /\ 0 \in Int /\ Contents \in Int
    BY <2>1 DEF Contents
  <2>3. Archives = 0 .. n
    BY DEF Archives
  <2> HIDE DEF n
  <2> QED BY <2>2, <2>3, FS_Interval
<1>2. IsFiniteSet(D)
  BY <1>1, FS_Product
<1> DEFINE T == {f[x] : x \in D}
<1>3. IsFiniteSet(T)
  <2> HIDE DEF D
  <2> QED BY <1>2, FiniteImage
<1>4. Own \subseteq T
  <2> SUFFICES ASSUME NEW k \in Own PROVE k \in T
    OBVIOUS
  <2>1. k.archive \in Archives /\ k.volume \in 0 .. Contents /\ k = Key(k.archive, k.volume)
    BY OwnIs
  <2>2. <<k.archive, k.volume>> \in D /\ f[<<k.archive, k.volume>>] = k
    BY <2>1
  <2> HIDE DEF D, f
  <2> QED BY <2>1, <2>2
<1>5. IsFiniteSet(Own)
  <2> HIDE DEF T
  <2> QED BY <1>3, <1>4, FS_Subset
<1> QED
  BY <1>5, RestoreAssumption, FS_Union
-----------------------------------------------------------------------------
(* Pages of a listing.                                                     *)

\* SetToSeq puts every element of a finite set in a sequence, and nothing else.
LEMMA Enumerated ==
    ASSUME NEW S, IsFiniteSet(S)
    PROVE  /\ SetToSeq(S) \in Seq(S)
           /\ {SetToSeq(S)[i] : i \in DOMAIN SetToSeq(S)} = S
<1> DEFINE n == Cardinality(S)
<1>1. n \in Nat /\ ExistsBijection(1 .. n, S)
  BY FS_CardinalityType
<1>2. \E f \in [1 .. n -> S] : IsInjective(f)
  BY <1>1 DEF ExistsBijection, Bijection, Injection
<1> DEFINE q == SetToSeq(S)
<1>3. q \in [1 .. n -> S] /\ IsInjective(q)
  BY <1>2 DEF SetToSeq
<1>4. q \in Injection(1 .. n, S)
  BY <1>3 DEF Injection
<1> HIDE DEF q
<1>5. Cardinality(1 .. n) = n
  <2>1. n \in Int /\ 1 \in Int
    BY <1>1
  <2> HIDE DEF n
  <2> QED BY <1>1, <2>1, FS_Interval
<1>6. q \in Surjection(1 .. n, S)
  <2> HIDE DEF n
  <2> QED BY <1>4, <1>5, FS_Injection DEF n
<1>7. \A s \in S : \E i \in 1 .. n : q[i] = s
  BY <1>6 DEF Surjection
<1>8. DOMAIN q = 1 .. n /\ q \in Seq(S)
  <2> HIDE DEF n
  <2> QED BY <1>1, <1>3
<1>9. {q[i] : i \in DOMAIN q} = S
  <2> HIDE DEF n
  <2> QED BY <1>3, <1>7, <1>8
<1> QED
  BY <1>8, <1>9 DEF q

\* The keys that are left are keys, and finitely many.
LEMMA RestIs ==
    ASSUME written \subseteq Own
    PROVE  /\ Rest \subseteq Neighbours \cup Own /\ Rest \subseteq Place
           /\ IsFiniteSet(Rest)
           /\ \A k \in Place : IsFiniteSet({l \in Rest : Before(l, k)})
<1>1. Rest \subseteq Neighbours \cup Own
  BY DEF Rest
<1>2. Rest \subseteq Place
  BY <1>1, KeyIs
<1>3. IsFiniteSet(Rest)
  BY <1>1, FiniteKeys, FS_Subset
<1>4. ASSUME NEW k \in Place PROVE IsFiniteSet({l \in Rest : Before(l, k)})
  <2>1. {l \in Rest : Before(l, k)} \subseteq Rest
    OBVIOUS
  <2> QED BY <1>3, <2>1, FS_Subset
<1> QED
  BY <1>1, <1>2, <1>3, <1>4

\* A page is the beginning of what is left, and the objects of an answer are
\* those of the page.
LEMMA PageIs ==
    ASSUME written \subseteq Own
    PROVE  /\ Page \subseteq Rest
           /\ \A k \in Rest : \A p \in Page : k \notin Page => Before(p, k)
           /\ Objects \in Seq(Page)
           /\ {Objects[i] : i \in DOMAIN Objects} = Page
<1>1. Page \subseteq Rest
  BY DEF Page
<1>2. ASSUME NEW k \in Rest, NEW p \in Page, k \notin Page PROVE Before(p, k)
  <2> DEFINE K == {l \in Rest : Before(l, k)}
             P == {l \in Rest : Before(l, p)}
  <2>1. k \in Place /\ p \in Place /\ p \in Rest
    BY <1>1, RestIs
  <2>2. IsFiniteSet(K) /\ IsFiniteSet(P)
    BY <2>1, RestIs
  <2>3. Cardinality(P) < PageSize /\ ~(Cardinality(K) < PageSize)
    BY <1>2 DEF Page
  <2>4. Cardinality(P) \in Nat /\ Cardinality(K) \in Nat /\ PageSize \in Nat
    BY <2>2, FS_CardinalityType, RestoreAssumption
  <2>5. ASSUME Before(k, p) PROVE FALSE
    <3>1. K \subseteq P
      <4> SUFFICES ASSUME NEW l \in Rest, Before(l, k) PROVE Before(l, p)
        OBVIOUS
      <4>1. l \in Place
        BY RestIs
      <4> QED BY <2>1, <2>5, <4>1, Order
    <3> HIDE DEF K, P
    <3>2. Cardinality(K) <= Cardinality(P)
      BY <2>2, <3>1, FS_Subset
    <3> QED BY <2>3, <2>4, <3>2
  <2>6. k # p
    BY <1>2
  <2> QED BY <2>1, <2>5, <2>6, Order
<1>3. IsFiniteSet(Page)
  BY <1>1, RestIs, FS_Subset
<1>4. /\ Objects \in Seq(Page)
      /\ {Objects[i] : i \in DOMAIN Objects} = Page
  BY <1>3, Enumerated DEF Objects
<1> QED
  BY <1>1, <1>2, <1>4
-----------------------------------------------------------------------------
(* Streams.                                                                *)

\* What begins a stream does so when its end is cut off.
LEMMA Shorter ==
    ASSUME NEW s \in Seq(Byte), NEW t \in Seq(Byte), NEW a, Begins(s \o t, a)
    PROVE  Begins(s, a)
<1> DEFINE m == Len(s)
           c == s \o t
<1>1. m \in Nat /\ Len(c) \in Nat /\ m <= Len(c) /\ \A i \in 1 .. m : c[i] = s[i]
  BY ConcatProperties
<1>2. s # <<>> => m >= 1 /\ c # <<>>
  <2>1. s # <<>> => m >= 1
    BY EmptySeq
  <2>2. c = <<>> => Len(c) = 0
    BY EmptySeq
  <2> QED BY <1>1, <2>1, <2>2
<1>3. s # <<>> => s[1] = <<a, 0, 0>>
  BY <1>1, <1>2 DEF Begins
<1>4. ASSUME NEW i \in 1 .. m - 1 PROVE s[i + 1] = After(s[i])
  <2>1. i \in 1 .. Len(c) - 1 /\ i \in 1 .. m /\ i + 1 \in 1 .. m
    <3> HIDE DEF m, c
    <3> QED BY <1>1
  <2>2. c[i + 1] = After(c[i])
    BY <2>1 DEF Begins
  <2> HIDE DEF m, c
  <2> QED BY <1>1, <2>1, <2>2
<1> QED
  BY <1>3, <1>4 DEF Begins

\* Bytes that follow each other, from one to another.
Part(t, first, last) ==
    /\ t # <<>> /\ t[1] = first /\ t[Len(t)] = last
    /\ \A i \in 1 .. Len(t) - 1 : t[i + 1] = After(t[i])

\* A range of a volume is a sequence of bytes, each after the one before.
LEMMA BytesAre ==
    ASSUME NEW a \in Archives, NEW v \in Volume(a), NEW from \in Nat, NEW to \in Nat,
           from <= to, to < Size(Key(a, v))
    PROVE  /\ Bytes(Key(a, v), from, to) \in Seq(Byte)
           /\ Part(Bytes(Key(a, v), from, to), <<a, v, from>>, <<a, v, to>>)
<1> DEFINE n == to - from + 1
           t == Bytes(Key(a, v), from, to)
<1>1. n \in Nat \ {0} /\ a \in Nat /\ v \in Nat
  BY SizesType, VolumeType
<1>2. t = [i \in 1 .. n |-> <<a, v, from + i - 1>>]
  BY DEF Bytes, Key
<1>3. \A i \in 1 .. n : from + i - 1 \in Nat /\ <<a, v, from + i - 1>> \in Byte
  BY <1>1 DEF Byte
<1>4. t \in Seq(Byte) /\ Len(t) = n
  <2> HIDE DEF n, t
  <2>1. t \in [1 .. n -> Byte]
    BY <1>2, <1>3
  <2> QED BY <1>1, <2>1
<1>5. t[1] = <<a, v, from>> /\ t[n] = <<a, v, to>>
  <2>1. from + 1 - 1 = from /\ from + n - 1 = to /\ 1 \in 1 .. n /\ n \in 1 .. n
    BY <1>1
  <2> HIDE DEF n, t
  <2> QED BY <1>2, <2>1
<1>6. ASSUME NEW i \in 1 .. n - 1 PROVE t[i + 1] = After(t[i])
  <2> DEFINE b == from + i - 1
             size == Size(Key(a, v))
  <2>1. i \in 1 .. n /\ i + 1 \in 1 .. n /\ b \in Nat /\ from + (i + 1) - 1 = b + 1 /\ b + 1 <= to
    OBVIOUS
  <2>2. t[i] = <<a, v, b>> /\ t[i + 1] = <<a, v, b + 1>>
    <3> HIDE DEF n, t
    <3>1. t[i] = <<a, v, from + i - 1>> /\ t[i + 1] = <<a, v, from + (i + 1) - 1>>
      BY <1>2, <2>1
    <3> QED BY <2>1, <3>1
  <2>3. Size(Key(a, v)) = Sizes[a + 1][v + 1] /\ size \in Nat
    <3>1. Size(Key(a, v)) = Sizes[a + 1][v + 1]
      BY DEF Size, Key
    <3>2. Sizes[a + 1] \in Seq(Nat \ {0}) /\ Len(Sizes[a + 1]) \in Nat
      BY SizesType
    <3>3. v + 1 \in 1 .. Len(Sizes[a + 1])
      <4> DEFINE l == Len(Sizes[a + 1])
      <4>1. v \in 0 .. l - 1 /\ l \in Nat
        BY <3>2 DEF Volume
      <4> HIDE DEF l
      <4>2. v + 1 \in 1 .. l
        BY <4>1
      <4> QED BY <4>2 DEF l
    <3> QED BY <3>1, <3>2, <3>3
  <2>4. b + 1 < Sizes[a + 1][v + 1]
    <3> HIDE DEF b, n
    <3> QED BY <2>1, <2>3
  <2>5. After(<<a, v, b>>) = <<a, v, b + 1>>
    <3> HIDE DEF b
    <3> QED BY <2>4 DEF After
  <2> QED BY <2>2, <2>5
<1>7. t # <<>>
  <2>1. t = <<>> => Len(t) = 0
    BY EmptySeq
  <2> HIDE DEF n, t
  <2> QED BY <1>1, <1>4, <2>1
<1>8. Part(t, <<a, v, from>>, <<a, v, to>>)
  <2> HIDE DEF n, t
  <2> QED BY <1>4, <1>5, <1>6, <1>7 DEF Part
<1> QED
  BY <1>4, <1>8 DEF t

\* A stream that has begun goes on with what follows its last byte.
LEMMA Longer ==
    ASSUME NEW s \in Seq(Byte), NEW t \in Seq(Byte), NEW a, Begins(s, a),
           NEW first, NEW last, Part(t, first, last),
           first = IF s = <<>> THEN <<a, 0, 0>> ELSE After(s[Len(s)])
    PROVE  /\ Begins(s \o t, a) /\ s \o t # <<>>
           /\ (s \o t)[Len(s \o t)] = last
<1>0. /\ t # <<>> /\ t[1] = first /\ t[Len(t)] = last
      /\ \A i \in 1 .. Len(t) - 1 : t[i + 1] = After(t[i])
  BY DEF Part
<1> DEFINE m == Len(s)
           n == Len(t)
           c == s \o t
<1>1. m \in Nat /\ n \in Nat \ {0}
  BY <1>0, EmptySeq
<1>2. c \in Seq(Byte) /\ Len(c) = m + n
  BY ConcatProperties
<1>3. \A i \in 1 .. m : c[i] = s[i]
  <2> TAKE i \in 1 .. m
  <2>1. i \in 1 .. m + n /\ i <= m
    <3> HIDE DEF m, n
    <3> QED BY <1>1
  <2> QED BY <2>1, ConcatProperties
<1>4. \A i \in 1 .. n : c[m + i] = t[i]
  <2> TAKE i \in 1 .. n
  <2> DEFINE j == m + i
  <2>1. j \in 1 .. m + n /\ ~(j <= m) /\ j - m = i
    <3> HIDE DEF m, n
    <3> QED BY <1>1
  <2> HIDE DEF j
  <2>2. c[j] = t[j - m]
    BY <2>1, ConcatProperties
  <2> QED BY <2>1, <2>2 DEF j
<1>5. (s = <<>>) <=> (m = 0)
  BY EmptySeq
<1> HIDE DEF m, n, c
<1>6. c # <<>>
  <2>1. c = <<>> => Len(c) = 0
    BY EmptySeq
  <2> QED BY <1>1, <1>2, <2>1
<1>7. c[Len(c)] = t[n]
  <2>1. n \in 1 .. n
    BY <1>1
  <2> QED BY <1>2, <1>4, <2>1
<1>8. c[1] = <<a, 0, 0>>
  <2>1. CASE m = 0
    <3>1. 1 \in 1 .. n /\ m + 1 = 1
      BY <1>1, <2>1
    <3>2. c[m + 1] = t[1]
      BY <1>4, <3>1
    <3> QED BY <1>0, <1>5, <2>1, <3>1, <3>2
  <2>2. CASE m # 0
    <3>1. 1 \in 1 .. m
      BY <1>1, <2>2
    <3>2. c[1] = s[1]
      BY <1>3, <3>1
    <3> QED BY <1>5, <2>2, <3>2 DEF Begins
  <2> QED BY <2>1, <2>2
<1>9. ASSUME NEW i \in 1 .. (m + n) - 1 PROVE c[i + 1] = After(c[i])
  <2>1. i \in Nat
    BY <1>1
  <2>2. CASE i + 1 <= m
    <3>1. i \in 1 .. m /\ i + 1 \in 1 .. m /\ i \in 1 .. m - 1
      BY <1>1, <2>1, <2>2
    <3>2. s[i + 1] = After(s[i])
      BY <3>1 DEF Begins, m
    <3>3. c[i] = s[i] /\ c[i + 1] = s[i + 1]
      BY <1>3, <3>1
    <3> QED BY <3>2, <3>3
  <2>3. CASE i = m
    <3>1. i \in 1 .. m /\ 1 \in 1 .. n /\ m # 0
      BY <1>1, <2>1, <2>3
    <3>2. c[i] = s[m] /\ c[i + 1] = t[1]
      BY <1>3, <1>4, <2>3, <3>1
    <3>3. t[1] = After(s[m])
      BY <1>0, <1>5, <3>1 DEF m
    <3> QED BY <3>2, <3>3
  <2>4. CASE i > m
    <3> DEFINE j == i - m
    <3>1. j \in 1 .. n - 1 /\ j \in 1 .. n /\ j + 1 \in 1 .. n
          /\ i = m + j /\ i + 1 = m + (j + 1)
      BY <1>1, <2>1, <2>4
    <3> HIDE DEF j
    <3>2. t[j + 1] = After(t[j])
      BY <1>0, <3>1 DEF n
    <3>3. c[m + j] = t[j] /\ c[m + (j + 1)] = t[j + 1]
      BY <1>4, <3>1
    <3> QED BY <3>1, <3>2, <3>3
  <2>5. i + 1 <= m \/ i = m \/ i > m
    BY <1>1, <2>1
  <2> QED BY <2>2, <2>3, <2>4, <2>5
<1>10. Begins(c, a)
  BY <1>2, <1>8, <1>9 DEF Begins
<1> QED
  BY <1>0, <1>6, <1>7, <1>10 DEF c, n

\* What the copier takes from the chunk stays where it is in the stream.
LEMMA Carried ==
    ASSUME NEW s \in Seq(Byte), NEW t \in Seq(Byte), t # <<>>
    PROVE  /\ (s \o <<Head(t)>>) \o Tail(t) = (s \o <<>>) \o t
           /\ <<Head(t)>> \in Seq(Byte) /\ Tail(t) \in Seq(Byte)
<1>1. Head(t) \in Byte /\ Tail(t) \in Seq(Byte) /\ <<Head(t)>> \in Seq(Byte)
  BY HeadTailProperties
<1>2. <<Head(t)>> \o Tail(t) = t
  <2>1. Len(t) \in Nat \ {0} /\ Head(t) = t[1]
    BY EmptySeq
  <2>2. 1 \in 1 .. Len(t) /\ Len(t) \in 1 .. Len(t)
    BY <2>1
  <2>3. SubSeq(t, 1, Len(t)) = <<t[1]>> \o SubSeq(t, 2, Len(t))
    <3>1. SubSeq(t, 1, Len(t)) = <<t[1]>> \o SubSeq(t, 1 + 1, Len(t))
      BY <2>2, SubSeqRecursiveFirst
    <3> QED BY <3>1
  <2> QED BY <2>1, <2>3, SubSeqFull, TailIsSubSeq
<1>3. (s \o <<Head(t)>>) \o Tail(t) = s \o t
  BY <1>1, <1>2, ConcatAssociative
<1>4. s \o <<>> = s
  BY ConcatEmptySeq
<1> QED
  BY <1>1, <1>3, <1>4
-----------------------------------------------------------------------------
(* The invariant holds at the start.                                       *)

\* Nothing is listed, planned or received yet.
LEMMA InitInvariant == Init => Invariant
<1> SUFFICES ASSUME Init PROVE Invariant
  OBVIOUS
<1>1. /\ written \subseteq Own /\ lost \subseteq Volumes
      /\ \A k \in written : Prior(k) \subseteq written
  BY DEF Init
<1>2. had = {k.archive : k \in (written \cap Volumes) \ lost}
  BY DEF Init
<1>3. had \subseteq Archives
  BY <1>1, <1>2, OwnIs
<1>4. /\ pc = "start" /\ error = "none" /\ listing = <<>> /\ paths = <<>>
      /\ archive = 0 /\ volume = 1 /\ position = 0 /\ end = 0
      /\ chunk = <<>> /\ buffer = <<>> /\ fed = <<>> /\ received = <<>>
      /\ pipe = "eof" /\ copier = "done" /\ process = "ok" /\ goroutine = "ok"
      /\ cancelled = FALSE
  BY DEF Init
<1>5. TypeOK
  <2>1. Len(paths) = 0 /\ DOMAIN listing = {} /\ Len(buffer) = 0
    BY <1>4
  <2>2. \A S : <<>> \in Seq(S)
    BY EmptySeq
  <2>3. /\ pc \notin {"get", "write"} /\ archive \in 0 .. Len(paths) /\ volume \in Nat \ {0}
        /\ position \in Nat /\ end \in Nat
    BY <1>4, <2>1
  <2>4. /\ listing \in Seq(Neighbours \cup Own) /\ paths \in Seq(Seq(Volumes))
        /\ chunk \in Seq(Byte) /\ buffer \in Seq(Byte) /\ fed \in Seq(Byte)
        /\ received \in Seq(Nat)
    BY <1>4, <2>2
  <2>5. cancelled \in BOOLEAN
    BY <1>4
  <2> QED BY <1>1, <1>3, <1>4, <2>1, <2>3, <2>4, <2>5 DEF TypeOK
<1>6. Ordered
  <2>1. Listed = {}
    BY <1>4 DEF Listed
  <2>2. ASSUME NEW a \in had
        PROVE  \E k \in (written \cap Volumes) \ lost :
                  k.archive = a /\ \A i \in DOMAIN listing : Before(listing[i], k)
    <3>1. PICK k \in (written \cap Volumes) \ lost : k.archive = a
      BY <1>2
    <3> QED BY <1>4, <3>1
  <2> QED BY <1>1, <1>4, <2>1, <2>2 DEF Ordered
<1>7. Planned
  BY <1>4, RestoreAssumption DEF Planned, Busy
<1>8. Settled
  BY <1>4 DEF Settled, Busy
<1>9. Taken
  <2>1. UpTo(0) = <<>>
    BY DEF UpTo
  <2> QED BY <1>4, <2>1 DEF Taken, Busy
<1>10. Continued
  BY <1>4 DEF Continued
<1> QED
  BY <1>5, <1>6, <1>7, <1>8, <1>9, <1>10 DEF Invariant

-----------------------------------------------------------------------------
(* Types.                                                                  *)

\* The volume being restored is one of the archive being restored.
LEMMA PathIs ==
    ASSUME TypeOK, Planned, pc \in {"get", "write"}
    PROVE  /\ archive \in Archives /\ archive + 1 \in DOMAIN paths
           /\ paths[archive + 1] \in Seq(Volumes)
           /\ volume \in 1 .. Len(paths[archive + 1])
           /\ Len(paths[archive + 1]) <= Len(Sizes[archive + 1])
           /\ volume - 1 \in Volume(archive)
           /\ path = Key(archive, volume - 1)
           /\ Size(path) = Sizes[archive + 1][volume] /\ Size(path) \in Nat \ {0}
<1>1. /\ archive \in Nat /\ Len(paths) \in Nat /\ archive < Len(paths)
      /\ paths \in Seq(Seq(Volumes)) /\ volume \in DOMAIN paths[archive + 1]
  BY DEF TypeOK
<1>2. archive + 1 \in DOMAIN paths
  BY <1>1
<1>3. paths[archive + 1] \in Seq(Volumes)
  BY <1>1, <1>2
<1>4. Len(paths) <= Len(Sizes) /\ Len(Sizes) \in Nat
  BY RestoreAssumption DEF Planned
<1>5. archive \in Archives
  BY <1>1, <1>4 DEF Archives
<1>6. Len(paths[archive + 1]) <= Len(Sizes[archive + 1])
  BY <1>2 DEF Planned
<1>7. path = Key(archive, volume - 1)
  <2>1. path = Key(archive + 1 - 1, volume - 1)
    BY <1>1, <1>2 DEF Planned, path
  <2> QED BY <1>1, <2>1
<1>8. volume \in 1 .. Len(paths[archive + 1]) /\ Len(paths[archive + 1]) \in Nat
  BY <1>1, <1>3
<1>9. Sizes[archive + 1] \in Seq(Nat \ {0}) /\ Len(Sizes[archive + 1]) \in Nat
  BY <1>5, SizesType
<1> DEFINE m == Len(paths[archive + 1])
           n == Len(Sizes[archive + 1])
<1>10. volume \in 1 .. n /\ volume - 1 \in 0 .. n - 1
  <2>1. volume \in 1 .. m /\ m \in Nat /\ n \in Nat /\ m <= n
    BY <1>6, <1>8, <1>9
  <2> HIDE DEF m, n
  <2> QED BY <2>1
<1>11. Size(path) = Sizes[archive + 1][volume]
  <2>1. (volume - 1) + 1 = volume
    BY <1>10
  <2> QED BY <1>7, <2>1 DEF Size, Key
<1>12. Sizes[archive + 1][volume] \in Nat \ {0}
  BY <1>9, <1>10
<1> QED
  BY <1>2, <1>3, <1>5, <1>6, <1>7, <1>8, <1>10, <1>11, <1>12 DEF Volume
-----------------------------------------------------------------------------
(* What verify makes of the listing.                                       *)

\* The keys of a listing are keys, and the catalogue is theirs.
LEMMA NamedIs ==
    ASSUME TypeOK
    PROVE  /\ Listed \subseteq Neighbours \cup Own
           /\ \A k \in Named(listing) : k \in Listed /\ (k.fs = FileSystem => k \in Volumes)
           /\ Listed \cap Volumes \subseteq Named(listing)
           /\ IsFiniteSet(Named(listing))
           /\ IsOf(load(listing), Named(listing))
<1>1. listing \in Seq(Neighbours \cup Own)
  BY DEF TypeOK
<1>2. Listed \subseteq Neighbours \cup Own
  BY <1>1 DEF Listed
<1>3. Named(listing) = {k \in Listed : k.volume # Contents}
  BY DEF Named, Listed
<1>4. ASSUME NEW k \in Named(listing), k.fs = FileSystem PROVE k \in Volumes
  <2>1. k \in Neighbours \cup Own /\ k.volume # Contents
    BY <1>2, <1>3
  <2>2. k \notin Neighbours
    <3> SUFFICES ASSUME k \in Neighbours PROVE FALSE
      OBVIOUS
    <3>1. k.fs \in Nat \ {FileSystem}
      BY RestoreAssumption
    <3> QED BY <1>4, <3>1
  <2> QED BY <2>1, <2>2, OwnIs
<1>5. Listed \cap Volumes \subseteq Named(listing)
  <2> SUFFICES ASSUME NEW k \in Listed, k \in Volumes PROVE k \in Named(listing)
    OBVIOUS
  <2>1. k \in Own
    BY DEF Own
  <2> QED BY <1>3, <2>1, OwnIs
<1>6. IsFiniteSet(Named(listing))
  <2>1. Named(listing) \subseteq Neighbours \cup Own
    BY <1>2, <1>3
  <2> QED BY <2>1, FiniteKeys, FS_Subset
<1>7. IsOf(load(listing), Named(listing))
  BY <1>1, LoadIs
<1>8. \A k \in Named(listing) : k \in Listed
  BY <1>3
<1> QED
  BY <1>2, <1>4, <1>5, <1>6, <1>7, <1>8

\* verify plans the volumes of the archives, each at its place, and every
\* archive that has a volume in the listing.
LEMMA PlanIs ==
    ASSUME TypeOK, Verifies(load(listing), FileSystem)
    PROVE  LET p == verify(load(listing), FileSystem)
           IN  /\ p \in Seq(Seq(Volumes)) /\ Len(p) <= Len(Sizes)
               /\ \A a \in DOMAIN p :
                     /\ p[a] # <<>> /\ Len(p[a]) <= Len(Sizes[a])
                     /\ \A v \in DOMAIN p[a] : p[a][v] = Key(a - 1, v - 1)
               /\ \A k \in Listed \cap Volumes : k.archive < Len(p)
<1> DEFINE p == verify(load(listing), FileSystem)
           keys == Named(listing)
<1>1. /\ IsOf(load(listing), keys) /\ IsFiniteSet(keys)
      /\ \A k \in keys : k.fs = FileSystem => k \in Volumes
      /\ Listed \cap Volumes \subseteq keys
  BY NamedIs
<1>2. PICK n \in Nat :
         /\ DOMAIN p = 1 .. n
         /\ \A k \in keys : k.fs = FileSystem =>
               /\ k.archive \in 0 .. n - 1
               /\ k.volume + 1 \in DOMAIN p[k.archive + 1]
         /\ p \in Seq(Seq(keys))
         /\ \A i \in 1 .. n :
               /\ p[i] # <<>>
               /\ \A j \in DOMAIN p[i] :
                     LET k == p[i][j]
                     IN  k \in keys /\ k.fs = FileSystem /\ k.archive = i - 1 /\ k.volume = j - 1
  <2> HIDE DEF keys
  <2> QED BY <1>1, VerifyIs
<1> HIDE DEF p, keys
<1>3. Len(p) = n /\ \A i \in 1 .. n : p[i] \in Seq(keys)
  BY <1>2
<1>4. ASSUME NEW i \in 1 .. n, NEW j \in DOMAIN p[i]
      PROVE  /\ p[i][j] \in Volumes /\ p[i][j] = Key(i - 1, j - 1)
             /\ i - 1 \in Archives /\ j - 1 \in Volume(i - 1)
  <2> DEFINE k == p[i][j]
  <2>1. k \in keys /\ k.fs = FileSystem /\ k.archive = i - 1 /\ k.volume = j - 1
    BY <1>2
  <2> HIDE DEF k
  <2>2. k \in Volumes
    BY <1>1, <2>1
  <2>3. k \in Own
    BY <2>2 DEF Own
  <2>4. k = Key(k.archive, k.volume) /\ k.archive \in Archives /\ k.volume \in Volume(k.archive)
    BY <2>2, <2>3, OwnIs
  <2>5. k = Key(i - 1, j - 1) /\ i - 1 \in Archives /\ j - 1 \in Volume(i - 1)
    BY <2>1, <2>4
  <2> QED BY <2>2, <2>5 DEF k
<1>5. ASSUME NEW i \in 1 .. n
      PROVE  /\ Len(p[i]) \in Nat \ {0} /\ DOMAIN p[i] = 1 .. Len(p[i])
             /\ p[i] \in Seq(Volumes)
  <2>1. p[i] \in Seq(keys) /\ p[i] # <<>>
    BY <1>2, <1>3
  <2>2. Len(p[i]) \in Nat \ {0} /\ DOMAIN p[i] = 1 .. Len(p[i]) /\ p[i] \in [1 .. Len(p[i]) -> keys]
    BY <2>1, EmptySeq, LenProperties
  <2>3. \A j \in 1 .. Len(p[i]) : p[i][j] \in Volumes
    BY <1>4, <2>2
  <2>4. p[i] \in [1 .. Len(p[i]) -> Volumes]
    BY <2>2, <2>3
  <2> QED BY <2>2, <2>4
<1>6. p \in Seq(Seq(Volumes))
  <2>1. p \in [1 .. n -> Seq(keys)]
    BY <1>2, <1>3
  <2>2. p \in [1 .. n -> Seq(Volumes)]
    BY <1>5, <2>1
  <2> QED BY <2>2
<1>7. ASSUME NEW i \in 1 .. n PROVE i <= Len(Sizes) /\ Len(p[i]) <= Len(Sizes[i])
  <2> DEFINE m == Len(p[i])
             l == Len(Sizes[i])
  <2>1. m \in Nat \ {0} /\ m \in DOMAIN p[i]
    BY <1>5
  <2>2. i - 1 \in Archives /\ m - 1 \in Volume(i - 1)
    BY <1>4, <2>1
  <2>3. i \in Nat /\ (i - 1) + 1 = i
    OBVIOUS
  <2>4. i \in DOMAIN Sizes /\ l \in Nat /\ Len(Sizes) \in Nat
    <3>1. /\ (i - 1) + 1 \in DOMAIN Sizes /\ Len(Sizes) \in Nat
          /\ Len(Sizes[(i - 1) + 1]) \in 1 .. Contents
      BY <2>2, SizesType
    <3> QED BY <2>3, <3>1
  <2>5. m - 1 \in 0 .. l - 1
    BY <2>2, <2>3 DEF Volume
  <2>6. DOMAIN Sizes = 1 .. Len(Sizes)
    BY RestoreAssumption
  <2> HIDE DEF m, l
  <2>7. m <= l
    BY <2>1, <2>4, <2>5
  <2> QED BY <2>4, <2>6, <2>7 DEF m, l
<1>8. Len(p) <= Len(Sizes)
  <2>1. CASE n = 0
    BY <1>3, <2>1, RestoreAssumption
  <2>2. CASE n # 0
    <3>1. n \in 1 .. n
      BY <2>2
    <3> QED BY <1>3, <1>7, <3>1
  <2> QED BY <2>1, <2>2
<1>9. ASSUME NEW k \in Listed \cap Volumes PROVE k.archive < Len(p)
  <2>1. k \in keys /\ k.fs = FileSystem
    BY <1>1, OwnIs DEF Own
  <2>2. k.archive \in 0 .. n - 1
    BY <1>2, <2>1
  <2> QED BY <1>3, <2>2
<1>10. \A a \in DOMAIN p :
          /\ p[a] # <<>> /\ Len(p[a]) <= Len(Sizes[a])
          /\ \A v \in DOMAIN p[a] : p[a][v] = Key(a - 1, v - 1)
  BY <1>2, <1>4, <1>7
<1> QED
  BY <1>6, <1>8, <1>9, <1>10 DEF p

\* A bucket that has lost nothing has no gap in its listing.
LEMMA NoGap ==
    ASSUME TypeOK, Ordered, lost = {}
    PROVE  Verifies(load(listing), FileSystem)
<1> DEFINE keys == Named(listing)
<1>1. /\ IsOf(load(listing), keys) /\ IsFiniteSet(keys)
      /\ \A k \in keys : k \in Listed /\ (k.fs = FileSystem => k \in Volumes)
      /\ Listed \cap Volumes \subseteq keys
  BY NamedIs
<1>2. \A k \in Listed \cap Own : Prior(k) \subseteq Listed
  BY DEF Ordered
<1>3. ASSUME NEW k \in keys, k.fs = FileSystem,
             NEW a \in Archives, NEW v \in Volume(a), Before(Key(a, v), k) \/ Key(a, v) = k
      PROVE  \E l \in keys : l.fs = FileSystem /\ l.archive = a /\ l.volume = v
  <2>1. Key(a, v) \in Volumes /\ Key(a, v) \in Own
    BY VolumeIs
  <2>2. k \in Listed \cap Own
    BY <1>1, <1>3 DEF Own
  <2>3. Key(a, v) \in Listed
    BY <1>2, <1>3, <2>1, <2>2 DEF Prior
  <2>4. Key(a, v) \in keys
    BY <1>1, <2>1, <2>3
  <2> QED BY <2>4 DEF Key
<1>4. ASSUME NEW k \in keys, k.fs = FileSystem
      PROVE  /\ k.archive \in Nat /\ k.volume \in Nat
             /\ \A a \in 0 .. k.archive :
                   \E l \in keys : l.fs = FileSystem /\ l.archive = a
             /\ \A v \in 0 .. k.volume :
                   \E l \in keys : l.fs = FileSystem /\ l.archive = k.archive /\ l.volume = v
  <2>1. k \in Volumes /\ k \in Own
    BY <1>1, <1>4 DEF Own
  <2>2. /\ k.archive \in Archives /\ k.volume \in Volume(k.archive)
        /\ k = Key(k.archive, k.volume) /\ k.volume \in Nat /\ k.archive \in Nat
    BY <2>1, OwnIs, SizesType, VolumeType
  <2>3. ASSUME NEW a \in 0 .. k.archive
        PROVE  \E l \in keys : l.fs = FileSystem /\ l.archive = a
    <3>1. CASE a = k.archive
      BY <1>4, <3>1
    <3>2. CASE a # k.archive
      <4>1. a \in Archives /\ a < k.archive
        <5>1. Len(Sizes) \in Nat
          BY RestoreAssumption
        <5> QED BY <2>2, <3>2, <5>1 DEF Archives
      <4>2. 0 \in Volume(a)
        BY <4>1, SizesType
      <4>3. Before(Key(a, 0), k)
        BY <1>4, <4>1 DEF Before, Key
      <4> QED BY <1>3, <1>4, <4>1, <4>2, <4>3
    <3> QED BY <3>1, <3>2
  <2>4. ASSUME NEW v \in 0 .. k.volume
        PROVE  \E l \in keys : l.fs = FileSystem /\ l.archive = k.archive /\ l.volume = v
    <3>1. CASE v = k.volume
      BY <1>4, <3>1
    <3>2. CASE v # k.volume
      <4> DEFINE n == Len(Sizes[k.archive + 1])
      <4>1. k.volume \in 0 .. n - 1 /\ n \in Nat /\ v < k.volume
        BY <2>2, <3>2, SizesType DEF Volume
      <4>2. v \in Volume(k.archive)
        <5>1. v \in 0 .. n - 1
          <6> HIDE DEF n
          <6> QED BY <4>1
        <5> QED BY <5>1 DEF Volume
      <4>3. Before(Key(k.archive, v), k)
        BY <1>4, <4>1 DEF Before, Key
      <4> QED BY <1>3, <1>4, <2>2, <4>2, <4>3
    <3> QED BY <3>1, <3>2
  <2> QED BY <2>2, <2>3, <2>4
<1> HIDE DEF keys
<1> QED
  BY <1>1, <1>4, GapFreeVerifies
-----------------------------------------------------------------------------
(* Types are kept.                                                         *)

\* The steps that leave the bucket, the listing, the download and the bytes.
Still ==
    \/ NotSendable \/ Start \/ CallFails \/ WriteFails \/ Close \/ Wait
    \/ CopyEnds \/ ReceiveBreaks \/ Received \/ Cancel \/ UNCHANGED vars

\* The next keys are keys, of what is there.
LEMMA ListedMore ==
    ASSUME TypeOK, ListObjects
    PROVE  /\ listing' \in Seq(Neighbours \cup Own)
           /\ \A i \in DOMAIN listing' : listing'[i] \in Neighbours \cup (written \ lost)
           /\ Listed' = Listed \cup Page
           /\ \A k : (\A i \in DOMAIN listing' : Before(listing'[i], k))
                        <=> (\A i \in DOMAIN listing : Before(listing[i], k))
                               /\ \A p \in Page : Before(p, k)
<1> DEFINE S == Neighbours \cup Own
           m == Len(listing)
           n == Len(Objects)
<1>1. listing \in Seq(S) /\ written \subseteq Own
  BY DEF TypeOK
<1>2. Page \subseteq Rest /\ Objects \in Seq(Page) /\ {Objects[i] : i \in DOMAIN Objects} = Page
  BY <1>1, PageIs
<1>3. Page \subseteq Neighbours \cup (written \ lost) /\ Page \subseteq S
  BY <1>1, <1>2 DEF Rest
<1>4. Objects \in Seq(S)
  <2> HIDE DEF S
  <2> QED BY <1>2, <1>3, SeqMonotonic
<1>5. listing' = listing \o Objects
  BY DEF ListObjects, List
<1>6. /\ m \in Nat /\ n \in Nat /\ DOMAIN listing = 1 .. m /\ DOMAIN Objects = 1 .. n
      /\ listing' \in Seq(S) /\ DOMAIN listing' = 1 .. m + n
      /\ \A i \in 1 .. m + n :
            listing'[i] = IF i <= m THEN listing[i] ELSE Objects[i - m]
  <2> HIDE DEF S
  <2> QED BY <1>1, <1>4, <1>5, ConcatProperties, LenProperties
<1> HIDE DEF m, n
<1>7. \A i \in 1 .. m : i \in 1 .. m + n /\ listing'[i] = listing[i]
  BY <1>6
<1>8. \A i \in 1 .. n : m + i \in 1 .. m + n /\ listing'[m + i] = Objects[i]
  <2> TAKE i \in 1 .. n
  <2> DEFINE j == m + i
  <2>1. j \in 1 .. m + n /\ ~(j <= m) /\ j - m = i
    BY <1>6
  <2> HIDE DEF j
  <2>2. listing'[j] = Objects[j - m]
    BY <1>6, <2>1
  <2> QED BY <2>1, <2>2 DEF j
<1>9. \A i \in 1 .. m + n :
         \/ i \in 1 .. m /\ listing'[i] = listing[i]
         \/ i - m \in 1 .. n /\ listing'[i] = Objects[i - m]
  BY <1>6
<1>10. Listed' = {listing'[i] : i \in 1 .. m + n} /\ Listed = {listing[i] : i \in 1 .. m}
       /\ Page = {Objects[i] : i \in 1 .. n}
  BY <1>2, <1>6 DEF Listed
<1>11. Listed' = Listed \cup Page
  <2>1. Listed' \subseteq Listed \cup Page
    BY <1>9, <1>10
  <2>2. Listed \subseteq Listed'
    BY <1>7, <1>10
  <2>3. Page \subseteq Listed'
    BY <1>8, <1>10
  <2> QED BY <2>1, <2>2, <2>3
<1>12. \A i \in DOMAIN listing' : listing'[i] \in Neighbours \cup (written \ lost)
  <2>1. \A x \in Listed : x \in Neighbours \cup (written \ lost)
    BY DEF TypeOK, Listed
  <2>2. \A i \in DOMAIN listing' : listing'[i] \in Listed'
    BY DEF Listed
  <2> QED BY <1>3, <1>11, <2>1, <2>2
<1>13. ASSUME NEW k
       PROVE  (\A i \in DOMAIN listing' : Before(listing'[i], k))
                 <=> (\A i \in DOMAIN listing : Before(listing[i], k))
                        /\ \A p \in Page : Before(p, k)
  <2>1. (\A i \in DOMAIN listing' : Before(listing'[i], k)) <=> \A x \in Listed' : Before(x, k)
    BY <1>6, <1>10
  <2>2. (\A i \in DOMAIN listing : Before(listing[i], k)) <=> \A x \in Listed : Before(x, k)
    BY DEF Listed
  <2> QED BY <1>11, <2>1, <2>2
<1> QED
  BY <1>6, <1>11, <1>12, <1>13

\* Types, in each action.
LEMMA TypeStep == Invariant /\ [Next]_vars => TypeOK'
<1> SUFFICES ASSUME Invariant, [Next]_vars PROVE TypeOK'
  OBVIOUS
<1> USE DEF bucket, catalog, download, receive, control
<1>1. TypeOK /\ Planned /\ Settled /\ Taken /\ Continued
  BY DEF Invariant
<1>2. CASE Still
  <2>1. /\ UNCHANGED <<bucket, catalog, position, end, chunk, buffer, fed, received>>
        /\ pc' \notin {"get", "write"} \/ (pc' = pc /\ UNCHANGED <<archive, volume>>)
        /\ volume' = volume
    BY <1>2 DEF Still, NotSendable, Start, CallFails, WriteFails, Close, Wait, CopyEnds,
                ReceiveBreaks, Received, Cancel, vars, Fail
  <2>2. archive' \in 0 .. Len(paths)
    <3>1. CASE archive' = archive
      BY <1>1, <3>1 DEF TypeOK
    <3>2. CASE archive' # archive
      <4>1. Wait /\ goroutine = "ok" /\ archive' = archive + 1
        BY <1>2, <3>2 DEF Still, NotSendable, Start, CallFails, WriteFails, Close, Wait, CopyEnds,
                ReceiveBreaks, Received, Cancel, vars, Fail
      <4> QED BY <1>1, <4>1 DEF Wait, TypeOK, Planned, Busy
    <3> QED BY <3>1, <3>2
  <2>3. /\ pc' \in {"start", "list", "verify", "archive", "get", "write", "close", "wait",
                    "failing", "ok", "failed"}
        /\ error' \in {"none", "settings", "call", "verify", "receive"}
        /\ pipe' \in {"open", "eof", "error", "broken"}
    BY <1>1, <1>2 DEF Still, NotSendable, Start, CallFails, WriteFails, Close, Wait, CopyEnds,
              ReceiveBreaks, Received, Cancel, vars, Fail, TypeOK
  <2>4. /\ copier' \in {"reading", "writing", "done"}
        /\ process' \in {"running", "ok", "failed"} /\ goroutine' \in {"running", "ok", "failed"}
    BY <1>1, <1>2 DEF Still, NotSendable, Start, CallFails, WriteFails, Close, Wait, CopyEnds,
              ReceiveBreaks, Received, Cancel, vars, TypeOK
  <2>5. cancelled' \in BOOLEAN
    BY <1>1, <1>2 DEF Still, NotSendable, Start, CallFails, WriteFails, Close, Wait, CopyEnds,
              ReceiveBreaks, Received, Cancel, vars, TypeOK
  <2>6. pc' \in {"get", "write"} =>
          /\ archive' < Len(paths') /\ volume' \in DOMAIN paths'[archive' + 1]
          /\ position' < Size(path)'
          /\ pc' = "write" => end' < Size(path)'
    BY <1>1, <2>1 DEF TypeOK, path
  <2> QED BY <1>1, <2>1, <2>2, <2>3, <2>4, <2>5, <2>6 DEF TypeOK
<1>3. CASE ListObjects
  <2>1. /\ UNCHANGED <<bucket, error, paths, download, chunk, pipe, copier, buffer, receive,
                       goroutine, cancelled>>
        /\ pc' \in {"list", "verify"}
    BY <1>3 DEF ListObjects, List
  <2>2. /\ listing' \in Seq(Neighbours \cup Own)
        /\ \A i \in DOMAIN listing' : listing'[i] \in Neighbours \cup (written \ lost)
    BY <1>1, <1>3, ListedMore
  <2> QED BY <1>1, <2>1, <2>2 DEF TypeOK
<1>4. CASE Verify
  <2>1. /\ UNCHANGED <<bucket, listing, download, chunk, copier, buffer, receive, goroutine,
                       cancelled>>
        /\ pc = "verify" /\ pc' \in {"archive", "failing"} /\ error' \in {error, "verify"}
        /\ pipe' \in {pipe, "error"}
        /\ \/ paths' = paths
           \/ paths' = verify(load(listing), FileSystem) /\ Verifies(load(listing), FileSystem)
    BY <1>4 DEF Verify, Fail
  <2>2. paths' \in Seq(Seq(Volumes))
    BY <1>1, <2>1, PlanIs DEF TypeOK
  <2>3. archive' \in 0 .. Len(paths')
    <3>1. archive = 0
      <4>1. paths = <<>>
        BY <1>1, <2>1 DEF Planned
      <4> QED BY <1>1, <4>1 DEF TypeOK
    <3>2. Len(paths') \in Nat
      BY <2>2
    <3> QED BY <2>1, <3>1, <3>2
  <2> QED BY <1>1, <2>1, <2>2, <2>3 DEF TypeOK
<1>5. CASE Receive
  <2>1. CASE archive = Len(paths)
    <3>1. /\ pc' = "ok" /\ UNCHANGED <<volume, position, pipe, copier, process, fed, goroutine>>
          /\ UNCHANGED <<bucket, error, catalog, archive, end, chunk, buffer, received, cancelled>>
      BY <1>5, <2>1 DEF Receive
    <3> QED BY <1>1, <3>1 DEF TypeOK
  <2>2. CASE archive # Len(paths)
    <3>1. /\ pc' = "get" /\ volume' = 1 /\ position' = 0
          /\ pipe' = "open" /\ copier' = "reading"
          /\ process' = "running" /\ fed' = <<>> /\ goroutine' = "running"
          /\ UNCHANGED <<bucket, error, catalog, archive, end, chunk, buffer, received, cancelled>>
      BY <1>5, <2>2 DEF Receive
    <3>2. archive \in Nat /\ Len(paths) \in Nat /\ archive < Len(paths) /\ archive + 1 \in DOMAIN paths
      BY <1>1, <2>2 DEF TypeOK
    <3>3. paths[archive + 1] # <<>> /\ paths[archive + 1] \in Seq(Volumes)
      BY <1>1, <3>2 DEF TypeOK, Planned
    <3>4. 1 \in DOMAIN paths[archive + 1]
      <4>1. Len(paths[archive + 1]) \in Nat \ {0}
        BY <3>3, EmptySeq
      <4> QED BY <3>3, <4>1
    <3>5. Size(path)' \in Nat \ {0}
      <4>1. paths[archive + 1][1] = Key(archive, 0)
        <5>1. paths[archive + 1][1] = Key((archive + 1) - 1, 1 - 1)
          BY <1>1, <3>2, <3>4 DEF Planned
        <5>2. (archive + 1) - 1 = archive /\ 1 - 1 = 0
          BY <3>2
        <5> QED BY <5>1, <5>2
      <4>2. Size(path)' = Sizes[archive + 1][1]
        BY <3>1, <4>1 DEF path, Size, Key
      <4>3. archive \in Archives
        BY <1>1, <3>2, RestoreAssumption DEF Planned, Archives
      <4>4. Sizes[archive + 1] \in Seq(Nat \ {0}) /\ Len(Sizes[archive + 1]) \in 1 .. Contents
        BY <4>3, SizesType
      <4> QED BY <4>2, <4>4
    <3>6. fed' \in Seq(Byte)
      BY <3>1, EmptySeq
    <3> QED BY <1>1, <3>1, <3>2, <3>4, <3>5, <3>6 DEF TypeOK
  <2> QED BY <2>1, <2>2
<1>6. CASE GetObject
  <2>1. /\ UNCHANGED <<bucket, error, catalog, archive, volume, position, pipe, copier, buffer,
                       receive, goroutine, cancelled>>
        /\ pc = "get" /\ pc' = "write"
        /\ end' = (IF position + PartSize < Size(path) THEN position + PartSize
                   ELSE Size(path)) - 1
        /\ chunk' = Bytes(path, position, end')
    BY <1>6 DEF GetObject
  <2>2. /\ archive \in Archives /\ volume - 1 \in Volume(archive)
        /\ path = Key(archive, volume - 1) /\ Size(path) \in Nat \ {0}
    BY <1>1, <2>1, PathIs
  <2>3. position \in Nat /\ position < Size(path) /\ PartSize \in Nat \ {0}
    BY <1>1, <2>1, RestoreAssumption DEF TypeOK
  <2>4. end' \in Nat /\ position <= end' /\ end' < Size(path)
    <3> DEFINE size == Size(path)
    <3> HIDE DEF size
    <3>1. size \in Nat \ {0} /\ position \in Nat /\ position < size /\ PartSize \in Nat \ {0}
      BY <2>2, <2>3 DEF size
    <3>2. end' = (IF position + PartSize < size THEN position + PartSize ELSE size) - 1
      BY <2>1 DEF size
    <3>3. end' \in Nat /\ position <= end' /\ end' < size
      BY <3>1, <3>2
    <3> QED BY <3>3 DEF size
  <2>5. chunk' \in Seq(Byte)
    BY <2>1, <2>2, <2>3, <2>4, BytesAre
  <2>6. path' = path /\ Size(path)' = Size(path)
    BY <2>1 DEF path, Size
  <2> QED BY <1>1, <2>1, <2>4, <2>5, <2>6 DEF TypeOK
<1>7. CASE RangeWritten
  <2>1. /\ UNCHANGED <<bucket, error, catalog, archive, end, chunk, pipe, copier, buffer,
                       receive, goroutine, cancelled>>
        /\ pc = "write"
        /\ \/ pc' = "close" /\ volume' = volume /\ position' = 0
           \/ /\ volume # Len(paths[archive + 1])
              /\ pc' = "get" /\ volume' = volume + 1 /\ position' = 0
           \/ end # Size(path) - 1 /\ pc' = "get" /\ volume' = volume /\ position' = end + 1
    BY <1>7 DEF RangeWritten, NextRange
  <2>2. /\ archive \in Archives /\ archive + 1 \in DOMAIN paths
        /\ paths[archive + 1] \in Seq(Volumes)
        /\ volume \in 1 .. Len(paths[archive + 1])
        /\ Len(paths[archive + 1]) <= Len(Sizes[archive + 1])
        /\ Size(path) \in Nat \ {0}
    BY <1>1, <2>1, PathIs
  <2>3. archive \in Nat /\ archive < Len(paths) /\ end \in Nat /\ end < Size(path)
    BY <1>1, <2>1 DEF TypeOK
  <2>4. CASE pc' = "close"
    BY <1>1, <2>1, <2>4 DEF TypeOK
  <2>5. CASE end # Size(path) - 1 /\ pc' = "get" /\ volume' = volume /\ position' = end + 1
    <3>1. path' = path /\ Size(path)' = Size(path)
      BY <2>1, <2>5 DEF path, Size
    <3>2. position' \in Nat /\ position' < Size(path)
      BY <2>2, <2>3, <2>5
    <3>3. volume' \in DOMAIN paths[archive + 1]
      BY <2>2, <2>5
    <3> QED BY <1>1, <2>1, <2>3, <2>5, <3>1, <3>2, <3>3 DEF TypeOK
  <2>6. CASE /\ volume # Len(paths[archive + 1])
             /\ pc' = "get" /\ volume' = volume + 1 /\ position' = 0
    <3> DEFINE n == Len(paths[archive + 1])
    <3>1. volume + 1 \in 1 .. n /\ volume + 1 \in Nat \ {0}
      <4>1. volume \in 1 .. n /\ volume # n /\ n \in Nat
        BY <2>2, <2>6
      <4> HIDE DEF n
      <4> QED BY <4>1
    <3>2. volume + 1 \in DOMAIN paths[archive + 1]
      BY <2>2, <3>1
    <3>3. paths[archive + 1][volume + 1] = Key(archive, volume)
      <4>1. paths[archive + 1][volume + 1] = Key((archive + 1) - 1, (volume + 1) - 1)
        BY <1>1, <2>2, <3>2 DEF Planned
      <4>2. (archive + 1) - 1 = archive /\ (volume + 1) - 1 = volume
        BY <2>2, <2>3
      <4> QED BY <4>1, <4>2
    <3>4. Size(path)' = Sizes[archive + 1][volume + 1]
      BY <2>1, <2>6, <3>3 DEF path, Size, Key
    <3>5. Sizes[archive + 1][volume + 1] \in Nat \ {0}
      <4> DEFINE l == Len(Sizes[archive + 1])
      <4>1. Sizes[archive + 1] \in Seq(Nat \ {0}) /\ l \in Nat /\ n <= l /\ n \in Nat
        BY <2>2, SizesType
      <4>2. volume + 1 \in 1 .. l
        <5> HIDE DEF n, l
        <5> QED BY <3>1, <4>1
      <4> QED BY <4>1, <4>2
    <3>6. /\ archive' < Len(paths') /\ volume' \in DOMAIN paths'[archive' + 1]
          /\ volume' \in Nat \ {0} /\ position' \in Nat
      BY <2>1, <2>3, <2>6, <3>1, <3>2
    <3>7. position' < Size(path)'
      BY <2>6, <3>4, <3>5
    <3>8. pc' = "get"
      BY <2>6
    <3> QED BY <1>1, <2>1, <3>6, <3>7, <3>8 DEF TypeOK
  <2> QED BY <2>1, <2>4, <2>5, <2>6
<1>8. CASE Exit
  <2>1. /\ pc' = "failed" /\ copier' = "done" /\ buffer' = <<>> /\ chunk' = <<>>
        /\ UNCHANGED <<bucket, error, catalog, download, pipe, receive, goroutine, cancelled>>
    BY <1>8 DEF Exit
  <2>2. <<>> \in Seq(Byte) /\ Len(<<>>) = 0
    BY EmptySeq
  <2> QED BY <1>1, <2>1, <2>2 DEF TypeOK
<1>9. CASE CopyRead
  <2>1. /\ chunk # <<>> /\ buffer' = <<Head(chunk)>> /\ chunk' = Tail(chunk)
        /\ copier' = "writing"
        /\ UNCHANGED <<bucket, control, catalog, download, pipe, receive, goroutine, cancelled>>
    BY <1>9 DEF CopyRead
  <2>2. buffer' \in Seq(Byte) /\ chunk' \in Seq(Byte) /\ Len(buffer') = 1
    <3>1. chunk \in Seq(Byte)
      BY <1>1 DEF TypeOK
    <3> QED BY <2>1, <3>1, Carried
  <2>3. path' = path /\ Size(path)' = Size(path)
    BY <2>1 DEF path, Size
  <2> QED BY <1>1, <2>1, <2>2, <2>3 DEF TypeOK
<1>10. CASE CopyWrite
  <2>1. /\ fed' \in {fed, fed \o buffer} /\ copier' \in {"reading", "done"} /\ buffer' = <<>>
        /\ UNCHANGED <<bucket, control, catalog, download, chunk, pipe, process, received,
                       goroutine, cancelled>>
    BY <1>10 DEF CopyWrite
  <2>2. fed' \in Seq(Byte)
    <3>1. fed \in Seq(Byte) /\ buffer \in Seq(Byte)
      BY <1>1 DEF TypeOK
    <3>2. fed \o buffer \in Seq(Byte)
      BY <3>1, ConcatProperties
    <3> QED BY <2>1, <3>1, <3>2
  <2>3. path' = path /\ Size(path)' = Size(path)
    BY <2>1 DEF path, Size
  <2>4. <<>> \in Seq(Byte) /\ Len(<<>>) = 0
    BY EmptySeq
  <2> QED BY <1>1, <2>1, <2>2, <2>3, <2>4 DEF TypeOK
<1>11. CASE ReceiveEnds
  <2>1. /\ process' \in {"ok", "failed"} /\ received' \in {received, Append(received, archive)}
        /\ UNCHANGED <<bucket, control, catalog, download, chunk, pipe, copier, buffer, fed,
                       goroutine, cancelled>>
    BY <1>11 DEF ReceiveEnds
  <2>2. received' \in Seq(Nat)
    <3>1. archive \in Nat /\ received \in Seq(Nat)
      BY <1>1 DEF TypeOK
    <3> QED BY <2>1, <3>1
  <2>3. path' = path /\ Size(path)' = Size(path)
    BY <2>1 DEF path, Size
  <2> QED BY <1>1, <2>1, <2>2, <2>3 DEF TypeOK
<1>12. CASE PutObject
  <2>1. /\ written \subseteq written' /\ written' \subseteq Own
        /\ UNCHANGED <<lost, had, control, catalog, download, chunk, pipe, copier, buffer,
                       receive, goroutine, cancelled>>
    BY <1>1, <1>12 DEF PutObject, TypeOK
  <2>2. path' = path /\ Size(path)' = Size(path)
    BY <2>1 DEF path, Size
  <2>3. \A i \in DOMAIN listing' : listing'[i] \in Neighbours \cup (written' \ lost')
    BY <1>1, <2>1 DEF TypeOK
  <2> QED BY <1>1, <2>1, <2>2, <2>3 DEF TypeOK
<1> QED
  BY <1>2, <1>3, <1>4, <1>5, <1>6, <1>7, <1>8, <1>9, <1>10, <1>11, <1>12
     DEF Next, Main, Copier, Returned, Still
-----------------------------------------------------------------------------
(* The listing stays in step with the bucket.                              *)

\* Keys are written in the order of a listing, and pages are listed in that
\* order, so that no page passes over what a send writes meanwhile.
LEMMA OrderedStep == Invariant /\ [Next]_vars => Ordered'
<1> SUFFICES ASSUME Invariant, [Next]_vars PROVE Ordered'
  OBVIOUS
<1> USE DEF bucket, catalog, download, receive, control
<1>1. TypeOK /\ Ordered
  BY DEF Invariant
<1>2. /\ \A k \in written : Prior(k) \subseteq written
      /\ \A k \in Listed \cap Own : Prior(k) \ lost \subseteq Listed
      /\ lost = {} => error # "verify"
      /\ written \subseteq Own
  BY <1>1 DEF Ordered, TypeOK
<1>3. \A a \in had : \E k \in (written \cap Volumes) \ lost :
          /\ k.archive = a
          /\ pc \in {"start", "list"} =>
                k \in Listed \/ \A i \in DOMAIN listing : Before(listing[i], k)
          /\ pc = "verify" => k \in Listed
  BY <1>1 DEF Ordered
<1>4. CASE /\ UNCHANGED <<bucket, listing>>
           /\ error' = error \/ error' # "verify"
           /\ pc' = pc \/ pc' \notin {"start", "list", "verify"} \/ (pc = "start" /\ pc' = "list")
  <2>1. Listed' = Listed
    BY <1>4 DEF Listed
  <2> QED BY <1>1, <1>4, <2>1 DEF Ordered
<1>5. CASE ListObjects
  <2>1. /\ UNCHANGED <<bucket, error>> /\ pc = "list"
        /\ pc' = IF Rest = Page THEN "verify" ELSE "list"
    BY <1>5 DEF ListObjects, List
  <2>2. /\ Listed' = Listed \cup Page
        /\ \A k : (\A i \in DOMAIN listing' : Before(listing'[i], k))
                     <=> (\A i \in DOMAIN listing : Before(listing[i], k))
                            /\ \A p \in Page : Before(p, k)
    BY <1>1, <1>5, ListedMore
  <2>3. /\ Page \subseteq Rest /\ Rest \subseteq Place
        /\ \A k \in Rest : \A p \in Page : k \notin Page => Before(p, k)
    BY <1>2, PageIs, RestIs
  <2>4. ASSUME NEW k \in (written \cap Volumes) \ lost,
               k \in Listed \/ \A i \in DOMAIN listing : Before(listing[i], k)
        PROVE  /\ k \in Listed' \/ \A i \in DOMAIN listing' : Before(listing'[i], k)
               /\ Rest = Page => k \in Listed'
    <3>1. k \in Listed \/ k \in Rest
      BY <2>4 DEF Rest
    <3>2. CASE k \in Listed
      BY <2>2, <3>2
    <3>3. CASE k \in Rest
      <4>1. CASE k \in Page
        BY <2>2, <4>1
      <4>2. CASE k \notin Page
        <5>1. \A i \in DOMAIN listing : Before(listing[i], k)
          BY <3>3 DEF Rest
        <5>2. \A p \in Page : Before(p, k)
          BY <2>3, <3>3, <4>2
        <5>3. \A i \in DOMAIN listing' : Before(listing'[i], k)
          BY <2>2, <5>1, <5>2
        <5> QED BY <3>3, <4>2, <5>3
      <4> QED BY <4>1, <4>2
    <3> QED BY <3>1, <3>2, <3>3
  <2>5. ASSUME NEW k \in Listed' \cap Own, NEW l \in Prior(k), l \notin lost
        PROVE  l \in Listed'
    <3>1. l \in Own /\ Before(l, k) /\ l \in Place /\ k \in Place /\ l.fs = FileSystem
          /\ l.fs = k.fs
      BY OwnIs DEF Prior
    <3>2. CASE k \in Listed
      BY <1>2, <2>2, <2>5, <3>2
    <3>3. CASE k \in Page
      <4>1. k \in Rest /\ k \in written
        <5>1. k \in Rest
          BY <2>3, <3>3
        <5>2. k \notin Neighbours
          <6> SUFFICES ASSUME k \in Neighbours PROVE FALSE
            OBVIOUS
          <6>1. k.fs \in Nat \ {FileSystem}
            BY RestoreAssumption
          <6> QED BY <3>1, <6>1
        <5> QED BY <5>1, <5>2 DEF Rest
      <4>2. l \in written
        BY <1>2, <4>1
      <4>3. CASE l \in Rest
        <5>1. l \in Page
          <6> SUFFICES ASSUME l \notin Page PROVE FALSE
            OBVIOUS
          <6>1. Before(k, l)
            BY <2>3, <3>3, <4>3
          <6> QED BY <3>1, <6>1, Order
        <5> QED BY <2>2, <5>1
      <4>4. CASE l \notin Rest
        <5>1. PICK i \in DOMAIN listing : ~Before(listing[i], l)
          BY <2>5, <4>2, <4>4 DEF Rest
        <5> DEFINE x == listing[i]
        <5>2. x \in Listed /\ Before(x, k) /\ x \in Neighbours \cup Own
          BY <1>1, <4>1 DEF Listed, Rest, TypeOK
        <5> HIDE DEF x
        <5>3. x \in Place
          BY <5>2, KeyIs
        <5>4. x = l \/ Before(l, x)
          BY <3>1, <5>1, <5>3, Order DEF x
        <5>5. CASE x = l
          BY <2>2, <5>2, <5>5
        <5>6. CASE Before(l, x)
          <6>1. x \in Own
            <7> SUFFICES ASSUME x \in Neighbours PROVE FALSE
              BY <5>2
            <7>1. x.fs \in Nat \ {FileSystem} /\ FileSystem \in Nat
              BY RestoreAssumption
            <7>2. l.fs \in Nat /\ k.fs \in Nat
              BY <3>1 DEF Place
            <7> QED BY <3>1, <5>2, <5>6, <7>1, <7>2 DEF Before
          <6>2. l \in Prior(x)
            BY <3>1, <5>6 DEF Prior
          <6>3. l \in Listed
            BY <1>2, <2>5, <5>2, <6>1, <6>2
          <6> QED BY <2>2, <6>3
        <5> QED BY <5>4, <5>5, <5>6
      <4> QED BY <4>3, <4>4
    <3> QED BY <2>2, <2>5, <3>2, <3>3
  <2>6. ASSUME NEW a \in had
        PROVE  \E k \in (written \cap Volumes) \ lost :
                  /\ k.archive = a
                  /\ k \in Listed' \/ \A i \in DOMAIN listing' : Before(listing'[i], k)
                  /\ pc' = "verify" => k \in Listed'
    <3>1. PICK k \in (written \cap Volumes) \ lost :
             /\ k.archive = a
             /\ k \in Listed \/ \A i \in DOMAIN listing : Before(listing[i], k)
      BY <1>3, <2>1
    <3>2. pc' = "verify" => Rest = Page
      BY <2>1
    <3> QED BY <2>4, <3>1, <3>2
  <2>7. \A k \in (Listed \cap Own)' : (Prior(k) \ lost)' \subseteq Listed'
    BY <2>1, <2>5 DEF Prior, Own, Volumes
  <2> QED BY <1>2, <2>1, <2>6, <2>7 DEF Ordered
<1>6. CASE Verify
  <2>1. /\ UNCHANGED <<bucket, listing>> /\ pc = "verify" /\ pc' \in {"archive", "failing"}
        /\ \/ error' = error
           \/ error' = "verify" /\ ~Verifies(load(listing), FileSystem)
    BY <1>6 DEF Verify, Fail
  <2>2. lost = {} => error' # "verify"
    BY <1>1, <1>2, <2>1, NoGap
  <2>3. Listed' = Listed
    BY <2>1 DEF Listed
  <2> QED BY <1>2, <1>3, <2>1, <2>2, <2>3 DEF Ordered
<1>7. CASE PutObject
  <2>1. PICK k \in Own \ written : Prior(k) \subseteq written /\ written' = written \cup {k}
    BY <1>7 DEF PutObject
  <2>2. UNCHANGED <<lost, had, listing, pc, error>>
    BY <1>7 DEF PutObject
  <2>3. Listed' = Listed
    BY <2>2 DEF Listed
  <2>4. \A l \in written' : Prior(l) \subseteq written'
    BY <1>2, <2>1
  <2> QED BY <1>2, <1>3, <2>1, <2>2, <2>3, <2>4 DEF Ordered
<1>8. CASE Start \/ GetObject \/ RangeWritten \/ WriteFails \/ Close \/ Wait \/ Exit \/ Receive
  <2>1. /\ UNCHANGED <<bucket, listing>>
        /\ error' = error \/ error' # "verify"
        /\ pc' = pc \/ pc' \notin {"start", "list", "verify"} \/ (pc = "start" /\ pc' = "list")
    BY <1>8 DEF Start, GetObject, RangeWritten, NextRange, WriteFails, Close, Wait, Exit, Receive, Fail
  <2> QED BY <1>4, <2>1
<1>9. CASE CallFails \/ NotSendable \/ Copier \/ ReceiveEnds \/ Received \/ ReceiveBreaks
           \/ Cancel \/ UNCHANGED vars
  <2>1. /\ UNCHANGED <<bucket, listing>>
        /\ error' = error \/ error' # "verify"
        /\ pc' = pc \/ pc' \notin {"start", "list", "verify"} \/ (pc = "start" /\ pc' = "list")
    BY <1>9 DEF CallFails, NotSendable, Copier, CopyRead, CopyWrite, CopyEnds, ReceiveEnds, Received,
                ReceiveBreaks, Cancel, vars, Fail
  <2> QED BY <1>4, <2>1
<1> QED
  BY <1>5, <1>6, <1>7, <1>8, <1>9 DEF Next, Main, Returned
-----------------------------------------------------------------------------
(* The plan is kept.                                                       *)

\* The catalogue that verifies gives the keys; nothing changes them afterwards.
LEMMA PlannedStep == Invariant /\ [Next]_vars => Planned'
<1> SUFFICES ASSUME Invariant, [Next]_vars PROVE Planned'
  OBVIOUS
<1> USE DEF bucket, catalog, download, receive, control
<1>1. TypeOK /\ Ordered /\ Planned /\ Settled
  BY DEF Invariant
<1>2. archive \in Nat /\ Len(paths) \in Nat /\ archive <= Len(paths)
  BY <1>1 DEF TypeOK
<1>3. CASE /\ UNCHANGED <<paths, had, archive>>
           /\ \/ pc' = pc
              \/ pc' \in {"failing", "failed"}
              \/ pc \in {"start", "list"} /\ pc' \in {"list", "verify"}
              \/ pc \in Busy /\ pc' \in Busy
              \/ pc = "archive" /\ pc' = "ok" /\ archive = Len(paths)
              \/ pc = "archive" /\ pc' \in Busy /\ archive # Len(paths)
  <2>1. /\ Len(paths') <= Len(Sizes)
        /\ \A a \in DOMAIN paths' :
              /\ paths'[a] # <<>> /\ Len(paths'[a]) <= Len(Sizes[a])
              /\ \A v \in DOMAIN paths'[a] : paths'[a][v] = Key(a - 1, v - 1)
    BY <1>1, <1>3 DEF Planned
  <2>2. /\ pc' \in {"start", "list", "verify"} => paths' = <<>>
        /\ pc' \in {"archive", "ok"} \cup Busy => \A a \in had' : a < Len(paths')
    BY <1>1, <1>3 DEF Planned, Busy
  <2>3. pc' \in Busy => archive' < Len(paths')
    BY <1>1, <1>2, <1>3 DEF Planned, Busy
  <2>4. pc' = "ok" => archive' = Len(paths')
    BY <1>1, <1>3 DEF Planned, Busy
  <2> QED BY <2>1, <2>2, <2>3, <2>4 DEF Planned, Busy
<1>4. CASE Verify
  <2>1. /\ pc = "verify" /\ UNCHANGED <<bucket, archive>> /\ paths = <<>>
        /\ \/ pc' = "failing" /\ paths' = paths
           \/ /\ pc' = "archive" /\ paths' = verify(load(listing), FileSystem)
              /\ Verifies(load(listing), FileSystem)
    BY <1>1, <1>4 DEF Verify, Fail, Planned
  <2>2. CASE pc' = "failing" /\ paths' = paths
    BY <1>1, <2>1, <2>2 DEF Planned, Busy
  <2>3. CASE /\ pc' = "archive" /\ paths' = verify(load(listing), FileSystem)
             /\ Verifies(load(listing), FileSystem)
    <3>1. /\ Len(paths') <= Len(Sizes)
          /\ \A a \in DOMAIN paths' :
                /\ paths'[a] # <<>> /\ Len(paths'[a]) <= Len(Sizes[a])
                /\ \A v \in DOMAIN paths'[a] : paths'[a][v] = Key(a - 1, v - 1)
          /\ \A k \in Listed \cap Volumes : k.archive < Len(paths')
      BY <1>1, <2>3, PlanIs
    <3>2. ASSUME NEW a \in had PROVE a < Len(paths')
      <4>1. PICK k \in (written \cap Volumes) \ lost : k.archive = a /\ k \in Listed
        BY <1>1, <2>1 DEF Ordered
      <4> QED BY <3>1, <4>1
    <3> QED BY <2>1, <2>3, <3>1, <3>2 DEF Planned, Busy
  <2> QED BY <2>1, <2>2, <2>3
<1>5. CASE Wait
  <2>1. /\ UNCHANGED <<paths, had>> /\ pc = "wait"
        /\ \/ pc' = "archive" /\ archive' = archive + 1
           \/ pc' = "failing" /\ archive' = archive
    BY <1>5 DEF Wait, Fail
  <2> QED BY <1>1, <2>1 DEF Planned, Busy
<1>6. CASE Start \/ ListObjects \/ GetObject \/ RangeWritten \/ WriteFails \/ Close \/ Exit
  <2>1. /\ UNCHANGED <<paths, had, archive>>
        /\ \/ pc' \in {"failing", "failed"}
           \/ pc \in {"start", "list"} /\ pc' \in {"list", "verify"}
           \/ pc \in Busy /\ pc' \in Busy
    BY <1>6 DEF Start, ListObjects, List, GetObject, RangeWritten, NextRange, WriteFails, Close,
                Exit, Fail, Busy
  <2> QED BY <1>3, <2>1
<1>7. CASE Receive
  <2>1. /\ UNCHANGED <<paths, had, archive>> /\ pc = "archive"
        /\ \/ pc' = "ok" /\ archive = Len(paths)
           \/ pc' \in Busy /\ archive # Len(paths)
    BY <1>7 DEF Receive, Busy
  <2> QED BY <1>3, <2>1
<1>8. CASE CallFails \/ NotSendable \/ Copier \/ ReceiveEnds \/ Received \/ ReceiveBreaks
           \/ PutObject \/ Cancel \/ UNCHANGED vars
  <2>1. UNCHANGED <<paths, had, archive>> /\ (pc' = pc \/ pc' = "failing")
    BY <1>8 DEF CallFails, NotSendable, Copier, CopyRead, CopyWrite, CopyEnds, ReceiveEnds, Received,
                ReceiveBreaks, PutObject, Cancel, vars, Fail
  <2> QED BY <1>3, <2>1
<1> QED
  BY <1>4, <1>5, <1>6, <1>7, <1>8 DEF Next, Main, Returned

-----------------------------------------------------------------------------
(* What runs, and what zfs receive has taken.                              *)

\* The main goroutine goes on to the next archive only when process and copier
\* have ended.
LEMMA SettledStep == Invariant /\ [Next]_vars => Settled'
<1> SUFFICES ASSUME Invariant, [Next]_vars PROVE Settled'
  OBVIOUS
<1> USE DEF bucket, catalog, download, receive, control
<1>1. TypeOK /\ Settled
  BY DEF Invariant
<1>2. /\ pc \in {"start", "list", "verify", "archive", "ok"} =>
            process # "running" /\ copier = "done"
      /\ pc \notin {"write", "failing"} => chunk = <<>>
      /\ copier # "writing" => buffer = <<>>
      /\ goroutine # "running" => process # "running" /\ copier = "done"
      /\ pc \in Busy /\ goroutine = "ok" => process = "ok"
  BY <1>1 DEF Settled
<1>3. CASE NotSendable \/ Start \/ CallFails \/ WriteFails \/ Cancel \/ PutObject \/ ListObjects
           \/ UNCHANGED vars
  BY <1>2, <1>3 DEF NotSendable, Start, CallFails, WriteFails, Cancel, PutObject, ListObjects, List,
                    vars, Fail, Settled, Busy
<1>4. CASE Verify
  BY <1>2, <1>4 DEF Verify, Fail, Settled, Busy
<1>5. CASE Receive
  BY <1>2, <1>5 DEF Receive, Settled, Busy
<1>6. CASE GetObject \/ RangeWritten \/ Close
  BY <1>2, <1>6 DEF GetObject, RangeWritten, NextRange, Close, Settled, Busy
<1>7. CASE Wait
  BY <1>2, <1>7 DEF Wait, Fail, Settled, Busy
<1>8. CASE Exit
  BY <1>2, <1>8 DEF Exit, Settled, Busy
<1>9. CASE CopyRead
  BY <1>2, <1>9 DEF CopyRead, Settled, Busy
<1>10. CASE CopyWrite
  BY <1>2, <1>10 DEF CopyWrite, Settled, Busy
<1>11. CASE CopyEnds
  BY <1>2, <1>11 DEF CopyEnds, Settled, Busy
<1>12. CASE ReceiveEnds \/ ReceiveBreaks
  BY <1>2, <1>12 DEF ReceiveEnds, ReceiveBreaks, Settled, Busy
<1>13. CASE Received
  BY <1>1, <1>2, <1>13 DEF Received, Settled, Busy, TypeOK
<1> QED
  BY <1>3, <1>4, <1>5, <1>6, <1>7, <1>8, <1>9, <1>10, <1>11, <1>12, <1>13
     DEF Next, Main, Copier, Returned

\* One more archive.
LEMMA UpToNext ==
    ASSUME NEW n \in Nat
    PROVE  Append(UpTo(n), n) = UpTo(n + 1) /\ UpTo(n) \in Seq(Nat) /\ Len(UpTo(n)) = n
<1>1. \A m \in Nat : UpTo(m) \in Seq(Nat) /\ Len(UpTo(m)) = m
  <2> TAKE m \in Nat
  <2>1. UpTo(m) \in [1 .. m -> Nat]
    BY DEF UpTo
  <2> QED BY <2>1
<1>2. Append(UpTo(n), n) \in Seq(Nat) /\ Len(Append(UpTo(n), n)) = n + 1
  BY <1>1
<1>3. UpTo(n + 1) \in Seq(Nat) /\ Len(UpTo(n + 1)) = n + 1
  BY <1>1
<1>4. ASSUME NEW i \in 1 .. n + 1 PROVE Append(UpTo(n), n)[i] = UpTo(n + 1)[i]
  <2>1. UpTo(n + 1)[i] = i - 1
    BY DEF UpTo
  <2>2. CASE i = n + 1
    BY <1>1, <2>1, <2>2
  <2>3. CASE i # n + 1
    <3>1. i \in 1 .. n
      BY <2>3
    <3>2. Append(UpTo(n), n)[i] = UpTo(n)[i] /\ UpTo(n)[i] = i - 1
      BY <1>1, <3>1 DEF UpTo
    <3> QED BY <2>1, <3>2
  <2> QED BY <2>2, <2>3
<1>5. Append(UpTo(n), n) = UpTo(n + 1)
  <2> DEFINE s == Append(UpTo(n), n)
             t == UpTo(n + 1)
  <2>1. s \in Seq(Nat) /\ t \in Seq(Nat) /\ Len(s) = Len(t) /\ \A i \in 1 .. Len(s) : s[i] = t[i]
    BY <1>2, <1>3, <1>4
  <2> HIDE DEF s, t
  <2>2. s = t
    BY <2>1, SeqEqual
  <2> QED BY <2>2 DEF s, t
<1> QED
  BY <1>1, <1>5

\* zfs receive takes an archive when it has been given all of its stream.
LEMMA TakenStep == Invariant /\ [Next]_vars => Taken'
<1> SUFFICES ASSUME Invariant, [Next]_vars PROVE Taken'
  OBVIOUS
<1> USE DEF bucket, catalog, download, receive, control
<1>1. TypeOK /\ Settled /\ Taken
  BY DEF Invariant
<1>2. /\ received = UpTo(archive) \/ (process = "ok" /\ received = UpTo(archive + 1))
      /\ pc \in {"start", "list", "verify", "archive", "ok"} => received = UpTo(archive)
      /\ pc \in Busy /\ process = "ok" => received = UpTo(archive + 1)
      /\ archive \in Nat
  BY <1>1 DEF Taken, TypeOK
<1>3. CASE UNCHANGED <<received, archive, process>>
           /\ \/ pc' = pc
              \/ pc' \in {"failing", "failed"}
              \/ pc \in {"start", "list", "verify", "archive"}
                    /\ pc' \in {"start", "list", "verify", "archive", "ok"}
              \/ pc \in Busy /\ pc' \in Busy
  BY <1>2, <1>3 DEF Taken, Busy
<1>4. CASE Receive
  <2>1. CASE archive = Len(paths)
    BY <1>3, <1>4, <2>1 DEF Receive
  <2>2. CASE archive # Len(paths)
    BY <1>2, <1>4, <2>2 DEF Receive, Taken, Busy
  <2> QED BY <2>1, <2>2
<1>5. CASE Wait
  <2>1. /\ pc = "wait" /\ UNCHANGED <<received, process>>
        /\ \/ goroutine = "ok" /\ pc' = "archive" /\ archive' = archive + 1
           \/ pc' = "failing" /\ archive' = archive
    BY <1>5 DEF Wait, Fail
  <2>2. CASE goroutine = "ok" /\ pc' = "archive" /\ archive' = archive + 1
    <3>1. received' = UpTo(archive')
      BY <1>1, <1>2, <2>1, <2>2 DEF Settled, Busy
    <3> QED BY <2>2, <3>1 DEF Taken, Busy
  <2>3. CASE pc' = "failing" /\ archive' = archive
    BY <1>3, <2>1, <2>3
  <2> QED BY <2>1, <2>2, <2>3
<1>6. CASE ReceiveEnds
  <2>1. /\ process = "running" /\ UNCHANGED <<pc, archive>>
        /\ \/ process' = "ok" /\ received' = Append(received, archive)
           \/ process' = "failed" /\ received' = received
    BY <1>6 DEF ReceiveEnds
  <2>2. received = UpTo(archive) /\ pc \notin {"start", "list", "verify", "archive", "ok"}
    BY <1>1, <1>2, <2>1 DEF Settled
  <2>3. Append(received, archive) = UpTo(archive + 1)
    BY <1>2, <2>2, UpToNext
  <2>4. CASE process' = "ok" /\ received' = Append(received, archive)
    BY <2>1, <2>2, <2>3, <2>4 DEF Taken
  <2>5. CASE process' = "failed" /\ received' = received
    BY <2>1, <2>2, <2>5 DEF Taken
  <2> QED BY <2>1, <2>4, <2>5
<1>7. CASE ReceiveBreaks
  <2>1. /\ process = "running" /\ process' = "failed" /\ UNCHANGED <<pc, archive, received>>
    BY <1>7 DEF ReceiveBreaks
  <2> QED BY <1>2, <2>1 DEF Taken
<1>8. CASE Start \/ ListObjects \/ Verify \/ GetObject \/ RangeWritten \/ WriteFails \/ Close \/ Exit
  BY <1>3, <1>8 DEF Start, ListObjects, List, Verify, GetObject, RangeWritten, NextRange, WriteFails,
                    Close, Exit, Fail, Busy
<1>9. CASE CallFails \/ NotSendable \/ Copier \/ Received \/ PutObject \/ Cancel \/ UNCHANGED vars
  BY <1>3, <1>9 DEF CallFails, NotSendable, Copier, CopyRead, CopyWrite, CopyEnds, Received,
                    PutObject, Cancel, vars, Fail
<1> QED
  BY <1>4, <1>5, <1>6, <1>7, <1>8, <1>9 DEF Next, Main, Returned
-----------------------------------------------------------------------------
(* The bytes follow each other.                                            *)

\* The byte that follows what is on its way.
Following == IF Flow = <<>> THEN <<archive, 0, 0>> ELSE After(Flow[Len(Flow)])

\* What is on its way is a sequence of bytes.
LEMMA FlowIs ==
    ASSUME TypeOK
    PROVE  /\ fed \in Seq(Byte) /\ buffer \in Seq(Byte) /\ chunk \in Seq(Byte)
           /\ fed \o buffer \in Seq(Byte) /\ Flow \in Seq(Byte)
           /\ chunk = <<>> => Flow = fed \o buffer
<1>1. fed \in Seq(Byte) /\ buffer \in Seq(Byte) /\ chunk \in Seq(Byte)
  BY DEF TypeOK
<1>2. fed \o buffer \in Seq(Byte)
  BY <1>1, ConcatProperties
<1>3. Flow \in Seq(Byte)
  BY <1>1, <1>2, ConcatProperties DEF Flow
<1>4. chunk = <<>> => Flow = fed \o buffer
  BY <1>2, ConcatEmptySeq DEF Flow
<1> QED
  BY <1>1, <1>2, <1>3, <1>4

\* Bytes move from the chunk to the buffer and to the process, and a new chunk
\* is the range after the one before.
LEMMA ContinuedStep == Invariant /\ [Next]_vars => Continued'
<1> SUFFICES ASSUME Invariant, [Next]_vars PROVE Continued'
  OBVIOUS
<1> USE DEF bucket, catalog, download, receive, control
<1>1. TypeOK /\ Planned /\ Settled /\ Continued
  BY DEF Invariant
<1>2. process = "running" =>
        /\ Begins(Flow, archive)
        /\ pc = "write" => Flow # <<>> /\ Flow[Len(Flow)] = <<archive, volume - 1, end>>
        /\ pc = "get" => <<archive, volume - 1, position>> = Following
  BY <1>1 DEF Continued, Following
<1>3. CASE /\ Flow' = Flow /\ archive' = archive
           /\ process' = process \/ process' # "running"
           /\ pc' \notin {"get", "write"} \/ UNCHANGED <<pc, volume, position, end>>
  BY <1>1, <1>3 DEF Continued
<1>4. CASE Receive
  <2>1. pc = "archive" /\ chunk = <<>> /\ buffer = <<>> /\ process # "running"
    BY <1>1, <1>4 DEF Receive, Settled
  <2>2. CASE archive = Len(paths)
    BY <1>4, <2>1, <2>2 DEF Receive, Continued
  <2>3. CASE archive # Len(paths)
    <3>1. /\ pc' = "get" /\ volume' = 1 /\ position' = 0 /\ fed' = <<>>
          /\ buffer' = <<>> /\ chunk' = <<>> /\ archive' = archive
      BY <1>4, <2>1, <2>3 DEF Receive
    <3>2. Flow' = <<>>
      <4>1. <<>> \in Seq(Byte)
        BY EmptySeq
      <4>2. <<>> \o <<>> = <<>>
        BY <4>1, ConcatEmptySeq
      <4> QED BY <3>1, <4>2 DEF Flow
    <3>3. Begins(<<>>, archive)
      <4>1. Len(<<>>) = 0
        BY EmptySeq
      <4> QED BY <4>1 DEF Begins
    <3>4. Begins(Flow', archive')
      BY <3>1, <3>2, <3>3
    <3>5. <<archive', volume' - 1, position'>> = <<archive, 0, 0>>
      BY <3>1
    <3> QED BY <3>1, <3>2, <3>4, <3>5 DEF Continued
  <2> QED BY <2>2, <2>3
<1>5. CASE GetObject
  <2>1. /\ UNCHANGED <<archive, volume, position, buffer, fed, process>>
        /\ pc = "get" /\ pc' = "write"
        /\ end' = (IF position + PartSize < Size(path) THEN position + PartSize
                   ELSE Size(path)) - 1
        /\ chunk' = Bytes(path, position, end')
    BY <1>5 DEF GetObject
  <2>2. /\ archive \in Archives /\ volume - 1 \in Volume(archive)
        /\ path = Key(archive, volume - 1) /\ Size(path) \in Nat \ {0}
    BY <1>1, <2>1, PathIs
  <2>3. position \in Nat /\ position < Size(path) /\ PartSize \in Nat \ {0}
    BY <1>1, <2>1, RestoreAssumption DEF TypeOK
  <2>4. end' \in Nat /\ position <= end' /\ end' < Size(path)
    <3> DEFINE size == Size(path)
    <3> HIDE DEF size
    <3>1. size \in Nat \ {0} /\ position \in Nat /\ position < size /\ PartSize \in Nat \ {0}
      BY <2>2, <2>3 DEF size
    <3>2. end' = (IF position + PartSize < size THEN position + PartSize ELSE size) - 1
      BY <2>1 DEF size
    <3>3. end' \in Nat /\ position <= end' /\ end' < size
      BY <3>1, <3>2
    <3> QED BY <3>3 DEF size
  <2>5. SUFFICES ASSUME process = "running" PROVE Continued'
    BY <2>1 DEF Continued
  <2>6. chunk = <<>>
    BY <1>1, <2>1 DEF Settled
  <2>7. /\ Begins(Flow, archive) /\ <<archive, volume - 1, position>> = Following
        /\ Flow \in Seq(Byte) /\ Flow = fed \o buffer
    BY <1>1, <1>2, <2>1, <2>5, <2>6, FlowIs
  <2>8. chunk' \in Seq(Byte)
        /\ Part(chunk', <<archive, volume - 1, position>>, <<archive, volume - 1, end'>>)
    BY <2>1, <2>2, <2>3, <2>4, BytesAre
  <2>10. Flow' = Flow \o chunk'
    BY <2>1, <2>7 DEF Flow
  <2>11. /\ Begins(Flow \o chunk', archive) /\ Flow \o chunk' # <<>>
         /\ (Flow \o chunk')[Len(Flow \o chunk')] = <<archive, volume - 1, end'>>
    <3>1. <<archive, volume - 1, position>>
             = IF Flow = <<>> THEN <<archive, 0, 0>> ELSE After(Flow[Len(Flow)])
      BY <2>7 DEF Following
    <3> QED BY <2>7, <2>8, <3>1, Longer
  <2>12. Begins(Flow', archive') /\ Flow' # <<>> /\ Flow'[Len(Flow')] = <<archive', volume' - 1, end'>>
    BY <2>1, <2>10, <2>11
  <2> QED BY <2>1, <2>12 DEF Continued
<1>6. CASE RangeWritten
  <2>1. /\ UNCHANGED <<archive, buffer, fed, chunk, process>> /\ pc = "write"
        /\ \/ pc' = "close"
           \/ /\ end = Size(path) - 1 /\ volume # Len(paths[archive + 1])
              /\ pc' = "get" /\ volume' = volume + 1 /\ position' = 0
           \/ end # Size(path) - 1 /\ pc' = "get" /\ volume' = volume /\ position' = end + 1
    BY <1>6 DEF RangeWritten, NextRange
  <2>2. Flow' = Flow
    BY <2>1 DEF Flow
  <2>3. CASE pc' = "close"
    BY <1>3, <2>1, <2>2, <2>3
  <2>4. SUFFICES ASSUME process = "running" PROVE Continued'
    BY <2>1 DEF Continued
  <2>5. /\ Begins(Flow, archive) /\ Flow # <<>>
        /\ Flow[Len(Flow)] = <<archive, volume - 1, end>>
    BY <1>2, <2>1, <2>4
  <2>6. /\ archive \in Archives /\ volume - 1 \in Volume(archive)
        /\ volume \in 1 .. Len(paths[archive + 1]) /\ paths[archive + 1] \in Seq(Volumes)
        /\ Len(paths[archive + 1]) <= Len(Sizes[archive + 1])
        /\ Size(path) = Sizes[archive + 1][volume] /\ Size(path) \in Nat \ {0}
    BY <1>1, <2>1, PathIs
  <2>7. end \in Nat /\ end < Size(path) /\ (volume - 1) + 1 = volume
    BY <1>1, <2>1, <2>6 DEF TypeOK
  <2>8. Following = After(<<archive, volume - 1, end>>)
    BY <2>5 DEF Following
  <2>9. CASE end # Size(path) - 1 /\ pc' = "get" /\ volume' = volume /\ position' = end + 1
    <3>1. end + 1 < Sizes[archive + 1][(volume - 1) + 1]
      <4> DEFINE size == Size(path)
      <4>1. size \in Nat /\ end \in Nat /\ end < size /\ end # size - 1
        BY <2>6, <2>7, <2>9
      <4> HIDE DEF size
      <4>2. end + 1 < size
        BY <4>1
      <4> QED BY <2>6, <2>7, <4>2 DEF size
    <3>2. After(<<archive, volume - 1, end>>) = <<archive, volume - 1, end + 1>>
      BY <3>1 DEF After
    <3> QED BY <2>1, <2>2, <2>5, <2>8, <2>9, <3>2 DEF Continued, Following
  <2>10. CASE /\ end = Size(path) - 1 /\ volume # Len(paths[archive + 1])
              /\ pc' = "get" /\ volume' = volume + 1 /\ position' = 0
    <3>1. ~(end + 1 < Sizes[archive + 1][(volume - 1) + 1])
      BY <2>6, <2>7, <2>10
    <3>2. volume \in Volume(archive)
      <4> DEFINE m == Len(paths[archive + 1])
                 l == Len(Sizes[archive + 1])
      <4>1. m \in Nat /\ l \in Nat /\ m <= l /\ volume \in 1 .. m /\ volume # m
        BY <2>6, <2>10, SizesType
      <4>2. volume \in 0 .. l - 1
        <5> HIDE DEF m, l
        <5> QED BY <4>1
      <4> QED BY <4>2 DEF Volume
    <3>3. After(<<archive, volume - 1, end>>) = <<archive, volume, 0>>
      BY <2>7, <3>1, <3>2 DEF After
    <3>4. <<archive', volume' - 1, position'>> = <<archive, volume, 0>>
      BY <2>1, <2>6, <2>10
    <3> QED BY <2>1, <2>2, <2>5, <2>8, <2>10, <3>3, <3>4 DEF Continued, Following
  <2> QED BY <2>1, <2>3, <2>9, <2>10
<1>7. CASE Wait
  BY <1>1, <1>7 DEF Wait, Settled, Continued
<1>8. CASE Exit
  <2>1. /\ pc' = "failed" /\ buffer' = <<>> /\ chunk' = <<>> /\ fed' = fed
        /\ archive' = archive /\ process' = process
    BY <1>8 DEF Exit
  <2>2. Flow' = fed
    <3>1. fed \in Seq(Byte) /\ <<>> \in Seq(Byte)
      BY <1>1, FlowIs, EmptySeq
    <3>2. (fed \o <<>>) \o <<>> = fed
      BY <3>1, ConcatEmptySeq
    <3> QED BY <2>1, <3>2 DEF Flow
  <2>3. SUFFICES ASSUME process = "running" PROVE Continued'
    BY <2>1 DEF Continued
  <2>4. Begins(fed, archive)
    <3>1. /\ fed \in Seq(Byte) /\ buffer \in Seq(Byte) /\ chunk \in Seq(Byte)
          /\ fed \o buffer \in Seq(Byte)
      BY <1>1, FlowIs
    <3>2. Begins((fed \o buffer) \o chunk, archive)
      BY <1>2, <2>3 DEF Flow
    <3>3. Begins(fed \o buffer, archive)
      BY <3>1, <3>2, Shorter
    <3> QED BY <3>1, <3>3, Shorter
  <2> QED BY <2>1, <2>2, <2>4 DEF Continued
<1>9. CASE CopyRead
  <2>1. /\ copier = "reading" /\ chunk # <<>>
        /\ buffer' = <<Head(chunk)>> /\ chunk' = Tail(chunk)
        /\ UNCHANGED <<pc, download, receive>>
    BY <1>9 DEF CopyRead
  <2>2. buffer = <<>>
    BY <1>1, <2>1 DEF Settled
  <2>3. Flow' = Flow
    <3>1. (fed \o <<Head(chunk)>>) \o Tail(chunk) = (fed \o <<>>) \o chunk
      BY <1>1, <2>1, FlowIs, Carried
    <3> QED BY <2>1, <2>2, <3>1 DEF Flow
  <2> QED BY <1>3, <2>1, <2>3
<1>10. CASE CopyWrite
  <2>1. /\ buffer' = <<>> /\ UNCHANGED <<pc, download, chunk, process>>
        /\ process = "running" => fed' = fed \o buffer
    BY <1>10 DEF CopyWrite
  <2>2. CASE process = "running"
    <3>1. fed' \o <<>> = fed \o buffer
      BY <1>1, <2>1, <2>2, FlowIs, ConcatEmptySeq
    <3>2. Flow' = Flow
      BY <2>1, <3>1 DEF Flow
    <3> QED BY <1>3, <2>1, <3>2
  <2>3. CASE process # "running"
    BY <2>1, <2>3 DEF Continued
  <2> QED BY <2>2, <2>3
<1>11. CASE NotSendable \/ Start \/ ListObjects \/ Verify \/ CallFails \/ WriteFails \/ Close
  <2>1. /\ UNCHANGED <<fed, buffer, chunk, archive, process>> /\ pc' \notin {"get", "write"}
    BY <1>11 DEF NotSendable, Start, ListObjects, List, Verify, CallFails, WriteFails, Close, Fail
  <2>2. Flow' = Flow
    BY <2>1 DEF Flow
  <2> QED BY <1>3, <2>1, <2>2
<1>12. CASE CopyEnds \/ ReceiveEnds \/ ReceiveBreaks \/ Received \/ PutObject \/ Cancel
            \/ UNCHANGED vars
  <2>1. /\ UNCHANGED <<fed, buffer, chunk, archive, pc, volume, position, end>>
        /\ process' = process \/ process' # "running"
    BY <1>12 DEF CopyEnds, ReceiveEnds, ReceiveBreaks, Received, PutObject, Cancel, vars
  <2>2. Flow' = Flow
    BY <2>1 DEF Flow
  <2> QED BY <1>3, <2>1, <2>2
<1> QED
  BY <1>4, <1>5, <1>6, <1>7, <1>8, <1>9, <1>10, <1>11, <1>12
     DEF Next, Main, Copier, Returned

-----------------------------------------------------------------------------
(* The theorems.                                                           *)

\* The inductive invariant, for every set of archives and of other keys, every
\* size and set of faults: the listing has no gap but what was lost, what is on
\* its way to a zfs receive that runs begins the stream of its archive, and the
\* download goes on with the byte that follows.
THEOREM Invariance == Spec => []Invariant
<1>1. Invariant /\ [Next]_vars => Invariant'
  BY TypeStep, OrderedStep, PlannedStep, SettledStep, TakenStep, ContinuedStep DEF Invariant
<1> QED
  BY InitInvariant, <1>1, PTL DEF Spec

\* Whatever is lost, fails or goes on beside it, every zfs receive is given the
\* stream of the next archive from its first byte on, none twice or left out.
THEOREM ReceivedInOrder == Spec => []InOrder
<1>1. Invariant => InOrder
  <2> SUFFICES ASSUME Invariant, process = "running"
               PROVE  received = [i \in 1 .. archive |-> i - 1] /\ Begins(fed, archive)
    BY DEF InOrder
  <2>1. received = UpTo(archive)
    BY DEF Invariant, Taken
  <2>2. Begins((fed \o buffer) \o chunk, archive)
    BY DEF Invariant, Continued, Flow
  <2>3. /\ fed \in Seq(Byte) /\ buffer \in Seq(Byte) /\ chunk \in Seq(Byte)
        /\ fed \o buffer \in Seq(Byte)
    BY FlowIs DEF Invariant
  <2>4. Begins(fed \o buffer, archive)
    BY <2>2, <2>3, Shorter
  <2>5. Begins(fed, archive)
    BY <2>3, <2>4, Shorter
  <2> QED BY <2>1, <2>5 DEF UpTo
<1> QED
  BY Invariance, <1>1, PTL

\* Success means that every archive that had a volume when the restore began
\* has been taken whole, in its turn.
THEOREM SuccessIsAll == Spec => []OkIsAll
<1>1. Invariant => OkIsAll
  <2> SUFFICES ASSUME Invariant, pc = "ok"
               PROVE  /\ received = [i \in 1 .. Len(received) |-> i - 1]
                      /\ \A a \in had : a < Len(received)
    BY DEF OkIsAll
  <2>1. received = UpTo(archive) /\ archive = Len(paths) /\ \A a \in had : a < Len(paths)
    BY DEF Invariant, Taken, Planned
  <2>2. archive \in Nat
    BY DEF Invariant, TypeOK
  <2>3. Len(received) = archive
    BY <2>1, <2>2, UpToNext
  <2> QED BY <2>1, <2>3 DEF UpTo
<1> QED
  BY Invariance, <1>1, PTL

\* A bucket that has lost nothing verifies, though it is listed page by page
\* while a send goes on: for every page size and whatever else is in it.
THEOREM WholeVerifies == Spec => []ListingVerifies
<1>1. Invariant => ListingVerifies
  BY DEF Invariant, Ordered, ListingVerifies
<1> QED
  BY Invariance, <1>1, PTL
=============================================================================
