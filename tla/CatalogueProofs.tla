--------------------------- MODULE CatalogueProofs --------------------------
(***************************************************************************)
(* What verify finds: its loops count as many numbers as there are, from 0 *)
(* up, and that is enough to know there is no gap and nothing beyond.      *)
(***************************************************************************)
EXTENDS Catalogue, FiniteSetTheorems, SetLemmas, TLAPS

\* A finite set that has each of its first numbers, as many as it has members,
\* has nothing else.
LEMMA CountedIsAll ==
  ASSUME NEW S, IsFiniteSet(S), 0 .. Cardinality(S) - 1 \subseteq S
  PROVE  S = 0 .. Cardinality(S) - 1
<1>1. Cardinality(S) \in Nat
  BY FS_CardinalityType
<1>2. Cardinality(0 .. Cardinality(S) - 1) = Cardinality(S)
  BY <1>1, FS_Interval
<1> QED BY <1>2, FS_Subset

\* verify accepts a catalogue exactly when the archives of the file system, and
\* the volumes of each, are numbered from 0 without a gap.
THEOREM VerifiedNoGap ==
  ASSUME NEW c, NEW fs, fs \in DOMAIN c,
         IsFiniteSet(DOMAIN c[fs]),
         \A a \in DOMAIN c[fs] : IsFiniteSet(DOMAIN c[fs][a])
  PROVE  Verifies(c, fs) <=>
            /\ DOMAIN c[fs] = 0 .. Cardinality(DOMAIN c[fs]) - 1
            /\ \A a \in DOMAIN c[fs] :
                  DOMAIN c[fs][a] = 0 .. Cardinality(DOMAIN c[fs][a]) - 1
<1>1. At(c, fs) = c[fs]
  BY DEF At
<1>2. ASSUME Verifies(c, fs)
      PROVE  DOMAIN c[fs] = 0 .. Cardinality(DOMAIN c[fs]) - 1
  <2>1. 0 .. Cardinality(DOMAIN c[fs]) - 1 \subseteq DOMAIN c[fs]
    BY <1>1, <1>2 DEF Verifies
  <2> QED BY <2>1, CountedIsAll
<1>3. ASSUME Verifies(c, fs), NEW a \in DOMAIN c[fs]
      PROVE  DOMAIN c[fs][a] = 0 .. Cardinality(DOMAIN c[fs][a]) - 1
  <2>1. a \in 0 .. Cardinality(DOMAIN c[fs]) - 1
    BY <1>2, <1>3
  <2>2. 0 .. Cardinality(DOMAIN c[fs][a]) - 1 \subseteq DOMAIN c[fs][a]
    BY <1>1, <1>3, <2>1 DEF Verifies
  <2> QED BY <2>2, CountedIsAll
<1>4. ASSUME DOMAIN c[fs] = 0 .. Cardinality(DOMAIN c[fs]) - 1,
             \A a \in DOMAIN c[fs] : DOMAIN c[fs][a] = 0 .. Cardinality(DOMAIN c[fs][a]) - 1
      PROVE  Verifies(c, fs)
  BY <1>1, <1>4 DEF Verifies
<1> QED BY <1>2, <1>3, <1>4

-----------------------------------------------------------------------------
(* What load makes of a listing.                                           *)

\* A catalogue has a key at these places.
Has(c, f, a, v) == f \in DOMAIN c /\ a \in DOMAIN c[f] /\ v \in DOMAIN c[f][a]

\* A catalogue is that of a set of keys: it has each of them at its place and
\* nothing else, and no map in it is empty.
IsOf(c, keys) ==
    /\ \A k \in keys : Has(c, k.fs, k.archive, k.volume)
    /\ \A f \in DOMAIN c : \A a \in DOMAIN c[f] : \A v \in DOMAIN c[f][a] :
          LET k == c[f][a][v] IN k \in keys /\ k.fs = f /\ k.archive = a /\ k.volume = v
    /\ \A f \in DOMAIN c : DOMAIN c[f] # {} /\ \A a \in DOMAIN c[f] : DOMAIN c[f][a] # {}

\* add makes the catalogue of a set of keys that of one more.
LEMMA AddIs ==
    ASSUME NEW c, NEW keys, IsOf(c, keys), NEW key
    PROVE  IsOf(add(c, key), keys \cup {key})
<1> DEFINE archives == At(c, key.fs)
           volumes  == At(archives, key.archive)
           V == With(volumes, key.volume, key)
           A == With(archives, key.archive, V)
           d == With(c, key.fs, A)
<1>1. add(c, key) = d
  BY DEF add
<1>2. /\ DOMAIN V = DOMAIN volumes \cup {key.volume} /\ V[key.volume] = key
      /\ \A v \in DOMAIN volumes : v # key.volume => V[v] = volumes[v]
  BY DEF With
<1>3. /\ DOMAIN A = DOMAIN archives \cup {key.archive} /\ A[key.archive] = V
      /\ \A a \in DOMAIN archives : a # key.archive => A[a] = archives[a]
  BY DEF With
<1>4. /\ DOMAIN d = DOMAIN c \cup {key.fs} /\ d[key.fs] = A
      /\ \A f \in DOMAIN c : f # key.fs => d[f] = c[f]
  BY DEF With
<1>5. DOMAIN Empty = {}
  BY DEF Empty
<1>6. archives = (IF key.fs \in DOMAIN c THEN c[key.fs] ELSE Empty)
  BY DEF At
<1>7. volumes = (IF key.archive \in DOMAIN archives THEN archives[key.archive] ELSE Empty)
  BY DEF At
<1> HIDE DEF archives, volumes, V, A, d
<1>8. \A v \in DOMAIN volumes : /\ key.fs \in DOMAIN c /\ key.archive \in DOMAIN c[key.fs]
                                /\ v \in DOMAIN c[key.fs][key.archive]
                                /\ volumes[v] = c[key.fs][key.archive][v]
  BY <1>5, <1>6, <1>7
<1>9. \A a \in DOMAIN archives : /\ key.fs \in DOMAIN c /\ a \in DOMAIN c[key.fs]
                                 /\ archives[a] = c[key.fs][a]
  BY <1>5, <1>6
<1>10. ASSUME NEW k \in keys \cup {key} PROVE Has(d, k.fs, k.archive, k.volume)
  <2>1. CASE k = key
    BY <1>2, <1>3, <1>4, <2>1 DEF Has
  <2>2. CASE k \in keys
    <3>1. k.fs \in DOMAIN c /\ k.archive \in DOMAIN c[k.fs] /\ k.volume \in DOMAIN c[k.fs][k.archive]
      BY <2>2 DEF IsOf, Has
    <3>2. CASE k.fs # key.fs
      BY <1>4, <3>1, <3>2 DEF Has
    <3>3. CASE k.fs = key.fs /\ k.archive # key.archive
      BY <1>3, <1>4, <1>6, <3>1, <3>3 DEF Has
    <3>4. CASE k.fs = key.fs /\ k.archive = key.archive
      BY <1>2, <1>3, <1>4, <1>6, <1>7, <3>1, <3>4 DEF Has
    <3> QED BY <3>2, <3>3, <3>4
  <2> QED BY <2>1, <2>2
<1>11. ASSUME NEW f \in DOMAIN d, NEW a \in DOMAIN d[f], NEW v \in DOMAIN d[f][a]
       PROVE  LET k == d[f][a][v]
              IN  k \in keys \cup {key} /\ k.fs = f /\ k.archive = a /\ k.volume = v
  <2>1. CASE f # key.fs
    BY <1>4, <2>1 DEF IsOf
  <2>2. CASE f = key.fs /\ a # key.archive
    BY <1>3, <1>4, <1>9, <2>2 DEF IsOf
  <2>3. CASE f = key.fs /\ a = key.archive
    <3>1. d[f][a] = V
      BY <1>3, <1>4, <2>3
    <3>2. CASE v = key.volume
      BY <1>2, <2>3, <3>1, <3>2
    <3>3. CASE v # key.volume
      <4>1. v \in DOMAIN volumes /\ d[f][a][v] = volumes[v]
        BY <1>2, <3>1, <3>3
      <4> QED BY <1>8, <2>3, <4>1 DEF IsOf
    <3> QED BY <3>2, <3>3
  <2> QED BY <2>1, <2>2, <2>3
<1>12. ASSUME NEW f \in DOMAIN d
       PROVE  DOMAIN d[f] # {} /\ \A a \in DOMAIN d[f] : DOMAIN d[f][a] # {}
  <2>1. CASE f # key.fs
    BY <1>4, <2>1 DEF IsOf
  <2>2. CASE f = key.fs
    <3>1. d[f] = A
      BY <1>4, <2>2
    <3>2. DOMAIN V # {} /\ DOMAIN A # {}
      BY <1>2, <1>3
    <3>3. \A a \in DOMAIN archives : DOMAIN archives[a] # {}
      BY <1>9 DEF IsOf
    <3>4. ASSUME NEW a \in DOMAIN A PROVE DOMAIN A[a] # {}
      BY <1>3, <3>2, <3>3
    <3> QED BY <3>1, <3>2, <3>4
  <2> QED BY <2>1, <2>2
<1> QED
  BY <1>1, <1>10, <1>11, <1>12 DEF IsOf

\* load has the catalogue after n keys of a listing for every n.
LEMMA LoadSteps ==
    ASSUME NEW listing, Len(listing) \in Nat
    PROVE  \E after : /\ load(listing) = after[Len(listing)]
                      /\ after[0] = Empty
                      /\ \A n \in 1 .. Len(listing) :
                            after[n] = IF listing[n].volume = Contents THEN after[n - 1]
                                       ELSE add(after[n - 1], listing[n])
<1> DEFINE step(f, n) == IF n = 0 THEN Empty
                         ELSE IF listing[n].volume = Contents THEN f[n - 1]
                         ELSE add(f[n - 1], listing[n])
           Loads(f, m) == f = [n \in 0 .. m |-> step(f, n)]
           g == CHOOSE f : Loads(f, Len(listing))
<1>1. load(listing) = g[Len(listing)]
  BY DEF load
<1>2. \A m \in 0 .. Len(listing) : \E f : Loads(f, m)
  <2> DEFINE T == {m \in 0 .. Len(listing) : ~\E f : Loads(f, m)}
  <2> SUFFICES ASSUME T # {} PROVE FALSE
    OBVIOUS
  <2>1. T \subseteq Nat
    OBVIOUS
  <2>2. PICK m \in T : \A t \in T : m <= t
    <3> HIDE DEF T
    <3> QED BY <2>1, Least
  <2>3. m \in 0 .. Len(listing) /\ ~\E f : Loads(f, m)
    OBVIOUS
  <2>4. CASE m = 0
    <3> DEFINE f == [n \in 0 .. 0 |-> Empty]
    <3>1. Loads(f, 0)
      OBVIOUS
    <3> QED BY <2>3, <2>4, <3>1
  <2>5. CASE m # 0
    <3>1. m - 1 \in 0 .. Len(listing) /\ ~(m <= m - 1) /\ m \in Nat
      BY <2>3, <2>5
    <3>2. PICK f : Loads(f, m - 1)
      BY <2>2, <3>1
    <3> DEFINE h == [n \in 0 .. m |-> IF n = m THEN step(f, m) ELSE f[n]]
    <3>3. ASSUME NEW n \in 0 .. m PROVE h[n] = step(h, n)
      <4>1. CASE n = 0
        BY <2>5, <3>1, <3>2, <4>1
      <4>2. CASE n # 0
        <5>1. n - 1 \in 0 .. m /\ n - 1 # m /\ n - 1 \in 0 .. m - 1
          BY <3>1, <4>2
        <5>2. h[n - 1] = f[n - 1]
          BY <5>1
        <5>3. step(h, n) = step(f, n)
          BY <4>2, <5>2
        <5>4. CASE n = m
          BY <5>3, <5>4
        <5>5. CASE n # m
          <6>1. n \in 0 .. m - 1
            BY <3>1, <5>5
          <6>2. f[n] = step(f, n)
            BY <3>2, <6>1
          <6> QED BY <5>3, <5>5, <6>2
        <5> QED BY <5>4, <5>5
      <4> QED BY <4>1, <4>2
    <3>4. h = [n \in 0 .. m |-> h[n]]
      OBVIOUS
    <3> HIDE DEF h, step
    <3>5. Loads(h, m)
      BY <3>3, <3>4
    <3> QED BY <2>3, <3>5
  <2> QED BY <2>4, <2>5
<1>3. Loads(g, Len(listing))
  <2>1. \E f : Loads(f, Len(listing))
    BY <1>2
  <2> HIDE DEF Loads
  <2> QED BY <2>1
<1>4. \A n \in 0 .. Len(listing) : g[n] = step(g, n)
  <2> HIDE DEF g, step
  <2> QED BY <1>3
<1> HIDE DEF g
<1>5. g[0] = Empty
  BY <1>4
<1>6. \A n \in 1 .. Len(listing) :
         g[n] = IF listing[n].volume = Contents THEN g[n - 1] ELSE add(g[n - 1], listing[n])
  BY <1>4
<1> QED
  BY <1>1, <1>5, <1>6

\* The keys of a listing that splitPath recognises.
Named(listing) == {k \in {listing[i] : i \in DOMAIN listing} : k.volume # Contents}

\* load makes the catalogue of a listing: every key it recognises is at its
\* place, whatever the order they come in, and nothing else is.
THEOREM LoadIs ==
    ASSUME NEW S, NEW listing \in Seq(S)
    PROVE  IsOf(load(listing), Named(listing))
<1>1. Len(listing) \in Nat /\ DOMAIN listing = 1 .. Len(listing)
  OBVIOUS
<1>2. PICK after : /\ load(listing) = after[Len(listing)]
                   /\ after[0] = Empty
                   /\ \A n \in 1 .. Len(listing) :
                         after[n] = IF listing[n].volume = Contents THEN after[n - 1]
                                    ELSE add(after[n - 1], listing[n])
  BY <1>1, LoadSteps
<1> DEFINE First(n) == {k \in {listing[i] : i \in 1 .. n} : k.volume # Contents}
           T == {n \in 0 .. Len(listing) : ~IsOf(after[n], First(n))}
<1>3. T = {}
  <2> SUFFICES ASSUME T # {} PROVE FALSE
    OBVIOUS
  <2>1. T \subseteq Nat
    OBVIOUS
  <2>2. PICK m \in T : \A t \in T : m <= t
    <3> HIDE DEF T
    <3> QED BY <2>1, Least
  <2>3. m \in 0 .. Len(listing) /\ ~IsOf(after[m], First(m))
    OBVIOUS
  <2>4. CASE m = 0
    <3>1. First(0) = {}
      OBVIOUS
    <3>2. DOMAIN Empty = {}
      BY DEF Empty
    <3> HIDE DEF First
    <3>3. IsOf(after[0], First(0))
      BY <1>2, <3>1, <3>2 DEF IsOf
    <3> QED BY <2>3, <2>4, <3>3
  <2>5. CASE m # 0
    <3>1. m - 1 \in 0 .. Len(listing) /\ ~(m <= m - 1) /\ m \in 1 .. Len(listing)
      BY <1>1, <2>3, <2>5
    <3>2. m - 1 \notin T
      <4> HIDE DEF T
      <4> QED BY <2>2, <3>1
    <3>3. IsOf(after[m - 1], First(m - 1))
      BY <3>1, <3>2
    <3>4. \A i : i \in 1 .. m <=> i \in 1 .. m - 1 \/ i = m
      BY <3>1
    <3>5. First(m) = First(m - 1) \cup (IF listing[m].volume = Contents THEN {} ELSE {listing[m]})
      BY <3>4
    <3> HIDE DEF First
    <3>6. CASE listing[m].volume = Contents
      <4>1. after[m] = after[m - 1] /\ First(m) = First(m - 1)
        BY <1>2, <3>1, <3>5, <3>6
      <4> QED BY <2>3, <3>3, <4>1
    <3>7. CASE listing[m].volume # Contents
      <4>1. after[m] = add(after[m - 1], listing[m]) /\ First(m) = First(m - 1) \cup {listing[m]}
        BY <1>2, <3>1, <3>5, <3>7
      <4> QED BY <2>3, <3>3, <4>1, AddIs
    <3> QED BY <3>6, <3>7
  <2> QED BY <2>4, <2>5
<1>4. IsOf(after[Len(listing)], First(Len(listing)))
  <2>1. Len(listing) \in 0 .. Len(listing)
    BY <1>1
  <2> QED BY <1>3, <2>1
<1> QED
  BY <1>1, <1>2, <1>4 DEF Named
-----------------------------------------------------------------------------
(* What verify makes of the catalogue of a set of keys.                    *)

\* The domains of a catalogue of finitely many keys are finite.
LEMMA FiniteMaps ==
    ASSUME NEW c, NEW keys, IsOf(c, keys), IsFiniteSet(keys), NEW f \in DOMAIN c
    PROVE  IsFiniteSet(DOMAIN c[f]) /\ \A a \in DOMAIN c[f] : IsFiniteSet(DOMAIN c[f][a])
<1>1. IsFiniteSet({k.archive : k \in keys}) /\ IsFiniteSet({k.volume : k \in keys})
  <2> DEFINE a == [k \in keys |-> k.archive]
             v == [k \in keys |-> k.volume]
  <2>1. IsFiniteSet({a[k] : k \in keys}) /\ IsFiniteSet({v[k] : k \in keys})
    <3>1. DOMAIN a = keys /\ DOMAIN v = keys
      OBVIOUS
    <3> HIDE DEF a, v
    <3> QED BY <3>1, FiniteImage
  <2>2. {a[k] : k \in keys} = {k.archive : k \in keys} /\ {v[k] : k \in keys} = {k.volume : k \in keys}
    OBVIOUS
  <2> QED BY <2>1, <2>2
<1>2. DOMAIN c[f] \subseteq {k.archive : k \in keys}
  <2> SUFFICES ASSUME NEW a \in DOMAIN c[f] PROVE \E k \in keys : a = k.archive
    OBVIOUS
  <2>1. PICK v \in DOMAIN c[f][a] : TRUE
    BY DEF IsOf
  <2>2. c[f][a][v] \in keys /\ c[f][a][v].archive = a
    BY DEF IsOf
  <2> QED BY <2>2
<1>3. ASSUME NEW a \in DOMAIN c[f] PROVE DOMAIN c[f][a] \subseteq {k.volume : k \in keys}
  <2> SUFFICES ASSUME NEW v \in DOMAIN c[f][a] PROVE \E k \in keys : v = k.volume
    OBVIOUS
  <2>1. c[f][a][v] \in keys /\ c[f][a][v].volume = v
    BY DEF IsOf
  <2> QED BY <2>1
<1> QED
  BY <1>1, <1>2, <1>3, FS_Subset

\* The paths verify returns are those of the keys of the file system, each archive
\* and each volume at its number, and no key is left out.
THEOREM VerifyIs ==
    ASSUME NEW c, NEW keys, IsOf(c, keys), IsFiniteSet(keys), NEW fs, Verifies(c, fs)
    PROVE  \E n \in Nat :
              /\ DOMAIN verify(c, fs) = 1 .. n
              /\ \A k \in keys : k.fs = fs =>
                    /\ k.archive \in 0 .. n - 1
                    /\ k.volume + 1 \in DOMAIN verify(c, fs)[k.archive + 1]
              /\ verify(c, fs) \in Seq(Seq(keys))
              /\ \A i \in 1 .. n :
                    /\ verify(c, fs)[i] # <<>>
                    /\ \A j \in DOMAIN verify(c, fs)[i] :
                          LET k == verify(c, fs)[i][j]
                          IN  k \in keys /\ k.fs = fs /\ k.archive = i - 1 /\ k.volume = j - 1
<1> DEFINE p == verify(c, fs)
           n == Cardinality(DOMAIN At(c, fs))
           m(i) == Cardinality(DOMAIN c[fs][i - 1])
<1>1. p = [i \in 1 .. n |-> [j \in 1 .. m(i) |-> c[fs][i - 1][j - 1]]]
  BY DEF verify
<1>2. CASE fs \notin DOMAIN c
  <2>1. DOMAIN At(c, fs) = {}
    BY <1>2 DEF At, Empty
  <2>2. n = 0
    BY <2>1, FS_EmptySet
  <2>3. p = <<>> /\ DOMAIN p = 1 .. 0
    <3> HIDE DEF n
    <3> QED BY <1>1, <2>2
  <2>4. \A k \in keys : k.fs # fs
    BY <1>2 DEF IsOf, Has
  <2> QED BY <2>3, <2>4
<1>3. CASE fs \in DOMAIN c
  <2>1. At(c, fs) = c[fs]
    BY <1>3 DEF At
  <2>2. /\ IsFiniteSet(DOMAIN c[fs])
        /\ \A a \in DOMAIN c[fs] : IsFiniteSet(DOMAIN c[fs][a])
    BY <1>3, FiniteMaps
  <2>3. /\ DOMAIN c[fs] = 0 .. n - 1 /\ n \in Nat
        /\ \A a \in DOMAIN c[fs] : /\ DOMAIN c[fs][a] = 0 .. Cardinality(DOMAIN c[fs][a]) - 1
                                   /\ Cardinality(DOMAIN c[fs][a]) \in Nat
    BY <1>3, <2>1, <2>2, VerifiedNoGap, FS_CardinalityType
  <2>4. DOMAIN p = 1 .. n
    BY <1>1
  <2>5. \A k \in keys : k.fs = fs => k.archive \in 0 .. n - 1
    BY <2>3 DEF IsOf, Has
  <2>6. ASSUME NEW i \in 1 .. n
        PROVE  /\ p[i] \in Seq(keys)
               /\ p[i] # <<>>
               /\ \A j \in DOMAIN p[i] : LET k == p[i][j]
                     IN  k \in keys /\ k.fs = fs /\ k.archive = i - 1 /\ k.volume = j - 1
    <3>1. i - 1 \in DOMAIN c[fs]
      <4> HIDE DEF n
      <4> QED BY <2>3
    <3>2. DOMAIN c[fs][i - 1] = 0 .. m(i) - 1 /\ m(i) \in Nat
      BY <2>3, <3>1
    <3>3. m(i) # 0
      <4>1. DOMAIN c[fs][i - 1] # {}
        BY <1>3, <3>1 DEF IsOf
      <4> HIDE DEF m
      <4> QED BY <3>2, <4>1
    <3>4. p[i] = [j \in 1 .. m(i) |-> c[fs][i - 1][j - 1]]
      BY <1>1
    <3> HIDE DEF m, p, n
    <3>5. ASSUME NEW j \in 1 .. m(i)
          PROVE  LET k == c[fs][i - 1][j - 1]
                 IN  k \in keys /\ k.fs = fs /\ k.archive = i - 1 /\ k.volume = j - 1
      <4>1. j - 1 \in DOMAIN c[fs][i - 1]
        BY <3>2
      <4> QED BY <1>3, <3>1, <4>1 DEF IsOf
    <3>6. p[i] \in [1 .. m(i) -> keys]
      BY <3>4, <3>5
    <3>7. DOMAIN p[i] = 1 .. m(i) /\ p[i] \in Seq(keys)
      BY <3>2, <3>6
    <3>8. p[i] # <<>>
      BY <3>2, <3>3, <3>7
    <3> QED BY <3>4, <3>5, <3>7, <3>8
  <2>7. p \in Seq(Seq(keys))
    <3> HIDE DEF p, n, m
    <3>1. \A i \in 1 .. n : p[i] \in Seq(keys)
      BY <2>6
    <3>2. p = [i \in 1 .. n |-> p[i]]
      BY <1>1, <2>4
    <3>3. p \in [1 .. n -> Seq(keys)]
      BY <3>1, <3>2
    <3> QED BY <2>3, <3>3
  <2>8. ASSUME NEW k \in keys, k.fs = fs
        PROVE  k.volume + 1 \in DOMAIN p[k.archive + 1]
    <3> DEFINE a == k.archive
               v == k.volume
    <3>1. a \in DOMAIN c[fs] /\ v \in DOMAIN c[fs][a]
      BY <2>8 DEF IsOf, Has
    <3>2. a \in 0 .. n - 1
      BY <2>5, <2>8
    <3>3. DOMAIN c[fs][a] = 0 .. Cardinality(DOMAIN c[fs][a]) - 1 /\ Cardinality(DOMAIN c[fs][a]) \in Nat
      BY <2>3, <3>1
    <3> HIDE DEF a, v, n
    <3>4. a + 1 \in 1 .. n /\ (a + 1) - 1 = a
      BY <2>3, <3>2
    <3>5. p[a + 1] = [j \in 1 .. m(a + 1) |-> c[fs][(a + 1) - 1][j - 1]]
      BY <1>1, <3>4
    <3>6. m(a + 1) = Cardinality(DOMAIN c[fs][a])
      BY <3>4
    <3> HIDE DEF p, m
    <3>7. DOMAIN p[a + 1] = 1 .. m(a + 1)
      BY <3>5
    <3>8. v + 1 \in 1 .. m(a + 1)
      BY <3>1, <3>3, <3>6
    <3> QED BY <3>7, <3>8 DEF a, v
  <2> QED BY <2>3, <2>4, <2>5, <2>6, <2>7, <2>8
<1> QED
  BY <1>2, <1>3

\* A set that has every number below those it has has as many as it counts.
LEMMA DownToZero ==
    ASSUME NEW S, S \subseteq Nat, IsFiniteSet(S), \A s \in S : 0 .. s \subseteq S,
           NEW i \in 0 .. Cardinality(S) - 1
    PROVE  i \in S
<1> SUFFICES ASSUME i \notin S PROVE FALSE
  OBVIOUS
<1>1. Cardinality(S) \in Nat /\ i \in Nat /\ i < Cardinality(S)
  BY FS_CardinalityType
<1>2. S \subseteq 0 .. i - 1
  <2> SUFFICES ASSUME NEW s \in S PROVE s \in 0 .. i - 1
    OBVIOUS
  <2>1. s \in Nat /\ i \notin 0 .. s
    OBVIOUS
  <2> QED BY <1>1, <2>1
<1>3. Cardinality(0 .. i - 1) = i /\ IsFiniteSet(0 .. i - 1)
  <2>1. 0 \in Int /\ i - 1 \in Int /\ (IF 0 > i - 1 THEN 0 ELSE (i - 1) - 0 + 1) = i
    BY <1>1
  <2> DEFINE j == i - 1
  <2>2. Cardinality(0 .. j) = (IF 0 > j THEN 0 ELSE j - 0 + 1) /\ IsFiniteSet(0 .. j)
    <3> HIDE DEF j
    <3> QED BY <2>1, FS_Interval DEF j
  <2> QED BY <2>1, <2>2
<1>4. Cardinality(S) <= i
  <2> DEFINE I == 0 .. i - 1
  <2>1. S \in SUBSET I /\ IsFiniteSet(I) /\ Cardinality(I) = i
    BY <1>2, <1>3
  <2> HIDE DEF I
  <2>2. Cardinality(S) <= Cardinality(I)
    BY <2>1, FS_Subset
  <2> QED BY <2>1, <2>2
<1> QED
  BY <1>1, <1>4

\* Keys of which no earlier one is missing verify.
THEOREM GapFreeVerifies ==
    ASSUME NEW c, NEW keys, IsOf(c, keys), IsFiniteSet(keys), NEW fs,
           \A k \in keys : k.fs = fs =>
              /\ k.archive \in Nat /\ k.volume \in Nat
              /\ \A a \in 0 .. k.archive : \E l \in keys : l.fs = fs /\ l.archive = a
              /\ \A v \in 0 .. k.volume :
                    \E l \in keys : l.fs = fs /\ l.archive = k.archive /\ l.volume = v
    PROVE  Verifies(c, fs)
<1>1. CASE fs \notin DOMAIN c
  <2>1. DOMAIN At(c, fs) = {}
    BY <1>1 DEF At, Empty
  <2>2. Cardinality(DOMAIN At(c, fs)) = 0
    BY <2>1, FS_EmptySet
  <2>3. 0 .. 0 - 1 = {}
    OBVIOUS
  <2> QED BY <2>2, <2>3 DEF Verifies
<1>2. CASE fs \in DOMAIN c
  <2>1. At(c, fs) = c[fs]
    BY <1>2 DEF At
  <2>2. /\ IsFiniteSet(DOMAIN c[fs])
        /\ \A a \in DOMAIN c[fs] : IsFiniteSet(DOMAIN c[fs][a])
    BY <1>2, FiniteMaps
  <2>3. ASSUME NEW a \in DOMAIN c[fs], NEW v \in DOMAIN c[fs][a]
        PROVE  /\ a \in Nat /\ v \in Nat
               /\ 0 .. a \subseteq DOMAIN c[fs]
               /\ 0 .. v \subseteq DOMAIN c[fs][a]
    <3> DEFINE k == c[fs][a][v]
    <3>1. k \in keys /\ k.fs = fs /\ k.archive = a /\ k.volume = v
      BY <1>2 DEF IsOf
    <3> HIDE DEF k
    <3>2. \A b \in 0 .. a : b \in DOMAIN c[fs]
      BY <3>1 DEF IsOf, Has
    <3>3. ASSUME NEW w \in 0 .. v PROVE w \in DOMAIN c[fs][a]
      <4>1. PICK l \in keys : l.fs = fs /\ l.archive = a /\ l.volume = w
        BY <3>1
      <4> QED BY <4>1 DEF IsOf, Has
    <3> QED BY <3>1, <3>2, <3>3
  <2>4. \A a \in DOMAIN c[fs] : \E v \in DOMAIN c[fs][a] : TRUE
    BY <1>2 DEF IsOf
  <2>5. DOMAIN c[fs] \subseteq Nat /\ \A a \in DOMAIN c[fs] : 0 .. a \subseteq DOMAIN c[fs]
    BY <2>3, <2>4
  <2>6. \A i \in 0 .. Cardinality(DOMAIN c[fs]) - 1 : i \in DOMAIN c[fs]
    BY <2>2, <2>5, DownToZero
  <2>7. \A a \in DOMAIN c[fs] : \A j \in 0 .. Cardinality(DOMAIN c[fs][a]) - 1 : j \in DOMAIN c[fs][a]
    <3> TAKE a \in DOMAIN c[fs]
    <3>1. DOMAIN c[fs][a] \subseteq Nat /\ \A v \in DOMAIN c[fs][a] : 0 .. v \subseteq DOMAIN c[fs][a]
      BY <2>3
    <3> QED BY <2>2, <3>1, DownToZero
  <2> QED BY <2>1, <2>6, <2>7 DEF Verifies
<1> QED
  BY <1>1, <1>2
=============================================================================
