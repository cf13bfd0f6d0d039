----------------------------- MODULE Catalogue ------------------------------
(***************************************************************************)
(* The catalogue of a bucket: what remote.go makes of a listing.  A key is *)
(* a record of the file system, the archive and the volume it names; the   *)
(* volume of the contents of an archive is Contents, which splitPath does  *)
(* not recognise.  The catalogue is a function from file systems to        *)
(* functions from archives to functions from volumes to keys.              *)
(***************************************************************************)
EXTENDS Integers, Sequences, FiniteSets

\* Names of digits sort before "contents".
Contents == 99999

Empty == <<>>

\* The value of a map at a key, or an empty map where Go makes one.
At(map, k) == IF k \in DOMAIN map THEN map[k] ELSE Empty

\* A map with one more key, or with another value at it.
With(map, k, value) == [x \in DOMAIN map \cup {k} |-> IF x = k THEN value ELSE map[x]]

add(c, key) ==
    LET archives == At(c, key.fs)
        volumes  == At(archives, key.archive)
    IN  With(c, key.fs, With(archives, key.archive, With(volumes, key.volume, key)))

\* Keys that splitPath does not recognise are passed over.
load(listing) ==
    LET after[n \in 0 .. Len(listing)] ==
            IF n = 0 THEN Empty
            ELSE IF listing[n].volume = Contents THEN after[n - 1]
            ELSE add(after[n - 1], listing[n])
    IN  after[Len(listing)]

\* verify goes through as many archives, and as many volumes of each, as
\* there are, and fails where it misses one.
Verifies(c, fs) ==
    \A i \in 0 .. Cardinality(DOMAIN At(c, fs)) - 1 :
        /\ i \in DOMAIN c[fs]
        /\ \A j \in 0 .. Cardinality(DOMAIN c[fs][i]) - 1 : j \in DOMAIN c[fs][i]

\* The keys to restore, by archive and volume; Go counts both from 0.
verify(c, fs) ==
    [i \in 1 .. Cardinality(DOMAIN At(c, fs)) |->
        [j \in 1 .. Cardinality(DOMAIN c[fs][i - 1]) |-> c[fs][i - 1][j - 1]]]
=============================================================================
