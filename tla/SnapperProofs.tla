---------------------------- MODULE SnapperProofs ---------------------------
(***************************************************************************)
(* What is proved about Snapper for every configuration, any number of     *)
(* runs and snapshots, all times and every set of faults.                  *)
(***************************************************************************)
EXTENDS Snapper, SetLemmas, SequenceTheorems, TLAPS

\* The constants as the proofs use them.
LEMMA Constants ==
    /\ Minute \in Nat /\ Minute > 0 /\ MaxTime \in Nat
    /\ Stall \in Nat /\ Period \in Nat /\ Stall <= Period
    /\ \A f \in DOMAIN Config : f \in Below[f] /\ Below[f] \subseteq DOMAIN Config
    /\ "timer" \in Runs
BY SnapperAssumption

\* Entries by file system and index.
LEMMA EntryIs ==
    /\ \A f, i : <<f, i>> \in Entries <=> f \in DOMAIN Config /\ i \in DOMAIN Config[f]
    /\ \A e \in Entries : e = <<e[1], e[2]>>
    /\ \A f \in DOMAIN Config : /\ Len(Config[f]) \in Nat
                               /\ DOMAIN Config[f] = 1 .. Len(Config[f])
                               /\ Config[f] # <<>> => Len(Config[f]) > 0
    /\ \A f \in DOMAIN Config : \A i \in DOMAIN Config[f] :
          /\ Config[f][i].prefix \in Seq(STRING) /\ Config[f][i].hold \in Seq(STRING)
          /\ Config[f][i].interval \in Nat
          /\ Config[f][i].interval > Stall + Minute - 1
<1>1. \A f, i : <<f, i>> \in Entries <=> f \in DOMAIN Config /\ i \in DOMAIN Config[f]
  BY DEF Entries
<1>2. \A e \in Entries : e = <<e[1], e[2]>>
  BY DEF Entries
<1> DEFINE Settings == [prefix : Seq(STRING), interval : Nat, hold : Seq(STRING)]
<1>3. ASSUME NEW f \in DOMAIN Config
      PROVE  /\ Len(Config[f]) \in Nat
             /\ DOMAIN Config[f] = 1 .. Len(Config[f])
             /\ Config[f] # <<>> => Len(Config[f]) > 0
             /\ \A i \in DOMAIN Config[f] : Config[f][i] \in Settings
  <2>1. Config[f] \in Seq(Settings)
    BY SnapperAssumption
  <2> HIDE DEF Settings
  <2> QED BY <2>1, LenProperties, EmptySeq, ElementOfSeq
<1>4. ASSUME NEW f \in DOMAIN Config, NEW i \in DOMAIN Config[f]
      PROVE  /\ Config[f][i].prefix \in Seq(STRING) /\ Config[f][i].hold \in Seq(STRING)
             /\ Config[f][i].interval \in Nat
             /\ Config[f][i].interval > Stall + Minute - 1
  <2>1. Config[f][i] \in Settings
    BY <1>3
  <2> QED BY <2>1, SnapperAssumption
<1> QED
  BY <1>1, <1>2, <1>3, <1>4

\* A creation time is cut to the minute.
LEMMA PrintedBounds ==
    ASSUME NEW t \in Nat
    PROVE  Printed(t) \in Nat /\ Printed(t) <= t /\ t <= Printed(t) + (Minute - 1)
BY Constants DEF Printed

\* A name begins with its own prefix, and ends with it before the number.
LEMMA Reflexive ==
    ASSUME NEW p \in Seq(STRING) PROVE Begins(p, p) /\ IsSuffix(p, p)
<1>1. Reverse(p) \in Seq(STRING) /\ Len(p) \in Nat
  <2>1. Len(p) \in Nat /\ \A i \in 1 .. Len(p) : p[Len(p) - i + 1] \in STRING
    BY LenProperties, ElementOfSeq
  <2>2. Reverse(p) \in [1 .. Len(p) -> STRING]
    BY <2>1 DEF Reverse
  <2> QED BY <2>1, <2>2, SeqDef
<1>2. Len(Reverse(p)) \in Nat
  BY <1>1, LenProperties
<1>3. Begins(p, p)
  BY DEF Begins
<1> QED
  BY <1>1, <1>2, <1>3 DEF IsSuffix, IsPrefix

\* The next number is above those that were found, and is 0 or follows one.
LEMMA NextNumber ==
    ASSUME TypeOK, NEW f, NEW entry, NEW listing \in SUBSET Snapshots, IsFiniteSet(listing)
    PROVE  LET n == nextSnap(f, entry, listing)
           IN  /\ n \in Nat
               /\ \A k \in Numbers(f, entry, listing) : k \in Nat /\ k < n
               /\ n = 0 \/ n - 1 \in Numbers(f, entry, listing)
<1> DEFINE S == {-1} \cup Numbers(f, entry, listing)
<1>1. \A k \in Numbers(f, entry, listing) : k \in Nat
  BY DEF Numbers, Snapshots
<1>2. \E b \in Int : \A s \in S : s <= b
  <2> DEFINE g == [s \in listing |-> s.number]
  <2>1. \A s \in listing : s.number \in Nat
    BY DEF Snapshots
  <2>2. g \in [listing -> Int]
    BY <2>1
  <2>3. PICK b \in Int : \A s \in listing : g[s] <= b
    <3> HIDE DEF g
    <3> QED BY <2>2, Bounded
  <2>4. \A k \in Numbers(f, entry, listing) : k <= b
    BY <2>3 DEF Numbers
  <2>5. CASE b >= 0
    BY <2>4, <2>5
  <2>6. CASE b < 0
    <3>1. \A k \in Numbers(f, entry, listing) : k <= 0
      BY <1>1, <2>3, <2>4, <2>6
    <3> QED BY <3>1
  <2> QED BY <2>3, <2>5, <2>6
<1>3. S \subseteq Int /\ S # {} /\ -1 \in S
  BY <1>1
<1> HIDE DEF S
<1>4. Max(S) \in S /\ \A s \in S : s <= Max(S)
  BY <1>2, <1>3, Greatest
<1>5. nextSnap(f, entry, listing) = 1 + Max(S)
  BY DEF nextSnap, S
<1>6. Max(S) = -1 \/ Max(S) \in Numbers(f, entry, listing)
  BY <1>4 DEF S
<1>7. \A k \in Numbers(f, entry, listing) : k \in S
  BY DEF S
<1>8. -1 <= Max(S) /\ Max(S) \in Int
  BY <1>3, <1>4
<1> QED
  BY <1>1, <1>4, <1>5, <1>6, <1>7, <1>8
-----------------------------------------------------------------------------
(* What a step does to the runs.                                           *)

\* A run begins with the first entry of a file system that is left, or is over
\* if they have none.
LEMMA BeginEffect ==
    ASSUME TypeOK, NEW r \in Runs, NEW left \in SUBSET DOMAIN Config, NEW began \in 0 .. now,
           Begin(r, left, began)
    PROVE  /\ run' \in [Runs -> Run]
           /\ \A q \in Runs \ {r} : run'[q] = run[q]
           /\ \/ run'[r] = Idle /\ \A f \in left : Config[f] = <<>>
              \/ /\ run'[r].step = "list" /\ run'[r].began = began /\ run'[r].index = 1
                 /\ <<run'[r].fs, run'[r].index>> \in Entries
                 /\ run'[r].fs \notin run'[r].left
                 /\ \A f \in left : Config[f] = <<>> \/ f = run'[r].fs \/ f \in run'[r].left
<1> DEFINE some == {f \in left : Config[f] # <<>>}
<1>1. /\ run \in [Runs -> Run] /\ now \in Nat /\ <<>> \in Seq(STRING)
      /\ Idle \in Run
  <2>1. run \in [Runs -> Run] /\ now \in Nat /\ <<>> \in Seq(STRING)
    BY EmptySeq, Constants DEF TypeOK
  <2>2. {} \in SUBSET Snapshots /\ 0 \in 0 .. now
    BY <2>1
  <2> QED BY <2>1, <2>2 DEF Idle, Run
<1>2. CASE some = {}
  <2>1. run' = [run EXCEPT ![r] = Idle]
    BY <1>2 DEF Begin
  <2> QED BY <1>1, <1>2, <2>1
<1>3. CASE some # {}
  <2>1. PICK f \in some :
           run' = [run EXCEPT ![r] = [Idle EXCEPT !.step = "list", !.left = some \ {f},
                                                  !.fs = f, !.index = 1, !.began = began]]
    BY <1>3 DEF Begin
  <2> DEFINE new == [Idle EXCEPT !.step = "list", !.left = some \ {f}, !.fs = f, !.index = 1,
                                 !.began = began]
  <2>2. new \in Run /\ new.step = "list" /\ new.began = began /\ new.index = 1 /\ new.fs = f
        /\ new.left = some \ {f}
    BY <1>1 DEF Idle, Run
  <2>3. <<f, 1>> \in Entries
    <3>1. f \in DOMAIN Config /\ Len(Config[f]) > 0 /\ Len(Config[f]) \in Nat
      BY EntryIs
    <3>2. 1 \in DOMAIN Config[f]
      BY <3>1, EntryIs
    <3> QED BY <3>1, <3>2, EntryIs
  <2>4. run' = [run EXCEPT ![r] = new]
    BY <2>1
  <2> HIDE DEF new
  <2>5. run' \in [Runs -> Run] /\ run'[r] = new /\ \A q \in Runs \ {r} : run'[q] = run[q]
    BY <1>1, <2>2, <2>4
  <2> QED BY <2>2, <2>3, <2>5
<1> QED
  BY <1>2, <1>3

\* The entries a run has yet to come to.
LEMMA AheadIs ==
    ASSUME NEW r, NEW e
    PROVE  e \in Ahead(r) <=> /\ run[r].step # "idle" /\ e \in Entries
                             /\ \/ e[1] \in run[r].left
                                \/ e[1] = run[r].fs /\ e[2] > run[r].index
                                \/ e[1] = run[r].fs /\ e[2] = run[r].index /\ run[r].step # "hold"
<1>1. CASE run[r].step = "idle"
  <2>1. Ahead(r) = {}
    BY <1>1 DEF Ahead
  <2> QED BY <1>1, <2>1
<1>2. CASE run[r].step # "idle"
  <2>1. Ahead(r) = {x \in Entries :
            \/ x[1] \in run[r].left
            \/ x[1] = run[r].fs /\ x[2] > run[r].index
            \/ x[1] = run[r].fs /\ x[2] = run[r].index /\ run[r].step # "hold"}
    BY <1>2 DEF Ahead
  <2> QED BY <1>2, <2>1
<1> QED BY <1>1, <1>2

\* Going on to the next entry passes over none.
LEMMA ProceedEffect ==
    ASSUME TypeOK, NEW r \in Runs, Working(r), Proceed(r)
    PROVE  /\ run' \in [Runs -> Run]
           /\ \A q \in Runs \ {r} : run'[q] = run[q]
           /\ \/ run'[r] = Idle
              \/ /\ run'[r].step = "list" /\ run'[r].began = run[r].began
                 /\ <<run'[r].fs, run'[r].index>> \in Entries
                 /\ run'[r].fs \notin run'[r].left
           /\ \A e \in Ahead(r) : e = <<run[r].fs, run[r].index>> \/ e \in Ahead(r)'
<1> DEFINE f == run[r].fs
           i == run[r].index
<1>1. /\ run \in [Runs -> Run] /\ run[r] \in Run /\ <<>> \in Seq(STRING)
      /\ f \in DOMAIN Config /\ i \in 1 .. Len(Config[f]) /\ Len(Config[f]) \in Nat
      /\ run[r].left \in SUBSET DOMAIN Config /\ run[r].began \in 0 .. now
  <2>1. run \in [Runs -> Run] /\ run[r] \in Run /\ <<>> \in Seq(STRING)
    BY EmptySeq DEF TypeOK
  <2>2. f \in DOMAIN Config /\ i \in 1 .. Len(Config[f]) /\ Len(Config[f]) \in Nat
    <3>1. <<f, i>> \in Entries
      BY DEF Working
    <3> HIDE DEF f, i
    <3>2. f \in DOMAIN Config /\ i \in DOMAIN Config[f]
      BY <3>1, EntryIs
    <3> QED BY <3>2, EntryIs
  <2>3. run[r].left \in SUBSET DOMAIN Config /\ run[r].began \in 0 .. now
    BY <2>1 DEF Run
  <2> QED BY <2>1, <2>2, <2>3
<1>2. CASE i < Len(Config[f])
  <2> DEFINE new == [run[r] EXCEPT !.step = "list", !.index = i + 1, !.listing = {},
                                   !.number = 0, !.tags = <<>>]
  <2>1. run' = [run EXCEPT ![r] = new]
    BY <1>1, <1>2 DEF Proceed
  <2>2. /\ new \in Run /\ new.step = "list" /\ new.began = run[r].began
        /\ new.fs = f /\ new.index = i + 1 /\ new.left = run[r].left
    <3>1. i + 1 \in Nat /\ {} \in SUBSET Snapshots
      BY <1>1
    <3> QED BY <1>1, <3>1 DEF Run
  <2> HIDE DEF new
  <2>3. run' \in [Runs -> Run] /\ run'[r] = new /\ \A q \in Runs \ {r} : run'[q] = run[q]
    BY <1>1, <2>1, <2>2
  <2>4. <<f, i + 1>> \in Entries
    BY <1>1, <1>2, EntryIs
  <2>5. f \notin run[r].left
    BY DEF Working
  <2>6. ASSUME NEW e \in Ahead(r) PROVE e = <<f, i>> \/ e \in Ahead(r)'
    <3>1. /\ e \in Entries /\ e = <<e[1], e[2]>>
          /\ e[1] \in run[r].left \/ (e[1] = f /\ (e[2] > i \/ e[2] = i))
      <4>1. e \in Entries /\ (e[1] \in run[r].left \/ (e[1] = f /\ (e[2] > i \/ e[2] = i)))
        BY AheadIs
      <4> QED BY <4>1, EntryIs
    <3>2. e[1] = f => e[2] \in Nat
      BY <1>1, <3>1, EntryIs
    <3>3. CASE e[1] \in run[r].left
      BY <2>2, <2>3, <3>1, <3>3 DEF Ahead
    <3>4. CASE e[1] = f /\ e[2] > i
      <4>1. e[2] > i + 1 \/ e[2] = i + 1
        BY <1>1, <3>2, <3>4
      <4> QED BY <2>2, <2>3, <3>1, <3>4, <4>1 DEF Ahead
    <3> QED BY <3>1, <3>3, <3>4
  <2> QED BY <2>2, <2>3, <2>4, <2>5, <2>6
<1>3. CASE ~(i < Len(Config[f]))
  <2>1. Begin(r, run[r].left, run[r].began)
    BY <1>3 DEF Proceed
  <2>2. /\ run' \in [Runs -> Run]
        /\ \A q \in Runs \ {r} : run'[q] = run[q]
        /\ \/ run'[r] = Idle /\ \A g \in run[r].left : Config[g] = <<>>
           \/ /\ run'[r].step = "list" /\ run'[r].began = run[r].began /\ run'[r].index = 1
              /\ <<run'[r].fs, run'[r].index>> \in Entries
              /\ run'[r].fs \notin run'[r].left
              /\ \A g \in run[r].left : Config[g] = <<>> \/ g = run'[r].fs \/ g \in run'[r].left
    BY <1>1, <2>1, BeginEffect
  <2>3. ASSUME NEW e \in Ahead(r) PROVE e = <<f, i>> \/ e \in Ahead(r)'
    <3>1. /\ e \in Entries /\ e = <<e[1], e[2]>>
          /\ e[1] \in run[r].left \/ (e[1] = f /\ (e[2] > i \/ e[2] = i))
      <4>1. e \in Entries /\ (e[1] \in run[r].left \/ (e[1] = f /\ (e[2] > i \/ e[2] = i)))
        BY AheadIs
      <4> QED BY <4>1, EntryIs
    <3>2. e[1] = f => e[2] \in 1 .. Len(Config[f])
      BY <1>1, <3>1, EntryIs
    <3>3. CASE e[1] \in run[r].left
      <4>1. /\ e[1] \in DOMAIN Config /\ e[2] \in 1 .. Len(Config[e[1]])
            /\ Len(Config[e[1]]) \in Nat
        BY <3>1, EntryIs
      <4>2. Config[e[1]] # <<>>
        BY <4>1, EmptySeq
      <4>3. e[2] > 1 \/ e[2] = 1
        BY <4>1
      <4>4. run'[r].step = "list" /\ run'[r].index = 1 /\ (e[1] = run'[r].fs \/ e[1] \in run'[r].left)
        BY <2>2, <3>3, <4>2
      <4> QED BY <3>1, <4>3, <4>4 DEF Ahead
    <3>4. CASE e[1] = f
      <4>1. e[2] = i
        <5>1. e[2] \in 1 .. Len(Config[f]) /\ (e[2] > i \/ e[2] = i)
          <6>1. f \notin run[r].left
            BY DEF Working
          <6> QED BY <3>1, <3>2, <3>4, <6>1
        <5>2. i >= Len(Config[f]) /\ i \in Nat
          BY <1>1, <1>3
        <5> QED BY <1>1, <5>1, <5>2
      <4> QED BY <3>1, <3>4, <4>1
    <3> QED BY <3>1, <3>3, <3>4
  <2> QED BY <2>2, <2>3
<1> QED
  BY <1>2, <1>3
-----------------------------------------------------------------------------
(* The invariant.                                                          *)

\* No run, no snapshot.
LEMMA InitInvariant == Init => Invariant
<1> SUFFICES ASSUME Init PROVE Invariant
  OBVIOUS
<1> USE DEF Init
<1>1. <<>> \in Seq(STRING) /\ {} \in SUBSET Snapshots /\ 0 \in 0 .. now /\ IsFiniteSet({})
  BY EmptySeq, FS_EmptySet
<1>2. Idle \in Run
  BY <1>1 DEF Idle, Run
<1>3. TypeOK
  BY <1>1, <1>2, Constants DEF TypeOK
<1>4. \A r \in Runs : Sound(r)
  BY DEF Sound, Idle
<1> QED
  BY <1>3, <1>4 DEF Invariant

\* A run that does not move stays sound as snapshots come and go.
LEMMA OthersSound ==
    ASSUME Invariant, NEW q \in Runs, run'[q] = run[q], now' = now,
           \A s \in exist' : s \in exist \/ s.created = now
    PROVE  Sound(q)'
<1>1. CASE run[q].step = "idle"
  BY <1>1 DEF Sound, Invariant
<1>2. CASE run[q].step # "idle"
  <2>1. Working(q) /\ Seen(q)
    BY <1>2 DEF Sound, Invariant
  <2>2. Working(q)'
    BY <2>1 DEF Working
  <2>3. run[q] \in Run /\ now \in Nat
    BY Constants DEF Invariant, TypeOK
  <2>4. now >= run[q].began
    BY <2>3 DEF Run
  <2>5. ASSUME NEW s \in Own(q)'
        PROVE  /\ s \in Own(q) \/ s.created >= run[q].began
               /\ s.fs = run[q].fs
    BY <2>4, <2>5 DEF Own, Entry
  <2>6. Seen(q)'
    BY <2>1, <2>5 DEF Seen
  <2> QED BY <1>2, <2>2, <2>6 DEF Sound
<1> QED BY <1>1, <1>2

\* Going on to the next entry, or giving one up, leaves a run sound.
LEMMA ProceedSound ==
    ASSUME Invariant, NEW r \in Runs, Working(r), Proceed(r), now' = now,
           \A s \in exist' : s \in exist \/ s.created = now
    PROVE  /\ \A q \in Runs : Sound(q)'
           /\ run' \in [Runs -> Run]
<1>1. /\ run' \in [Runs -> Run]
      /\ \A q \in Runs \ {r} : run'[q] = run[q]
      /\ \/ run'[r] = Idle
         \/ /\ run'[r].step = "list" /\ run'[r].began = run[r].began
            /\ <<run'[r].fs, run'[r].index>> \in Entries
            /\ run'[r].fs \notin run'[r].left
  BY ProceedEffect DEF Invariant
<1>2. \A q \in Runs \ {r} : Sound(q)'
  BY <1>1, OthersSound
<1>3. Sound(r)'
  <2>1. CASE run'[r] = Idle
    BY <2>1 DEF Sound, Idle
  <2>2. CASE run'[r].step = "list"
    BY <1>1, <2>2 DEF Sound, Working, Seen, Idle
  <2> QED BY <1>1, <2>1, <2>2
<1> QED BY <1>1, <1>2, <1>3

\* An entry had its last snapshot, or was given up, now or as before.
LEMMA SinceTyped ==
    ASSUME TypeOK, NEW e, now' = now,
           \/ UNCHANGED since \/ since' = [since EXCEPT ![e] = now]
           \/ since' = [d \in Entries |-> now]
    PROVE  since' \in [Entries -> 0 .. now']
<1>1. now \in 0 .. now /\ since \in [Entries -> 0 .. now]
  BY Constants DEF TypeOK
<1> QED BY <1>1

\* A command of zfs that fails gives the entry up.
LEMMA WarnInvariant ==
    ASSUME Invariant, NEW r \in Runs, Working(r), Warn(r), UNCHANGED <<now, exist, holds, started>>
    PROVE  Invariant'
<1>1. (\A q \in Runs : Sound(q)') /\ run' \in [Runs -> Run]
  BY ProceedSound DEF Warn
<1>2. UNCHANGED since \/ since' = [since EXCEPT ![<<run[r].fs, run[r].index>>] = now]
  BY DEF Warn, Invariant, TypeOK
<1>3. since' \in [Entries -> 0 .. now']
  BY <1>2, SinceTyped DEF Invariant
<1>4. TypeOK'
  BY <1>1, <1>3 DEF Invariant, TypeOK, Run, Snapshots
<1> QED BY <1>1, <1>4 DEF Invariant

\* A run begins with the list of all file systems.
LEMMA StartInvariant ==
    ASSUME Invariant, NEW r \in Runs, Start(r) PROVE Invariant'
<1>1. /\ UNCHANGED <<now, exist, holds, since>> /\ started' \in {now, started}
      /\ Begin(r, DOMAIN Config, now) /\ now \in 0 .. now
  BY Constants DEF Start, Invariant, TypeOK
<1>2. /\ run' \in [Runs -> Run]
      /\ \A q \in Runs \ {r} : run'[q] = run[q]
      /\ \/ run'[r] = Idle
         \/ /\ run'[r].step = "list" /\ run'[r].began = now
            /\ <<run'[r].fs, run'[r].index>> \in Entries
            /\ run'[r].fs \notin run'[r].left
  BY <1>1, BeginEffect DEF Invariant
<1>3. \A q \in Runs \ {r} : Sound(q)'
  BY <1>1, <1>2, OthersSound
<1>4. Sound(r)'
  <2>1. CASE run'[r] = Idle
    BY <2>1 DEF Sound, Idle
  <2>2. CASE run'[r].step = "list" /\ run'[r].began = now
    <3>1. now - now <= Stall
      BY <1>1, Constants
    <3> QED BY <1>1, <1>2, <2>2, <3>1 DEF Sound, Working, Seen, Idle
  <2> QED BY <1>2, <2>1, <2>2
<1>5. TypeOK'
  BY <1>1, <1>2 DEF Invariant, TypeOK, Run, Snapshots
<1> QED BY <1>1, <1>2, <1>3, <1>4, <1>5 DEF Invariant

\* A run has seen all that there is when it lists.
LEMMA ListInvariant ==
    ASSUME Invariant, NEW r \in Runs, ListSnapshots(r) PROVE Invariant'
<1> DEFINE listed == {s \in exist : s.fs \in Below[run[r].fs]}
<1>1. /\ UNCHANGED <<now, exist, holds, started, since>> /\ run[r].step = "list"
      /\ run' = [run EXCEPT ![r].listing = listed, ![r].step = "holds"]
  BY DEF ListSnapshots
<1>2. Working(r) /\ run \in [Runs -> Run] /\ exist \subseteq Snapshots
  BY <1>1 DEF Invariant, Sound, TypeOK
<1>3. /\ run' \in [Runs -> Run]
      /\ \A q \in Runs \ {r} : run'[q] = run[q]
      /\ run'[r] = [run[r] EXCEPT !.listing = listed, !.step = "holds"]
  <2>1. [run[r] EXCEPT !.listing = listed, !.step = "holds"] \in Run
    BY <1>2 DEF Run
  <2> QED BY <1>1, <1>2, <2>1
<1>4. /\ run'[r].step = "holds" /\ run'[r].listing = listed /\ run'[r].fs = run[r].fs
      /\ run'[r].index = run[r].index /\ run'[r].left = run[r].left /\ run'[r].began = run[r].began
  BY <1>2, <1>3 DEF Run
<1>5. Working(r)'
  BY <1>1, <1>2, <1>4 DEF Working
<1>6. Seen(r)'
  <2>1. run[r].fs \in Below[run[r].fs]
    BY <1>2, Constants, EntryIs DEF Working
  <2> QED BY <1>1, <1>4, <2>1 DEF Seen, Own
<1>7. \A q \in Runs : Sound(q)'
  BY <1>1, <1>3, <1>4, <1>5, <1>6, OthersSound DEF Sound
<1>8. TypeOK'
  BY <1>1, <1>3 DEF Invariant, TypeOK, Run, Snapshots
<1> QED BY <1>1, <1>7, <1>8 DEF Invariant

\* The entry decides on what it has listed.
LEMMA DecideInvariant ==
    ASSUME Invariant, NEW r \in Runs, ListHolds(r) PROVE Invariant'
<1>1. run[r].step = "holds" /\ UNCHANGED <<now, exist, holds, started>>
  BY DEF ListHolds
<1>2. /\ Working(r) /\ Seen(r) /\ run \in [Runs -> Run] /\ run[r] \in Run
      /\ exist \subseteq Snapshots /\ IsFiniteSet(exist)
      /\ run[r].listing \in SUBSET Snapshots
  <2>1. Working(r) /\ Seen(r) /\ run \in [Runs -> Run] /\ exist \subseteq Snapshots /\ IsFiniteSet(exist)
    BY <1>1 DEF Invariant, Sound, TypeOK
  <2> QED BY <2>1 DEF Run
<1>3. CASE ~(run[r].listing \subseteq exist)
  BY <1>1, <1>2, <1>3, WarnInvariant DEF ListHolds
<1>4. CASE run[r].listing \subseteq exist /\ ~expired(Entry(r), run[r].listing)
  <2>1. Proceed(r) /\ UNCHANGED since
    BY <1>4 DEF ListHolds
  <2>2. (\A q \in Runs : Sound(q)') /\ run' \in [Runs -> Run]
    BY <1>1, <1>2, <2>1, ProceedSound
  <2>3. TypeOK'
    BY <1>1, <2>1, <2>2 DEF Invariant, TypeOK, Run, Snapshots
  <2> QED BY <1>1, <2>2, <2>3 DEF Invariant
<1>5. CASE run[r].listing \subseteq exist /\ expired(Entry(r), run[r].listing)
  <2> DEFINE n == nextSnap(run[r].fs, Entry(r), run[r].listing)
  <2>1. /\ UNCHANGED since
        /\ run' = [run EXCEPT ![r].number = n, ![r].step = "create", ![r].listing = {}]
    BY <1>5 DEF ListHolds
  <2>2. IsFiniteSet(run[r].listing)
    BY <1>2, <1>5, FS_Subset
  <2>3. /\ n \in Nat
        /\ \A k \in Numbers(run[r].fs, Entry(r), run[r].listing) : k \in Nat /\ k < n
    BY <1>2, <2>2, NextNumber DEF Invariant
  <2> HIDE DEF n
  <2>4. /\ run' \in [Runs -> Run]
        /\ \A q \in Runs \ {r} : run'[q] = run[q]
        /\ run'[r] = [run[r] EXCEPT !.number = n, !.step = "create", !.listing = {}]
    <3>1. {} \in SUBSET Snapshots
      OBVIOUS
    <3>2. [run[r] EXCEPT !.number = n, !.step = "create", !.listing = {}] \in Run
      BY <1>2, <2>3, <3>1 DEF Run
    <3> QED BY <1>2, <2>1, <3>2
  <2>5. /\ run'[r].step = "create" /\ run'[r].number = n /\ run'[r].fs = run[r].fs
        /\ run'[r].index = run[r].index /\ run'[r].left = run[r].left /\ run'[r].began = run[r].began
    BY <1>2, <2>4 DEF Run
  <2>6. Working(r)'
    BY <1>1, <1>2, <2>5 DEF Working
  <2>7. Seen(r)'
    <3>1. Own(r)' = Own(r)
      BY <1>1, <2>5 DEF Own, Entry
    <3>2. ASSUME NEW s \in Own(r), s.number = n PROVE s.created >= run[r].began
      <4>1. Entry(r).prefix \in Seq(STRING)
        BY <1>2, EntryIs DEF Working, Entry
      <4>2. s \notin run[r].listing
        <5> SUFFICES ASSUME s \in run[r].listing PROVE FALSE
          OBVIOUS
        <5>1. IsSuffix(Entry(r).prefix, s.prefix) /\ s.fs = run[r].fs
          BY <4>1, Reflexive DEF Own
        <5>2. s.number \in Numbers(run[r].fs, Entry(r), run[r].listing)
          BY <5>1 DEF Numbers
        <5> QED BY <2>3, <3>2, <5>2
      <4> QED BY <1>1, <1>2, <4>2 DEF Seen
    <3> QED BY <2>5, <3>1, <3>2 DEF Seen
  <2>8. \A q \in Runs : Sound(q)'
    BY <1>1, <2>4, <2>5, <2>6, <2>7, OthersSound DEF Sound
  <2>9. TypeOK'
    BY <1>1, <2>1, <2>4 DEF Invariant, TypeOK, Run, Snapshots
  <2> QED BY <1>1, <2>8, <2>9 DEF Invariant
<1> QED
  BY <1>3, <1>4, <1>5

\* What a run creates, and whether it may.
LEMMA CreateEffect ==
    ASSUME Invariant, NEW r \in Runs, CreateSnapshot(r)
    PROVE  LET new == [fs |-> run[r].fs, prefix |-> Entry(r).prefix, number |-> run[r].number,
                       created |-> now]
           IN  /\ run[r].step = "create" /\ Working(r) /\ Seen(r) /\ run[r] \in Run
               /\ UNCHANGED <<now, started>>
               /\ new \in Snapshots
               /\ Config[run[r].fs][run[r].index] = Entry(r)
               /\ \/ /\ Proceed(r) /\ UNCHANGED <<exist, holds, since>>
                     /\ \E s \in Own(r) : s.number = run[r].number
                  \/ /\ \A s \in Own(r) : s.number # run[r].number
                     /\ exist' = exist \cup {new} /\ new \notin exist
                     /\ holds' = [s \in exist' |-> IF s = new THEN {} ELSE holds[s]]
                     /\ since' = [since EXCEPT ![<<run[r].fs, run[r].index>>] = now]
                     /\ IF Entry(r).hold = <<>>
                        THEN Proceed(r)
                        ELSE run' = [run EXCEPT ![r].step = "hold", ![r].tags = Entry(r).hold]
<1> DEFINE new == [fs |-> run[r].fs, prefix |-> Entry(r).prefix, number |-> run[r].number,
                   created |-> now]
           taken == \E s \in exist : [s EXCEPT !.created = now] = new
<1>1. run[r].step = "create" /\ UNCHANGED <<now, started>>
  BY DEF CreateSnapshot
<1>2. Working(r) /\ Seen(r) /\ run \in [Runs -> Run] /\ run[r] \in Run
  BY <1>1 DEF Invariant, Sound, TypeOK
<1>3. run[r].fs \in DOMAIN Config /\ Entry(r).prefix \in Seq(STRING) /\ now \in 0 .. now
  <2>1. run[r].fs \in DOMAIN Config /\ run[r].index \in DOMAIN Config[run[r].fs]
    BY <1>2, EntryIs DEF Working
  <2>2. now \in 0 .. now
    BY Constants DEF Invariant, TypeOK
  <2> QED BY <2>1, <2>2, EntryIs DEF Entry
<1>4. new \in Snapshots
  BY <1>2, <1>3 DEF Run, Snapshots
<1>5. taken <=> \E s \in Own(r) : s.number = run[r].number
  <2>1. ASSUME NEW s \in exist
        PROVE  [s EXCEPT !.created = now] = new
                 <=> s.fs = run[r].fs /\ s.prefix = Entry(r).prefix /\ s.number = run[r].number
    <3>1. s \in Snapshots
      BY DEF Invariant, TypeOK
    <3>2. s = [fs |-> s.fs, prefix |-> s.prefix, number |-> s.number, created |-> s.created]
      BY <3>1 DEF Snapshots
    <3>3. [s EXCEPT !.created = now]
            = [fs |-> s.fs, prefix |-> s.prefix, number |-> s.number, created |-> now]
      BY <3>2
    <3> QED BY <3>3
  <2> QED BY <2>1 DEF Own
<1>6. \A s \in exist : s = new => [s EXCEPT !.created = now] = new
  OBVIOUS
<1> QED
  BY <1>1, <1>2, <1>4, <1>5, <1>6 DEF CreateSnapshot, Entry

\* A name that is taken makes the command fail, so names stay apart.
LEMMA CreateInvariant ==
    ASSUME Invariant, NEW r \in Runs, CreateSnapshot(r) PROVE Invariant'
<1> DEFINE new == [fs |-> run[r].fs, prefix |-> Entry(r).prefix, number |-> run[r].number,
                   created |-> now]
<1>1. /\ run[r].step = "create" /\ Working(r) /\ Seen(r) /\ run[r] \in Run
      /\ UNCHANGED <<now, started>>
      /\ new \in Snapshots
      /\ Config[run[r].fs][run[r].index] = Entry(r)
  BY CreateEffect
<1>2. /\ run \in [Runs -> Run] /\ exist \subseteq Snapshots /\ IsFiniteSet(exist)
      /\ holds \in [exist -> SUBSET STRING] /\ since \in [Entries -> 0 .. now]
      /\ now \in 0 .. MaxTime /\ started \in 0 .. now
      /\ \A s \in exist : \E i \in DOMAIN Config[s.fs] : s.prefix = Config[s.fs][i].prefix
  BY DEF Invariant, TypeOK
<1>3. CASE Proceed(r) /\ UNCHANGED <<exist, holds, since>>
  <2>1. (\A q \in Runs : Sound(q)') /\ run' \in [Runs -> Run]
    BY <1>1, <1>3, ProceedSound
  <2>2. TypeOK'
    BY <1>1, <1>3, <2>1 DEF Invariant, TypeOK, Run, Snapshots
  <2> QED BY <1>3, <2>1, <2>2 DEF Invariant
<1>4. ASSUME /\ \A s \in Own(r) : s.number # run[r].number
             /\ exist' = exist \cup {new} /\ new \notin exist
             /\ holds' = [s \in exist' |-> IF s = new THEN {} ELSE holds[s]]
             /\ since' = [since EXCEPT ![<<run[r].fs, run[r].index>>] = now]
             /\ IF Entry(r).hold = <<>>
                THEN Proceed(r)
                ELSE run' = [run EXCEPT ![r].step = "hold", ![r].tags = Entry(r).hold]
      PROVE  Invariant'
  <2>1. run[r].fs \in DOMAIN Config /\ run[r].index \in DOMAIN Config[run[r].fs]
    BY <1>1, EntryIs DEF Working
  <2>2. \A s \in exist' : s \in exist \/ s.created = now
    BY <1>4
  <2>3. (\A q \in Runs : Sound(q)') /\ run' \in [Runs -> Run]
    <3>1. CASE Entry(r).hold = <<>>
      BY <1>1, <1>4, <2>2, <3>1, ProceedSound
    <3>2. CASE Entry(r).hold # <<>>
      <4> DEFINE h == Entry(r).hold
      <4>1. h \in Seq(STRING) /\ h # <<>>
        BY <1>1, <2>1, <3>2, EntryIs
      <4>2. run' = [run EXCEPT ![r].step = "hold", ![r].tags = h]
        BY <1>4, <3>2
      <4> HIDE DEF h
      <4>3. /\ run' \in [Runs -> Run]
            /\ \A q \in Runs \ {r} : run'[q] = run[q]
            /\ run'[r] = [run[r] EXCEPT !.step = "hold", !.tags = h]
        <5>1. [run[r] EXCEPT !.step = "hold", !.tags = h] \in Run
          BY <1>1, <4>1 DEF Run
        <5> QED BY <1>2, <4>2, <5>1
      <4>4. /\ run'[r].step = "hold" /\ run'[r].tags = h /\ run'[r].fs = run[r].fs
            /\ run'[r].index = run[r].index /\ run'[r].left = run[r].left
            /\ run'[r].began = run[r].began
        BY <1>1, <4>3 DEF Run
      <4>5. Sound(r)'
        BY <1>1, <4>1, <4>4 DEF Sound, Working, Seen
      <4> QED BY <1>1, <2>2, <4>3, <4>5, OthersSound
    <3> QED BY <3>1, <3>2
  <2>4. holds' \in [exist' -> SUBSET STRING]
    <3>1. holds' = [s \in exist' |-> IF s = new THEN {} ELSE holds[s]] /\ exist' = exist \cup {new} /\ DOMAIN holds = exist
      BY <1>2, <1>4
    <3> HIDE DEF new
    <3>2. \A s \in exist' : (IF s = new THEN {} ELSE holds[s]) \in SUBSET STRING
      BY <1>2, <3>1
    <3> QED BY <3>1, <3>2
  <2>5. since' \in [Entries -> 0 .. now']
    BY <1>1, <1>4, SinceTyped DEF Invariant
  <2>6. IsFiniteSet(exist')
    BY <1>2, <1>4, FS_AddElement
  <2>7. \A s \in exist' : \E i \in DOMAIN Config[s.fs] : s.prefix = Config[s.fs][i].prefix
    <3> SUFFICES ASSUME NEW s \in exist'
                 PROVE  \E i \in DOMAIN Config[s.fs] : s.prefix = Config[s.fs][i].prefix
      OBVIOUS
    <3>1. CASE s \in exist
      BY <1>2, <3>1
    <3>2. CASE s = new
      <4>1. s.fs = run[r].fs /\ s.prefix = Config[run[r].fs][run[r].index].prefix
        BY <1>1, <3>2
      <4> QED BY <2>1, <4>1
    <3> QED BY <1>4, <3>1, <3>2
  <2>8. exist' \subseteq Snapshots'
    BY <1>1, <1>2, <1>4 DEF Snapshots
  <2>9. TypeOK'
    BY <1>1, <1>2, <2>3, <2>4, <2>5, <2>6, <2>7, <2>8 DEF TypeOK, Run, Snapshots
  <2>10. \A s, t \in exist' : s.fs = t.fs /\ s.prefix = t.prefix /\ s.number = t.number => s = t
    BY <1>4 DEF Invariant, Own
  <2> QED BY <2>3, <2>9, <2>10 DEF Invariant
<1> QED
  <2> HIDE DEF new
  <2> QED BY <1>3, <1>4, CreateEffect DEF new

\* A hold changes no snapshot, and the run goes on to the next entry.
LEMMA HoldInvariant ==
    ASSUME Invariant, NEW r \in Runs, HoldSnapshot(r) PROVE Invariant'
<1>1. run[r].step = "hold" /\ UNCHANGED <<now, exist, started, since>>
  BY DEF HoldSnapshot
<1>2. /\ Working(r) /\ run \in [Runs -> Run] /\ run[r] \in Run
      /\ run[r].tags \in Seq(STRING) /\ run[r].tags # <<>>
      /\ holds \in [exist -> SUBSET STRING]
  BY <1>1 DEF Invariant, Sound, Working, TypeOK, Run
<1>3. holds' \in [exist -> SUBSET STRING]
  <2>1. Head(run[r].tags) \in STRING
    BY <1>2, HeadTailProperties
  <2>2. CASE UNCHANGED holds
    BY <1>2, <2>2
  <2>3. CASE ~UNCHANGED holds
    <3> DEFINE same == {s \in exist : /\ s.fs = run[r].fs /\ s.prefix = Entry(r).prefix
                                     /\ s.number = run[r].number}
               more(s) == holds[s] \cup {t \in {Head(run[r].tags)} : s \in same}
    <3>1. holds' = [s \in exist |-> more(s)]
      BY <2>3 DEF HoldSnapshot
    <3>2. \A s \in exist : more(s) \in SUBSET STRING
      BY <1>2, <2>1
    <3> HIDE DEF more
    <3> QED BY <3>1, <3>2
  <2> QED BY <2>2, <2>3
<1>4. (\A q \in Runs : Sound(q)') /\ run' \in [Runs -> Run]
  <2>1. CASE Len(run[r].tags) = 1
    BY <1>1, <1>2, <2>1, ProceedSound DEF HoldSnapshot
  <2>2. CASE Len(run[r].tags) # 1
    <3> DEFINE tail == Tail(run[r].tags)
    <3>1. tail \in Seq(STRING) /\ tail # <<>>
      <4>1. tail \in Seq(STRING) /\ Len(tail) = Len(run[r].tags) - 1 /\ Len(run[r].tags) \in Nat
        BY <1>2, HeadTailProperties, LenProperties
      <4>2. Len(tail) # 0
        BY <2>2, <4>1
      <4> QED BY <4>1, <4>2, EmptySeq
    <3>2. run' = [run EXCEPT ![r].tags = tail]
      BY <2>2 DEF HoldSnapshot
    <3> HIDE DEF tail
    <3>3. /\ run' \in [Runs -> Run]
          /\ \A q \in Runs \ {r} : run'[q] = run[q]
          /\ run'[r] = [run[r] EXCEPT !.tags = tail]
      <4>1. [run[r] EXCEPT !.tags = tail] \in Run
        BY <1>2, <3>1 DEF Run
      <4> QED BY <1>2, <3>2, <4>1
    <3>4. /\ run'[r].step = "hold" /\ run'[r].tags = tail /\ run'[r].fs = run[r].fs
          /\ run'[r].index = run[r].index /\ run'[r].left = run[r].left
          /\ run'[r].began = run[r].began
      BY <1>1, <1>2, <3>3 DEF Run
    <3>5. Sound(r)'
      BY <1>1, <1>2, <3>1, <3>4 DEF Sound, Working, Seen
    <3> QED BY <1>1, <3>3, <3>5, OthersSound
  <2> QED BY <2>1, <2>2
<1>5. TypeOK'
  BY <1>1, <1>3, <1>4 DEF Invariant, TypeOK, Run, Snapshots
<1> QED BY <1>1, <1>4, <1>5 DEF Invariant

\* A run that dies leaves snapshots and holds as they are.
LEMMA CrashInvariant ==
    ASSUME Invariant, NEW r \in Runs, Crash(r) PROVE Invariant'
<1>1. UNCHANGED <<now, exist, holds, started>> /\ run' = [run EXCEPT ![r] = Idle]
  BY DEF Crash
<1>2. Idle \in Run
  <2>1. <<>> \in Seq(STRING) /\ {} \in SUBSET Snapshots /\ 0 \in 0 .. now
    BY EmptySeq, Constants DEF Invariant, TypeOK
  <2> QED BY <2>1 DEF Idle, Run
<1>3. run' \in [Runs -> Run] /\ run'[r] = Idle /\ \A q \in Runs \ {r} : run'[q] = run[q]
  BY <1>1, <1>2 DEF Invariant, TypeOK
<1>4. \A q \in Runs : Sound(q)'
  <2>1. Sound(r)'
    BY <1>3 DEF Sound, Idle
  <2> QED BY <1>1, <1>3, <2>1, OthersSound
<1>5. since' \in [Entries -> 0 .. now']
  <2>1. now \in 0 .. now /\ since \in [Entries -> 0 .. now]
    BY Constants DEF Invariant, TypeOK
  <2> QED BY <1>1, <2>1 DEF Crash
<1>6. TypeOK'
  BY <1>1, <1>3, <1>5 DEF Invariant, TypeOK, Run, Snapshots
<1> QED BY <1>1, <1>4, <1>6 DEF Invariant

\* A listing may only have more than there is because of pruning.
LEMMA DestroyInvariant ==
    ASSUME Invariant, Destroy PROVE Invariant'
<1>1. UNCHANGED <<now, run, started, since>> /\ exist' \subseteq exist
      /\ holds' = [t \in exist' |-> holds[t]]
  BY DEF Destroy
<1>2. \A q \in Runs : Sound(q)'
  BY <1>1, OthersSound
<1>3. TypeOK'
  <2>1. IsFiniteSet(exist')
    BY <1>1, FS_Subset DEF Invariant, TypeOK
  <2> QED BY <1>1, <2>1 DEF Invariant, TypeOK, Run, Snapshots
<1> QED BY <1>1, <1>2, <1>3 DEF Invariant

\* Time passes for everyone.
LEMMA TickInvariant ==
    ASSUME Invariant, Tick PROVE Invariant'
<1>1. /\ UNCHANGED <<exist, holds, run, started, since>> /\ now' = now + 1 /\ now < MaxTime
      /\ \A r \in Runs : run[r] # Idle => now - run[r].began < Stall
      /\ now \in Nat /\ MaxTime \in Nat /\ Stall \in Nat
  BY Constants DEF Tick, Invariant, TypeOK
<1>2. 0 .. now \subseteq 0 .. now' /\ now' \in 0 .. MaxTime
  BY <1>1
<1>3. TypeOK'
  <2>1. Snapshots \subseteq Snapshots'
    BY <1>2 DEF Snapshots
  <2>2. Run \subseteq Run'
    BY <1>2, <2>1 DEF Run
  <2>3. run' \in [Runs -> Run'] /\ since' \in [Entries -> 0 .. now'] /\ exist' \subseteq Snapshots'
    BY <1>1, <1>2, <2>1, <2>2 DEF Invariant, TypeOK
  <2> QED BY <1>1, <1>2, <2>3 DEF Invariant, TypeOK
<1>4. ASSUME NEW q \in Runs PROVE Sound(q)'
  <2>1. CASE run[q].step = "idle"
    BY <1>1, <2>1 DEF Sound, Invariant
  <2>2. CASE run[q].step # "idle"
    <3>1. Working(q) /\ Seen(q) /\ run[q] \in Run /\ run[q] # Idle
      BY <2>2 DEF Sound, Invariant, TypeOK, Idle
    <3>2. run[q].began \in Nat
      BY <1>1, <3>1 DEF Run
    <3>3. now' - run[q].began <= Stall
      BY <1>1, <3>1, <3>2
    <3> QED BY <1>1, <2>2, <3>1, <3>3 DEF Sound, Working, Seen, Own, Entry
  <2> QED BY <2>1, <2>2
<1> QED BY <1>1, <1>3, <1>4 DEF Invariant

\* Every step of every run keeps the invariant.
LEMMA Step == Invariant /\ [Next]_vars => Invariant'
<1> SUFFICES ASSUME Invariant, [Next]_vars PROVE Invariant'
  OBVIOUS
<1>1. CASE UNCHANGED vars
  BY <1>1 DEF vars, Invariant, TypeOK, Sound, Working, Seen, Own, Entry, Run, Snapshots
<1>2. CASE Destroy \/ Tick
  BY <1>2, DestroyInvariant, TickInvariant
<1>3. ASSUME NEW r \in Runs,
             \/ Start(r) \/ ListSnapshots(r) \/ ListHolds(r) \/ CreateSnapshot(r)
             \/ HoldSnapshot(r) \/ CommandFails(r) \/ Crash(r)
      PROVE  Invariant'
  <2>1. CASE CommandFails(r)
    BY <2>1, WarnInvariant DEF CommandFails, Invariant, Sound
  <2> QED BY <1>3, <2>1, StartInvariant, ListInvariant, DecideInvariant, CreateInvariant,
             HoldInvariant, CrashInvariant
<1> QED BY <1>1, <1>2, <1>3 DEF Next

\* Types, what each run is at and what it may not have seen, and that no two
\* snapshots have one name.
THEOREM Invariance == Spec => []Invariant
BY InitInvariant, Step, PTL DEF Spec
-----------------------------------------------------------------------------
(* Entries stay current.                                                   *)

Interval(e) == Config[e[1]][e[2]].interval

\* Times and intervals are numbers, and none lies ahead.
LEMMA TimeTypes ==
    ASSUME Invariant, NEW e \in Entries
    PROVE  /\ now \in Nat /\ started \in Nat /\ started <= now
           /\ since[e] \in Nat /\ since[e] <= now
           /\ Interval(e) \in Nat
           /\ e[1] \in DOMAIN Config /\ e[2] \in DOMAIN Config[e[1]]
<1>1. e[1] \in DOMAIN Config /\ e[2] \in DOMAIN Config[e[1]]
  BY EntryIs
<1> QED BY <1>1, EntryIs, Constants DEF Invariant, TypeOK, Interval

\* Whatever does not settle less than it takes off the timer's list.
LEMMA TimelyKept ==
    ASSUME Invariant, Invariant', Timely, UNCHANGED <<now, started>>,
           run'["timer"].step # "idle" => run'["timer"].began = started,
           \A e \in Entries : since'[e] >= since[e],
           \A e \in Ahead("timer") : e \in Ahead("timer")' \/ since'[e] >= started - Interval(e),
           \A s \in exist' : s \in exist \/ \A i \in DOMAIN Config[s.fs] :
              s.prefix = Config[s.fs][i].prefix => s.created <= since'[<<s.fs, i>>]
    PROVE  Timely'
<1>1. ASSUME NEW e \in Entries
      PROVE  since'[e] >= started - Interval(e) - (IF e \in Ahead("timer")' THEN Period ELSE 0)
  <2>1. /\ started \in Nat /\ since[e] \in Nat /\ since'[e] \in Nat /\ Interval(e) \in Nat
        /\ Period \in Nat
    BY TimeTypes, Constants DEF Invariant, TypeOK
  <2>2. since'[e] >= since[e]
    OBVIOUS
  <2>3. since[e] >= started - Interval(e) - (IF e \in Ahead("timer") THEN Period ELSE 0)
    BY DEF Timely, Interval
  <2>4. CASE e \in Ahead("timer")'
    BY <2>1, <2>2, <2>3, <2>4
  <2>5. CASE e \notin Ahead("timer")' /\ e \in Ahead("timer")
    BY <2>1, <2>5
  <2>6. CASE e \notin Ahead("timer")' /\ e \notin Ahead("timer")
    BY <2>1, <2>2, <2>3, <2>6
  <2> QED BY <2>4, <2>5, <2>6
<1>2. ASSUME NEW s \in exist', NEW i \in DOMAIN Config[s.fs], s.prefix = Config[s.fs][i].prefix
      PROVE  s.created <= since'[<<s.fs, i>>]
  <2>1. CASE s \in exist
    <3>1. s \in Snapshots
      BY <2>1 DEF Invariant, TypeOK
    <3>2. <<s.fs, i>> \in Entries /\ s.created \in Nat
      BY <3>1, EntryIs DEF Snapshots
    <3>3. s.created <= since[<<s.fs, i>>] /\ since'[<<s.fs, i>>] >= since[<<s.fs, i>>]
      BY <1>2, <2>1, <3>2 DEF Timely
    <3>4. since[<<s.fs, i>>] \in Nat /\ since'[<<s.fs, i>>] \in Nat
      BY <3>2, TimeTypes DEF Invariant, TypeOK
    <3> QED BY <3>2, <3>3, <3>4
  <2>2. CASE s \notin exist
    BY <1>2, <2>2
  <2> QED BY <2>1, <2>2
<1> QED BY <1>1, <1>2 DEF Timely, Interval

\* A step of another run, or of nobody's, that leaves the times alone.
LEMMA TimelyBeside ==
    ASSUME Invariant, Invariant', Timely, UNCHANGED <<now, started>>,
           run'["timer"] = run["timer"],
           \A e \in Entries : since'[e] >= since[e],
           \A s \in exist' : s \in exist \/ \A i \in DOMAIN Config[s.fs] :
              s.prefix = Config[s.fs][i].prefix => s.created <= since'[<<s.fs, i>>]
    PROVE  Timely'
<1>1. Ahead("timer")' = Ahead("timer")
  BY DEF Ahead
<1>2. run'["timer"].step # "idle" => run'["timer"].began = started
  BY DEF Timely
<1> QED BY <1>1, <1>2, TimelyKept

\* An entry that is not given up never loses time.
LEMMA SinceGrows ==
    ASSUME Invariant, NEW d,
           \/ UNCHANGED since \/ since' = [since EXCEPT ![d] = now]
    PROVE  \A e \in Entries : since'[e] >= since[e]
<1> SUFFICES ASSUME NEW e \in Entries PROVE since'[e] >= since[e]
  OBVIOUS
<1>1. since \in [Entries -> 0 .. now] /\ since[e] \in Nat /\ now \in Nat /\ since[e] <= now
  BY TimeTypes DEF Invariant, TypeOK
<1>2. since'[e] = since[e] \/ since'[e] = now
  BY <1>1
<1> QED BY <1>1, <1>2

\* Going on settles nothing but the entry the run is at.
LEMMA TimelyProceeds ==
    ASSUME Invariant, Invariant', Timely, UNCHANGED <<now, started>>,
           Working("timer"), run["timer"].step # "idle", Proceed("timer"),
           \A e \in Entries : since'[e] >= since[e],
           LET at == <<run["timer"].fs, run["timer"].index>>
           IN  at \in Ahead("timer") => since'[at] >= started - Interval(at),
           \A s \in exist' : s \in exist \/ \A i \in DOMAIN Config[s.fs] :
              s.prefix = Config[s.fs][i].prefix => s.created <= since'[<<s.fs, i>>]
    PROVE  Timely'
<1>1. /\ run'["timer"] = Idle \/ run'["timer"].began = run["timer"].began
      /\ \A e \in Ahead("timer") : \/ e = <<run["timer"].fs, run["timer"].index>>
                                   \/ e \in Ahead("timer")'
  BY ProceedEffect, Constants DEF Invariant
<1>2. run'["timer"].step # "idle" => run'["timer"].began = started
  BY <1>1 DEF Timely, Idle
<1> QED BY <1>1, <1>2, TimelyKept

\* The timer's run begins with every entry ahead of it.
LEMMA TimelyStart ==
    ASSUME Invariant, Invariant', Timely, NEW r \in Runs, Start(r) PROVE Timely'
<1>1. UNCHANGED <<now, exist, holds, since>> /\ run[r] = Idle /\ now \in Nat /\ now \in 0 .. now
  BY Constants DEF Start, Invariant, TypeOK
<1>2. /\ \A q \in Runs \ {r} : run'[q] = run[q]
      /\ \/ run'[r] = Idle /\ \A f \in DOMAIN Config : Config[f] = <<>>
         \/ /\ run'[r].step = "list" /\ run'[r].began = now /\ run'[r].index = 1
            /\ \A f \in DOMAIN Config : \/ Config[f] = <<>>
                                        \/ f = run'[r].fs \/ f \in run'[r].left
  <2>1. Begin(r, DOMAIN Config, now) /\ TypeOK /\ DOMAIN Config \in SUBSET DOMAIN Config
    BY DEF Start, Invariant
  <2>2. now \in 0 .. now
    BY <1>1
  <2>3. /\ \A q \in Runs \ {r} : run'[q] = run[q]
        /\ \/ run'[r] = Idle /\ \A f \in DOMAIN Config : Config[f] = <<>>
           \/ /\ run'[r].step = "list" /\ run'[r].began = now /\ run'[r].index = 1
              /\ <<run'[r].fs, run'[r].index>> \in Entries
              /\ run'[r].fs \notin run'[r].left
              /\ \A f \in DOMAIN Config : Config[f] = <<>> \/ f = run'[r].fs \/ f \in run'[r].left
    BY <2>1, <2>2, BeginEffect, SMTT(60)
  <2> QED BY <2>3
<1>3. \A e \in Entries : since'[e] >= since[e]
  BY <1>1, SinceGrows
<1>4. CASE r # "timer"
  BY <1>1, <1>2, <1>3, <1>4, TimelyBeside, Constants DEF Start
<1>5. CASE r = "timer"
  <2>1. started' = now /\ (now = 0 \/ now - started = Period)
    BY <1>5 DEF Start
  <2>2. ASSUME NEW e \in Entries PROVE e \in Ahead("timer")'
    <3>1. /\ e = <<e[1], e[2]>> /\ e[1] \in DOMAIN Config /\ e[2] \in 1 .. Len(Config[e[1]])
          /\ Len(Config[e[1]]) \in Nat
      BY EntryIs, TimeTypes
    <3>2. Config[e[1]] # <<>>
      BY <3>1, EmptySeq
    <3>3. e[2] > 1 \/ e[2] = 1
      BY <3>1
    <3>4. run'[r].step = "list" /\ run'[r].index = 1 /\ (e[1] = run'[r].fs \/ e[1] \in run'[r].left)
      BY <1>2, <3>1, <3>2
    <3> QED BY <1>5, <3>3, <3>4 DEF Ahead
  <2>3. ASSUME NEW e \in Entries PROVE since'[e] >= started' - Interval(e) - Period
    <3>1. since[e] >= started - Interval(e)
      <4>1. e \notin Ahead("timer")
        BY <1>1, <1>5 DEF Ahead, Idle
      <4>2. since[e] >= started - Interval(e) - 0
        BY <4>1 DEF Timely, Interval
      <4> QED BY <4>2, TimeTypes
    <3> QED BY <1>1, <2>1, <3>1, TimeTypes, Constants
  <2>4. run'["timer"].step # "idle" => run'["timer"].began = started'
    BY <1>2, <1>5, <2>1 DEF Idle
  <2>5. now' - started' <= Period
    BY <1>1, <2>1, Constants
  <2>6. \A s \in exist' : \A i \in DOMAIN Config[s.fs] :
           s.prefix = Config[s.fs][i].prefix => s.created <= since'[<<s.fs, i>>]
    BY <1>1 DEF Timely
  <2> QED BY <2>2, <2>3, <2>4, <2>5, <2>6 DEF Timely, Interval
<1> QED BY <1>4, <1>5

\* Giving an entry up settles it.
LEMMA TimelyWarns ==
    ASSUME Invariant, Invariant', Timely, NEW r \in Runs, Working(r), run[r].step # "idle", Warn(r),
           UNCHANGED <<now, exist, holds, started>>
    PROVE  Timely'
<1>1. since' = [since EXCEPT ![<<run[r].fs, run[r].index>>] =
                    IF r = "timer" THEN now ELSE since[<<run[r].fs, run[r].index>>]]
  BY DEF Warn
<1>2. /\ since \in [Entries -> 0 .. now] /\ <<run[r].fs, run[r].index>> \in Entries
      /\ since' = [since EXCEPT ![<<run[r].fs, run[r].index>>] = now] \/ UNCHANGED since
  BY <1>1 DEF Invariant, TypeOK, Working
<1>3. \A e \in Entries : since'[e] >= since[e]
  BY <1>2, SinceGrows
<1>4. CASE r # "timer"
  <2>1. run'["timer"] = run["timer"]
    <3>1. "timer" \in Runs \ {r} /\ Proceed(r) /\ TypeOK
      BY <1>4, Constants DEF Warn, Invariant
    <3> QED BY <3>1, ProceedEffect
  <2> QED BY <1>3, <2>1, TimelyBeside
<1>5. CASE r = "timer"
  <2> DEFINE at == <<run["timer"].fs, run["timer"].index>>
  <2>1. at \in Entries /\ since'[at] = now
    BY <1>1, <1>2, <1>5
  <2>2. since'[at] >= started - Interval(at)
    BY <2>1, TimeTypes
  <2> HIDE DEF at
  <2> QED BY <1>3, <1>5, <2>2, TimelyProceeds DEF Warn, at
<1> QED BY <1>4, <1>5

\* A run leaves an entry alone only if it has a young snapshot.
LEMMA TimelyDecides ==
    ASSUME AgesApart, Invariant, Invariant', Timely, NEW r \in Runs, ListHolds(r) PROVE Timely'
<1>1. run[r].step = "holds" /\ UNCHANGED <<now, exist, holds, started>>
  BY DEF ListHolds
<1>2. /\ Working(r) /\ run \in [Runs -> Run] /\ run[r] \in Run /\ exist \subseteq Snapshots
      /\ <<run[r].fs, run[r].index>> \in Entries
  BY <1>1 DEF Invariant, Sound, Working, TypeOK
<1>3. CASE ~(run[r].listing \subseteq exist)
  BY <1>1, <1>2, <1>3, TimelyWarns DEF ListHolds
<1>4. CASE run[r].listing \subseteq exist /\ ~expired(Entry(r), run[r].listing)
  <2>1. Proceed(r) /\ UNCHANGED since
    BY <1>4 DEF ListHolds
  <2>2. \A e \in Entries : since'[e] >= since[e]
    BY <2>1, SinceGrows
  <2>3. CASE r # "timer"
    <3>1. run'["timer"] = run["timer"]
      <4>1. "timer" \in Runs \ {r} /\ TypeOK
        BY <2>3, Constants DEF Invariant
      <4> QED BY <1>2, <2>1, <4>1, ProceedEffect
    <3> QED BY <1>1, <2>2, <3>1, TimelyBeside
  <2>4. CASE r = "timer"
    <3> DEFINE at == <<run["timer"].fs, run["timer"].index>>
               f == run["timer"].fs
               i == run["timer"].index
    <3>1. PICK s \in run[r].listing :
             Begins(Entry(r).prefix, s.prefix) /\ ~(Printed(s.created) <= now - Entry(r).interval)
      BY <1>4 DEF expired
    <3>2. /\ s \in exist /\ s \in Snapshots /\ s.fs \in Below[f] /\ s.created \in Nat
          /\ f \in DOMAIN Config /\ i \in DOMAIN Config[f] /\ Entry(r) = Config[f][i]
      BY <1>1, <1>2, <1>4, <2>4, EntryIs DEF Working, Entry, Snapshots
    <3>3. PICK j \in DOMAIN Config[s.fs] : s.prefix = Config[s.fs][j].prefix
      BY <3>2 DEF Invariant, TypeOK
    <3>4. s.fs = f /\ j = i
      BY <3>1, <3>2, <3>3 DEF AgesApart
    <3>5. s.created <= since[at]
      BY <3>2, <3>3, <3>4 DEF Timely
    <3>6. Printed(s.created) \in Nat /\ Printed(s.created) <= s.created
      BY <3>2, PrintedBounds
    <3>7. /\ now \in Nat /\ started \in Nat /\ started <= now /\ since[at] \in Nat
          /\ Interval(at) \in Nat
      BY <1>2, <2>4, TimeTypes
    <3>8. Entry(r).interval = Interval(at)
      BY <3>2 DEF Interval
    <3>9. since'[at] >= started - Interval(at)
      <4> HIDE DEF at
      <4> QED BY <2>1, <3>1, <3>2, <3>5, <3>6, <3>7, <3>8
    <3> HIDE DEF at
    <3> QED BY <1>1, <1>2, <2>1, <2>2, <2>4, <3>9, TimelyProceeds DEF at
  <2> QED BY <2>3, <2>4
<1>5. CASE run[r].listing \subseteq exist /\ expired(Entry(r), run[r].listing)
  <2> DEFINE n == nextSnap(run[r].fs, Entry(r), run[r].listing)
  <2>1. /\ UNCHANGED since
        /\ run' = [run EXCEPT ![r].number = n, ![r].step = "create", ![r].listing = {}]
    BY <1>5 DEF ListHolds
  <2> HIDE DEF n
  <2>2. \A q \in Runs : /\ run'[q].step # "idle" <=> run[q].step # "idle"
                        /\ run'[q].step # "hold" <=> run[q].step # "hold"
                        /\ run'[q].began = run[q].began /\ run'[q].left = run[q].left
                        /\ run'[q].fs = run[q].fs /\ run'[q].index = run[q].index
    <3> TAKE q \in Runs
    <3>1. run[q] \in Run
      BY <1>2
    <3>2. run'[q] = run[q] \/ run'[q] = [run[q] EXCEPT !.number = n, !.step = "create", !.listing = {}]
      BY <1>2, <2>1
    <3>3. CASE q = r
      BY <1>1, <1>2, <2>1, <3>3 DEF Run
    <3>4. CASE q # r
      BY <1>2, <2>1, <3>4
    <3> QED BY <3>3, <3>4
  <2>3. \A e \in Ahead("timer") : e \in Ahead("timer")'
    BY <2>2, AheadIs, Constants DEF Ahead
  <2>4. run'["timer"].step # "idle" => run'["timer"].began = started
    BY <2>2, Constants DEF Timely
  <2>5. \A e \in Entries : since'[e] >= since[e]
    BY <2>1, SinceGrows
  <2> QED BY <1>1, <2>3, <2>4, <2>5, TimelyKept
<1> QED
  BY <1>3, <1>4, <1>5

\* A run that creates a snapshot brings the entry up to date.
LEMMA TimelyCreates ==
    ASSUME AgesApart, Invariant, Invariant', Timely, NEW r \in Runs, CreateSnapshot(r) PROVE Timely'
<1> DEFINE new == [fs |-> run[r].fs, prefix |-> Entry(r).prefix, number |-> run[r].number,
                   created |-> now]
           at == <<run[r].fs, run[r].index>>
<1>1. /\ run[r].step = "create" /\ Working(r) /\ Seen(r) /\ run[r] \in Run
      /\ UNCHANGED <<now, started>>
      /\ Config[run[r].fs][run[r].index] = Entry(r)
  BY CreateEffect
<1>2. /\ run \in [Runs -> Run] /\ exist \subseteq Snapshots /\ since \in [Entries -> 0 .. now]
      /\ at \in Entries /\ run[r].fs \in DOMAIN Config /\ run[r].index \in DOMAIN Config[run[r].fs]
  BY <1>1, EntryIs DEF Invariant, TypeOK, Working
<1>3. CASE Proceed(r) /\ UNCHANGED <<exist, holds, since>> /\ \E s \in Own(r) : s.number = run[r].number
  <2>1. \A e \in Entries : since'[e] >= since[e]
    BY <1>3, SinceGrows
  <2>2. CASE r # "timer"
    <3>1. "timer" \in Runs \ {r} /\ TypeOK
      BY <2>2, Constants DEF Invariant
    <3>2. run'["timer"] = run["timer"]
      BY <1>1, <1>3, <3>1, ProceedEffect
    <3> QED BY <1>1, <1>3, <2>1, <3>2, TimelyBeside
  <2>3. CASE r = "timer"
    <3>1. PICK s \in Own(r) : s.number = run[r].number
      BY <1>3
    <3>2. s.created >= run[r].began /\ run[r].began = started
      BY <1>1, <2>3, <3>1 DEF Seen, Timely
    <3>3. s.created <= since[at] /\ s.created \in Nat
      <4>1. s \in exist /\ s \in Snapshots /\ s.fs = run[r].fs /\ s.prefix = Entry(r).prefix
        BY <1>2 DEF Own
      <4>2. run[r].index \in DOMAIN Config[s.fs] /\ s.prefix = Config[s.fs][run[r].index].prefix
        BY <1>1, <1>2, <4>1
      <4> QED BY <4>1, <4>2 DEF Timely, Snapshots
    <3>4. since'[at] >= started - Interval(at)
      <4>1. started \in Nat /\ since[at] \in Nat /\ Interval(at) \in Nat
        BY <1>2, TimeTypes
      <4> HIDE DEF at
      <4> QED BY <1>3, <3>2, <3>3, <4>1
    <3> HIDE DEF at
    <3> QED BY <1>1, <1>3, <2>1, <2>3, <3>4, TimelyProceeds DEF at
  <2> QED BY <2>2, <2>3
<1>4. ASSUME exist' = exist \cup {new}, since' = [since EXCEPT ![at] = now],
             IF Entry(r).hold = <<>>
             THEN Proceed(r)
             ELSE run' = [run EXCEPT ![r].step = "hold", ![r].tags = Entry(r).hold]
      PROVE  Timely'
  <2>1. \A e \in Entries : since'[e] >= since[e]
    BY <1>4, SinceGrows
  <2>2. since'[at] = now
    BY <1>2, <1>4
  <2>3. ASSUME NEW s \in exist', s \notin exist,
               NEW i \in DOMAIN Config[s.fs], s.prefix = Config[s.fs][i].prefix
        PROVE  s.created <= since'[<<s.fs, i>>]
    <3>1. s.fs = run[r].fs /\ s.prefix = Entry(r).prefix /\ s.created = now
      BY <1>4, <2>3
    <3>2. Begins(Config[s.fs][i].prefix, Config[s.fs][run[r].index].prefix)
      BY <1>1, <1>2, <2>3, <3>1, EntryIs, Reflexive
    <3>3. s.fs \in Below[s.fs]
      BY <1>2, <3>1, Constants
    <3>4. i = run[r].index
      BY <1>2, <3>1, <3>2, <3>3 DEF AgesApart
    <3> QED BY <2>2, <3>1, <3>4, TimeTypes, <1>2
  <2>4. CASE r # "timer"
    <3>1. "timer" \in Runs \ {r} /\ TypeOK
      BY <2>4, Constants DEF Invariant
    <3>2. run'["timer"] = run["timer"]
      <4>1. CASE Entry(r).hold = <<>>
        BY <1>1, <1>4, <3>1, <4>1, ProceedEffect
      <4>2. CASE Entry(r).hold # <<>>
        <5> DEFINE h == Entry(r).hold
        <5>1. run' = [run EXCEPT ![r].step = "hold", ![r].tags = h]
          BY <1>4, <4>2
        <5> HIDE DEF h
        <5> QED BY <1>2, <3>1, <5>1
      <4> QED BY <4>1, <4>2
    <3> HIDE DEF at, new
    <3> QED BY <1>1, <2>1, <2>3, <3>2, TimelyBeside
  <2>5. CASE r = "timer"
    <3>1. since'[at] >= started - Interval(at)
      BY <1>2, <2>2, TimeTypes
    <3>2. CASE Entry(r).hold = <<>>
      <4> HIDE DEF at, new
      <4> QED BY <1>1, <1>4, <2>1, <2>3, <2>5, <3>1, <3>2, TimelyProceeds DEF at
    <3>3. CASE Entry(r).hold # <<>>
      <4> DEFINE h == Entry(r).hold
      <4>1. run' = [run EXCEPT ![r].step = "hold", ![r].tags = h]
        BY <1>4, <3>3
      <4> HIDE DEF h
      <4>2. /\ run'[r].step = "hold" /\ run'[r].fs = run[r].fs
            /\ run'[r].index = run[r].index /\ run'[r].left = run[r].left
            /\ run'[r].began = run[r].began
        <5>1. run'[r] = [run[r] EXCEPT !.step = "hold", !.tags = h]
          BY <1>2, <4>1
        <5> QED BY <1>1, <5>1 DEF Run
      <4>3. \A e \in Ahead("timer") : e = at \/ e \in Ahead("timer")'
        <5> TAKE e \in Ahead("timer")
        <5>1. /\ e \in Entries /\ e = <<e[1], e[2]>>
              /\ \/ e[1] \in run[r].left
                 \/ e[1] = run[r].fs /\ e[2] > run[r].index
                 \/ e[1] = run[r].fs /\ e[2] = run[r].index
          BY <2>5, AheadIs, EntryIs
        <5> QED BY <2>5, <4>2, <5>1 DEF Ahead
      <4>4. run'["timer"].step # "idle" => run'["timer"].began = started
        BY <1>1, <2>5, <4>2 DEF Timely
      <4> HIDE DEF at, new
      <4> QED BY <1>1, <2>1, <2>3, <3>1, <4>3, <4>4, TimelyKept
    <3> QED BY <3>2, <3>3
  <2> QED BY <2>4, <2>5
<1> QED
  <2> HIDE DEF at, new
  <2> QED BY <1>3, <1>4, CreateEffect DEF at, new

\* A hold comes after the snapshot that made the entry current.
LEMMA TimelyHolds ==
    ASSUME Invariant, Invariant', Timely, NEW r \in Runs, HoldSnapshot(r) PROVE Timely'
<1>1. run[r].step = "hold" /\ UNCHANGED <<now, exist, started, since>>
  BY DEF HoldSnapshot
<1>2. Working(r) /\ run \in [Runs -> Run] /\ run[r] \in Run /\ TypeOK
  BY <1>1 DEF Invariant, Sound, TypeOK
<1>3. \A e \in Entries : since'[e] >= since[e]
  BY <1>1, SinceGrows
<1>4. CASE r # "timer"
  <2>1. "timer" \in Runs \ {r}
    BY <1>4, Constants
  <2>2. run'["timer"] = run["timer"]
    <3>1. CASE Len(run[r].tags) = 1
      <4>1. Proceed(r)
        BY <3>1 DEF HoldSnapshot
      <4> QED BY <1>2, <2>1, <4>1, ProceedEffect
    <3>2. CASE Len(run[r].tags) # 1
      <4> DEFINE tail == Tail(run[r].tags)
      <4>1. run' = [run EXCEPT ![r].tags = tail]
        BY <3>2 DEF HoldSnapshot
      <4> HIDE DEF tail
      <4> QED BY <1>2, <2>1, <4>1
    <3> QED BY <3>1, <3>2
  <2> QED BY <1>1, <1>3, <2>2, TimelyBeside
<1>5. CASE r = "timer" /\ Len(run[r].tags) = 1
  <2> DEFINE at == <<run["timer"].fs, run["timer"].index>>
  <2>1. at \notin Ahead("timer")
    <3>1. run[r].index \in Nat
      BY <1>2 DEF Run
    <3> QED BY <1>1, <1>2, <1>5, <3>1, AheadIs DEF Working
  <2>2. Proceed("timer")
    BY <1>5 DEF HoldSnapshot
  <2> HIDE DEF at
  <2> QED BY <1>1, <1>2, <1>3, <1>5, <2>1, <2>2, TimelyProceeds DEF at
<1>6. CASE r = "timer" /\ Len(run[r].tags) # 1
  <2> DEFINE tail == Tail(run[r].tags)
  <2>1. run' = [run EXCEPT ![r].tags = tail]
    BY <1>6 DEF HoldSnapshot
  <2> HIDE DEF tail
  <2>2. /\ run'[r].step = "hold" /\ run'[r].fs = run[r].fs
        /\ run'[r].index = run[r].index /\ run'[r].left = run[r].left
        /\ run'[r].began = run[r].began
    <3>1. run'[r] = [run[r] EXCEPT !.tags = tail]
      BY <1>2, <2>1
    <3> QED BY <1>1, <1>2, <3>1 DEF Run
  <2>3. Ahead("timer")' = Ahead("timer")
    BY <1>1, <1>6, <2>2 DEF Ahead
  <2>4. run'["timer"].step # "idle" => run'["timer"].began = started
    BY <1>1, <1>6, <2>2 DEF Timely
  <2> QED BY <1>1, <1>3, <2>3, <2>4, TimelyKept
<1> QED BY <1>4, <1>5, <1>6

\* Every step keeps the entries that were passed, or are ahead, in time.
LEMMA TimelyStep ==
    ASSUME AgesApart, Invariant, Invariant', Timely, [Next]_vars PROVE Timely'
<1>1. CASE UNCHANGED vars
  BY <1>1 DEF vars, Timely, Ahead
<1>2. CASE Destroy
  <2>1. UNCHANGED <<now, run, started, since>> /\ exist' \subseteq exist
    BY <1>2 DEF Destroy
  <2>2. \A e \in Entries : since'[e] >= since[e]
    BY <2>1, SinceGrows
  <2> QED BY <2>1, <2>2, TimelyBeside
<1>3. CASE Tick
  <2>1. UNCHANGED <<exist, run, started, since>> /\ now' = now + 1 /\ now - started < Period
    BY <1>3 DEF Tick
  <2>2. now' - started' <= Period
    BY <2>1, Constants DEF Invariant, TypeOK
  <2>3. Ahead("timer")' = Ahead("timer")
    BY <2>1 DEF Ahead
  <2> QED BY <2>1, <2>2, <2>3 DEF Timely
<1>4. ASSUME NEW r \in Runs, Crash(r) PROVE Timely'
  <2>1. /\ UNCHANGED <<now, exist, started>> /\ run' = [run EXCEPT ![r] = Idle]
        /\ since' = [e \in Entries |-> IF r = "timer" THEN now ELSE since[e]]
        /\ run \in [Runs -> Run]
    BY <1>4 DEF Crash, Invariant, TypeOK
  <2>2. \A e \in Entries : since'[e] >= since[e]
    BY <2>1, TimeTypes
  <2>3. CASE r # "timer"
    BY <2>1, <2>2, <2>3, TimelyBeside
  <2>4. CASE r = "timer"
    <3>1. run'["timer"].step = "idle"
      BY <2>1, <2>4 DEF Idle
    <3>2. \A e \in Entries : since'[e] >= started - Interval(e)
      <4> TAKE e \in Entries
      <4>1. since'[e] = now
        BY <2>1, <2>4
      <4> QED BY <4>1, TimeTypes
    <3>3. \A e \in Ahead("timer") : e \in Entries
      BY AheadIs
    <3> QED BY <2>1, <2>2, <3>1, <3>2, <3>3, TimelyKept
  <2> QED BY <2>3, <2>4
<1>5. ASSUME NEW r \in Runs, ListSnapshots(r) PROVE Timely'
  <2> DEFINE listed == {s \in exist : s.fs \in Below[run[r].fs]}
  <2>1. /\ UNCHANGED <<now, exist, holds, started, since>> /\ run[r].step = "list"
        /\ run' = [run EXCEPT ![r].listing = listed, ![r].step = "holds"]
        /\ run \in [Runs -> Run] /\ run[r] \in Run
    BY <1>5 DEF ListSnapshots, Invariant, TypeOK
  <2> HIDE DEF listed
  <2>2. /\ run'[r].step = "holds" /\ run'[r].fs = run[r].fs
        /\ run'[r].index = run[r].index /\ run'[r].left = run[r].left
        /\ run'[r].began = run[r].began
    <3>1. run'[r] = [run[r] EXCEPT !.listing = listed, !.step = "holds"]
      BY <2>1
    <3> QED BY <2>1, <3>1 DEF Run
  <2>3. \A e \in Entries : since'[e] >= since[e]
    BY <2>1, SinceGrows
  <2>4. CASE r # "timer"
    <3>1. run'["timer"] = run["timer"]
      BY <2>1, <2>4, Constants
    <3> QED BY <2>1, <2>3, <3>1, TimelyBeside
  <2>5. CASE r = "timer"
    <3>1. Ahead("timer")' = Ahead("timer")
      BY <2>1, <2>2, <2>5 DEF Ahead
    <3>2. run'["timer"].step # "idle" => run'["timer"].began = started
      BY <2>1, <2>2, <2>5 DEF Timely
    <3> QED BY <2>1, <2>3, <3>1, <3>2, TimelyKept
  <2> QED BY <2>4, <2>5
<1>6. ASSUME NEW r \in Runs, CommandFails(r) PROVE Timely'
  BY <1>6, TimelyWarns DEF CommandFails, Invariant, Sound
<1> QED
  BY <1>1, <1>2, <1>3, <1>4, <1>5, <1>6, TimelyStart, TimelyDecides, TimelyCreates, TimelyHolds
     DEF Next

\* At the start every entry is current.
LEMMA InitTimely == Init => Timely
<1> SUFFICES ASSUME Init PROVE Timely
  OBVIOUS
<1>1. Invariant /\ Ahead("timer") = {} /\ run["timer"] = Idle
  BY InitInvariant, Constants DEF Init, Ahead, Idle
<1>2. now - started <= Period /\ exist = {}
  BY Constants DEF Init
<1>3. \A e \in Entries : since[e] >= started - Interval(e) - 0
  BY <1>1, TimeTypes DEF Init
<1> QED BY <1>1, <1>2, <1>3 DEF Timely, Interval, Idle

\* Each file system has its interval: if no snapshot of one entry counts for
\* another, an entry that no run has given up is never older than its interval,
\* a period of the timer and a run, whatever fails, dies or is pruned.
THEOREM EntriesCurrent == ASSUME AgesApart PROVE Spec => []Current
<1>1. Init => Timely
  BY InitTimely
<1>2. Invariant /\ Timely => Current
  <2> SUFFICES ASSUME Invariant, Timely, NEW e \in Entries
               PROVE  now - since[e] <= Interval(e) + Period + Stall
    BY DEF Current, Interval
  <2>1. since[e] >= started - Interval(e) - (IF e \in Ahead("timer") THEN Period ELSE 0)
    BY DEF Timely, Interval
  <2>2. CASE e \in Ahead("timer")
    <3>1. run["timer"].step # "idle"
      BY <2>2, AheadIs
    <3>2. now - started <= Stall
      BY <3>1, Constants DEF Timely, Invariant, Sound, Working
    <3> QED BY <2>1, <2>2, <3>2, TimeTypes, Constants
  <2>3. CASE e \notin Ahead("timer")
    BY <2>1, <2>3, TimeTypes, Constants DEF Timely
  <2> QED BY <2>2, <2>3
<1>3. Invariant /\ Timely /\ [Next]_vars => Timely'
  BY Step, TimelyStep
<1> QED
  BY <1>1, <1>2, <1>3, Invariance, PTL DEF Spec
-----------------------------------------------------------------------------
(* Snapshots keep their distance.                                          *)

Deciding(r) == run[r].step \in {"holds", "create"}

\* Where a run that decides is, and the types of what it compares.
LEMMA DecidingTypes ==
    ASSUME Invariant, NEW r \in Runs, Deciding(r)
    PROVE  /\ Working(r) /\ Seen(r) /\ run[r] \in Run
           /\ run[r].fs \in DOMAIN Config /\ run[r].index \in DOMAIN Config[run[r].fs]
           /\ <<run[r].fs, run[r].index>> \in Entries
           /\ Entry(r) = Config[run[r].fs][run[r].index]
           /\ Entry(r).prefix \in Seq(STRING) /\ Entry(r).interval \in Nat
           /\ Entry(r).interval > Stall + Minute - 1
           /\ run[r].began \in Nat /\ now \in Nat /\ now - run[r].began <= Stall
           /\ run[r].began <= now
           /\ \A s \in Own(r) : /\ s \in exist /\ s \in Snapshots
                                /\ s.number \in Nat /\ s.created \in Nat
<1>1. Working(r) /\ Seen(r) /\ run[r] \in Run
  BY DEF Deciding, Invariant, Sound, TypeOK
<1>2. <<run[r].fs, run[r].index>> \in Entries /\ now - run[r].began <= Stall
  BY <1>1 DEF Working
<1>3. run[r].fs \in DOMAIN Config /\ run[r].index \in DOMAIN Config[run[r].fs]
  BY <1>2, EntryIs
<1>4. /\ Entry(r) = Config[run[r].fs][run[r].index]
      /\ Entry(r).prefix \in Seq(STRING) /\ Entry(r).interval \in Nat
      /\ Entry(r).interval > Stall + Minute - 1
  BY <1>3, EntryIs DEF Entry
<1>6. run[r].began \in Nat /\ now \in Nat /\ run[r].began <= now
  BY <1>1, Constants DEF Run, Invariant, TypeOK
<1>7. \A s \in Own(r) : s \in exist /\ s \in Snapshots /\ s.number \in Nat /\ s.created \in Nat
  BY <1>6 DEF Own, Invariant, TypeOK, Snapshots
<1> QED
  BY <1>1, <1>2, <1>3, <1>4, <1>6, <1>7

\* Nothing is created for its entry, and time may pass: a run that does not move
\* agrees.
LEMMA AgreedKept ==
    ASSUME Invariant, NEW q \in Runs, Deciding(q), Agreed(q),
           run'[q] = run[q], Own(q)' = Own(q), now' \in Nat, now' >= now
    PROVE  Agreed(q)'
<1>1. Own(q)' = Own(q) /\ Chosen(q)' = Chosen(q) /\ Entry(q)' = Entry(q)
  BY DEF Entry, Chosen, nextSnap, Numbers
<1>2. \A s \in Own(q) : s.created \in Nat
  BY DecidingTypes
<1>3. now \in Nat /\ Entry(q).interval \in Nat /\ Minute \in Nat
  BY DecidingTypes, Constants
<1>4. ASSUME NEW s \in Own(q), now - s.created >= Entry(q).interval - (Minute - 1)
      PROVE  now' - s.created >= Entry(q).interval - (Minute - 1)
  BY <1>2, <1>3, <1>4
<1> QED BY <1>1, <1>4 DEF Agreed

\* What is listed decides the number.
LEMMA OrderlyList ==
    ASSUME NumbersApart, Invariant, Orderly, NEW r \in Runs, ListSnapshots(r) PROVE Agreed(r)'
<1> DEFINE listed == {s \in exist : s.fs \in Below[run[r].fs]}
           n == nextSnap(run[r].fs, Entry(r), listed)
<1>1. /\ UNCHANGED <<now, exist, holds, started, since>> /\ run[r].step = "list"
      /\ run' = [run EXCEPT ![r].listing = listed, ![r].step = "holds"]
  BY DEF ListSnapshots
<1>2. /\ Working(r) /\ run \in [Runs -> Run] /\ run[r] \in Run /\ exist \subseteq Snapshots
      /\ IsFiniteSet(exist)
  BY <1>1 DEF Invariant, Sound, TypeOK
<1>3. /\ run'[r].step = "holds" /\ run'[r].listing = listed /\ run'[r].fs = run[r].fs
      /\ run'[r].index = run[r].index /\ run'[r].began = run[r].began
  <2>1. run'[r] = [run[r] EXCEPT !.listing = listed, !.step = "holds"]
    BY <1>1, <1>2
  <2> QED BY <1>2, <2>1 DEF Run
<1>4. Own(r)' = Own(r) /\ Entry(r)' = Entry(r) /\ Chosen(r)' = n
  BY <1>1, <1>3 DEF Own, Entry, Chosen
<1>5. /\ run[r].fs \in DOMAIN Config /\ run[r].index \in DOMAIN Config[run[r].fs]
      /\ Entry(r) = Config[run[r].fs][run[r].index] /\ Entry(r).prefix \in Seq(STRING)
      /\ run[r].fs \in Below[run[r].fs]
  BY <1>2, EntryIs, Constants DEF Working, Entry
<1>6. /\ n \in Nat
      /\ \A k \in Numbers(run[r].fs, Entry(r), listed) : k \in Nat /\ k < n
      /\ n = 0 \/ n - 1 \in Numbers(run[r].fs, Entry(r), listed)
  <2>1. listed \in SUBSET Snapshots /\ IsFiniteSet(listed)
    BY <1>2, FS_Subset
  <2> HIDE DEF listed
  <2> QED BY <2>1, NextNumber DEF Invariant
<1>7. ASSUME NEW s \in Own(r) PROVE s \in listed /\ s.number < n
  <2>1. s \in listed /\ IsSuffix(Entry(r).prefix, s.prefix) /\ s.fs = run[r].fs
    BY <1>5, Reflexive DEF Own
  <2>2. s.number \in Numbers(run[r].fs, Entry(r), listed)
    BY <2>1 DEF Numbers
  <2> HIDE DEF n
  <2> QED BY <1>6, <2>1, <2>2
<1>8. ASSUME n # 0 PROVE \E s \in Own(r) : s.number >= n - 1
  <2>1. PICK s \in listed : /\ s.number = n - 1 /\ s.fs = run[r].fs
                            /\ IsSuffix(Entry(r).prefix, s.prefix)
    BY <1>6, <1>8 DEF Numbers
  <2>2. PICK j \in DOMAIN Config[s.fs] : s.prefix = Config[s.fs][j].prefix
    BY <2>1 DEF Invariant, TypeOK
  <2>3. j = run[r].index
    BY <1>5, <2>1, <2>2 DEF NumbersApart
  <2>4. s \in Own(r)
    BY <1>5, <2>1, <2>2, <2>3 DEF Own
  <2>5. s.number >= n - 1
    <3> HIDE DEF n
    <3> QED BY <1>6, <2>1
  <2> QED BY <2>4, <2>5
<1> HIDE DEF n, listed
<1> QED BY <1>1, <1>3, <1>4, <1>6, <1>7, <1>8 DEF Agreed

\* A run that goes on to the next entry has decided nothing.
LEMMA NothingDecided ==
    ASSUME TypeOK, NEW r \in Runs, Working(r), Proceed(r)
    PROVE  ~Deciding(r)' /\ \A q \in Runs \ {r} : run'[q] = run[q]
<1>1. /\ \A q \in Runs \ {r} : run'[q] = run[q]
      /\ run'[r] = Idle \/ run'[r].step = "list"
  BY ProceedEffect
<1>2. run'[r].step \in {"idle", "list"}
  BY <1>1 DEF Idle
<1> QED
  BY <1>1, <1>2 DEF Deciding

\* The entry that has expired has nothing too young to go before the next.
LEMMA OrderlyDecide ==
    ASSUME Invariant, Orderly, NEW r \in Runs, ListHolds(r), run'[r].step = "create"
    PROVE  Agreed(r)'
<1> DEFINE n == nextSnap(run[r].fs, Entry(r), run[r].listing)
<1>1. run[r].step = "holds" /\ UNCHANGED <<now, exist, holds, started>>
  BY DEF ListHolds
<1>2. Deciding(r) /\ Working(r) /\ run \in [Runs -> Run] /\ run[r] \in Run /\ TypeOK
  BY <1>1, DecidingTypes DEF Deciding, Invariant, TypeOK
<1>3. ~Proceed(r)
  BY <1>2, NothingDecided DEF Deciding
<1>4. /\ expired(Entry(r), run[r].listing)
      /\ run' = [run EXCEPT ![r].number = n, ![r].step = "create", ![r].listing = {}]
  BY <1>3 DEF ListHolds, Warn
<1>5. Agreed(r) /\ Chosen(r) = n
  BY <1>1, <1>2 DEF Orderly, Deciding, Chosen
<1> HIDE DEF n
<1>6. /\ run'[r].step = "create" /\ run'[r].number = n /\ run'[r].fs = run[r].fs
      /\ run'[r].index = run[r].index /\ run'[r].began = run[r].began
  <2>1. run'[r] = [run[r] EXCEPT !.number = n, !.step = "create", !.listing = {}]
    BY <1>2, <1>4
  <2> QED BY <1>2, <2>1 DEF Run
<1>7. Own(r)' = Own(r) /\ Entry(r)' = Entry(r) /\ Chosen(r)' = n
  BY <1>1, <1>6 DEF Own, Entry, Chosen
<1>8. ASSUME NEW s \in Own(r), s \in run[r].listing
      PROVE  now - s.created >= Entry(r).interval - (Minute - 1)
  <2>1. /\ Entry(r).prefix \in Seq(STRING) /\ s.created \in Nat /\ now \in Nat
        /\ Entry(r).interval \in Nat /\ Minute \in Nat
    BY <1>2, DecidingTypes, Constants
  <2>2. Begins(Entry(r).prefix, s.prefix)
    BY <2>1, Reflexive DEF Own
  <2>3. Printed(s.created) <= now - Entry(r).interval
    BY <1>4, <1>8, <2>2 DEF expired
  <2>4. Printed(s.created) \in Nat /\ s.created <= Printed(s.created) + (Minute - 1)
    BY <2>1, PrintedBounds
  <2> QED BY <2>1, <2>3, <2>4
<1> QED BY <1>1, <1>5, <1>6, <1>7, <1>8 DEF Agreed

\* A step that creates and destroys nothing keeps what the runs beside it agree on.
LEMMA OrderlyBeside ==
    ASSUME Invariant, Orderly, NEW r, exist' = exist, now' = now,
           \A q \in Runs \ {r} : run'[q] = run[q],
           r \in Runs /\ Deciding(r)' => Agreed(r)'
    PROVE  Orderly'
<1>1. Spaced'
  BY DEF Orderly, Spaced
<1>2. ASSUME NEW q \in Runs \ {r}, Deciding(q)' PROVE Agreed(q)'
  <2>1. Deciding(q) /\ Agreed(q) /\ run'[q] = run[q]
    BY <1>2 DEF Orderly, Deciding
  <2>2. Own(q)' = Own(q)
    BY <2>1 DEF Own, Entry
  <2>3. now \in Nat
    BY Constants DEF Invariant, TypeOK
  <2> QED BY <2>1, <2>2, <2>3, AgreedKept
<1> QED
  BY <1>1, <1>2 DEF Orderly, Deciding

\* A run that creates has the number every other run has chosen for its entry.
LEMMA SameNumber ==
    ASSUME Invariant, NEW r \in Runs, NEW q \in Runs, run[r].step = "create", Deciding(q),
           Agreed(r), Agreed(q), Own(q) = Own(r), \A s \in Own(r) : s.number # run[r].number
    PROVE  /\ Chosen(q) = run[r].number
           /\ \A s \in Own(r) : /\ s.number < run[r].number
                                /\ now - s.created >= Entry(r).interval - (Minute - 1)
<1> DEFINE m == run[r].number
           n == Chosen(q)
<1>1. Chosen(r) = m /\ Deciding(r)
  BY DEF Chosen, Deciding
<1>2. /\ m \in Nat /\ n \in Nat
      /\ m = 0 \/ \E s \in Own(r) : s.number >= m - 1
      /\ n = 0 \/ \E s \in Own(r) : s.number >= n - 1
      /\ \A s \in Own(r) : (s.number = n /\ s.created >= run[q].began) \/ s.number < n
  BY <1>1 DEF Agreed
<1>3. \A s \in Own(r) : s.number < m /\ now - s.created >= Entry(r).interval - (Minute - 1)
  BY <1>1 DEF Agreed
<1>4. /\ now \in Nat /\ run[q].began \in Nat /\ now - run[q].began <= Stall
      /\ Entry(r).interval \in Nat /\ Entry(r).interval > Stall + Minute - 1
      /\ Stall \in Nat /\ Minute \in Nat
  BY <1>1, DecidingTypes, Constants
<1>5. \A s \in Own(r) : s.number \in Nat /\ s.created \in Nat
  BY <1>1, DecidingTypes
<1> HIDE DEF m, n
<1>6. \A s \in Own(r) : s.number < n
  BY <1>2, <1>3, <1>4, <1>5
<1>7. m = 0 => n = 0
  BY <1>2, <1>3, <1>5
<1>8. m <= n
  BY <1>2, <1>5, <1>6
<1>9. n <= m
  BY <1>2, <1>3, <1>5
<1> QED
  BY <1>2, <1>3, <1>8, <1>9 DEF m, n

\* What is created is the next, and comes no sooner than its interval.
LEMMA OrderlyCreate ==
    ASSUME NumbersApart, Invariant, Orderly, NEW r \in Runs, CreateSnapshot(r) PROVE Orderly'
<1> DEFINE new == [fs |-> run[r].fs, prefix |-> Entry(r).prefix, number |-> run[r].number,
                   created |-> now]
<1>1. /\ run[r].step = "create" /\ Working(r) /\ run[r] \in Run /\ now' = now
      /\ \/ /\ Proceed(r) /\ UNCHANGED <<exist, holds, since>>
            /\ \E s \in Own(r) : s.number = run[r].number
         \/ /\ \A s \in Own(r) : s.number # run[r].number
            /\ exist' = exist \cup {new} /\ new \notin exist
            /\ IF Entry(r).hold = <<>>
               THEN Proceed(r)
               ELSE run' = [run EXCEPT ![r].step = "hold", ![r].tags = Entry(r).hold]
  BY CreateEffect
<1>2. TypeOK /\ run \in [Runs -> Run] /\ Deciding(r) /\ Agreed(r)
  BY <1>1 DEF Invariant, TypeOK, Deciding, Orderly
<1>3. ~Deciding(r)' /\ \A q \in Runs \ {r} : run'[q] = run[q]
  <2>1. CASE Proceed(r)
    BY <1>1, <1>2, <2>1, NothingDecided
  <2>2. CASE run' = [run EXCEPT ![r].step = "hold", ![r].tags = Entry(r).hold]
    <3>1. run'[r] = [run[r] EXCEPT !.step = "hold", !.tags = Entry(r).hold]
      BY <1>2, <2>2
    <3>2. run'[r].step = "hold"
      BY <1>1, <3>1 DEF Run
    <3> QED BY <1>2, <2>2, <3>2 DEF Deciding
  <2> QED BY <1>1, <2>1, <2>2
<1>4. CASE exist' = exist
  BY <1>1, <1>3, <1>4, OrderlyBeside
<1>5. CASE exist' = exist \cup {new} /\ \A s \in Own(r) : s.number # run[r].number
  <2>1. /\ \A s \in Own(r) : /\ s.number < run[r].number
                             /\ now - s.created >= Entry(r).interval - (Minute - 1)
    BY <1>1, <1>2, <1>5, SameNumber
  <2>2. /\ run[r].fs \in DOMAIN Config /\ run[r].index \in DOMAIN Config[run[r].fs]
        /\ Entry(r) = Config[run[r].fs][run[r].index] /\ Entry(r).prefix \in Seq(STRING)
        /\ \A s \in Own(r) : s.number \in Nat
        /\ run[r].number \in Nat
    BY <1>1, <1>2, DecidingTypes DEF Run
  <2>3. ASSUME NEW e \in Entries, NEW s \in exist', NEW t \in exist',
               s.fs = e[1], t.fs = e[1], s.number < t.number,
               s.prefix = Config[e[1]][e[2]].prefix, t.prefix = Config[e[1]][e[2]].prefix
        PROVE  t.created - s.created >= Config[e[1]][e[2]].interval - (Minute - 1)
    <3>1. e[1] \in DOMAIN Config /\ e[2] \in DOMAIN Config[e[1]]
      BY EntryIs
    <3>2. CASE s \in exist /\ t \in exist
      BY <2>3, <3>2 DEF Orderly, Spaced
    <3>3. CASE s = new
      <4>1. t # new
        BY <2>2, <2>3, <3>3
      <4>2. t \in Own(r)
        BY <1>5, <2>3, <3>3, <4>1 DEF Own
      <4>3. t.number < run[r].number /\ run[r].number < t.number
        BY <2>1, <2>3, <3>3, <4>2
      <4> QED BY <2>2, <4>2, <4>3
    <3>4. CASE t = new /\ s \in exist
      <4>1. s \in Own(r)
        BY <2>3, <3>4 DEF Own
      <4>2. e[1] = run[r].fs /\ Config[e[1]][e[2]].prefix = Entry(r).prefix
        BY <2>3, <3>4
      <4>3. e[2] = run[r].index
        <5>1. IsSuffix(Config[e[1]][e[2]].prefix, Config[e[1]][run[r].index].prefix)
          BY <2>2, <4>2, Reflexive
        <5> QED BY <2>2, <3>1, <4>2, <5>1 DEF NumbersApart
      <4>4. t.created = now
        BY <3>4
      <4> QED BY <2>1, <2>2, <4>1, <4>2, <4>3, <4>4
    <3> QED BY <1>5, <3>2, <3>3, <3>4
  <2>4. ASSUME NEW q \in Runs, Deciding(q)' PROVE Agreed(q)'
    <3>1. q \in Runs \ {r} /\ run'[q] = run[q] /\ Deciding(q) /\ Agreed(q)
      BY <1>3, <2>4 DEF Deciding, Orderly
    <3>2. Entry(q)' = Entry(q) /\ Chosen(q)' = Chosen(q)
      BY <3>1 DEF Entry, Chosen, nextSnap, Numbers
    <3>3. CASE ~(run[q].fs = run[r].fs /\ Entry(q).prefix = Entry(r).prefix)
      <4>1. Own(q)' = Own(q)
        BY <1>5, <3>1, <3>2, <3>3 DEF Own
      <4>2. now \in Nat
        BY <1>2, Constants DEF TypeOK
      <4> QED BY <1>1, <3>1, <4>1, <4>2, AgreedKept
    <3>4. CASE run[q].fs = run[r].fs /\ Entry(q).prefix = Entry(r).prefix
      <4>1. Own(q) = Own(r) /\ Own(q)' = Own(q) \cup {new}
        BY <1>5, <3>1, <3>2, <3>4 DEF Own
      <4>2. Chosen(q) = run[r].number
        BY <1>1, <1>2, <1>5, <3>1, <4>1, SameNumber
      <4>3. new.number = Chosen(q) /\ new.created = now /\ now >= run[q].began
        BY <3>1, <4>2, DecidingTypes
      <4> HIDE DEF new
      <4>4. /\ Chosen(q) \in Nat
            /\ Chosen(q) = 0 \/ \E s \in Own(q) : s.number >= Chosen(q) - 1
            /\ \A s \in Own(q) :
                  \/ s.number = Chosen(q) /\ s.created >= run[q].began
                  \/ /\ s.number < Chosen(q)
                     /\ run[q].step = "holds" => s \in run[q].listing
                     /\ run[q].step = "create" =>
                           now - s.created >= Entry(q).interval - (Minute - 1)
        BY <3>1 DEF Agreed
      <4> QED BY <1>1, <3>1, <3>2, <4>1, <4>3, <4>4 DEF Agreed
    <3> QED BY <3>3, <3>4
  <2>5. Spaced'
    BY <2>3 DEF Spaced
  <2> QED BY <2>4, <2>5 DEF Orderly, Deciding
<1> QED
  BY <1>1, <1>4, <1>5

\* Pruning leaves the newest snapshot of an entry, and so what the next one follows.
LEMMA OrderlyDestroy ==
    ASSUME "newest" \notin Faults, Invariant, Orderly, Destroy PROVE Orderly'
<1>1. PICK s \in exist :
         /\ \E t \in exist : t.fs = s.fs /\ t.prefix = s.prefix /\ t.created > s.created
         /\ exist' = exist \ {s}
  BY DEF Destroy
<1>2. PICK t \in exist : t.fs = s.fs /\ t.prefix = s.prefix /\ t.created > s.created
  BY <1>1
<1>3. now' = now /\ run' = run /\ now \in Nat
  BY Constants DEF Destroy, Invariant, TypeOK
<1>4. /\ s.number \in Nat /\ t.number \in Nat /\ s.created \in Nat /\ t.created \in Nat
      /\ s.fs \in DOMAIN Config
  BY <1>3 DEF Invariant, TypeOK, Snapshots
<1>5. PICK i \in DOMAIN Config[s.fs] : s.prefix = Config[s.fs][i].prefix
  BY DEF Invariant, TypeOK
<1>6. t.number > s.number
  <2>1. t.number # s.number
    BY <1>2, <1>4 DEF Invariant
  <2>2. ASSUME t.number < s.number PROVE FALSE
    <3>1. <<s.fs, i>> \in Entries /\ Config[s.fs][i].interval > Stall + Minute - 1
          /\ Config[s.fs][i].interval \in Nat /\ Stall \in Nat /\ Minute \in Nat
      BY <1>4, <1>5, EntryIs, Constants
    <3>2. s.created - t.created >= Config[s.fs][i].interval - (Minute - 1)
      BY <1>2, <1>5, <2>2, <3>1 DEF Orderly, Spaced
    <3> QED BY <1>2, <1>4, <3>1, <3>2
  <2> QED BY <1>4, <2>1, <2>2
<1>7. Spaced'
  BY <1>1 DEF Orderly, Spaced
<1>8. ASSUME NEW q \in Runs, Deciding(q)' PROVE Agreed(q)'
  <2>1. Deciding(q) /\ Agreed(q) /\ run'[q] = run[q]
    BY <1>3, <1>8 DEF Deciding, Orderly
  <2>2. Entry(q)' = Entry(q) /\ Chosen(q)' = Chosen(q)
    BY <2>1 DEF Entry, Chosen, nextSnap, Numbers
  <2>3. Own(q)' = Own(q) \ {s}
    BY <1>1, <2>1, <2>2 DEF Own
  <2>4. Chosen(q) = 0 \/ \E u \in Own(q)' : u.number >= Chosen(q) - 1
    <3>1. Chosen(q) \in Nat /\ (Chosen(q) = 0 \/ \E u \in Own(q) : u.number >= Chosen(q) - 1)
      BY <2>1 DEF Agreed
    <3>2. ASSUME s \in Own(q), s.number >= Chosen(q) - 1
          PROVE  t \in Own(q)' /\ t.number >= Chosen(q) - 1
      <4>1. t \in Own(q) /\ t # s
        BY <1>2, <1>4, <3>2 DEF Own
      <4> QED BY <1>4, <1>6, <2>3, <3>1, <3>2, <4>1
    <3> QED BY <2>3, <3>1, <3>2
  <2> QED BY <1>3, <2>1, <2>2, <2>3, <2>4 DEF Agreed
<1> QED
  BY <1>7, <1>8 DEF Orderly, Deciding

\* Each step keeps the entries' snapshots apart and the runs agreed.
LEMMA OrderlyStep ==
    ASSUME NumbersApart, "newest" \notin Faults, Invariant, Orderly, [Next]_vars PROVE Orderly'
<1>1. /\ TypeOK /\ run \in [Runs -> Run] /\ now \in Nat
      /\ \A r \in Runs : run[r].step # "idle" => Working(r)
  BY Constants DEF Invariant, TypeOK, Sound
<1>2. ASSUME run' = run, exist' = exist, now' \in Nat, now' >= now PROVE Orderly'
  <2>1. Spaced'
    BY <1>2 DEF Orderly, Spaced
  <2>2. ASSUME NEW q \in Runs, Deciding(q)' PROVE Agreed(q)'
    <3>1. Deciding(q) /\ Agreed(q) /\ Own(q)' = Own(q) /\ run'[q] = run[q]
      BY <1>2, <2>2 DEF Orderly, Deciding, Own, Entry
    <3> QED BY <1>2, <3>1, AgreedKept
  <2> QED BY <2>1, <2>2 DEF Orderly, Deciding
<1>3. ASSUME NEW r \in Runs, Start(r) PROVE Orderly'
  <2>1. Begin(r, DOMAIN Config, now) /\ exist' = exist /\ now' = now
    BY <1>3 DEF Start
  <2>2. /\ \A q \in Runs \ {r} : run'[q] = run[q]
        /\ run'[r] = Idle \/ run'[r].step = "list"
    <3>1. now \in 0 .. now /\ DOMAIN Config \in SUBSET DOMAIN Config
      BY <1>1
    <3> QED BY <1>1, <2>1, <3>1, BeginEffect
  <2>3. ~Deciding(r)'
    BY <2>2 DEF Deciding, Idle
  <2> QED BY <2>1, <2>2, <2>3, OrderlyBeside
<1>4. ASSUME NEW r \in Runs, ListSnapshots(r) PROVE Orderly'
  <2>1. Agreed(r)'
    BY <1>4, OrderlyList
  <2>2. \A q \in Runs \ {r} : run'[q] = run[q]
    BY <1>1, <1>4 DEF ListSnapshots
  <2> QED BY <1>4, <2>1, <2>2, OrderlyBeside DEF ListSnapshots
<1>5. ASSUME NEW r \in Runs, ListHolds(r) PROVE Orderly'
  <2>1. run[r].step = "holds" /\ exist' = exist /\ now' = now
    BY <1>5 DEF ListHolds
  <2>2. Working(r) /\ run[r] \in Run
    BY <1>1, <2>1
  <2>3. CASE Proceed(r)
    BY <1>1, <2>1, <2>2, <2>3, NothingDecided, OrderlyBeside
  <2>4. CASE run' = [run EXCEPT ![r].number = nextSnap(run[r].fs, Entry(r), run[r].listing),
                                ![r].step = "create", ![r].listing = {}]
    <3> DEFINE n == nextSnap(run[r].fs, Entry(r), run[r].listing)
    <3>1. run'[r] = [run[r] EXCEPT !.number = n, !.step = "create", !.listing = {}]
      BY <1>1, <2>4
    <3>2. \A q \in Runs \ {r} : run'[q] = run[q]
      BY <1>1, <2>4
    <3> HIDE DEF n
    <3>3. run'[r].step = "create"
      BY <2>2, <3>1 DEF Run
    <3>4. Agreed(r)'
      BY <1>5, <3>3, OrderlyDecide
    <3> QED BY <2>1, <3>2, <3>4, OrderlyBeside
  <2> QED BY <1>5, <2>3, <2>4 DEF ListHolds, Warn
<1>6. ASSUME NEW r \in Runs, CreateSnapshot(r) PROVE Orderly'
  BY <1>6, OrderlyCreate
<1>7. ASSUME NEW r \in Runs, HoldSnapshot(r) PROVE Orderly'
  <2>1. run[r].step = "hold" /\ exist' = exist /\ now' = now /\ Working(r) /\ run[r] \in Run
    BY <1>1, <1>7 DEF HoldSnapshot
  <2>2. CASE Proceed(r)
    BY <1>1, <2>1, <2>2, NothingDecided, OrderlyBeside
  <2>3. CASE run' = [run EXCEPT ![r].tags = Tail(@)]
    <3>1. run'[r] = [run[r] EXCEPT !.tags = Tail(run[r].tags)]
          /\ \A q \in Runs \ {r} : run'[q] = run[q]
      BY <1>1, <2>3
    <3>2. ~Deciding(r)'
      BY <2>1, <3>1 DEF Run, Deciding
    <3> QED BY <2>1, <3>1, <3>2, OrderlyBeside
  <2> QED BY <1>7, <2>2, <2>3 DEF HoldSnapshot
<1>8. ASSUME NEW r \in Runs, CommandFails(r) PROVE Orderly'
  <2>1. Proceed(r) /\ Working(r) /\ exist' = exist /\ now' = now
    BY <1>1, <1>8 DEF CommandFails, Warn
  <2> QED BY <1>1, <2>1, NothingDecided, OrderlyBeside
<1>9. ASSUME NEW r \in Runs, Crash(r) PROVE Orderly'
  <2>1. exist' = exist /\ now' = now /\ run'[r] = Idle /\ \A q \in Runs \ {r} : run'[q] = run[q]
    BY <1>1, <1>9 DEF Crash
  <2>2. ~Deciding(r)'
    BY <2>1 DEF Deciding, Idle
  <2> QED BY <2>1, <2>2, OrderlyBeside
<1>10. CASE Destroy
  BY <1>10, OrderlyDestroy
<1>11. CASE Tick
  BY <1>1, <1>2, <1>11 DEF Tick
<1>12. CASE UNCHANGED vars
  BY <1>1, <1>2, <1>12 DEF vars
<1> QED
  BY <1>3, <1>4, <1>5, <1>6, <1>7, <1>8, <1>9, <1>10, <1>11, <1>12 DEF Next

\* The snapshots of an entry are numbered in the order they were created, at its
\* interval, however the steps of two calls of snap interleave: while no entry
\* reads a number from another's snapshot, and none prunes the newest.
THEOREM SnapshotsSpaced ==
    ASSUME NumbersApart, "newest" \notin Faults PROVE Spec => []Spaced
<1>1. Init => Invariant /\ Orderly
  <2>1. Init => Orderly
    BY DEF Init, Orderly, Spaced, Idle
  <2> QED BY <2>1, InitInvariant
<1>2. Invariant /\ Orderly /\ [Next]_vars => (Invariant /\ Orderly)'
  BY Step, OrderlyStep
<1>3. Invariant /\ Orderly => Spaced
  BY DEF Orderly
<1> QED
  BY <1>1, <1>2, <1>3, PTL DEF Spec

\* What TLC checks of the small instance, all of it, for every configuration whose
\* entries are told apart.
THEOREM Inductively ==
    ASSUME AgesApart, NumbersApart, "newest" \notin Faults PROVE Spec => []Inductive
<1>1. Init => Inductive
  <2>1. Init => Orderly
    BY DEF Init, Orderly, Spaced, Idle
  <2> QED BY <2>1, InitInvariant, InitTimely DEF Inductive
<1>2. Inductive /\ [Next]_vars => Inductive'
  BY Step, OrderlyStep, TimelyStep DEF Inductive
<1> QED
  BY <1>1, <1>2, PTL DEF Spec
=============================================================================
