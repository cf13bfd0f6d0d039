-------------------------- MODULE ReplicationProofs -------------------------
(***************************************************************************)
(* What is proved about Replication for every number of snapshots, volumes *)
(* and destinations, all tags and every set of faults.                     *)
(***************************************************************************)
EXTENDS Replication, SetLemmas, SequenceTheorems, TLAPS

\* The constants as the proofs use them.
LEMMA Constants ==
    /\ MaxSnapshots \in Nat /\ MaxVolumes \in Nat
    /\ \A d \in Destinations : Release[d] \subseteq Tags
    /\ Cardinality(Destinations) \in Nat \ {0}
    /\ Destinations = 1 .. Cardinality(Destinations)
<1>1. Release \in Seq(SUBSET Tags) /\ Len(Release) \in Nat \ {0}
  BY ReplicationAssumption, EmptySeq, LenProperties
<1>2. Destinations = 1 .. Len(Release)
  BY <1>1, LenProperties DEF Destinations
<1>3. Cardinality(Destinations) = Len(Release)
  BY <1>1, <1>2, FS_Interval
<1>4. \A d \in Destinations : Release[d] \subseteq Tags
  BY <1>1, <1>2, ElementOfSeq
<1> QED
  BY <1>1, <1>2, <1>3, <1>4, ReplicationAssumption

-----------------------------------------------------------------------------
(* The invariant.                                                          *)

\* Empty buckets and no run.
LEMMA InitInvariant == Init => Invariant
<1> SUFFICES ASSUME Init PROVE Invariant
  OBVIOUS
<1> USE Constants DEF Init
<1>1. DOMAIN <<>> = {} /\ Cardinality({}) = 0
  BY FS_EmptySet
<1>2. \A d \in Destinations : volumes[d] = <<>> /\ contents[d] = <<>>
  OBVIOUS
<1>3. TypeOK
  BY <1>1 DEF TypeOK, NoPlan, Ids
<1>4. \A d \in Destinations : Numbered(d)
  BY <1>1, <1>2 DEF Numbered, Whole
<1> QED
  BY <1>3, <1>4 DEF Invariant, Counted

\* What leaves the buckets alone leaves their numbering alone.
LEMMA BucketKept ==
    ASSUME UNCHANGED bucket
    PROVE  /\ \A d \in Destinations : Whole(d)' = Whole(d) /\ (Numbered(d) => Numbered(d)')
           /\ \A d \in Destinations : \A a : Source(d, a)' = Source(d, a)
BY DEF bucket, Whole, Source, Numbered

\* Snapshots come and go beside the sender.
LEMMA OthersInvariant ==
    ASSUME Invariant, Snap \/ Destroy PROVE Invariant'
<1> USE Constants DEF Invariant
<1>0. Snap \/ Destroy
  OBVIOUS
<1>1. UNCHANGED <<bucket, sender, releasing>>
  BY DEF Snap, CreateSnapshot, HoldSnapshot, Destroy
<1>2. TypeOK'
  <2>1. /\ created' \in 0 .. MaxSnapshots /\ created' >= created
        /\ exist' \subseteq 1 .. created' /\ below' \subseteq 1 .. created'
        /\ holds' \in [Ids -> SUBSET Tags]
        /\ holding' \subseteq Ids \X Tags
    <3>1. CASE CreateSnapshot
      <4>1. created + 1 \in Ids /\ created \in Nat
        BY <3>1 DEF TypeOK, CreateSnapshot, Ids
      <4>2. PICK tags \in Hold : holding' = {created + 1} \X tags
        BY <3>1 DEF CreateSnapshot
      <4>3. tags \subseteq Tags
        BY ReplicationAssumption
      <4>4. holding' \subseteq Ids \X Tags
        BY <4>1, <4>2, <4>3
      <4>5. /\ created' = created + 1
            /\ exist \subseteq 1 .. created /\ exist' = exist \cup {created + 1}
            /\ below \subseteq 1 .. created /\ below' \subseteq below \cup {created + 1}
        BY <3>1 DEF TypeOK, CreateSnapshot
      <4>6. exist' \subseteq 1 .. created' /\ below' \subseteq 1 .. created'
        BY <4>1, <4>5
      <4> QED
        BY <3>1, <4>1, <4>4, <4>6 DEF TypeOK, CreateSnapshot, Ids
    <3>2. CASE HoldSnapshot
      <4>1. PICK h \in holding :
               /\ \/ holds' = [holds EXCEPT ![h[1]] = @ \cup {h[2]}]
                  \/ UNCHANGED holds
               /\ holding' = holding \ {h}
        BY <3>2 DEF HoldSnapshot
      <4>2. h[1] \in Ids /\ h[2] \in Tags
        BY DEF TypeOK
      <4>3. holds' \in [Ids -> SUBSET Tags]
        BY <4>1, <4>2 DEF TypeOK
      <4> QED
        BY <3>2, <4>1, <4>3 DEF TypeOK, HoldSnapshot
    <3>3. CASE Destroy
      BY <3>3 DEF TypeOK, Destroy
    <3> QED
      BY <1>0, <3>1, <3>2, <3>3 DEF Snap
  <2>2. 0 .. created \subseteq 0 .. created' /\ 1 .. created \subseteq 1 .. created'
    BY <2>1 DEF TypeOK
  <2>3. \A d \in Destinations :
           /\ volumes[d] \in [DOMAIN volumes[d] -> [source : 0 .. created', target : 1 .. created',
                                                   size : 1 .. MaxVolumes]]
           /\ contents[d] \in [DOMAIN contents[d] -> (SUBSET (1 .. created')) \ {{}}]
    BY <2>2 DEF TypeOK
  <2>4. plan \in [archive : Nat, source : 0 .. created', included : SUBSET (1 .. created'),
                  size : 0 .. MaxVolumes]
    BY <2>2 DEF TypeOK
  <2> QED
    BY <1>1, <2>1, <2>3, <2>4 DEF TypeOK, bucket, sender, Destinations, Ids
<1>3. Counted'
  BY <1>1 DEF Counted, sender
<1>4. Planned => Planned'
  BY <1>1 DEF Planned, Stored, Target, Whole, Source, bucket, sender
<1> QED
  BY <1>1, <1>2, <1>3, <1>4, BucketKept DEF sender

\* Going on to the next entry, or ending, forgets the plan.
LEMMA ProceedInvariant ==
    ASSUME Invariant, pc # "idle", Proceed, UNCHANGED <<snaps, bucket>> PROVE Invariant'
<1> USE Constants DEF Invariant
<1>1. /\ plan' = NoPlan /\ next' = 0
      /\ pc' \in {"idle", "refresh"}
      /\ entry' \in 0 .. Cardinality(Destinations)
      /\ pc' = "idle" <=> entry' = 0
      /\ releasing' \subseteq Ids \X Tags
  BY DEF Proceed, TypeOK, Counted
<1>2. TypeOK'
  BY <1>1 DEF TypeOK, NoPlan, snaps, bucket, Destinations, Ids
<1>3. Counted'
  BY <1>1 DEF Counted
<1> QED
  BY <1>1, <1>2, <1>3, BucketKept

\* A run that starts or dies leaves the buckets as they are and has sent
\* nothing.
LEMMA EndInvariant ==
    ASSUME Invariant, Start \/ Crash PROVE Invariant'
<1> USE Constants DEF Invariant
<1>1. /\ (plan' = plan /\ next' = next /\ next = 0) \/ (plan' = NoPlan /\ next' = 0)
      /\ pc' \in {"idle", "refresh"}
      /\ entry' \in 0 .. Cardinality(Destinations)
      /\ pc' = "idle" <=> entry' = 0
      /\ releasing' \subseteq Ids \X Tags
      /\ UNCHANGED <<snaps, bucket>>
  BY DEF Start, Crash, TypeOK, Counted
<1>2. TypeOK'
  <2>1. plan' = plan \/ plan' = NoPlan
    BY <1>1
  <2>2. next' \in Nat
    BY <1>1 DEF TypeOK
  <2> QED
    BY <1>1, <2>1, <2>2 DEF TypeOK, NoPlan, snaps, bucket, Destinations, Ids
<1>3. Counted'
  BY <1>1 DEF Counted
<1> QED
  BY <1>1, <1>2, <1>3, BucketKept

\* The archives of the catalogue are those that have contents, and one more if
\* its volumes have been begun.
LEMMA ArchivesOf ==
    ASSUME TypeOK, ~Nested, NEW d \in Destinations, Numbered(d)
    PROVE  /\ Archives(d) = 0 .. Whole(d) - 1 \/ Archives(d) = 0 .. Whole(d)
           /\ Archives(d) = 0 .. Whole(d) - 1 => \A k \in DOMAIN volumes[d] : k[1] # Whole(d)
           /\ Whole(d) \in Nat
<1>1. /\ Whole(d) \in Nat
      /\ \A k \in DOMAIN volumes[d] : k[1] \in 0 .. Whole(d)
      /\ \A a \in 0 .. Whole(d) - 1 : <<a, 0>> \in DOMAIN volumes[d]
  <2>1. DOMAIN volumes[d] \subseteq Nat \X Nat
    BY DEF TypeOK
  <2> QED BY <2>1 DEF Numbered
<1>2. Archives(d) = {k[1] : k \in DOMAIN volumes[d]}
  BY DEF Archives, Loaded
<1>3. /\ \A a \in Archives(d) : a \in 0 .. Whole(d)
      /\ \A a \in 0 .. Whole(d) - 1 : a \in Archives(d)
  <2>1. \A a \in Archives(d) : a \in 0 .. Whole(d)
    BY <1>1, <1>2
  <2>2. ASSUME NEW a \in 0 .. Whole(d) - 1 PROVE a \in Archives(d)
    <3>1. <<a, 0>> \in DOMAIN volumes[d] /\ <<a, 0>>[1] = a
      BY <1>1
    <3> QED BY <1>2, <3>1
  <2> QED BY <2>1, <2>2
<1>4. CASE \A k \in DOMAIN volumes[d] : k[1] # Whole(d)
  <2>1. Whole(d) \notin Archives(d)
    BY <1>2, <1>4
  <2>2. \A a : a \in Archives(d) <=> a \in 0 .. Whole(d) - 1
    BY <1>1, <1>3, <2>1
  <2> QED BY <1>1, <1>4, <2>2
<1>5. CASE \E k \in DOMAIN volumes[d] : k[1] = Whole(d)
  <2>1. Whole(d) \in Archives(d)
    BY <1>2, <1>5
  <2>2. \A a : a \in Archives(d) <=> a \in 0 .. Whole(d)
    BY <1>1, <1>3, <2>1
  <2>3. Archives(d) # 0 .. Whole(d) - 1
    BY <1>1, <2>1
  <2> QED BY <1>1, <2>2, <2>3
<1> QED
  BY <1>4, <1>5

\* The contents of an archive are snapshots there have been, at least one.
LEMMA ContentsType ==
    ASSUME TypeOK, NEW d \in Destinations, NEW a \in DOMAIN contents[d]
    PROVE  contents[d][a] \subseteq 1 .. created /\ contents[d][a] # {}
<1>1. contents[d] \in [DOMAIN contents[d] -> (SUBSET (1 .. created)) \ {{}}]
  BY DEF TypeOK
<1>2. contents[d][a] \in (SUBSET (1 .. created)) \ {{}}
  BY <1>1
<1> QED
  BY <1>2

\* What refresh decides on continues the last archive with contents, and there
\* is nothing after it.
LEMMA RefreshInvariant ==
    ASSUME Invariant, ~Nested, Refresh PROVE Invariant'
<1> USE Constants DEF Invariant
<1>0. pc = "refresh" /\ UNCHANGED <<snaps, bucket>> /\ next = 0
  BY DEF Refresh, Counted
<1>1. entry \in Destinations /\ entry \in Nat \ {0}
  BY <1>0 DEF Counted, TypeOK
<1> DEFINE W == Whole(entry)
<1>2. /\ W \in Nat /\ DOMAIN contents[entry] = 0 .. W - 1
      /\ Archives(entry) = 0 .. W - 1 \/ Archives(entry) = 0 .. W
      /\ Archives(entry) = 0 .. W - 1 => \A k \in DOMAIN volumes[entry] : k[1] # W
  BY <1>1, ArchivesOf DEF Numbered
<1> HIDE DEF W
<1>3. /\ Cardinality(0 .. W - 1) = W
      /\ Cardinality(0 .. W) = W + 1
  <2>1. 0 \in Int /\ W \in Int /\ W - 1 \in Int /\ W >= 0
    BY <1>2
  <2>2. Cardinality(0 .. W) = IF 0 > W THEN 0 ELSE W - 0 + 1
    BY <2>1, FS_Interval
  <2>3. Cardinality(0 .. W - 1) = IF 0 > W - 1 THEN 0 ELSE (W - 1) - 0 + 1
    BY <2>1, FS_Interval
  <2> QED BY <2>1, <2>2, <2>3
<1>4. CASE Archives(entry) # {} /\ Continue /\ UNCHANGED <<entry, next, releasing>>
  <2>1. Cardinality(Archives(entry)) - 1 \in 0 .. W - 1
    BY <1>2, <1>4 DEF Continue
  <2>2. Archives(entry) = 0 .. W - 1 /\ W > 0
    BY <1>2, <1>3, <2>1
  <2>3. /\ plan' = [NoPlan EXCEPT !.archive = W, !.source = Source(entry, W)]
        /\ pc' = "incremental"
    <3>1. Cardinality(Archives(entry)) - 1 = W - 1 /\ (W - 1) + 1 = W /\ W # 0
      BY <1>2, <1>3, <2>2
    <3>2. Source(entry, W) = Max(contents[entry][W - 1])
      BY <3>1 DEF Source
    <3> QED
      BY <1>4, <3>1, <3>2 DEF Continue
  <2>4. contents[entry][W - 1] \subseteq 1 .. created /\ contents[entry][W - 1] # {}
    <3>1. W - 1 \in DOMAIN contents[entry]
      BY <1>2, <2>2
    <3> QED
      BY <1>1, <3>1, ContentsType
  <2>5. Source(entry, W) \in 1 .. created
    <3>1. created \in Nat
      BY DEF TypeOK
    <3>2. Max(contents[entry][W - 1]) \in 1 .. created
      BY <2>4, <3>1, MaxExists
    <3> QED
      BY <1>2, <2>2, <3>2 DEF Source
  <2>6. TypeOK'
    <3>1. plan' \in [archive : Nat, source : 0 .. created, included : SUBSET (1 .. created),
                     size : 0 .. MaxVolumes]
      <4>1. plan' = [archive |-> W, source |-> Source(entry, W), included |-> {}, size |-> 0]
        BY <2>3 DEF NoPlan
      <4>2. W \in Nat /\ Source(entry, W) \in 0 .. created /\ 0 \in 0 .. MaxVolumes
        BY <1>2, <2>5, Constants DEF TypeOK
      <4>3. {} \in SUBSET (1 .. created)
        OBVIOUS
      <4> HIDE Constants
      <4> QED
        BY <4>1, <4>2, <4>3
    <3> QED
      BY <1>0, <1>4, <2>3, <3>1 DEF TypeOK, snaps, bucket, Destinations, Ids
  <2>7. Planned'
    BY <1>0, <1>1, <1>2, <1>4, <2>2, <2>3, BucketKept DEF Planned, NoPlan, bucket, W
  <2>8. Counted'
    BY <1>0, <1>4, <2>3 DEF Counted
  <2> QED
    BY <1>0, <2>6, <2>7, <2>8, BucketKept
<1>5. CASE Archives(entry) = {} /\ Full /\ UNCHANGED <<entry, next, releasing>>
  <2>1. Archives(entry) = 0 .. W - 1 /\ W = 0
    BY <1>2, <1>5
  <2>2. /\ plan' = [NoPlan EXCEPT !.included = exist] /\ exist # {}
        /\ pc' = "send"
    BY <1>5 DEF Full
  <2>3. TypeOK'
    <3>1. plan' \in [archive : Nat, source : 0 .. created, included : SUBSET (1 .. created),
                     size : 0 .. MaxVolumes]
      BY <2>2 DEF TypeOK, NoPlan
    <3> QED
      BY <1>0, <1>5, <2>2, <3>1 DEF TypeOK, snaps, bucket, Destinations, Ids
  <2>4. Target' \in 1 .. created
    BY <1>0, <2>2, MaxExists DEF Target, TypeOK, NoPlan
  <2>5. Planned'
    BY <1>0, <1>1, <1>2, <1>5, <2>1, <2>2, <2>4, BucketKept DEF Planned, NoPlan, bucket, Source, W
  <2>6. Counted'
    BY <1>0, <1>5, <2>2 DEF Counted
  <2> QED
    BY <1>0, <2>3, <2>5, <2>6, BucketKept
<1>6. CASE Proceed
  BY <1>0, <1>6, ProceedInvariant
<1> QED
  BY <1>4, <1>5, <1>6 DEF Refresh

\* The entry, and the target, of a plan that includes snapshots.
LEMMA PlanTypes ==
    ASSUME Invariant, pc \notin {"idle", "refresh"}
    PROVE  /\ entry \in Destinations /\ Planned /\ Numbered(entry)
           /\ pc # "incremental" => Target \in plan.included /\ Target \in 1 .. created
<1>1. entry \in Destinations /\ Planned /\ Numbered(entry)
  BY Constants DEF Invariant, TypeOK, Counted
<1>2. plan.included \subseteq 1 .. created /\ created \in Nat
  BY DEF Invariant, TypeOK
<1>3. ASSUME pc # "incremental" PROVE Target \in plan.included /\ Target \in 1 .. created
  BY <1>1, <1>2, <1>3, MaxExists DEF Planned, Target
<1> QED
  BY <1>1, <1>3

\* Before anything of it is published nothing of the next archive is there.
LEMMA NothingBegun ==
    ASSUME Invariant, Planned, entry \in Destinations, next = 0
    PROVE  \A k \in DOMAIN volumes[entry] : k[1] # Whole(entry)
<1>1. DOMAIN volumes[entry] \subseteq Nat \X Nat
  BY DEF Invariant, TypeOK
<1>2. \A k \in DOMAIN volumes[entry] : k[2] \in Nat /\ ~(k[2] < 0)
  BY <1>1
<1> QED
  BY <1>2 DEF Planned

\* incremental includes the snapshots from the source on, if there is a newer one.
LEMMA IncrementalInvariant ==
    ASSUME Invariant, Incremental PROVE Invariant'
<1> USE DEF Invariant
<1>0. pc = "incremental" /\ UNCHANGED <<snaps, bucket>> /\ next = 0 /\ Planned
  BY DEF Incremental, Counted
<1>1. CASE Proceed
  BY <1>0, <1>1, ProceedInvariant
<1>2. CASE /\ plan.source \in exist /\ plan.source # Max(exist)
           /\ plan' = [plan EXCEPT !.included = {s \in exist : s >= plan.source}]
           /\ pc' = "send"
           /\ UNCHANGED <<entry, next, releasing>>
  <2>1. exist \subseteq 1 .. created /\ created \in Nat /\ plan.source \in 0 .. created
    BY DEF TypeOK
  <2>2. Max(exist) \in exist /\ Max(exist) > plan.source
    BY <1>2, <2>1, MaxExists
  <2>3. /\ plan'.included = {s \in exist : s >= plan.source}
        /\ plan'.source = plan.source /\ plan'.archive = plan.archive /\ plan'.size = plan.size
    BY <1>2 DEF TypeOK
  <2>4. plan'.included \subseteq 1 .. created /\ Max(exist) \in plan'.included
    <3>0. Max(exist) \in 1 .. created
      BY <2>1, <2>2
    <3>1. Max(exist) >= plan.source
      BY <2>1, <2>2, <3>0
    <3> QED BY <2>1, <2>2, <2>3, <3>1
  <2>5. Target' \in 1 .. created /\ Target' >= Max(exist)
    <3>1. /\ Max(plan'.included) \in plan'.included
          /\ \A s \in plan'.included : s <= Max(plan'.included)
      BY <2>1, <2>4, MaxExists
    <3> QED BY <2>4, <3>1 DEF Target
  <2>6. TypeOK'
    <3>1. plan' \in [archive : Nat, source : 0 .. created, included : SUBSET (1 .. created),
                     size : 0 .. MaxVolumes]
      BY <1>2, <2>1 DEF TypeOK
    <3> QED BY <1>0, <1>2, <3>1 DEF TypeOK, snaps, bucket, Destinations, Ids
  <2>7. Counted'
    BY <1>0, <1>2 DEF Counted
  <2>8. Planned'
    <3>1. plan'.source < Target' /\ plan'.included # {}
      BY <2>1, <2>2, <2>3, <2>4, <2>5
    <3> QED
      BY <1>0, <1>2, <2>3, <3>1, PlanTypes, NothingBegun DEF Planned, bucket, Whole, Source
  <2> QED
    BY <1>0, <1>2, <2>6, <2>7, <2>8, BucketKept
<1> QED
  BY <1>1, <1>2 DEF Incremental

\* Until the volumes are published the plan keeps, but for its size.
LEMMA StreamInvariant ==
    ASSUME Invariant, Send \/ StreamEnds \/ ReleaseSnapshot \/ ReadEOF PROVE Invariant'
<1> USE DEF Invariant
<1>1. CASE Send
  <2>0. pc = "send" /\ UNCHANGED <<snaps, bucket>> /\ next = 0 /\ Planned
    BY <1>1 DEF Send, Counted
  <2>1. CASE Proceed
    BY <2>0, <2>1, ProceedInvariant
  <2>2. CASE /\ \E n \in 1 .. MaxVolumes : plan' = [plan EXCEPT !.size = n]
             /\ pc' = "stream"
             /\ UNCHANGED <<entry, next, releasing>>
    <3>1. PICK n \in 1 .. MaxVolumes : plan' = [plan EXCEPT !.size = n]
      BY <2>2
    <3>2. /\ plan'.included = plan.included /\ plan'.source = plan.source
          /\ plan'.archive = plan.archive /\ plan'.size = n
      BY <3>1 DEF TypeOK
    <3>3. TypeOK'
      <4>1. plan' \in [archive : Nat, source : 0 .. created, included : SUBSET (1 .. created),
                       size : 0 .. MaxVolumes]
        <5>1. plan \in [archive : Nat, source : 0 .. created, included : SUBSET (1 .. created),
                        size : 0 .. MaxVolumes]
          BY DEF TypeOK
        <5>2. n \in 0 .. MaxVolumes
          BY <3>1, Constants
        <5> HIDE DEF Invariant
        <5> QED BY <3>1, <5>1, <5>2
      <4> QED BY <2>0, <2>2, <4>1 DEF TypeOK, snaps, bucket, Destinations, Ids
    <3>4. Counted'
      BY <2>0, <2>2 DEF Counted
    <3>5. Planned'
      BY <2>0, <2>2, <3>2, PlanTypes, NothingBegun DEF Planned, bucket, Whole, Source, Target
    <3> QED
      BY <2>0, <2>2, <3>3, <3>4, <3>5, BucketKept
  <2> QED
    BY <1>1, <2>1, <2>2 DEF Send
<1>2. CASE StreamEnds
  <2>0. /\ pc = "stream" /\ pc' = "release" /\ next = 0 /\ Planned
        /\ UNCHANGED <<snaps, bucket, entry, plan, next>>
    BY <1>2 DEF StreamEnds, Counted
  <2>1. releasing' \subseteq Ids \X Tags
    <3>1. entry \in Destinations
      BY <2>0, PlanTypes
    <3>2. plan.included \subseteq Ids /\ Release[entry] \subseteq Tags
      BY <3>1, Constants DEF TypeOK, Ids
    <3> QED
      BY <1>2, <3>2 DEF StreamEnds, TypeOK
  <2>2. TypeOK' /\ Counted'
    BY <2>0, <2>1 DEF TypeOK, Counted, snaps, bucket, Destinations, Ids
  <2>3. Planned'
    BY <2>0 DEF Planned, bucket, Whole, Source, Target, Stored
  <2> QED
    BY <2>0, <2>2, <2>3, BucketKept
<1>3. CASE ReleaseSnapshot
  <2>1. UNCHANGED <<created, below, exist, holding, bucket, sender>>
    BY <1>3 DEF ReleaseSnapshot
  <2>2. PICK h \in releasing : /\ \/ holds' = [holds EXCEPT ![h[1]] = @ \ {h[2]}]
                                  \/ UNCHANGED holds
                               /\ releasing' = releasing \ {h}
    BY <1>3 DEF ReleaseSnapshot
  <2>3. holds' \in [Ids -> SUBSET Tags]
    BY <2>2 DEF TypeOK
  <2>4. TypeOK' /\ Counted'
    BY <2>1, <2>2, <2>3 DEF TypeOK, Counted, sender, bucket, Destinations, Ids
  <2>5. Planned => Planned'
    BY <2>1 DEF Planned, bucket, sender, Whole, Source, Target, Stored
  <2> QED
    BY <2>1, <2>4, <2>5, BucketKept DEF sender
<1>4. CASE ReadEOF
  <2>0. /\ pc = "release" /\ pc' = "complete" /\ next = 0 /\ Planned
        /\ UNCHANGED <<snaps, bucket, entry, plan, next, releasing>>
    BY <1>4 DEF ReadEOF, Counted
  <2>1. TypeOK' /\ Counted'
    BY <2>0 DEF TypeOK, Counted, Planned, snaps, bucket, Destinations, Ids
  <2>2. Planned'
    BY <2>0 DEF Planned, bucket, Whole, Source, Target, Stored
  <2> QED
    BY <2>0, <2>1, <2>2, BucketKept
<1> QED
  BY <1>1, <1>2, <1>3, <1>4

-----------------------------------------------------------------------------
(* Publishing.                                                             *)

\* A volume that is published is a new object, and disturbs no other.
LEMMA PublishEffect ==
    ASSUME Invariant, Publish
    PROVE  LET key == <<Whole(entry), next>>
           IN  /\ pc = "complete" /\ UNCHANGED <<snaps, contents, entry, plan, releasing>>
               /\ next' = next + 1 /\ next' <= plan.size
               /\ pc' = IF next' = plan.size THEN "contents" ELSE "complete"
               /\ key \notin DOMAIN volumes[entry]
               /\ DOMAIN volumes' = Destinations
               /\ \A d \in Destinations \ {entry} : volumes'[d] = volumes[d]
               /\ volumes'[entry] = [k \in DOMAIN volumes[entry] \cup {key} |->
                                        IF k = key THEN Stored ELSE volumes[entry][k]]
<1>1. pc = "complete" /\ UNCHANGED <<snaps, contents, entry, plan, releasing>> /\ next' = next + 1
  BY DEF Publish
<1>2. Planned /\ entry \in Destinations /\ plan.archive = Whole(entry)
  BY <1>1, PlanTypes DEF Planned
<1>3. next \in Nat /\ plan.size \in Nat /\ next < plan.size
  BY <1>1, Constants DEF Invariant, TypeOK, Counted
<1>4. <<Whole(entry), next>> \notin DOMAIN volumes[entry]
  <2> SUFFICES ASSUME <<Whole(entry), next>> \in DOMAIN volumes[entry] PROVE FALSE
    OBVIOUS
  <2>1. <<Whole(entry), next>>[2] < next
    BY <1>2 DEF Planned
  <2> QED
    BY <1>3, <2>1
<1>5. volumes' = [volumes EXCEPT ![entry] = Put(volumes[entry], <<Whole(entry), next>>, Stored)]
  BY <1>2 DEF Publish, Stored
<1>6. /\ DOMAIN volumes' = Destinations
      /\ \A d \in Destinations \ {entry} : volumes'[d] = volumes[d]
      /\ volumes'[entry] = Put(volumes[entry], <<Whole(entry), next>>, Stored)
  BY <1>2, <1>5 DEF Invariant, TypeOK
<1>7. /\ next' <= plan.size
      /\ pc' = IF next' = plan.size THEN "contents" ELSE "complete"
  BY <1>1, <1>3 DEF Publish
<1> QED
  BY <1>1, <1>4, <1>6, <1>7 DEF Put

\* A volume that becomes visible is the next of the archive being sent.
LEMMA PublishInvariant ==
    ASSUME Invariant, Publish PROVE Invariant'
<1> USE DEF Invariant
<1> DEFINE W == Whole(entry)
           key == <<W, next>>
           old == DOMAIN volumes[entry]
<1>1. /\ pc = "complete" /\ UNCHANGED <<snaps, contents, entry, plan, releasing>>
      /\ next' = next + 1 /\ next' <= plan.size
      /\ pc' = IF next' = plan.size THEN "contents" ELSE "complete"
      /\ key \notin old
      /\ DOMAIN volumes' = Destinations
      /\ \A d \in Destinations \ {entry} : volumes'[d] = volumes[d]
      /\ volumes'[entry] = [k \in old \cup {key} |-> IF k = key THEN Stored ELSE volumes[entry][k]]
  BY PublishEffect
<1>2. /\ entry \in Destinations /\ Planned /\ Numbered(entry)
      /\ Target \in 1 .. created
  BY <1>1, PlanTypes
<1>3. /\ W \in Nat /\ next \in Nat /\ plan.size \in 1 .. MaxVolumes /\ next < plan.size
      /\ old \subseteq Nat \X Nat /\ MaxVolumes \in Nat
  BY <1>1, <1>2, Constants DEF Numbered, Planned, TypeOK, Counted
<1>4. Stored \in [source : 0 .. created, target : 1 .. created, size : 1 .. MaxVolumes]
  BY <1>2, <1>3 DEF Stored, TypeOK
<1>5. \A d \in Destinations : \A a : Whole(d)' = Whole(d) /\ Source(d, a)' = Source(d, a)
  BY <1>1 DEF Whole, Source
<1>6. TypeOK'
  <2>1. \A d \in Destinations :
           /\ DOMAIN volumes'[d] \subseteq Nat \X Nat
           /\ volumes'[d] \in [DOMAIN volumes'[d] -> [source : 0 .. created, target : 1 .. created,
                                                     size : 1 .. MaxVolumes]]
    <3> TAKE d \in Destinations
    <3>1. CASE d = entry
      <4>1. DOMAIN volumes'[entry] = old \cup {key}
        BY <1>1
      <4>2. key \in Nat \X Nat
        BY <1>3
      <4>3. \A k \in old \cup {key} : volumes'[entry][k] \in
              [source : 0 .. created, target : 1 .. created, size : 1 .. MaxVolumes]
        BY <1>1, <1>2, <1>4 DEF TypeOK
      <4> QED BY <1>1, <1>3, <3>1, <4>1, <4>2, <4>3
    <3>2. CASE d # entry
      BY <1>1, <3>2 DEF TypeOK
    <3> QED BY <3>1, <3>2
  <2>2. next' \in 0 .. MaxVolumes
    BY <1>1, <1>3
  <2> QED
    BY <1>1, <2>1, <2>2 DEF TypeOK, snaps, Destinations, Ids
<1>7. Counted'
  BY <1>1, <1>2, <1>3 DEF Counted, TypeOK
<1>8. \A k \in old : volumes'[entry][k] = volumes[entry][k]
  BY <1>1
<1>9. volumes'[entry][key] = Stored /\ DOMAIN volumes'[entry] = old \cup {key}
  BY <1>1
<1>10. \A j \in 0 .. next - 1 : <<W, j>> \in old /\ volumes[entry][<<W, j>>] = Stored
  BY <1>2 DEF Planned
<1>11. \A d \in Destinations : Numbered(d)'
  <2> TAKE d \in Destinations
  <2>1. CASE d # entry
    BY <1>1, <1>5, <2>1 DEF Numbered
  <2>2. CASE d = entry
    <3>1. Whole(d)' \in Nat /\ DOMAIN contents'[d] = 0 .. Whole(d)' - 1
      BY <1>1, <1>2, <1>5, <2>2 DEF Numbered
    <3>2. ASSUME NEW k \in old \cup {key}
          PROVE  /\ k[1] <= W /\ k[2] < volumes'[entry][k].size
                 /\ \A j \in 0 .. k[2] : /\ <<k[1], j>> \in old \cup {key}
                                        /\ volumes'[entry][<<k[1], j>>] = volumes'[entry][k]
      <4>1. CASE k \in old
        BY <1>2, <1>8, <4>1 DEF Numbered
      <4>2. CASE k = key
        <5>1. k[1] = W /\ k[2] = next /\ Stored.size = plan.size
          BY <4>2 DEF Stored
        <5>2. \A j \in 0 .. next : <<W, j>> \in old \cup {key} /\ volumes'[entry][<<W, j>>] = Stored
          <6> TAKE j \in 0 .. next
          <6>1. CASE j = next
            BY <1>9, <6>1
          <6>2. CASE j # next
            <7>1. j \in 0 .. next - 1
              BY <1>3, <6>2
            <7> QED BY <1>8, <1>10, <7>1
          <6> QED BY <6>1, <6>2
        <5> QED BY <1>3, <1>9, <4>2, <5>1, <5>2
      <4> QED BY <4>1, <4>2
    <3>3. ASSUME NEW a \in DOMAIN contents[entry]
          PROVE  /\ <<a, 0>> \in old
                 /\ volumes'[entry][<<a, 0>>] = volumes[entry][<<a, 0>>]
      BY <1>2, <1>8 DEF Numbered
    <3>4. \A a \in DOMAIN contents'[d] :
             /\ <<a, 0>> \in DOMAIN volumes'[d]
             /\ volumes'[d][<<a, 0>>].source = Source(d, a)'
             /\ volumes'[d][<<a, 0>>].target = Max(contents'[d][a])
             /\ \A j \in 0 .. volumes'[d][<<a, 0>>].size - 1 : <<a, j>> \in DOMAIN volumes'[d]
      <4> TAKE a \in DOMAIN contents'[d]
      <4>1. a \in DOMAIN contents[entry] /\ contents'[d][a] = contents[entry][a]
        BY <1>1, <2>2
      <4>2. /\ <<a, 0>> \in old /\ volumes'[d][<<a, 0>>] = volumes[entry][<<a, 0>>]
            /\ DOMAIN volumes'[d] = old \cup {key}
        BY <1>9, <2>2, <3>3, <4>1
      <4>3. /\ volumes[entry][<<a, 0>>].source = Source(entry, a)
            /\ volumes[entry][<<a, 0>>].target = Max(contents[entry][a])
            /\ \A j \in 0 .. volumes[entry][<<a, 0>>].size - 1 : <<a, j>> \in old
        BY <1>2, <4>1 DEF Numbered
      <4>4. Source(d, a)' = Source(entry, a)
        BY <1>2, <1>5, <2>2
      <4> HIDE DEF W, key, old
      <4> QED BY <4>1, <4>2, <4>3, <4>4
    <3>5. \A k \in DOMAIN volumes'[d] :
             /\ k[1] <= Whole(d)' /\ k[2] < volumes'[d][k].size
             /\ \A j \in 0 .. k[2] : /\ <<k[1], j>> \in DOMAIN volumes'[d]
                                    /\ volumes'[d][<<k[1], j>>] = volumes'[d][k]
      BY <1>2, <1>5, <1>9, <2>2, <3>2
    <3> HIDE DEF W, key, old
    <3> QED
      BY <3>1, <3>4, <3>5 DEF Numbered
  <2> QED BY <2>1, <2>2
<1>12. Planned'
  <2>1. ASSUME NEW k \in old \cup {key}, k[1] = W
        PROVE  k[2] < next' /\ volumes'[entry][k] = Stored
    <3>1. CASE k \in old
      <4>1. k[2] < next /\ volumes[entry][k] = Stored /\ k[2] \in Nat
        BY <1>2, <1>3, <2>1, <3>1 DEF Planned
      <4> QED BY <1>1, <1>3, <1>8, <3>1, <4>1
    <3>2. CASE k = key
      BY <1>1, <1>3, <1>9, <3>2
    <3> QED BY <3>1, <3>2
  <2>2. ASSUME NEW j \in 0 .. next' - 1 PROVE <<W, j>> \in old \cup {key}
    <3>1. j \in 0 .. next - 1 \/ j = next
      BY <1>1, <1>3
    <3> QED BY <1>10, <3>1
  <2>3. Stored' = Stored /\ Target' = Target
    BY <1>1 DEF Stored, Target
  <2> QED
    BY <1>1, <1>2, <1>3, <1>5, <1>9, <2>1, <2>2, <2>3 DEF Planned
<1> QED
  BY <1>6, <1>7, <1>11, <1>12

\* Contents are written once, for the archive whose volumes are all there.
LEMMA ContentsEffect ==
    ASSUME Invariant, PutContents
    PROVE  LET W == Whole(entry)
           IN  /\ pc = "contents" /\ Proceed /\ UNCHANGED <<snaps, volumes>>
               /\ W \notin DOMAIN contents[entry]
               /\ DOMAIN contents' = Destinations
               /\ \A d \in Destinations \ {entry} : contents'[d] = contents[d]
               /\ DOMAIN contents'[entry] = 0 .. W
               /\ \A a \in 0 .. W - 1 : contents'[entry][a] = contents[entry][a]
               /\ contents'[entry][W] = plan.included
               /\ contents'[entry] \in [0 .. W -> (SUBSET (1 .. created)) \ {{}}]
               /\ Cardinality(DOMAIN contents'[entry]) = W + 1
<1> DEFINE W == Whole(entry)
<1>1. pc = "contents" /\ Proceed /\ UNCHANGED <<snaps, volumes>>
  BY DEF PutContents
<1>2. Planned /\ Numbered(entry) /\ entry \in Destinations
  BY <1>1, PlanTypes
<1>3. W \in Nat /\ DOMAIN contents[entry] = 0 .. W - 1 /\ plan.archive = W
  BY <1>2 DEF Numbered, Planned
<1>4. W \notin DOMAIN contents[entry] /\ 0 .. W = (0 .. W - 1) \cup {W}
  BY <1>3
<1>5. contents' = [contents EXCEPT ![entry] = Put(contents[entry], W, plan.included)]
  BY <1>3 DEF PutContents
<1>6. /\ DOMAIN contents' = Destinations
      /\ \A d \in Destinations \ {entry} : contents'[d] = contents[d]
      /\ contents'[entry] = [a \in 0 .. W |-> IF a = W THEN plan.included ELSE contents[entry][a]]
  BY <1>2, <1>3, <1>4, <1>5 DEF Put, Invariant, TypeOK
<1>7. /\ \A a \in 0 .. W - 1 : contents'[entry][a] = contents[entry][a]
      /\ contents'[entry][W] = plan.included
  BY <1>3, <1>4, <1>6
<1>8. plan.included \in (SUBSET (1 .. created)) \ {{}}
  BY <1>1, <1>2 DEF Invariant, TypeOK, Planned
<1>9. \A a \in 0 .. W : contents'[entry][a] \in (SUBSET (1 .. created)) \ {{}}
  BY <1>2, <1>3, <1>4, <1>7, <1>8, ContentsType DEF Invariant
<1>10. Cardinality(0 .. W) = W + 1
  BY <1>3, FS_Interval
<1> QED
  BY <1>1, <1>4, <1>6, <1>7, <1>9, <1>10

\* Contents are written once the archive has all of its volumes.
LEMMA ContentsInvariant ==
    ASSUME Invariant, PutContents PROVE Invariant'
<1> USE DEF Invariant
<1> DEFINE W == Whole(entry)
<1>1. /\ pc = "contents" /\ Proceed /\ UNCHANGED <<snaps, volumes>>
      /\ DOMAIN contents' = Destinations
      /\ \A d \in Destinations \ {entry} : contents'[d] = contents[d]
      /\ DOMAIN contents'[entry] = 0 .. W
      /\ \A a \in 0 .. W - 1 : contents'[entry][a] = contents[entry][a]
      /\ contents'[entry][W] = plan.included
      /\ contents'[entry] \in [0 .. W -> (SUBSET (1 .. created)) \ {{}}]
      /\ Cardinality(DOMAIN contents'[entry]) = W + 1
  BY ContentsEffect
<1>2. Planned /\ Numbered(entry) /\ entry \in Destinations
  BY <1>1, PlanTypes
<1>3. /\ W \in Nat /\ DOMAIN contents[entry] = 0 .. W - 1
      /\ next = plan.size /\ next \in Nat /\ next > 0
  BY <1>1, <1>2, Constants DEF Numbered, Planned, Counted, TypeOK
<1>4. /\ plan' = NoPlan /\ next' = 0
      /\ pc' \in {"idle", "refresh"}
      /\ entry' \in 0 .. Cardinality(Destinations)
      /\ pc' = "idle" <=> entry' = 0
      /\ releasing' \subseteq Ids \X Tags
  BY <1>1, Constants DEF Proceed, TypeOK, Counted
<1>5. TypeOK'
  <2>1. \A d \in Destinations :
           contents'[d] \in [DOMAIN contents'[d] -> (SUBSET (1 .. created)) \ {{}}]
    BY <1>1 DEF TypeOK
  <2> QED
    BY <1>1, <1>4, <2>1, Constants DEF TypeOK, NoPlan, snaps, Destinations, Ids
<1>6. Counted'
  BY <1>4 DEF Counted
<1>7. ASSUME NEW d \in Destinations PROVE Numbered(d)'
  <2>1. CASE d # entry
    BY <1>1, <2>1 DEF Numbered, Whole, Source
  <2>2. CASE d = entry
    <3>1. Whole(d)' = W + 1 /\ Whole(d)' \in Nat /\ DOMAIN contents'[d] = 0 .. Whole(d)' - 1
      BY <1>1, <1>3, <2>2 DEF Whole
    <3>2. \A k \in DOMAIN volumes'[d] :
             /\ k[1] <= Whole(d)' /\ k[2] < volumes'[d][k].size
             /\ \A j \in 0 .. k[2] : /\ <<k[1], j>> \in DOMAIN volumes'[d]
                                    /\ volumes'[d][<<k[1], j>>] = volumes'[d][k]
      <4> TAKE k \in DOMAIN volumes'[d]
      <4>1. k \in DOMAIN volumes[d] /\ volumes'[d] = volumes[d] /\ k[1] \in Nat
        BY <1>1 DEF TypeOK
      <4>2. k[1] <= W
        BY <1>2, <2>2, <4>1 DEF Numbered
      <4>3. k[1] <= Whole(d)'
        BY <1>3, <3>1, <4>1, <4>2
      <4> QED
        BY <1>2, <2>2, <4>1, <4>3 DEF Numbered
    <3>3. ASSUME NEW a \in 0 .. W
          PROVE  /\ <<a, 0>> \in DOMAIN volumes[d]
                 /\ volumes[d][<<a, 0>>].source = Source(d, a)
                 /\ volumes[d][<<a, 0>>].target = Max(contents'[d][a])
                 /\ \A j \in 0 .. volumes[d][<<a, 0>>].size - 1 : <<a, j>> \in DOMAIN volumes[d]
      <4>1. CASE a = W
        <5>1. \A j \in 0 .. next - 1 : <<W, j>> \in DOMAIN volumes[entry]
          BY <1>2 DEF Planned
        <5>2. <<W, 0>> \in DOMAIN volumes[entry]
          BY <1>3, <5>1
        <5>3. volumes[entry][<<W, 0>>] = Stored
          BY <1>2, <5>2 DEF Planned
        <5>4. Stored.source = Source(entry, W) /\ Stored.target = Max(plan.included)
              /\ Stored.size = next
          BY <1>2, <1>3 DEF Planned, Stored, Target
        <5> QED BY <1>1, <2>2, <4>1, <5>1, <5>2, <5>3, <5>4
      <4>2. CASE a # W
        <5>1. a \in 0 .. W - 1
          BY <1>3, <4>2
        <5> QED BY <1>1, <1>2, <1>3, <2>2, <5>1 DEF Numbered
      <4> QED BY <4>1, <4>2
    <3>4. ASSUME NEW a \in 0 .. W PROVE Source(d, a)' = Source(d, a)
      <4>1. a # 0 => a - 1 \in 0 .. W - 1
        BY <1>3
      <4> QED BY <1>1, <2>2, <4>1 DEF Source
    <3> HIDE DEF W
    <3> QED
      BY <1>1, <2>2, <3>1, <3>2, <3>3, <3>4 DEF Numbered
  <2> QED BY <2>1, <2>2
<1> QED
  BY <1>4, <1>5, <1>6, <1>7

\* For a file system the catalogue recognises, whatever fails and wherever runs
\* die, the objects of every destination are a chain of archives, each of them
\* whole but for the one that is being sent or was being sent last.
THEOREM Invariance == ASSUME ~Nested PROVE Spec => []Invariant
<1>1. Init => Invariant
  BY InitInvariant
<1>2. Invariant /\ [Next]_vars => Invariant'
  <2> SUFFICES ASSUME Invariant, [Next]_vars PROVE Invariant'
    OBVIOUS
  <2>1. CASE Snap \/ Destroy
    BY <2>1, OthersInvariant
  <2>2. CASE Start \/ Crash
    BY <2>2, EndInvariant
  <2>3. CASE Refresh
    BY <2>3, RefreshInvariant
  <2>4. CASE Incremental
    BY <2>4, IncrementalInvariant
  <2>5. CASE Send \/ StreamEnds \/ ReleaseSnapshot \/ ReadEOF
    BY <2>5, StreamInvariant
  <2>6. CASE CallFails \/ PutContentsFails
    BY <2>6, ProceedInvariant DEF CallFails, PutContentsFails
  <2>7. CASE Publish
    BY <2>7, PublishInvariant
  <2>8. CASE PutContents
    BY <2>8, ContentsInvariant
  <2>9. CASE UNCHANGED vars
    BY <2>9 DEF vars, snaps, bucket, sender, Invariant, TypeOK, Counted, Numbered, Planned, Stored,
                Target, Whole, Source
  <2> QED
    BY <2>1, <2>2, <2>3, <2>4, <2>5, <2>6, <2>7, <2>8, <2>9 DEF Next, Sender
<1> QED
  BY <1>1, <1>2, PTL DEF Spec

-----------------------------------------------------------------------------
(* What follows from it.                                                   *)

\* Numbers that go down to 0 and are bounded are as many as there are.
LEMMA DownToZero ==
    ASSUME NEW n \in Nat, NEW S, S \subseteq 0 .. n,
           \A i \in S : \A j \in 0 .. i : j \in S
    PROVE  S = 0 .. Cardinality(S) - 1
<1>1. CASE S = {}
  <2>1. Cardinality(S) = 0
    BY <1>1, FS_EmptySet
  <2> QED BY <1>1, <2>1
<1>2. CASE S # {}
  <2> DEFINE T == {i + 1 : i \in S}
             m == Max(T)
  <2>1. T \subseteq 1 .. n + 1 /\ T # {}
    <3>1. \A i \in S : i \in 0 .. n
      OBVIOUS
    <3>2. \A i \in S : i + 1 \in 1 .. n + 1
      BY <3>1
    <3> QED BY <1>2, <3>2
  <2>2. m \in T /\ \A t \in T : t <= m
    <3>1. n + 1 \in Nat
      OBVIOUS
    <3> HIDE DEF T
    <3> QED BY <2>1, <3>1, MaxExists
  <2>3. PICK k \in S : m = k + 1
    BY <2>2
  <2>4. k \in 0 .. n
    OBVIOUS
  <2>5. \A i \in S : i \in 0 .. k
    <3> TAKE i \in S
    <3>1. i + 1 \in T /\ i \in 0 .. n
      OBVIOUS
    <3>2. i + 1 <= k + 1
      BY <2>2, <2>3, <3>1
    <3> HIDE DEF T, m
    <3> QED BY <2>4, <3>1, <3>2
  <2>6. S = 0 .. k
    BY <2>4, <2>5
  <2>7. Cardinality(0 .. k) = k + 1
    BY <2>4, FS_Interval
  <2> QED BY <2>4, <2>6, <2>7
<1> QED
  BY <1>1, <1>2

\* Archives are numbered without a gap, and so are the volumes of each.
LEMMA InvariantVerifies == ASSUME ~Nested, Invariant PROVE AlwaysVerifies
<1> USE DEF Invariant
<1> SUFFICES ASSUME NEW d \in Destinations PROVE Verified(d)
  BY DEF AlwaysVerifies
<1>1. Numbered(d) /\ Whole(d) \in Nat /\ DOMAIN volumes[d] \subseteq Nat \X Nat
  BY DEF Numbered, TypeOK
<1>2. Archives(d) = 0 .. Cardinality(Archives(d)) - 1
  <2>1. Archives(d) \subseteq 0 .. Whole(d) /\ \A i \in Archives(d) : \A j \in 0 .. i : j \in Archives(d)
    BY <1>1, ArchivesOf
  <2> QED BY <1>1, <2>1, DownToZero
<1>3. ASSUME NEW a \in Archives(d)
      PROVE  LET numbers == {k[2] : k \in {l \in Loaded(d) : l[1] = a}}
             IN  numbers = 0 .. Cardinality(numbers) - 1
  <2> DEFINE keys == {l \in Loaded(d) : l[1] = a}
             numbers == {k[2] : k \in keys}
  <2>1. keys = {l \in DOMAIN volumes[d] : l[1] = a}
    BY DEF Loaded
  <2>2. \A k \in keys : k \in Nat \X Nat /\ k = <<a, k[2]>> /\ <<a, k[2]>>[1] = a /\ <<a, k[2]>>[2] = k[2]
    BY <1>1, <2>1
  <2>3. ASSUME NEW k \in keys
        PROVE  /\ <<a, 0>> \in DOMAIN volumes[d] /\ volumes[d][k] = volumes[d][<<a, 0>>]
               /\ k[2] < volumes[d][k].size
               /\ \A j \in 0 .. k[2] : <<a, j>> \in keys
    <3>1. k \in DOMAIN volumes[d] /\ k[1] = a /\ k[2] \in Nat
      BY <2>1, <2>2
    <3>2. /\ k[2] < volumes[d][k].size
          /\ \A j \in 0 .. k[2] : /\ <<a, j>> \in DOMAIN volumes[d]
                                 /\ volumes[d][<<a, j>>] = volumes[d][k]
      BY <1>1, <3>1 DEF Numbered
    <3>3. \A j : <<a, j>>[1] = a
      OBVIOUS
    <3> QED BY <2>1, <3>1, <3>2, <3>3
  <2>4. \A i \in numbers : \A j \in 0 .. i : j \in numbers
    <3> TAKE i \in numbers
    <3> TAKE j \in 0 .. i
    <3>1. PICK k \in keys : i = k[2]
      OBVIOUS
    <3>2. <<a, j>> \in keys /\ <<a, j>>[2] = j
      BY <2>3, <3>1
    <3> QED BY <3>2
  <2>5. \E n \in Nat : numbers \subseteq 0 .. n
    <3>1. CASE <<a, 0>> \in DOMAIN volumes[d]
      <4>1. volumes[d][<<a, 0>>].size \in 1 .. MaxVolumes /\ MaxVolumes \in Nat
        BY <3>1, Constants DEF TypeOK
      <4>2. \A k \in keys : k[2] \in 0 .. volumes[d][<<a, 0>>].size
        <5> TAKE k \in keys
        <5>1. k[2] \in Nat /\ k[2] < volumes[d][<<a, 0>>].size
          BY <2>2, <2>3
        <5> QED BY <4>1, <5>1
      <4>3. numbers \subseteq 0 .. volumes[d][<<a, 0>>].size
        BY <4>2
      <4> QED BY <4>1, <4>3
    <3>2. CASE <<a, 0>> \notin DOMAIN volumes[d]
      <4>1. numbers = {}
        BY <2>3, <3>2
      <4> QED BY <4>1
    <3> QED BY <3>1, <3>2
  <2> HIDE DEF numbers
  <2>6. numbers = 0 .. Cardinality(numbers) - 1
    BY <2>4, <2>5, DownToZero
  <2> QED BY <2>6 DEF numbers
<1> QED
  BY <1>2, <1>3 DEF Verified

\* Wherever a run fails or dies, the catalogue of the next one verifies; also
\* that of a file system whose keys are not recognised, since it is empty.
THEOREM Verifies == Spec => []AlwaysVerifies
<1>1. CASE ~Nested
  BY <1>1, Invariance, InvariantVerifies, PTL
<1>2. CASE Nested
  <2>1. AlwaysVerifies
    <3>1. \A d \in Destinations : Archives(d) = {}
      BY <1>2 DEF Archives, Loaded
    <3>2. Cardinality({}) = 0 /\ {} = 0 .. 0 - 1
      BY FS_EmptySet
    <3> QED BY <3>1, <3>2 DEF AlwaysVerifies, Verified
  <2> QED BY <2>1, PTL
<1> QED
  BY <1>1, <1>2

\* An archive that has contents can be received: all its volumes are there, of
\* one stream that ends with the last snapshot of the contents.
THEOREM ContentsRestorable == ASSUME ~Nested PROVE Spec => []Restorable
<1>1. Invariant => Restorable
  <2> SUFFICES ASSUME Invariant, NEW d \in Destinations, NEW a \in DOMAIN contents[d]
               PROVE  \E v \in {volumes[d][k] : k \in Volumes(d, a)} :
                         /\ v.target = Max(contents[d][a])
                         /\ Volumes(d, a) = {a} \X (0 .. v.size - 1)
                         /\ \A k \in Volumes(d, a) : volumes[d][k] = v
    BY DEF Restorable
  <2> DEFINE v == volumes[d][<<a, 0>>]
  <2>1. /\ DOMAIN volumes[d] \subseteq Nat \X Nat /\ Numbered(d)
        /\ <<a, 0>> \in DOMAIN volumes[d] /\ v.size \in Nat
    BY Constants DEF Invariant, TypeOK, Numbered
  <2>2. <<a, 0>> \in Volumes(d, a) /\ v.target = Max(contents[d][a])
    BY <2>1 DEF Numbered, Volumes
  <2>3. ASSUME NEW k \in Volumes(d, a)
        PROVE  k = <<a, k[2]>> /\ k[2] \in 0 .. v.size - 1 /\ volumes[d][k] = v
    <3>1. k \in DOMAIN volumes[d] /\ k[1] = a /\ k \in Nat \X Nat
      BY <2>1 DEF Volumes
    <3>2. k[2] \in Nat /\ k = <<a, k[2]>>
      BY <3>1
    <3>3. k[2] < volumes[d][k].size /\ volumes[d][<<a, 0>>] = volumes[d][k]
      BY <2>1, <3>1, <3>2 DEF Numbered
    <3> QED BY <2>1, <3>2, <3>3
  <2>4. ASSUME NEW j \in 0 .. v.size - 1 PROVE <<a, j>> \in Volumes(d, a)
    BY <2>1 DEF Numbered, Volumes
  <2>5. Volumes(d, a) = {a} \X (0 .. v.size - 1)
    <3>1. \A k \in Volumes(d, a) : k \in {a} \X (0 .. v.size - 1)
      BY <2>3
    <3>2. \A k \in {a} \X (0 .. v.size - 1) : k \in Volumes(d, a)
      BY <2>4
    <3> QED BY <3>1, <3>2
  <2> QED
    BY <2>2, <2>3, <2>5
<1> QED
  BY <1>1, Invariance, PTL

\* No object is ever written a second time.
THEOREM WrittenOnce == ASSUME ~Nested PROVE Spec => WriteOnce
<1> DEFINE Kept == \A d \in Destinations :
                      /\ \A k \in DOMAIN volumes[d] : volumes'[d][k] = volumes[d][k]
                      /\ \A a \in DOMAIN contents[d] : contents'[d][a] = contents[d][a]
<1>1. Invariant /\ [Next]_vars => [Kept]_bucket
  <2> SUFFICES ASSUME Invariant, [Next]_vars, ~UNCHANGED bucket PROVE Kept
    OBVIOUS
  <2>1. CASE Publish
    BY <2>1, PublishEffect DEF Invariant
  <2>2. CASE PutContents
    <3>1. entry \in Destinations /\ DOMAIN contents[entry] = 0 .. Whole(entry) - 1
      BY <2>2, PlanTypes DEF PutContents, Numbered
    <3>2. ASSUME NEW d \in Destinations, NEW a \in DOMAIN contents[d]
          PROVE  contents'[d][a] = contents[d][a]
      BY <2>2, <3>1, ContentsEffect
    <3> QED BY <2>2, <3>2, ContentsEffect
  <2> QED
    BY <2>1, <2>2 DEF Next, Sender, Snap, CreateSnapshot, HoldSnapshot, Destroy, Start, Refresh,
       Incremental, Send, StreamEnds, ReadEOF, CallFails, PutContentsFails, ReleaseSnapshot, Crash,
       vars
<1> QED
  BY <1>1, Invariance, PTL DEF Spec, WriteOnce

\* Only what is older than the newest snapshot is being released.
Older ==
    /\ created \in Nat /\ DOMAIN holds = Ids
    /\ \A h \in releasing : h[1] \in Nat /\ h[1] < created

\* No step takes a hold of the newest snapshot then.
LEMMA OlderKeepsHolds ==
    Older /\ [Next]_vars => [\A s \in Ids : s = created => holds[s] \subseteq holds'[s]]_holds
<1> SUFFICES ASSUME Older, [Next]_vars, ~UNCHANGED holds, NEW s \in Ids, s = created
             PROVE  holds[s] \subseteq holds'[s]
  OBVIOUS
<1>1. DOMAIN holds = Ids
  BY DEF Older
<1>2. CASE HoldSnapshot
  <2>1. PICK h \in holding : holds' = [holds EXCEPT ![h[1]] = @ \cup {h[2]}]
    BY <1>2 DEF HoldSnapshot
  <2> QED BY <1>1, <2>1
<1>3. CASE ReleaseSnapshot
  <2>1. PICK h \in releasing : holds' = [holds EXCEPT ![h[1]] = @ \ {h[2]}]
    BY <1>3 DEF ReleaseSnapshot
  <2>2. h[1] # s
    BY <2>1 DEF Older
  <2> QED BY <1>1, <2>1, <2>2
<1> QED
  BY <1>2, <1>3 DEF Next, Sender, Snap, CreateSnapshot, Destroy, Start, Refresh, Incremental, Send,
     StreamEnds, Publish, PutContents, ReadEOF, CallFails, PutContentsFails, Crash, vars, snaps

\* What every send releases whose catalogue is empty: it is always full.
Unknown ==
    /\ Older
    /\ exist \subseteq 1 .. created
    /\ plan \in [archive : {0}, source : {0}, included : SUBSET (1 .. created),
                 size : 0 .. MaxVolumes]
    /\ pc # "incremental"
    /\ pc \in {"send", "stream"} => plan.included # {}

\* The catalogue of a file system it does not recognise stays empty.
LEMMA UnknownStep == ASSUME Nested, Unknown, [Next]_vars PROVE Unknown'
<1> USE Constants
<1>1. /\ created \in Nat /\ DOMAIN holds = Ids /\ exist \subseteq 1 .. created
      /\ \A h \in releasing : h[1] \in Nat /\ h[1] < created
  BY DEF Unknown, Older
<1>2. \A d : Archives(d) = {}
  BY DEF Archives, Loaded
<1>3. NoPlan \in [archive : {0}, source : {0}, included : SUBSET (1 .. created), size : 0 .. MaxVolumes]
  BY DEF NoPlan
<1>4. CASE Proceed /\ UNCHANGED snaps
  <2>1. plan' = NoPlan /\ pc' \in {"idle", "refresh"} /\ releasing' \subseteq releasing
    BY <1>4 DEF Proceed
  <2> QED BY <1>1, <1>3, <1>4, <2>1 DEF Unknown, Older, snaps
<1>5. CASE UNCHANGED <<snaps, plan, releasing>> /\ pc' \notin {"send", "stream", "incremental"}
  BY <1>1, <1>5 DEF Unknown, Older, snaps
<1>6. CASE CreateSnapshot
  <2>1. /\ created' = created + 1 /\ exist' = exist \cup {created + 1}
        /\ UNCHANGED <<holds, pc, plan, releasing>>
    BY <1>6 DEF CreateSnapshot, sender
  <2>2. 1 .. created \subseteq 1 .. created' /\ created + 1 \in 1 .. created' /\ created' \in Nat
    BY <1>1, <2>1
  <2>3. plan \in [archive : {0}, source : {0}, included : SUBSET (1 .. created'),
                  size : 0 .. MaxVolumes]
    BY <2>2 DEF Unknown
  <2>4. \A h \in releasing : h[1] < created'
    BY <1>1, <2>1
  <2> QED BY <1>1, <2>1, <2>2, <2>3, <2>4 DEF Unknown, Older
<1>7. CASE HoldSnapshot \/ ReleaseSnapshot \/ Destroy
  <2>1. /\ UNCHANGED <<created, pc, plan>> /\ exist' \subseteq exist
        /\ releasing' \subseteq releasing
    BY <1>7 DEF HoldSnapshot, ReleaseSnapshot, Destroy, sender
  <2>2. DOMAIN holds' = Ids
    BY <1>1, <1>7 DEF HoldSnapshot, ReleaseSnapshot, Destroy
  <2> QED BY <1>1, <2>1, <2>2 DEF Unknown, Older
<1>8. CASE Refresh
  <2>1. CASE Full /\ UNCHANGED <<entry, next, releasing>>
    <3>1. /\ plan' = [NoPlan EXCEPT !.included = exist] /\ exist # {} /\ pc' = "send"
          /\ UNCHANGED <<snaps, releasing>>
      BY <1>8, <2>1 DEF Refresh, Full
    <3>2. /\ plan' \in [archive : {0}, source : {0}, included : SUBSET (1 .. created),
                        size : 0 .. MaxVolumes]
          /\ plan'.included = exist
      BY <1>1, <3>1 DEF NoPlan
    <3> QED BY <1>1, <3>1, <3>2 DEF Unknown, Older, snaps
  <2> QED BY <1>2, <1>4, <1>8, <2>1 DEF Refresh
<1>9. CASE Send
  <2>1. CASE \E n \in 1 .. MaxVolumes : plan' = [plan EXCEPT !.size = n] /\ pc' = "stream"
                                      /\ UNCHANGED <<entry, next, releasing>>
    <3>1. /\ plan' \in [archive : {0}, source : {0}, included : SUBSET (1 .. created),
                        size : 0 .. MaxVolumes]
          /\ plan'.included = plan.included
      BY <2>1 DEF Unknown
    <3>2. pc = "send" /\ pc' = "stream" /\ UNCHANGED <<snaps, releasing>>
      BY <1>9, <2>1 DEF Send
    <3> QED BY <1>1, <3>1, <3>2 DEF Unknown, Older, snaps
  <2> QED BY <1>4, <1>9, <2>1 DEF Send
<1>10. CASE StreamEnds
  <2>1. /\ pc = "stream" /\ pc' = "release" /\ UNCHANGED <<snaps, plan>>
        /\ releasing' = releasing \cup ((plan.included \ {Target}) \X Release[entry])
    BY <1>10 DEF StreamEnds
  <2>2. plan.included \subseteq 1 .. created /\ plan.included # {}
    BY <2>1 DEF Unknown
  <2>3. Target \in 1 .. created /\ \A s \in plan.included : s <= Target
    BY <1>1, <2>2, MaxExists DEF Target
  <2>4. \A s \in plan.included \ {Target} : s \in Nat /\ s < created
    BY <1>1, <2>2, <2>3
  <2>5. \A h \in releasing' : h[1] \in Nat /\ h[1] < created
    BY <1>1, <2>1, <2>4
  <2> QED BY <1>1, <2>1, <2>5 DEF Unknown, Older, snaps
<1>11. CASE Crash
  <2>1. plan' = NoPlan /\ pc' = "idle" /\ releasing' = {} /\ UNCHANGED snaps
    BY <1>11 DEF Crash
  <2> QED BY <1>1, <1>3, <2>1 DEF Unknown, Older, snaps
<1>12. CASE UNCHANGED vars
  BY <1>1, <1>12 DEF Unknown, Older, vars, snaps, sender
<1>13. CASE Start \/ ReadEOF \/ Publish
  BY <1>5, <1>13 DEF Start, ReadEOF, Publish
<1>14. CASE CallFails \/ PutContents \/ PutContentsFails
  BY <1>4, <1>14 DEF CallFails, PutContents, PutContentsFails
<1>15. ~Incremental
  BY DEF Unknown, Incremental
<1> QED
  BY <1>6, <1>7, <1>8, <1>9, <1>10, <1>11, <1>12, <1>13, <1>14, <1>15 DEF Next, Snap, Sender

\* The newest snapshot keeps its holds, whatever releases are still going on
\* from runs that failed and whatever the name of the file system.
THEOREM NewestHeld == Spec => NewestKeepsHolds
<1>1. CASE ~Nested
  <2>1. Init => ReleasesOld
    BY DEF Init, ReleasesOld
  <2>2. Invariant /\ ReleasesOld /\ [Next]_vars => ReleasesOld'
    <3> SUFFICES ASSUME Invariant, ReleasesOld, [Next]_vars PROVE ReleasesOld'
      OBVIOUS
    <3>1. \A h \in releasing : h[1] \in Nat /\ h[1] < created
      BY DEF Invariant, TypeOK, Ids, ReleasesOld
    <3>2. CASE StreamEnds
      <4>1. /\ pc = "stream" /\ created' = created
            /\ releasing' = releasing \cup ((plan.included \ {Target}) \X Release[entry])
        BY <3>2 DEF StreamEnds, snaps
      <4>2. plan.included \subseteq 1 .. created /\ created \in Nat /\ plan.included # {}
        BY <4>1, PlanTypes DEF Invariant, TypeOK
      <4>3. Target \in 1 .. created /\ \A s \in plan.included : s <= Target
        BY <4>2, MaxExists DEF Target
      <4>4. \A s \in plan.included \ {Target} : s < created
        BY <4>2, <4>3
      <4> QED BY <3>1, <4>1, <4>4 DEF ReleasesOld
    <3>3. CASE CreateSnapshot
      <4>1. created' = created + 1 /\ releasing' = releasing /\ created \in Nat
        BY <3>3 DEF CreateSnapshot, Invariant, TypeOK
      <4> QED BY <3>1, <4>1 DEF ReleasesOld
    <3>4. CASE created' = created /\ releasing' \subseteq releasing
      BY <3>1, <3>4 DEF ReleasesOld
    <3> QED
      BY <3>2, <3>3, <3>4 DEF Next, Sender, Snap, HoldSnapshot, Destroy, Start, Refresh, Full, Continue,
         Incremental, Send, Publish, PutContents, ReadEOF, CallFails, PutContentsFails,
         ReleaseSnapshot, Crash, Proceed, vars, snaps, sender
  <2>3. Invariant /\ ReleasesOld => Older
    BY DEF Invariant, TypeOK, ReleasesOld, Older, Ids
  <2> QED
    BY <1>1, <2>1, <2>2, <2>3, Invariance, OlderKeepsHolds, PTL DEF Spec, NewestKeepsHolds
<1>2. CASE Nested
  <2>1. Init => Unknown
    BY Constants DEF Init, Unknown, Older, NoPlan
  <2>2. Unknown /\ [Next]_vars => Unknown'
    BY <1>2, UnknownStep
  <2>3. Unknown => Older
    BY DEF Unknown
  <2> QED
    BY <2>1, <2>2, <2>3, OlderKeepsHolds, PTL DEF Spec, NewestKeepsHolds
<1> QED
  BY <1>1, <1>2

\* If no run fails after its first volume, every destination that has archives
\* has the contents its next send starts from.
THEOREM Continues ==
    ASSUME ~Nested, Faults \cap {"call", "contents", "crash"} = {}
    PROVE  Spec => []NextContinues
<1>1. Init => Tidy
  BY Constants DEF Init, Tidy
<1>2. Invariant /\ Tidy /\ [Next]_vars => Tidy'
  <2> SUFFICES ASSUME Invariant, Tidy, [Next]_vars PROVE Tidy'
    OBVIOUS
  <2>1. CASE /\ UNCHANGED bucket
             /\ \/ pc \notin {"complete", "contents"}
                \/ pc' = pc /\ entry' = entry
    BY <2>1, BucketKept DEF Tidy, bucket
  <2>2. CASE Publish
    BY <2>2, PublishEffect DEF Tidy, Whole
  <2>3. CASE PutContents
    <3>1. entry \in Destinations /\ Numbered(entry) /\ DOMAIN volumes[entry] \subseteq Nat \X Nat
      BY <2>3, PlanTypes DEF PutContents, Invariant, TypeOK
    <3> DEFINE W == Whole(entry)
    <3>2. /\ UNCHANGED volumes
          /\ \A d \in Destinations \ {entry} : contents'[d] = contents[d]
          /\ Cardinality(DOMAIN contents'[entry]) = W + 1
      BY <2>3, ContentsEffect
    <3>3. W \in Nat /\ \A k \in DOMAIN volumes[entry] : k[1] \in Nat /\ k[1] <= W
      BY <3>1 DEF Numbered
    <3>4. \A k \in DOMAIN volumes[entry] : k[1] # W + 1
      BY <3>3
    <3>5. ASSUME NEW d \in Destinations PROVE \A k \in DOMAIN volumes'[d] : k[1] # Whole(d)'
      <4>1. CASE d = entry
        BY <3>2, <3>4, <4>1 DEF Whole
      <4>2. CASE d # entry
        BY <3>2, <4>2 DEF Whole, Tidy
      <4> QED BY <4>1, <4>2
    <3> QED BY <3>5 DEF Tidy
  <2> QED
    BY <2>1, <2>2, <2>3 DEF Next, Sender, Snap, CreateSnapshot, HoldSnapshot, Destroy, Start, Refresh,
       Incremental, Send, StreamEnds, ReadEOF, CallFails, PutContentsFails, ReleaseSnapshot, Crash,
       vars, sender, bucket
<1>3. Invariant /\ Tidy => NextContinues
  <2> SUFFICES ASSUME Invariant, Tidy, pc = "idle", NEW d \in Destinations, DOMAIN volumes[d] # {}
               PROVE  Cardinality(Archives(d)) - 1 \in DOMAIN contents[d]
    BY DEF NextContinues
  <2>1. /\ Whole(d) \in Nat /\ DOMAIN contents[d] = 0 .. Whole(d) - 1
        /\ Archives(d) = 0 .. Whole(d) - 1 \/ Archives(d) = 0 .. Whole(d)
        /\ Archives(d) = {k[1] : k \in DOMAIN volumes[d]}
    BY ArchivesOf DEF Invariant, Numbered, Archives, Loaded
  <2>2. Whole(d) \notin Archives(d) /\ Archives(d) # {}
    BY <2>1 DEF Tidy
  <2> DEFINE W == Whole(d)
  <2> HIDE DEF W
  <2>3. Archives(d) = 0 .. W - 1 /\ W \in Nat /\ DOMAIN contents[d] = 0 .. W - 1
    <3>1. W \in Nat => W \in 0 .. W
      OBVIOUS
    <3> QED BY <2>1, <2>2, <3>1 DEF W
  <2>4. W > 0
    BY <2>2, <2>3
  <2>5. Cardinality(0 .. W - 1) = W
    <3>1. W - 1 \in Int /\ 0 \in Int
      BY <2>3
    <3>2. Cardinality(0 .. W - 1) = IF 0 > W - 1 THEN 0 ELSE (W - 1) - 0 + 1
      BY <3>1, FS_Interval
    <3> QED BY <2>3, <2>4, <3>2
  <2> QED
    BY <2>3, <2>4, <2>5
<1> QED
  BY <1>1, <1>2, <1>3, Invariance, PTL DEF Spec

\* A tag that every snapshot is held with and no other destination releases.
Own(d, tag) ==
    /\ tag \in Tags
    /\ \A tags \in Hold : tag \in tags
    /\ \A e \in Destinations \ {d} : tag \notin Release[e]

\* What a destination needs is a snapshot, or none, and the base of its next
\* send once the archive is finished.
LEMMA NeededBase ==
    ASSUME Invariant, NEW d \in Destinations
    PROVE  /\ Needed(d) \in 0 .. created
           /\ contents[d] # <<>> /\ ~Superseding(d) => Needed(d) = Base(d) /\ Needed(d) > 0
           /\ Superseding(d) => Planned /\ Needed(d) = Target
           /\ ~Superseding(d) => Needed(d) = Source(d, Whole(d))
<1>1. /\ Whole(d) \in Nat /\ DOMAIN contents[d] = 0 .. Whole(d) - 1
      /\ created \in Nat
  BY DEF Invariant, Numbered, TypeOK
<1>2. CASE Superseding(d)
  <2>1. pc \notin {"idle", "refresh", "incremental"} /\ Needed(d) = Target
    BY <1>2 DEF Superseding, Needed
  <2> QED BY <1>2, <2>1, PlanTypes
<1>3. CASE ~Superseding(d) /\ Whole(d) = 0
  <2>1. Needed(d) = 0
    BY <1>3 DEF Needed, Source
  <2>2. contents[d] = <<>>
    <3>1. DOMAIN contents[d] = {}
      BY <1>1, <1>3
    <3>2. contents[d] \in [DOMAIN contents[d] -> (SUBSET (1 .. created)) \ {{}}]
      BY DEF Invariant, TypeOK
    <3>3. contents[d] \in Seq(Nat)
      BY <3>1, <3>2, EmptySeq
    <3>4. Len(contents[d]) \in Nat /\ 1 .. Len(contents[d]) = {}
      BY <3>1, <3>3, LenProperties
    <3>5. Len(contents[d]) = 0
      BY <3>4
    <3> QED BY <3>3, <3>5, EmptySeq
  <2> QED BY <1>1, <1>3, <2>1, <2>2 DEF Source
<1>4. CASE ~Superseding(d) /\ Whole(d) # 0
  <2>1. Whole(d) - 1 \in DOMAIN contents[d]
    BY <1>1, <1>4
  <2>2. Needed(d) = Max(contents[d][Whole(d) - 1])
    BY <1>4 DEF Needed, Source
  <2>3. Needed(d) \in 1 .. created
    BY <1>1, <2>1, <2>2, ContentsType, MaxExists DEF Invariant
  <2> QED BY <1>4, <2>2, <2>3 DEF Base, Whole, Needed
<1> QED
  BY <1>2, <1>3, <1>4

\* No step takes the hold of a base that has a tag of its own.
LEMMA GuardedStep ==
    ASSUME ~Nested, Faults \subseteq {"release", "destroy", "below"},
           NEW d \in Destinations, NEW tag, Own(d, tag),
           Invariant, Guarded(d, tag), [Next]_vars
    PROVE  Guarded(d, tag)'
<1>1. /\ Needed(d) \in 0 .. created /\ created \in Nat
      /\ exist \subseteq 1 .. created
      /\ holds \in [Ids -> SUBSET Tags] /\ tag \in Tags
      /\ \A h \in releasing : h[1] \in Nat
      /\ 1 .. created \subseteq Ids
  <2>1. Needed(d) \in 0 .. created
    BY NeededBase
  <2>2. TypeOK /\ MaxSnapshots \in Nat
    BY Constants DEF Invariant
  <2>3. /\ created \in 0 .. MaxSnapshots /\ exist \subseteq 1 .. created
        /\ holds \in [Ids -> SUBSET Tags]
        /\ \A h \in releasing : h[1] \in Nat
    BY <2>2 DEF TypeOK, Ids
  <2>4. created \in Nat /\ 1 .. created \subseteq 1 .. MaxSnapshots
    BY <2>2, <2>3
  <2> QED BY <2>1, <2>3, <2>4 DEF Own, Ids
<1>2. CASE UNCHANGED <<bucket, entry, pc, plan, releasing>> /\ (Snap \/ Destroy)
  <2>1. Needed(d)' = Needed(d)
    BY <1>2 DEF Needed, Superseding, Source, Whole, Target, bucket
  <2>2. CASE CreateSnapshot
    <3>1. PICK tags \in Hold : holding' = {created + 1} \X tags
      BY <2>2 DEF CreateSnapshot
    <3>2. <<created + 1, tag>> \in holding'
      BY <3>1 DEF Own
    <3>3. /\ created' = created + 1 /\ exist' = exist \cup {created + 1}
          /\ holds' = holds /\ holding = {}
      BY <2>2 DEF CreateSnapshot
    <3>4. ASSUME NEW s \in 1 .. created', s >= Needed(d)
          PROVE  s \in exist' /\ (tag \in holds'[s] \/ <<s, tag>> \in holding')
      <4>1. CASE s = created + 1
        BY <3>2, <3>3, <4>1
      <4>2. CASE s \in 1 .. created
        BY <3>3, <3>4, <4>2 DEF Guarded
      <4> QED BY <1>1, <3>3, <4>1, <4>2
    <3> QED BY <1>2, <2>1, <3>4 DEF Guarded
  <2>3. CASE HoldSnapshot
    <3>1. PICK h \in holding :
             /\ \/ h[1] \in exist /\ holds' = [holds EXCEPT ![h[1]] = @ \cup {h[2]}]
                \/ ("hold" \in Faults \/ h[1] \notin exist) /\ UNCHANGED holds
             /\ holding' = holding \ {h}
      BY <2>3 DEF HoldSnapshot
    <3>2. UNCHANGED <<created, exist>>
      BY <2>3 DEF HoldSnapshot
    <3>3. ASSUME NEW s \in 1 .. created, s >= Needed(d)
          PROVE  s \in exist /\ (tag \in holds'[s] \/ <<s, tag>> \in holding')
      <4>1. s \in exist /\ s \in Ids /\ (tag \in holds[s] \/ <<s, tag>> \in holding)
        BY <1>1, <3>3 DEF Guarded
      <4>2. CASE h = <<s, tag>>
        <5>1. holds' = [holds EXCEPT ![s] = @ \cup {tag}]
          BY <3>1, <4>1, <4>2
        <5> QED BY <1>1, <4>1, <5>1
      <4>3. CASE h # <<s, tag>>
        BY <1>1, <3>1, <4>1, <4>3
      <4> QED BY <4>2, <4>3
    <3> QED BY <1>2, <2>1, <3>2, <3>3 DEF Guarded
  <2>4. CASE Destroy
    <3>1. PICK s \in exist : holds[s] = {} /\ exist' = exist \ {s}
      BY <2>4 DEF Destroy
    <3>2. holding = {} /\ UNCHANGED <<created, holds, holding>>
      BY <2>4 DEF Destroy, Settled
    <3> QED BY <1>2, <2>1, <3>1, <3>2 DEF Guarded
  <2> QED BY <1>2, <2>2, <2>3, <2>4 DEF Snap
<1>3. CASE ReleaseSnapshot
  <2>1. Needed(d)' = Needed(d) /\ UNCHANGED <<created, exist, holding>>
    BY <1>3 DEF ReleaseSnapshot, Needed, Superseding, Source, Whole, Target, bucket, sender
  <2>2. PICK h \in releasing :
           /\ \/ holds' = [holds EXCEPT ![h[1]] = @ \ {h[2]}]
              \/ UNCHANGED holds
           /\ releasing' = releasing \ {h}
    BY <1>3 DEF ReleaseSnapshot
  <2>3. ASSUME NEW s \in 1 .. created, s >= Needed(d), tag \in holds[s] PROVE tag \in holds'[s]
    <3>1. ~(h[1] = s /\ h[2] = tag)
      <4>1. h[2] = tag => h[1] < Needed(d)
        BY DEF Guarded
      <4> QED BY <1>1, <2>3, <4>1
    <3> QED BY <1>1, <2>2, <2>3, <3>1
  <2> QED BY <2>1, <2>2, <2>3 DEF Guarded
<1>4. CASE StreamEnds
  <2>1. /\ pc = "stream" /\ pc' = "release"
        /\ releasing' = releasing \cup ((plan.included \ {Target}) \X Release[entry])
        /\ UNCHANGED <<snaps, bucket, entry, plan>>
    BY <1>4 DEF StreamEnds
  <2>2. entry \in Destinations /\ Planned /\ Target \in 1 .. created
    BY <2>1, PlanTypes
  <2>3. CASE entry = d
    <3>1. Needed(d) = Source(d, Whole(d)) /\ Needed(d)' = Target
      BY <2>1, <2>3 DEF Needed, Superseding, Target
    <3>2. Needed(d) < Target
      BY <2>1, <2>2, <2>3, <3>1 DEF Planned
    <3>3. \A s \in plan.included \ {Target} : s < Target
      <4>1. plan.included \subseteq 1 .. created /\ plan.included # {}
        BY <2>1, <2>2 DEF Invariant, TypeOK, Planned
      <4>2. \A s \in plan.included : s <= Target
        BY <1>1, <4>1, MaxExists DEF Target
      <4> QED BY <1>1, <2>2, <4>1, <4>2
    <3>4. \A h \in releasing' : h[2] = tag => h[1] < Target
      <4>1. \A h \in releasing : h[2] = tag => h[1] < Target
        BY <1>1, <2>2, <3>2 DEF Guarded
      <4> QED BY <2>1, <3>3, <4>1
    <3>5. \A s \in 1 .. created : s >= Target => s >= Needed(d)
      BY <1>1, <2>2, <3>2
    <3> QED BY <2>1, <3>1, <3>4, <3>5 DEF Guarded, snaps
  <2>4. CASE entry # d
    <3>1. Needed(d)' = Needed(d)
      BY <2>1, <2>4 DEF Needed, Superseding, Source, Whole, bucket
    <3>2. \A h \in releasing' : h[2] = tag => h \in releasing
      BY <2>1, <2>2, <2>4 DEF Own
    <3> QED BY <2>1, <3>1, <3>2 DEF Guarded, snaps
  <2> QED BY <2>3, <2>4
<1>5. CASE Publish \/ ReadEOF
  <2>1. /\ entry = d /\ pc \in {"release", "complete", "contents"}
           <=> entry' = d /\ pc' \in {"release", "complete", "contents"}
        /\ UNCHANGED <<snaps, contents, plan, releasing>>
    BY <1>5, PublishEffect DEF ReadEOF, bucket
  <2>2. Needed(d)' = Needed(d)
    BY <2>1 DEF Needed, Superseding, Source, Whole, Target
  <2> QED BY <2>1, <2>2 DEF Guarded, snaps
<1>6. CASE PutContents
  <2>1. /\ pc = "contents" /\ pc' \in {"idle", "refresh"} /\ UNCHANGED snaps
        /\ releasing' \subseteq releasing
    BY <1>6 DEF PutContents, Proceed
  <2>2. Planned /\ entry \in Destinations /\ Numbered(entry) /\ Whole(entry) \in Nat
    BY <2>1, PlanTypes DEF Numbered
  <2>3. Needed(d)' = Source(d, Whole(d))'
    BY <2>1 DEF Needed, Superseding
  <2>4. CASE entry = d
    <3>1. Whole(d)' = Whole(d) + 1 /\ contents'[d][Whole(d)] = plan.included
      BY <1>6, <2>4, ContentsEffect DEF Whole
    <3>2. Whole(d)' # 0 /\ Whole(d)' - 1 = Whole(d)
      BY <2>2, <2>4, <3>1
    <3>3. Needed(d)' = Target
      BY <2>3, <3>1, <3>2 DEF Source, Target
    <3>4. Needed(d) = Target
      BY <2>1, <2>4 DEF Needed, Superseding
    <3> QED BY <2>1, <3>3, <3>4 DEF Guarded, snaps
  <2>5. CASE entry # d
    <3>1. contents'[d] = contents[d]
      BY <1>6, <2>5, ContentsEffect
    <3>2. Needed(d)' = Needed(d)
      BY <2>3, <2>5, <3>1 DEF Source, Whole, Needed, Superseding
    <3> QED BY <2>1, <3>2 DEF Guarded, snaps
  <2> QED BY <2>4, <2>5
<1>7. CASE Start \/ Refresh \/ Incremental \/ Send
  <2>1. /\ pc \notin {"release", "complete", "contents"}
        /\ pc' \notin {"release", "complete", "contents"}
        /\ UNCHANGED <<snaps, bucket>> /\ releasing' \subseteq releasing
    BY <1>7 DEF Start, Refresh, Full, Continue, Incremental, Send, Proceed
  <2>2. Needed(d)' = Needed(d)
    BY <2>1 DEF Needed, Superseding, Source, Whole, bucket
  <2> QED BY <2>1, <2>2 DEF Guarded, snaps
<1>8. CASE UNCHANGED vars
  <2>1. Needed(d)' = Needed(d)
    BY <1>8 DEF vars, sender, bucket, Needed, Superseding, Source, Whole, Target
  <2> QED BY <1>8, <2>1 DEF vars, snaps, Guarded
<1>9. ~CallFails /\ ~PutContentsFails /\ ~Crash
  BY DEF CallFails, PutContentsFails, Crash
<1>10. Snap \/ Destroy => UNCHANGED <<bucket, entry, pc, plan, releasing>>
  BY DEF Snap, CreateSnapshot, HoldSnapshot, Destroy, sender
<1> QED
  BY <1>2, <1>3, <1>4, <1>5, <1>6, <1>7, <1>8, <1>9, <1>10 DEF Next, Sender

\* Pruning never takes the base of a destination whose tag every snapshot is
\* held with and no other destination releases, unless a run fails after it has
\* begun to release, or snapshots are not held when they are made.
THEOREM BaseHeld ==
    ASSUME ~Nested, Faults \subseteq {"release", "destroy", "below"},
           \A d \in Destinations : \E tag \in Tags : Own(d, tag)
    PROVE  Spec => []BaseKept
<1> DEFINE AllGuarded == \A d \in Destinations : \A tag \in Tags : Own(d, tag) => Guarded(d, tag)
<1>1. Init => AllGuarded
  BY DEF Init, Guarded
<1>2. Invariant /\ AllGuarded /\ [Next]_vars => AllGuarded'
  BY GuardedStep DEF Own
<1>3. Invariant /\ AllGuarded => BaseKept
  <2> SUFFICES ASSUME Invariant, AllGuarded, NEW d \in Destinations,
                      contents[d] # <<>>, ~Superseding(d)
               PROVE  Base(d) \in exist
    BY DEF BaseKept
  <2>1. PICK tag \in Tags : Own(d, tag)
    OBVIOUS
  <2>2. Guarded(d, tag)
    BY <2>1
  <2>3. Base(d) \in 1 .. created /\ Base(d) = Needed(d)
    BY NeededBase DEF Invariant, TypeOK
  <2>4. \A s \in 1 .. created : s >= Needed(d) => s \in exist
    BY <2>2 DEF Guarded
  <2>5. Base(d) >= Needed(d)
    BY <2>3
  <2> QED BY <2>3, <2>4, <2>5
<1> HIDE DEF AllGuarded
<1> QED
  BY <1>1, <1>2, <1>3, Invariance, PTL DEF Spec
-----------------------------------------------------------------------------
(* The refinement: the archives with contents are a chain.                 *)

\* An archive of the chain, numbered from 1 there and from 0 in the bucket.
Link(d, a) == [source |-> volumes[d][<<a - 1, 0>>].source,
               target |-> volumes[d][<<a - 1, 0>>].target]

Links == [source : Nat, target : Nat]

\* The chain of a destination has one link for each archive with contents.
LEMMA ChainType ==
    ASSUME Invariant, NEW d \in Destinations
    PROVE  /\ Whole(d) \in Nat
           /\ Replicated[d] = [a \in 1 .. Whole(d) |-> Link(d, a)]
           /\ \A a \in 1 .. Whole(d) : Link(d, a) \in Links
           /\ Replicated[d] \in Seq(Links) /\ Len(Replicated[d]) = Whole(d)
<1>1. /\ Whole(d) \in Nat /\ DOMAIN contents[d] = 0 .. Whole(d) - 1 /\ created \in Nat
      /\ \A a \in DOMAIN contents[d] : <<a, 0>> \in DOMAIN volumes[d]
  BY DEF Invariant, TypeOK, Numbered
<1>2. Replicated[d] = [a \in 1 .. Whole(d) |-> Link(d, a)]
  BY DEF Replicated, Whole, Link
<1>3. ASSUME NEW a \in 1 .. Whole(d) PROVE Link(d, a) \in Links
  <2>1. a - 1 \in DOMAIN contents[d]
    BY <1>1
  <2>2. volumes[d][<<a - 1, 0>>] \in [source : 0 .. created, target : 1 .. created, size : 1 .. MaxVolumes]
    BY <1>1, <2>1 DEF Invariant, TypeOK
  <2> QED BY <1>1, <2>2 DEF Link, Links
<1>4. Replicated[d] \in [1 .. Whole(d) -> Links]
  BY <1>2, <1>3
<1>5. Replicated[d] \in Seq(Links)
  BY <1>1, <1>4, SeqDef
<1>6. Len(Replicated[d]) = Whole(d)
  BY <1>1, <1>2
<1> QED
  BY <1>1, <1>2, <1>3, <1>5, <1>6

\* The next archive of the chain starts from the last snapshot of the contents.
LEMMA TipIs ==
    ASSUME Invariant, NEW d \in Destinations
    PROVE  R!Tip(d) = Source(d, Whole(d))
<1>1. /\ Whole(d) \in Nat /\ Replicated[d] \in Seq(Links) /\ Len(Replicated[d]) = Whole(d)
      /\ Replicated[d] = [a \in 1 .. Whole(d) |-> Link(d, a)]
  BY ChainType
<1>2. CASE Whole(d) = 0
  <2>1. Replicated[d] = <<>>
    BY <1>1, <1>2, EmptySeq
  <2> QED BY <1>2, <2>1 DEF R!Tip, Source
<1>3. CASE Whole(d) # 0
  <2>1. Replicated[d] # <<>>
    BY <1>1, <1>3, EmptySeq
  <2>2. Whole(d) - 1 \in DOMAIN contents[d]
    BY <1>1, <1>3 DEF Invariant, Numbered
  <2>3. volumes[d][<<Whole(d) - 1, 0>>].target = Max(contents[d][Whole(d) - 1])
    BY <2>2 DEF Invariant, Numbered
  <2>4. Replicated[d][Whole(d)].target = Max(contents[d][Whole(d) - 1])
    BY <1>1, <1>3, <2>3 DEF Link
  <2> QED BY <1>1, <1>3, <2>1, <2>4 DEF R!Tip, Source
<1> QED
  BY <1>2, <1>3

\* Publishing writes to no archive that has contents, and nothing else but the
\* contents themselves makes the chain longer.
LEMMA ChainKept ==
    ASSUME Invariant, Publish \/ UNCHANGED bucket PROVE UNCHANGED Replicated
<1>1. CASE UNCHANGED bucket
  BY <1>1 DEF bucket, Replicated, Destinations
<1>2. CASE Publish
  <2>1. contents' = contents /\ entry \in Destinations /\ pc = "complete"
    BY <1>2, PublishEffect, PlanTypes
  <2>2. ASSUME NEW d \in Destinations PROVE Replicated'[d] = Replicated[d]
    <3>1. Replicated'[d] = [a \in 1 .. Whole(d) |-> Link(d, a)']
      BY <2>1 DEF Replicated, Whole, Link, Destinations
    <3>2. Whole(d) \in Nat /\ DOMAIN contents[d] = 0 .. Whole(d) - 1
      BY DEF Invariant, Numbered
    <3>3. ASSUME NEW a \in 1 .. Whole(d)
          PROVE  volumes'[d][<<a - 1, 0>>] = volumes[d][<<a - 1, 0>>]
      <4>1. a - 1 \in DOMAIN contents[d] /\ a - 1 # Whole(d)
        BY <3>2
      <4>2. <<a - 1, 0>> \in DOMAIN volumes[d]
        BY <4>1 DEF Invariant, Numbered
      <4>3. <<a - 1, 0>> # <<Whole(d), next>>
        BY <4>1
      <4> QED BY <1>2, <4>2, <4>3, PublishEffect
    <3> QED BY <3>1, <3>3, ChainType DEF Link
  <2>3. Replicated' = [d \in Destinations |-> Replicated'[d]]
    BY DEF Replicated, Destinations
  <2>4. Replicated = [d \in Destinations |-> Replicated[d]]
    BY DEF Replicated
  <2> QED BY <2>2, <2>3, <2>4
<1> QED
  BY <1>1, <1>2

\* The contents add one archive, from where the chain ended to the newest
\* snapshot that was sent.
LEMMA ChainExtended ==
    ASSUME Invariant, PutContents
    PROVE  R!Extend(entry, Target) /\ Len(Replicated'[entry]) > Len(Replicated[entry])
<1> DEFINE W == Whole(entry)
<1>1. /\ pc = "contents" /\ UNCHANGED <<snaps, volumes>>
      /\ \A d \in Destinations \ {entry} : contents'[d] = contents[d]
      /\ Cardinality(DOMAIN contents'[entry]) = W + 1
  BY ContentsEffect
<1>2. /\ Planned /\ Numbered(entry) /\ entry \in Destinations
      /\ Target \in 1 .. created
  BY <1>1, PlanTypes
<1>3. W \in Nat /\ next = plan.size /\ next \in Nat /\ next > 0 /\ created \in Nat
  BY <1>1, <1>2, Constants DEF Numbered, Planned, Counted, TypeOK, Invariant
<1>4. R!Tip(entry) = plan.source /\ Target > plan.source
  BY <1>1, <1>2, TipIs, Constants DEF Planned, Invariant, TypeOK
<1>5. volumes[entry][<<W, 0>>] = Stored
  <2>1. <<W, 0>> \in DOMAIN volumes[entry]
    BY <1>2, <1>3 DEF Planned
  <2> QED BY <1>2, <2>1 DEF Planned
<1> DEFINE link == [source |-> plan.source, target |-> Target]
           longer == [a \in 1 .. W + 1 |-> Link(entry, a)]
<1>6. Replicated' = [Replicated EXCEPT ![entry] = longer]
  <2>1. ASSUME NEW d \in Destinations, d # entry PROVE Replicated'[d] = Replicated[d]
    BY <1>1, <2>1 DEF Replicated, Destinations
  <2>2. Replicated'[entry] = longer
    BY <1>1, <1>2 DEF Replicated, Destinations, Link
  <2>3. Replicated' = [d \in Destinations |-> Replicated'[d]]
    BY DEF Replicated, Destinations
  <2>4. DOMAIN Replicated = Destinations
    BY DEF Replicated
  <2> QED BY <1>2, <2>1, <2>2, <2>3, <2>4
<1>7. longer = Append(Replicated[entry], link)
  <2>1. /\ Replicated[entry] \in Seq(Links) /\ Len(Replicated[entry]) = W
        /\ Replicated[entry] = [a \in 1 .. W |-> Link(entry, a)]
        /\ \A a \in 1 .. W : Link(entry, a) \in Links
    BY <1>2, ChainType
  <2>2. link \in Links /\ Link(entry, W + 1) = link
    BY <1>3, <1>5, <1>2 DEF Link, Links, Stored, Invariant, TypeOK
  <2>3. longer \in Seq(Links) /\ Len(longer) = W + 1
    <3> HIDE DEF link, W
    <3>1. longer \in [1 .. W + 1 -> Links] /\ W + 1 \in Nat
      BY <1>3, <2>1, <2>2
    <3> QED BY <3>1, SeqDef
  <2>4. /\ Append(Replicated[entry], link) \in Seq(Links)
        /\ Len(Append(Replicated[entry], link)) = W + 1
        /\ \A a \in 1 .. W : Append(Replicated[entry], link)[a] = Link(entry, a)
        /\ Append(Replicated[entry], link)[W + 1] = link
    BY <1>3, <2>1, <2>2, AppendProperties
  <2>5. \A a \in 1 .. W + 1 : longer[a] = Append(Replicated[entry], link)[a]
    <3> HIDE DEF link, W
    <3> QED BY <1>3, <2>2, <2>4
  <2> HIDE DEF longer, link, W
  <2> QED BY <2>3, <2>4, <2>5, SeqEqual
<1>8. Len(Replicated'[entry]) = W + 1 /\ Len(Replicated[entry]) = W
  <2>1. Replicated'[entry] = longer
    BY <1>2, <1>6 DEF Replicated
  <2>2. Len(longer) = W + 1
    BY <1>3
  <2> QED BY <1>2, <2>1, <2>2, ChainType
<1>9. Len(Replicated'[entry]) > Len(Replicated[entry])
  BY <1>3, <1>8
<1> QED
  BY <1>4, <1>6, <1>7, <1>9 DEF R!Extend

\* Every archive continues the one before it, whatever has failed between.
THEOREM Continuous == ASSUME ~Nested PROVE Spec => ImplementsReplica
<1>1. Init => R!Init
  <2> SUFFICES ASSUME Init PROVE R!Init
    OBVIOUS
  <2>1. ASSUME NEW d \in Destinations PROVE Replicated[d] = <<>>
    <3>1. Invariant /\ contents[d] = <<>>
      BY InitInvariant DEF Init
    <3>2. Whole(d) = 0
      BY <3>1, FS_EmptySet DEF Whole
    <3> QED BY <3>1, <3>2, ChainType, EmptySeq
  <2>2. Replicated = [d \in Destinations |-> Replicated[d]]
    BY DEF Replicated
  <2> QED BY <2>1, <2>2 DEF R!Init
<1>2. Invariant /\ [Next]_vars => [R!Next]_Replicated
  <2> SUFFICES ASSUME Invariant, [Next]_vars PROVE R!Next \/ UNCHANGED Replicated
    OBVIOUS
  <2>1. CASE PutContents
    <3>1. entry \in Destinations /\ Target \in Ids
      BY <2>1, PlanTypes, Constants DEF PutContents, Invariant, TypeOK, Ids
    <3> QED BY <2>1, <3>1, ChainExtended DEF R!Next
  <2>2. CASE Publish \/ UNCHANGED bucket
    BY <2>2, ChainKept
  <2> QED
    BY <2>1, <2>2 DEF Next, Sender, Snap, CreateSnapshot, HoldSnapshot, Destroy, Start, Refresh,
       Incremental, Send, StreamEnds, ReadEOF, CallFails, PutContentsFails, ReleaseSnapshot, Crash,
       vars
<1> QED
  BY <1>1, <1>2, Invariance, PTL DEF Spec, ImplementsReplica, R!Spec
=============================================================================
