----------------------------- MODULE Replication ----------------------------
(***************************************************************************)
(* The replication of one file system over many runs of snapr, around the  *)
(* three things that outlive a run: the snapshots, their holds and the     *)
(* objects in the buckets.                                                 *)
(*                                                                         *)
(* snapr --snap creates snapshots and holds them.  snapr --send goes       *)
(* through the destinations (the send entries): it reads what the bucket   *)
(* has, decides what to send, streams it, releases the holds of what it    *)
(* sent, and publishes volumes and contents.  Whoever prunes snapshots     *)
(* destroys some that nothing holds.                                       *)
(*                                                                         *)
(* Snapshots are numbered in the order of their creation, which is the     *)
(* order of the listing and stands for their identities.  The listing is   *)
(* recursive: snapshots of a file system below are in it, too.             *)
(*                                                                         *)
(* One snapr --send runs at a time, as the timer starts it: nothing in the *)
(* code keeps one started by hand from overlapping with it, and what is    *)
(* said of objects and chains does not hold of two.                        *)
(***************************************************************************)
EXTENDS Integers, Sequences, FiniteSets, FiniteSetsExt

CONSTANTS Tags,
          Hold,          \* the tags each kind of snapshot (prefix) is held with
          Release,       \* the tags each destination releases
          Nested,        \* the name of the file system has more than two parts
          Down,          \* destinations whose bucket cannot be listed
          MaxSnapshots,  \* bound on the snapshots created
          MaxVolumes,    \* bound on the volumes of an archive
          Faults         \* what the environment may do

(***************************************************************************)
(* "call" lets zfs list, zfs send or a call of S3 fail, "contents" the     *)
(* writing of the contents, "crash" the process of snapr --send at any     *)
(* point, "release" and "hold" the zfs command of that name; "window" lets *)
(* the others run between the creation of a snapshot and its holds,        *)
(* "destroy" prunes, and "below" makes snapshots of a file system below.   *)
(***************************************************************************)
ASSUME ReplicationAssumption ==
    /\ Hold \subseteq SUBSET Tags
    /\ Release \in Seq(SUBSET Tags) /\ Release # <<>>
    /\ Nested \in BOOLEAN
    /\ Down \subseteq DOMAIN Release
    /\ MaxSnapshots \in Nat /\ MaxVolumes \in Nat
    /\ Faults \subseteq {"call", "contents", "crash", "release", "hold", "window", "destroy",
                   "below"}

VARIABLES created,     \* snapshots ever created
          below,       \* those of a file system below
          exist,       \* those that have not been destroyed
          holds,       \* the tags on each
          holding,     \* holds snapr --snap has yet to apply
          volumes,     \* the volumes in each bucket, by archive and volume number
          contents,    \* the contents in each bucket, by archive number
          pc,          \* where snapr --send is
          entry,       \* the destination it is at
          releasing,   \* the releases the completion functions have left
          plan,        \* what it has decided to send
          next         \* volumes of it that are published

snaps  == <<created, below, exist, holds, holding>>
bucket == <<volumes, contents>>
sender == <<pc, entry, plan, next>>
vars   == <<snaps, bucket, sender, releasing>>

Destinations == DOMAIN Release
Ids          == 1 .. MaxSnapshots

NoPlan == [archive |-> 0, source |-> 0, included |-> {}, size |-> 0]

\* The last snapshot of the listing, of whichever file system.
Target == Max(plan.included)

\* The snapshots a stream takes: those of the file system of its target.
Sent == IF plan.source = 0 THEN {Target}
        ELSE {s \in plan.source .. Target : s \in below <=> Target \in below}

-----------------------------------------------------------------------------
(* The catalogue of a bucket.                                              *)

\* The volumes splitPath recognises: those of a file system in a pool.
Loaded(d) == IF Nested THEN {} ELSE DOMAIN volumes[d]

Archives(d) == {k[1] : k \in Loaded(d)}

\* verify: archives and volumes are numbered from 0 without a gap.
Verified(d) ==
    /\ Archives(d) = 0 .. Cardinality(Archives(d)) - 1
    /\ \A a \in Archives(d) :
          LET numbers == {k[2] : k \in {l \in Loaded(d) : l[1] = a}}
          IN  numbers = 0 .. Cardinality(numbers) - 1

-----------------------------------------------------------------------------
Init ==
    /\ created = 0 /\ exist = {} /\ below = {}
    /\ holds = [s \in Ids |-> {}] /\ holding = {}
    /\ volumes = [d \in Destinations |-> <<>>]
    /\ contents = [d \in Destinations |-> <<>>]
    /\ pc = "idle" /\ entry = 0
    /\ releasing = {}
    /\ plan = NoPlan /\ next = 0

(* snapr --snap: a snapshot is created, then its tags are applied one by   *)
(* one; a hold that fails is passed over.                                  *)
CreateSnapshot ==
    /\ holding = {}
    /\ created < MaxSnapshots
    /\ created' = created + 1
    /\ exist' = exist \cup {created + 1}
    /\ \/ UNCHANGED below
       \/ "below" \in Faults /\ below' = below \cup {created + 1}
    /\ \E tags \in Hold : holding' = {created + 1} \X tags
    /\ UNCHANGED <<holds, bucket, sender, releasing>>

HoldSnapshot ==
    /\ \E h \in holding :
          /\ \/ h[1] \in exist /\ holds' = [holds EXCEPT ![h[1]] = @ \cup {h[2]}]
             \/ ("hold" \in Faults \/ h[1] \notin exist) /\ UNCHANGED holds
          /\ holding' = holding \ {h}
    /\ UNCHANGED <<created, below, exist, bucket, sender, releasing>>

\* The others may run between a snapshot and its holds.
Settled == holding = {} \/ "window" \in Faults

(* Pruning: zfs destroys no snapshot that is held or being sent.           *)
Destroy ==
    /\ "destroy" \in Faults /\ Settled
    /\ \E s \in exist :
          /\ holds[s] = {}
          /\ pc = "stream" => s \notin Sent
          /\ exist' = exist \ {s}
    /\ UNCHANGED <<created, below, holds, holding, bucket, sender, releasing>>

-----------------------------------------------------------------------------
(* snapr --send.                                                           *)

\* Mutants: the count of volumes is not reset; the other entries are left out.
ProceedUnreset ==
    /\ plan' = NoPlan /\ UNCHANGED next
    /\ pc' = "idle" /\ entry' = 0 /\ releasing' = {}
ProceedOnce ==
    /\ plan' = NoPlan /\ next' = 0
    /\ pc' = "idle" /\ entry' = 0 /\ releasing' = {}

\* After the last entry the process ends, and with it what it left running.
Proceed ==
    /\ plan' = NoPlan /\ next' = 0
    /\ IF entry = Cardinality(Destinations)
       THEN pc' = "idle" /\ entry' = 0 /\ releasing' = {}
       ELSE pc' = "refresh" /\ entry' = entry + 1 /\ UNCHANGED releasing

Start ==
    /\ pc = "idle" /\ Settled
    /\ pc' = "refresh" /\ entry' = 1
    /\ UNCHANGED <<snaps, bucket, plan, next, releasing>>

\* Mutants: the number of the last archive again, or one too many; the first
\* snapshot of the contents instead of the last.
ContinueWith(archive, source) ==
    /\ Cardinality(Archives(entry)) - 1 \in DOMAIN contents[entry]
    /\ plan' = [NoPlan EXCEPT !.archive = archive, !.source = source]
    /\ pc' = "incremental"
LastContents   == contents[entry][Cardinality(Archives(entry)) - 1]
ContinueAgain  == ContinueWith(Cardinality(Archives(entry)) - 1, Max(LastContents))
ContinueBeyond == ContinueWith(Cardinality(Archives(entry)) + 1, Max(LastContents))
ContinueFirst  == ContinueWith(Cardinality(Archives(entry)), Min(LastContents))

\* The archive after the last one, from the last snapshot in its contents.
Continue ==
    LET last == Cardinality(Archives(entry)) - 1
    IN  /\ last \in DOMAIN contents[entry]
        /\ plan' = [NoPlan EXCEPT !.archive = last + 1,
                                  !.source = Max(contents[entry][last])]
        /\ pc' = "incremental"

\* Up to the last snapshot of the listing.
Full ==
    /\ exist # {}
    /\ plan' = [NoPlan EXCEPT !.included = exist]
    /\ pc' = "send"

\* newRemote and refresh: the catalogue decides; without it, without the contents
\* of the last archive, or without a snapshot, nothing is sent.
Refresh ==
    /\ pc = "refresh" /\ Settled
    /\ \/ entry \notin Down /\ Verified(entry) /\ Archives(entry) # {} /\ Continue
             /\ UNCHANGED <<entry, next, releasing>>
       \/ entry \notin Down /\ Verified(entry) /\ Archives(entry) = {} /\ Full
             /\ UNCHANGED <<entry, next, releasing>>
       \/ /\ \/ entry \in Down
             \/ ~Verified(entry)
             \/ Archives(entry) = {} /\ exist = {}
             \/ /\ Archives(entry) # {}
                /\ Cardinality(Archives(entry)) - 1 \notin DOMAIN contents[entry]
          /\ Proceed
    /\ UNCHANGED <<snaps, bucket>>

\* incremental: lists again, and looks for the source in the listing; all that
\* follows it is included, and the last of the listing is the target.
Incremental ==
    /\ pc = "incremental" /\ Settled
    /\ IF plan.source \in exist /\ plan.source # Max(exist)
       THEN /\ plan' = [plan EXCEPT !.included = {s \in exist : s >= plan.source}]
            /\ pc' = "send"
            /\ UNCHANGED <<entry, next, releasing>>
       ELSE Proceed
    /\ UNCHANGED <<snaps, bucket>>

\* zfs send starts if it finds both ends of the stream, in one file system.
Sendable ==
    /\ Target \in exist
    /\ plan.source # 0 => plan.source \in exist /\ (plan.source \in below <=> Target \in below)

Send ==
    /\ pc = "send" /\ Settled
    /\ IF Sendable
       THEN /\ \E n \in 1 .. MaxVolumes : plan' = [plan EXCEPT !.size = n]
            /\ pc' = "stream"
            /\ UNCHANGED <<entry, next, releasing>>
       ELSE Proceed
    /\ UNCHANGED <<snaps, bucket>>

\* Mutant: the target is released, too.
ReleaseTarget ==
    /\ pc = "stream"
    /\ releasing' = releasing \cup (plan.included \X Release[entry])
    /\ pc' = "release"
    /\ UNCHANGED <<snaps, bucket, entry, plan, next>>

\* The whole output of zfs send has been read, but not the end of the pipe:
\* the completion function runs first.
StreamEnds ==
    /\ pc = "stream"
    /\ releasing' = releasing \cup ((plan.included \ {Target}) \X Release[entry])
    /\ pc' = "release"
    /\ UNCHANGED <<snaps, bucket, entry, plan, next>>

ReleaseSnapshot ==
    /\ \E h \in releasing :
          /\ \/ holds' = [holds EXCEPT ![h[1]] = @ \ {h[2]}]
             \/ "release" \in Faults /\ UNCHANGED holds
          /\ releasing' = releasing \ {h}
    /\ UNCHANGED <<created, below, exist, holding, bucket, sender>>

\* The completion function has tried its releases; those of earlier entries may
\* still go on.
ReadEOF ==
    /\ pc = "release"
    /\ releasing \cap ((plan.included \ {Target}) \X Release[entry]) = {}
    /\ pc' = "complete"
    /\ UNCHANGED <<snaps, bucket, entry, plan, next, releasing>>

\* A call fails and the next entry is tried; releases that have begun go on.
CallFails ==
    /\ pc \in {"refresh", "incremental", "send", "stream", "release", "complete"}
    /\ "call" \in Faults
    /\ Proceed
    /\ UNCHANGED <<snaps, bucket>>

Put(f, key, value) == [k \in DOMAIN f \cup {key} |-> IF k = key THEN value ELSE f[k]]

\* Mutants: the last volume is left out; contents under the next number.
PublishShort ==
    /\ pc = "complete"
    /\ volumes' = [volumes EXCEPT ![entry] =
                     Put(@, <<plan.archive, next>>,
                         [source |-> plan.source, target |-> Target, size |-> plan.size])]
    /\ next' = next + 1
    /\ pc' = IF next' + 1 >= plan.size THEN "contents" ELSE "complete"
    /\ UNCHANGED <<snaps, contents, entry, plan, releasing>>
PutContentsAhead ==
    /\ pc = "contents"
    /\ contents' = [contents EXCEPT ![entry] = Put(@, plan.archive + 1, plan.included)]
    /\ Proceed
    /\ UNCHANGED <<snaps, volumes>>

\* The next volume becomes an object.
Publish ==
    /\ pc = "complete"
    /\ volumes' = [volumes EXCEPT ![entry] =
                     Put(@, <<plan.archive, next>>,
                         [source |-> plan.source, target |-> Target, size |-> plan.size])]
    /\ next' = next + 1
    /\ pc' = IF next' = plan.size THEN "contents" ELSE "complete"
    /\ UNCHANGED <<snaps, contents, entry, plan, releasing>>

PutContents ==
    /\ pc = "contents"
    /\ contents' = [contents EXCEPT ![entry] = Put(@, plan.archive, plan.included)]
    /\ Proceed
    /\ UNCHANGED <<snaps, volumes>>

PutContentsFails ==
    /\ pc = "contents" /\ "contents" \in Faults
    /\ Proceed
    /\ UNCHANGED <<snaps, bucket>>

(* The process dies, and the next run starts from the buckets.             *)
Crash ==
    /\ pc # "idle" /\ "crash" \in Faults
    /\ pc' = "idle" /\ entry' = 0 /\ plan' = NoPlan /\ next' = 0
    /\ releasing' = {}
    /\ UNCHANGED <<snaps, bucket>>

Snap   == CreateSnapshot \/ HoldSnapshot
Sender == \/ Start \/ Refresh \/ Incremental \/ Send \/ StreamEnds \/ ReadEOF
          \/ CallFails \/ Publish \/ PutContents \/ PutContentsFails
Next   == Snap \/ Destroy \/ Sender \/ ReleaseSnapshot \/ Crash

Spec == Init /\ [][Next]_vars

(* The timers start both programs over and over, and their calls return.   *)
FairSpec == Spec /\ WF_vars(Snap) /\ WF_vars(Sender) /\ WF_vars(ReleaseSnapshot)

-----------------------------------------------------------------------------
(* Properties.                                                             *)

\* Type invariant.
TypeOK ==
    /\ created \in 0 .. MaxSnapshots
    /\ exist \subseteq 1 .. created /\ below \subseteq 1 .. created
    /\ holds \in [Ids -> SUBSET Tags]
    /\ holding \subseteq Ids \X Tags
    /\ DOMAIN volumes = Destinations /\ DOMAIN contents = Destinations
    /\ \A d \in Destinations :
          /\ DOMAIN volumes[d] \subseteq Nat \X Nat
          /\ volumes[d] \in [DOMAIN volumes[d] -> [source : 0 .. created, target : 1 .. created,
                                                  size : 1 .. MaxVolumes]]
          /\ contents[d] \in [DOMAIN contents[d] -> (SUBSET (1 .. created)) \ {{}}]
    /\ pc \in {"idle", "refresh", "incremental", "send", "stream", "release", "complete",
               "contents"}
    /\ entry \in 0 .. Cardinality(Destinations)
    /\ releasing \subseteq Ids \X Tags
    /\ plan \in [archive : Nat, source : 0 .. created, included : SUBSET (1 .. created),
                 size : 0 .. MaxVolumes]
    /\ next \in 0 .. MaxVolumes

\* The volumes of an archive.
Volumes(d, a) == {k \in DOMAIN volumes[d] : k[1] = a}

\* An archive that has contents can be received: its volumes are those of one
\* stream, to the last snapshot of the contents (which may be one of a file system
\* below, as the listing goes), and none of them is missing.
Restorable ==
    \A d \in Destinations : \A a \in DOMAIN contents[d] :
        \E v \in {volumes[d][k] : k \in Volumes(d, a)} :
            /\ v.target = Max(contents[d][a])
            /\ Volumes(d, a) = {a} \X (0 .. v.size - 1)
            /\ \A k \in Volumes(d, a) : volumes[d][k] = v

\* Wherever a run fails or dies, the catalogue of the next one verifies.
AlwaysVerifies == \A d \in Destinations : Verified(d)

\* The chain of a destination: its archives that have contents.
Replicated ==
    [d \in Destinations |->
        [a \in 1 .. Cardinality(DOMAIN contents[d]) |->
            [source |-> volumes[d][<<a - 1, 0>>].source,
             target |-> volumes[d][<<a - 1, 0>>].target]]]

R == INSTANCE Replica WITH chain <- Replicated, Snapshots <- Ids

\* Every archive continues the one before it, whatever has failed between, as long as
\* runs of snapr --send do not overlap.
ImplementsReplica == R!Spec

\* The snapshot the next send to a destination starts from.
Base(d) == Max(contents[d][Cardinality(DOMAIN contents[d]) - 1])

\* The destination is being sent the stream that replaces its base.
Superseding(d) == entry = d /\ pc \in {"release", "complete", "contents"}

\* The hold on the target of a send keeps it for the next incremental send:
\* pruning never takes the base of a destination that still depends on it.
BaseKept ==
    \A d \in Destinations :
        contents[d] # <<>> /\ ~Superseding(d) => Base(d) \in exist

\* When a destination has archives, its next run sends an incremental stream:
\* it finds contents to start from.
NextContinues ==
    pc = "idle" => \A d \in Destinations :
        DOMAIN volumes[d] # {} => Cardinality(Archives(d)) - 1 \in DOMAIN contents[d]

\* No object is ever written a second time, as long as runs of snapr --send do not
\* overlap.
WriteOnce ==
    [][\A d \in Destinations :
          /\ \A k \in DOMAIN volumes[d] : volumes'[d][k] = volumes[d][k]
          /\ \A a \in DOMAIN contents[d] : contents'[d][a] = contents[d][a]]_bucket

\* Whatever releases are still going on from runs that failed, the newest
\* snapshot keeps its holds until there is a newer one to send.
NewestKeepsHolds == [][\A s \in Ids : s = created => holds[s] \subseteq holds'[s]]_holds

\* The last archive of a destination goes up to the newest snapshot.
UpToDate(d) == contents[d] # <<>> /\ Base(d) = Max(exist)

\* Every destination comes up to the newest snapshot, and stays there when no more
\* are made, as runs of snapr --send follow one another.
AllCatchUp ==
    <>[](created = MaxSnapshots /\ \A d \in Destinations \ Down : UpToDate(d))

\* They do, whichever other destinations cannot be reached, as long as no file system
\* below has snapshots: one at the end of the listing would be the target.
CatchesUp == [](below = {}) => AllCatchUp
-----------------------------------------------------------------------------
(* The inductive invariant, for file systems the catalogue recognises.     *)

\* The archives of a destination that have contents.
Whole(d) == Cardinality(DOMAIN contents[d])

\* Where an archive starts: at the last snapshot of the contents before it.
Source(d, a) == IF a = 0 THEN 0 ELSE Max(contents[d][a - 1])

\* The volumes of every archive are numbered from 0 and of one stream; all are
\* there of an archive that has contents, and one archive more may have begun.
Numbered(d) ==
    /\ Whole(d) \in Nat /\ DOMAIN contents[d] = 0 .. Whole(d) - 1
    /\ \A k \in DOMAIN volumes[d] :
          /\ k[1] <= Whole(d) /\ k[2] < volumes[d][k].size
          /\ \A j \in 0 .. k[2] : /\ <<k[1], j>> \in DOMAIN volumes[d]
                                 /\ volumes[d][<<k[1], j>>] = volumes[d][k]
    /\ \A a \in DOMAIN contents[d] :
          /\ <<a, 0>> \in DOMAIN volumes[d]
          /\ volumes[d][<<a, 0>>].source = Source(d, a)
          /\ volumes[d][<<a, 0>>].target = Max(contents[d][a])
          /\ \A j \in 0 .. volumes[d][<<a, 0>>].size - 1 : <<a, j>> \in DOMAIN volumes[d]

Stored == [source |-> plan.source, target |-> Target, size |-> plan.size]

\* What is being sent continues the last archive with contents, and nothing of
\* it is in the bucket but the volumes published so far.
Planned ==
    LET a == Whole(entry)
    IN  /\ plan.archive = a /\ plan.source = Source(entry, a)
        /\ pc # "incremental" => plan.included # {} /\ plan.source < Target
        /\ pc \in {"stream", "release", "complete", "contents"} => plan.size > 0
        /\ \A k \in DOMAIN volumes[entry] :
              k[1] = a => k[2] < next /\ volumes[entry][k] = Stored
        /\ \A j \in 0 .. next - 1 : <<a, j>> \in DOMAIN volumes[entry]

\* Volumes are counted while they are published, and only then.
Counted ==
    /\ pc = "idle" <=> entry = 0
    /\ pc = "complete" => next < plan.size
    /\ pc = "contents" => next = plan.size
    /\ pc \notin {"complete", "contents"} => next = 0

Invariant ==
    /\ TypeOK
    /\ Counted
    /\ \A d \in Destinations : Numbered(d)
    /\ pc \notin {"idle", "refresh"} => Planned

(* What else is inductive, given that.                                     *)

\* What is released is older than the newest snapshot.
ReleasesOld == \A h \in releasing : h[1] < created

\* No archive is left without contents: as long as no run fails after its first
\* volume.
Tidy ==
    \A d \in Destinations :
        \/ entry = d /\ pc \in {"complete", "contents"}
        \/ \A k \in DOMAIN volumes[d] : k[1] # Whole(d)

\* The oldest snapshot a destination still needs, once it is being sent the
\* next or before.
Needed(d) == IF Superseding(d) THEN Target ELSE Source(d, Whole(d))

\* From there on all snapshots exist, and have a tag or are about to get it,
\* and it is not released: as long as the tag is that of this destination.
Guarded(d, tag) ==
    /\ \A s \in 1 .. created :
          s >= Needed(d) => s \in exist /\ (tag \in holds[s] \/ <<s, tag>> \in holding)
    /\ \A h \in releasing : h[2] = tag => h[1] < Needed(d)
=============================================================================
