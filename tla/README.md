# snapr in TLA+

snapr creates ZFS snapshots, sends them as streams to S3 compatible storage and
restores them. This directory models what it does in TLA+, checks the models
with TLC on small instances, and proves with TLAPS, for all instances, every safety
property the runs check and every refinement. Paths are relative to the repository;
`internal/` is left out where it is clear.

## The system

| Component | State | Operations | Talks to |
|---|---|---|---|
| **Upload** `snapr/upload.go` | volumes with their parts and byte counts, the pool of requests in two channels (`free`, `pending`), the group of workers | `newUpload`, `Send`, `read`, `volume`, `enqueue`, `takeRequests`, `readResponse`, `complete`, `Fail`, `abort` | reads a pipe, calls stow |
| **stow, multi-part** `stow/upload.go` | none (S3 keeps the uploads) | create, upload part, complete, abort | S3 |
| **stow, objects** `stow/objects.go`, `buckets.go` | none | put, get, list with pagination | S3 |
| **stow, operations** `stow/stow.go`, `retry.go`, `forwarder.go`, `errors.go` | retries left, per call | `doOperation`, `retry`, the forwarder with its timeout | HTTP |
| **stow, authentication** `stow/auth.go`, `settings.go` | none | signatures, options | |
| **Stream** `zed/send.go` | the process, the pipe, the goroutine's error | `Send`, `run`, `Wait` | `zfs send`, a completion function |
| **zed commands** `zed/components.go`, `address.go` | none (ZFS keeps snapshots and holds) | list, create, hold, release | `zfs` |
| **Remote** `snapr/remote.go` | the catalogue of one bucket, read once | `refresh`, `incremental`, `full`, `send`, `putContents`, `restore` | Stream, Upload, stow |
| **Catalogue** `snapr/remote.go` | archive and volume numbers of each file system | `load`, `add`, `verify` | |
| **Sender** `snapr/sender.go` | none | `Send`: every entry of every file system, failures logged | Remote |
| **Snapper** `snapr/snapper.go` | none | `snap`, `nextSnap`, `expired` | zed commands |
| **Restorer** `snapr/restorer.go`, `zed/receive.go` | none | `restore`, `restoreVolume`, `download` | Remote, `zfs receive` |
| **Program** `cmd/snapr/main.go`, `snapr/settings.go` | the context, cancelled by a signal | choice of snap, send or restore | all |

Three things outlive a run of the program: snapshots with their holds (ZFS), and
the objects and open uploads in the buckets (S3). There is no other state on disk.
`snapr --snap` and `snapr --send` are started by timers (`src/init`) and may run at
the same time.

One send runs these in parallel: the `zfs send` process; the goroutine of the
stream, which copies its output into a pipe without a buffer and releases holds at the
end; the reader, which cuts what it reads into parts and volumes; and one
worker per request of the pool, which uploads parts. A signal cancels the context
of all of them.

### What is hard

* **Interleaving.** Workers answer in any order, for volumes the reader has long
  left; the pool shrinks as they fail; reader and workers wait for each other.
* **Endings.** A process that fails looks to `io.Copy` like one that ends. The
  end of the pipe, the exit status, the releases and the end of the upload must
  come in one order. Errors of S3 run through the same path as those of the stream.
* **Partial failure.** Volumes are completed one by one, then the contents are
  written. Any call may fail, or be carried out and its answer lost.
* **Crashes.** The next run has only the keys of the bucket to go by.
* **Holds.** They must keep the base of the next incremental send of each
  destination while another program prunes.
* **Attempts.** A request is sent again when its answer does not come; the earlier one
  may still be carried out, and time passes that a signature does not have.
* **Stale listings.** Buckets are listed in pages while a send writes to them; snapshots
  are listed, judged by times without seconds, and created in three steps that nothing
  ties together.

### What makes each part correct

* Upload: objects are intact and in order; nothing is visible of a stream that
  failed; success means stored; an upload that is given up is cleared away; `Send`
  returns.
* Stream: only the whole output of a successful process becomes an archive; holds
  are released after it was read and never on the target; success means that nothing
  is left to do; failure leaves nothing running.
* Replication: an archive with contents can be received and continues the one
  before; nothing is written twice; the catalogue verifies after every crash; the
  base of the next send exists; destinations catch up, whichever others cannot be
  reached.
* Calls of S3: success means carried out; errors that may pass are retried as often as
  promised, others not; no request is sent with an old signature; a call returns.
* Restore: archives are received in order, each whole before the next; success means
  that all of them were; the restore ends wherever one of its parts stops.
* Snapper: snapshots are numbered in order and spaced by their interval, and none is
  late for longer than a period of the timer.

## The modules

| Module | What it is |
|---|---|
| `Archive` | abstract: the objects of one archive appear in order, each the next `VolumeSize` bytes, and it is sent with the last of them |
| `Upload` | `snapr/upload.go` on `stow/upload.go`, down to each step of the reader and the workers; implements `Archive` |
| `UploadProofs` | the theorems about `Upload` |
| `Stream` | `zed/send.go` and `remote.send`: process, goroutine, pipe and sender; the upload in it is an instance of `Archive` |
| `StreamProofs` | the theorems about `Stream` |
| `Replica` | abstract: the chain of archives of each destination, which only grows |
| `Replication` | snapper, pruning, sender and buckets over many runs; implements `Replica` |
| `ReplicationProofs` | the theorems about `Replication` |
| `Call` | abstract: what is promised of one call of S3 |
| `Operation` | `stow/stow.go`, `retry.go`, `forwarder.go`: one call, its attempts, S3 and the network; implements `Call` |
| `OperationProofs` | the theorems about `Operation` |
| `Catalogue` | `load`, `add` and `verify` of `remote.go` as operators on keys |
| `CatalogueProofs` | the theorems about `load` and `verify` |
| `Restore` | `snapr/restorer.go`, `remote.restore`, `zed/receive.go`, and the listing of `stow/objects.go`; uses `Catalogue` |
| `RestoreProofs` | the theorems about `Restore` |
| `Snapper` | `snapr/snapper.go` with the commands of `zed/components.go`, over time and with overlapping runs |
| `SnapperProofs` | the theorems about `Snapper` |
| `SetLemmas` | lemmas about finite sets of numbers that several proofs use |
| `MCUpload`, `MCStream`, `MCReplication`, `MCRestore`, `MCSnapper` | instances for TLC (`Operation` needs none) |

The definitions whose comment begins with "Mutant" stand before the definition
they are a broken form of; nothing uses them. They exist to show that each property
notices a bug in the code it is about.

### Upload

`pc` is where `Send` is: `select` is the `select` of `read`, `roll` a call of
`newVolume` for a full volume, `fill` the `ReadFull`, `wait` is `eg.Wait`, `collect`
the loop over `free`, then `complete`, `abort` and the two ways to return. `at` says
where each request is: in a channel (`free`, `pending`), with the reader
(`held`), with a worker (`flight`) or lost to all of them (`out`: its worker has failed,
or `Send` has collected it). A worker that gets an error returns and takes its
request with it, so workers are counted (`alive`) and not named; `Send` reads
the context they share as `ContextDone`.

Bytes are counted. A block is the interval of the stream a buffer holds; a hash
is the sequence of the blocks written to it; the tag of a part is its block. That
is enough to tell a part that is missing, doubled or in the wrong place. The order in
the two channels is abstracted: any queued request may come next.

`uploads` is S3's side: it stores a part in place of one of that number, accepts a
list to complete if it is not empty, ascending and of stored parts, and forgets
an upload when it has been completed or aborted. `orphan` says that S3 keeps an upload
whose identifier never arrived, since the answer to the create was lost, cut off or empty
(`CreateLost`). Each action that makes a call has the ways it can fail: refused for good,
carried out with the answer lost (`lost`), the answer cut off or empty.

### Stream

The stream is counted in chunks, the standard output of the process holds a few.
`copier` is the goroutine of `run`; `send` is `remote.send`. `CopyWrite` is a
rendezvous, since `io.Pipe` has no buffer: it hands a chunk over only while the upload
reads. `Close` is the deferred `in.Close`, which comes after the completion function. The
upload is `U == INSTANCE Archive` over what has been read so far, which `Upload` has
been shown to implement for a stream that does not end exactly with a volume
(`EndsInside`; `ArchivesTheOutput` says no more of the two together); it may fail at any
moment. A killed command's `Wait` may or
may not report the cancelled context: both are allowed.

### Replication

Snapshots are numbered; the listing is the set of those that exist. As it is recursive
(`zed/components.go:124`) it has those of a file system below as well (`below`): the last
of the listing is the target, of whichever file system, and a stream goes from a source to
a target of one (`Sendable`). A destination in `Down` cannot be listed. `Refresh`,
`Incremental` and `Send` are the calls of `remote.refresh` with the listing read anew
in each, so that snapshots may be created, held and destroyed between them. `Stream`
and `Upload` are reduced to what survives them: releases begin when the
output has been read (`StreamEnds`), go on in the background if the sender has
failed meanwhile (`releasing`), and those of a send end before its pipe does (`ReadEOF`);
volumes are published in order, then the contents. `Crash` may happen anywhere. Pruning
takes snapshots that nothing holds and no running `zfs send` uses.

One `snapr --send` runs at a time, as a timer starts it (`src/init`). Nothing in the code
keeps one started by hand from running beside it: two would write the same keys, and
neither `WriteOnce` nor `ImplementsReplica` is claimed of them.

### Operation

One call of stow from the first request to the body of the answer. `form`, `wait`,
`retry`, `sleep` and `read` are the places `doOperation` and its caller can be at.
Time is counted in ticks, and only `spent` (of the timeout of the client) and `age` (of
the signature) read it. An attempt that is given up leaves its request on the network
(`late`), where S3 may carry it out after the next attempt or after the call. The kind
of an operation says what a second execution does: the same again (putting an
object or a part), an error (completing, aborting), or one more upload (creating).

`Upload`, `Stream`, `Replication` and `Restore` have one action for a call and one for
each way it can end; `Call` is what entitles them to that: a call that succeeds was
carried out, one that fails may have been. That it may be carried out
after it has failed is the fault `"straggler"` of `Upload`.

### Catalogue and Restore

`Catalogue` has the maps of maps as functions of functions. A key is what `splitPath`
makes of it; `Contents` stands for the names it does not recognise. `load` is a recursive
function over the listing, `add` one step of it.

`Restore` has four parts that run at once for an archive: the main goroutine (`pc`), which
downloads ranges and writes them to the pipe; the copier os/exec starts, since the
standard input is not a file; the `zfs receive` process; and the goroutine of
`restoreVolume`, which waits for both. `Write` to the pipe is a rendezvous, so `chunk`
is what the copier has not yet read of it. The copier drops what it has when the
process is gone, and os/exec does not report that (`EPIPE`).
Keys are ordered by file system, archive and volume (`Before`), as S3 lists them; a file
system is a number, its place in the order of the names. `ListObjects` takes the next `PageSize`
keys after those it has. The bucket may have lost any volumes before, holds keys of other file
systems that would not verify, and a `snapr --send` may add keys to it, in their
order, between the pages of the listing and later. A byte is the archive, the volume and
the offset it comes from, and `After` is the byte that follows it in what `zfs send` made. `zfs receive` ends well exactly with the stream of the archive it
was started for, and fails on another or on one that breaks off.

### Snapper

Time is counted in ticks, `Minute` to the minute, and `Printed` cuts a creation time as
`zfs list` prints it. A run is at `list`, `holds`, `create` or `hold` of an
entry; each step is a command of zfs, or the last of several that only read, and
everything else happens between them. The names are a
prefix, a dash and a number, and a prefix the sequence of the pieces it is spelled with, the
dash being one of them: `expired` compares the beginning of names (`Begins`), and `nextSnap`
takes the number after the prefix and a dash wherever these end a name (`Numbers`), so that
`bidaily-00007` counts for `daily`. `strings.Split` looks for the leftmost of two
occurrences that overlap; a prefix that overlaps itself is not modelled. `since` is a
history variable:
when an entry last had a snapshot, or the timer's run gave it up with an error; it is
what `Current` counts from. Pruning spares the newest snapshot of an entry, and
intervals are longer than a run and a minute (`SnapperAssumption`).

## The runs

| Run | Instance | Shows |
|---|---|---|
| `upload_faults` | 3 requests, parts of 2, volumes of 5, streams of 1 and 8; all faults but an empty answer | `ObjectIntact`, `PublishedOnlyWhole`, `SentIsStored`, `ListsAccepted`, `ImplementsArchive`; the inductive invariant of the proofs |
| `upload_returns` | 3 requests, volumes of 3, streams of 1, 4 and 7, fair; all faults but a refused abort, parts stored late and answers that break off | `AbortLeavesNothing`, `Terminates`, `WorkersStop` |
| `stream_faults` | 5 chunks in volumes of 2, 3 snapshots, 3 tags of which 2 are released, fair; all faults (releases fail after a signal) | `PublishedOnlyComplete`, `ContentsAreLast`, `ReleasedAfterRead`, `OkIsOver`, `OkReleases`, `ArchivesTheOutput`, `Returns`, `NothingLeftRunning`; the inductive invariant of the proofs |
| `replication_faults` | 2 destinations with a tag they share, 3 snapshots, up to 2 volumes; all faults but `"release"` and `"below"` | `Restorable`, `AlwaysVerifies`, `ImplementsReplica`, `WriteOnce`, `NewestKeepsHolds`; the inductive invariant of the proofs |
| `replication_steady` | 2 destinations with a tag each and between them one that cannot be listed, 3 snapshots, fair; pruning, failing releases, snapshots of a file system below | `BaseKept`, `NextContinues`, `CatchesUp` |
| `operation_retries` | 3 retries, timeout of 2 ticks, signatures of 3, fair; all kinds, all faults | `GivesUpLast`, `NeverStale`, `ImplementsCall`, `Returns`; the inductive invariant of the proofs |
| `restore_faults` | archives of 2, 1 and 1 volumes between two other file systems, ranges and pages of 2, fair; all faults and losses | `InOrder`, `OkIsAll`, `ListingVerifies`, `Returns`; the inductive invariant of the proofs |
| `snapper_runs` | 2 entries of 7 and 3 ticks, 2 ticks to the minute, 7 moments, a run of the timer and one by hand; failing commands, dying runs, pruning | `Spaced`, `Current`; the inductive invariants of the proofs |

The other four runs, `upload_leftovers`, `replication_released`, `replication_wedged` and
`snapper_child`, each find a counterexample (next section).

**Bounds.** Volumes of 5 with parts of 2 hold three parts, the last of them short,
volumes of 3 two. 8 bytes are five parts, so that those of the second volume
are queued while those of the first are still under way; 7 bytes in volumes of 3 need a
third volume, so that there is one between the first and the last to complete or
abort; one byte is a stream that ends inside the first part. With three requests two
responses can be out of order while the reader fills a third.
Five chunks are three volumes, the last of them not full, plus the moments before, between
and after them; the output buffer of two fills up. Three included snapshots have a source,
one in between and a target. Three snapshots make a chain of up to three archives with
failures between them, and two volumes an archive of which only the first was completed.
Two destinations with one tag are the most that releases of one entry can do to another.
Requests are symmetric; the liveness runs use no symmetry.
Three retries are four attempts (the code makes 121, `stow/settings.go:84-91`); a signature that is
valid for longer than one timeout and shorter than two tells attempts that are signed
anew from those that are not. Three archives have a first, a middle and
a last; a volume of three bytes takes two ranges, the last of them short, and the listing of
seven keys of its own and one of each neighbour up to five pages. Six ticks are two intervals of the short entry, so that a
second snapshot becomes due while two runs overlap, and more than `Current` allows between
two of it; the long entry is due with it in the first run.

**Fairness.** `Upload!FairSpec` is weakly fair to the reader and to every worker:
each call of stow ends, as every HTTP request has a timeout of ten minutes
(`stow/forwarder.go:18`) and a bounded number of retries (`stow/retry.go:44`), the Go
scheduler runs every goroutine, and the stream ends. `Stream!FairSpec` is weakly
fair to the process, to the goroutine and to the sender for the same reasons.
`Replication!FairSpec` is weakly fair to the program as a whole: the timers start
it over and over. No fault is fair, and `CatchesUp` is checked where nothing
fails but releases and every listing of one bucket. `Operation!FairSpec` is weakly fair to the client and to time, not to S3 or the
network: `Returns` rests on the timeout of the client. `Restore!FairSpec` is weakly
fair to the goroutines, to the copier and to `zfs receive` once it has all of the stream or can
get no more of it. `Snapper` assumes no fairness: what must happen is stated with a bound
on the time (`Current`), under a timer that is punctual and runs that take at most `Stall`
ticks, which are conjuncts of `Tick`. Its time ends at `MaxTime`, so its runs do
not check for deadlock; all others do.

## What the runs found

Each is a run that violates what a comment or the README of the repository says.

1. `upload_leftovers` A volume that cannot be completed ends `Send` without an abort
   (`upload.go:121`), unlike its other errors: what is not completed stays. A
   signal is enough, as it makes every complete fail that comes after it.
2. `replication_released` Holds are released when the stream has been read
   (`zed/send.go:98`), before the volumes are completed; if that fails the base of
   the destination is not held any more.
3. `replication_wedged` An archive without contents stops its destination for good
   (`remote.go:137-141`).
4. `snapper_child` `expired` (`snapper.go:115`) does not look at the file system of a
   snapshot, and the listing is recursive (`zed/components.go:124`): a young snapshot of a
   child keeps its parent from one of the same prefix. With intervals of a day this
   delays the parent by what lies between the two, over and over.

The same models show more when a constant is changed:

* `MCUpload_leftovers` with `"complete"` or `"abort"` for `"cancel"`: `FailureLeavesNothing`
  fails if S3 refuses either, and with `"create"` and `"lost"` if the answer to a create is
  lost, as S3 then keeps an upload `Send` cannot name (`stow/upload.go:164-180`). With none
  of them it holds.
* `MCUpload_returns` with `Lengths = {6}` and no faults: a stream whose length is a
  multiple of the volume size gets an empty last volume (`upload.go:196-202`), which S3
  refuses to complete, and `NeverFails` (`Upload`) fails.
* `MCUpload_returns` with `Lengths = {5}`, the fault `"empty"` and `PublishedOnlyWhole`: an empty answer to the
  creation of a volume is an `io.EOF`, which `Send` takes for the end of the stream
  (`upload.go:98`); a truncated archive is published and reported as sent, and
  `PublishedOnlyWhole` fails.
* `MCUpload_returns` with the fault `"cut"` and two requests: an answer to a create that
  breaks off is an `io.ErrUnexpectedEOF`, which is taken for a short read and loses a
  request (`upload.go:100`); with all of them lost `Send` hangs and `Terminates`
  fails.
* `MCUpload_returns` with `"straggler"`: after a read error the volumes are aborted
  while workers still upload (`upload.go:101-102`); a part S3 stores after that stays, and
  `AbortLeavesNothing` fails. It fails with `"abort"`, too: `abort` stops at the first volume
  S3 refuses to abort and leaves the ones after it (`upload.go:142`).
* `MCReplication_steady` with `AllCatchUp` for `CatchesUp`: the newest snapshot of the listing
  is of a file system below. A full send archives that one; an incremental one has no stream
  from its source to it, and `zfs send` fails in every run until the newest is one of its own
  again (`remote.go:172`, `181`).
* `MCReplication_steady` with `Release <- Shared`, `Hold <- HoldOne`, `Down = {}`: destinations that
  release the same tag release each other's base, and `BaseKept` fails.
* `MCReplication_steady` with `Hold <- HoldSome`, `Release <- One`, `Down = {}`: as in the settings the
  README begins with, the `hourly` snapshots have no hold, and `BaseKept` fails. So it does with
  `"window"`, a snapshot sent before it is held, and with `"hold"`, one that never is.
* `MCReplication_faults` with `Nested = TRUE` and no faults: keys of `pool/a/b`
  are not recognised (`remote.go:17`), every send is full and goes over archive 0, and
  `WriteOnce` fails.
* `MCSnapper_runs` with the fault `"newest"`: after the newest snapshot was pruned, one of
  two overlapping runs decides by a listing in which it is still there and the other by one
  in which it is not, so two numbers are created at once, and `Spaced` fails.
* `MCSnapper_runs` with an entry of prefix `<<"hourly", "-", "x">>` and interval 3 in place of `<<"daily">>`: a
  snapshot of it counts for `<<"hourly">>` (`snapper.go:116`), and `Current` fails.
* `MCSnapper_runs` with `<<"bi", "daily">>` in place of `<<"hourly">>` and interval 6 for
  `<<"daily">>`: the number of a snapshot
  of `bidaily` counts for `daily` (`snapper.go:92`), so that of two overlapping runs the one
  that has listed it and the one that has not create a snapshot of `daily` each, and
  `Spaced` fails.

Some consequences of the code that no property contradicts are worth knowing. A send
releases its tags from every listed snapshot but the last (`remote.go:190`), those of
file systems below too, which may have destinations of their own that need them. A restore
from a bucket without keys it recognises restores nothing and succeeds. When volumes
are missing at the end of the last archive, nothing is noticed until `zfs receive`
has been given all that is left of it; with an archive missing at the end of the chain
nothing is noticed at all (`OkIsAll` speaks of archives that had a volume). The range
answers of S3 are taken to have a `Content-Range`: without one `End` and `Size` are 0
(`remote.go:114`). With a timeout of ten minutes
per attempt and 121 attempts (`stow/settings.go:84-91`), "retried for 10 minutes" (`CHANGELOG.md:11`)
holds of calls S3 refuses at once and is about twenty hours for one it does not answer.

Properties that hold are checked outside of these: `AbortLeavesNothing` where
aborting works, `CatchesUp` where no file system below has snapshots, `ListsAccepted` for volumes that are not
empty, `BaseKept` for a tag per destination and held snapshots, and so on.

## The proofs

Every invariant, action property and refinement of the runs above is a theorem, for every
value of the constants the named assumption of its module allows. A theorem that needs more
than that says so, and the table says why: most of these hypotheses exclude the cases
in which a run or one of the experiments above finds the property violated.

| Theorem | Property | Needs |
|---|---|---|
| `UploadProofs`: `Invariance`, `ObjectsIntact`, `SuccessIsStored`, `ListsComplete` | `Invariant` (with types), `ObjectIntact`, `SentIsStored`, `ListsAccepted` | |
| `OnlyWholeStreams` | `PublishedOnlyWhole` | no `"empty"`: an empty answer is taken for the end of the stream |
| `Implements` | `ImplementsArchive` | no `"empty"`; `EndsInside`: a stream that ends exactly with a volume gives S3 an empty one |
| `AbortClears` | `AbortLeavesNothing` | no `"abort"` or `"straggler"`: S3 aborts what it is asked to, and keeps no part after that |
| `StreamProofs`: `StreamInvariant`, `PublishedComplete`, `ContentsLast`, `ReleasedLate`, `OkOver`, `Implements` | `Invariant` (with types), `PublishedOnlyComplete`, `ContentsAreLast`, `ReleasedAfterRead`, `OkIsOver`, `ArchivesTheOutput` | |
| `OkFrees` | `OkReleases` | no `"release"`: a release that fails is not reported (the property is checked where only a signal makes one fail) |
| `ReplicationProofs`: `Invariance`, `ContentsRestorable`, `WrittenOnce`, `Continuous` | `Invariant` (with types), `Restorable`, `WriteOnce`, `ImplementsReplica` | not `Nested`: else every send goes over archive 0 |
| `Verifies`, `NewestHeld` | `AlwaysVerifies`, `NewestKeepsHolds` | |
| `Continues` | `NextContinues` | not `Nested`; no `"call"`, `"contents"`, `"crash"`: see `replication_wedged` |
| `BaseHeld` | `BaseKept` | not `Nested`; only `"release"`, `"destroy"` and `"below"`; a tag for each destination that every snapshot is held with and no other destination releases. Any other fault added to `replication_steady` violates it, as does a shared tag; `Nested` does not, but is not proved |
| `OperationProofs`: `Invariance`, `Persistent`, `Fresh`, `Carried` | `Invariant` (with types), `GivesUpLast`, `NeverStale`, `ImplementsCall` | |
| `CatalogueProofs`: `LoadIs`, `VerifyIs`, `VerifiedNoGap`, `GapFreeVerifies` | | |
| `RestoreProofs`: `Invariance`, `ReceivedInOrder`, `SuccessIsAll`, `WholeVerifies` | `Invariant` (with types), `InOrder`, `OkIsAll`, `ListingVerifies` | |
| `SnapperProofs`: `Invariance` | types, `Sound` runs, distinct names | |
| `EntriesCurrent` | `Current` | `AgesApart`: no snapshot of an entry counts for another, see `snapper_child` |
| `SnapshotsSpaced` | `Spaced` | `NumbersApart`: no number of an entry is read from a name of another; no `"newest"`: pruning spares the newest |
| `Inductively` | `Inductive` | the three of the two above |

None of the properties is inductive. The invariants that are stand at the end of the
modules they are about, as state predicates, and a run checks each (`Invariant`,
`Inductive`). The proofs are by action; an action with several effects has a lemma that
states them once.

### Upload

The invariant has four layers, each proved with the help of the ones before:

* `Shape`: types, and that the reader is at `roll` exactly when the last volume is
  full, so that the room for a part is never zero or negative.
* `Delivery`: a part that was queued is *outstanding* (queued, in flight or answered and
  not taken) or *listed* with its volume, never both, and while no worker has failed
  one of the two (`Accounted`). Requests hold the part they claim, answers are of
  stored parts, and lists have no number twice. So a list of a volume that S3 accepts is
  the list of all of its parts: with that `Sealed` says what objects hold.
* `Chain`: the blocks of the volumes are one chain from 0 to the bytes read
  (`Linked`); everything was read when the reader waits and when something is
  visible (`Tally`); the loops that complete and abort go in order (`Loops`).
* `Cleanup`: an upload is aborted only after a failure, in order; a `Send` that has begun
  to abort has aborted all when it returns, and one that fails has begun to, unless that was
  in completing. `AbortClears` is the last of its parts, with the first: what is aborted has no
  parts, since S3 refuses those that come later.

For `ListsComplete` the sorted list has to ascend, which is a fact about any sequence of
different numbers; a volume that is not empty has parts, and when its turn comes none is
outstanding. In `Implements` the volumes that are objects are the first ones
(`FirstVisible`), so that the next to become one is the next of the archive.

### Stream

`Conveyed` counts the chunks on their way (left, in the output, in the goroutine's hands,
read), so that a goroutine that completes without an error implies that all of them were
read; `Signalled` says that the reader's end of the pipe is the verdict of the goroutine and
that releases come between the two; `Stepwise` ties the sender to both; `Freed` ties the
holds to the releases that were tried. Hence `EOFIsComplete`, on which most theorems
rest: an end of the pipe that is not an error has the whole output of a successful
process behind it. It turns a step of the upload of what was read into one of an upload of
everything, which is the refinement. `ReleasedBeforeTarget` is the arithmetic of the
release list.

### Replication

`Numbered` is about a bucket: the archives with contents are 0 to `Whole` less one, each with
all its volumes, which agree on the stream they are of; that stream begins where the
one before ends and ends with the newest snapshot of its contents; and there is at most one
more archive, without contents, whose volumes have no gap. `Planned` is about a send: it goes on from there, and
no volume of it lies beyond `next`. `Counted` ties the place of the sender to both. A crash leaves
`Planned` and keeps `Numbered`, which is why the next run can start from the bucket alone.

Two properties need more, each an invariant of its own relative to this one: `Tidy`, no
archive is left without contents; and `Guarded`, from the oldest
snapshot a destination still needs on all exist and have its tag, or are about to get it.
`ReleasesOld` says that what is still being released is older than the newest snapshot; for a
name the catalogue does not recognise, where `Numbered` fails, `Unknown` says it: every send is then full.

### Operation

`Counted` ties the attempts to the retries that are left at each place of the call,
which the bound of `GivesUpLast` does not say by itself; `Awaited` says that an answer is
that of the attempt the client is waiting for, that the signature is as old as the attempt,
and that an answer of success has its effect behind it, whatever late requests do.

### Catalogue

`LoadIs` says what a listing is loaded as: every key that is recognised at its place, and
nothing else. `VerifiedNoGap` says what `verify` accepts: numbers 0, 1, ... without a
gap. The code only looks for as many numbers as there are; `CountedIsAll` is the step from
there (a finite set that contains 0 to its size less one contains nothing else). `VerifyIs`
says what it returns, and `GapFreeVerifies` is the converse for `ListingVerifies`.
`load` is recursive; what it computes is proved without induction over data: the least
length at which the claim fails would be one more than one at which it holds (`Least`
of `SetLemmas`).

### Restore

* `Ordered`: what is written has all before it, and what is listed all of that which is not
  lost. Keys are written in the order of a listing, so all that sorts before a listed key
  was in the bucket when its page was made: that is why
  pages beside a send make no gap, and why an archive that had a volume has one listed.
* `Planned`: the keys to restore are each at its number, by `VerifyIs`, for every
  archive that had one.
* `Settled`: between two archives nothing of a receive is left, and when the goroutine
  has reported success the process has.
* `Taken`: `zfs receive` has taken the archives before the current one, and that one
  exactly if it has succeeded.
* `Continued`: what is in the process, the copier and the chunk, one after the other
  (`Flow`), begins the stream of the archive, and the next range goes on with the byte
  that follows.

### Snapper

`Sound` says what a run may have missed: what it has not seen was created since
it began. `Agreed` says that runs that overlap and will create a snapshot have chosen
numbers so that whichever comes first makes the other fail or leaves it right; `Spaced` is
kept by that. `Timely` bounds the age of every entry by where the timer's run is: `since` of
an entry that is still ahead may be a period older.

### What is only model-checked

Liveness (`Terminates`, `WorkersStop`, `Returns`, `NothingLeftRunning`, `CatchesUp`): the
prover has no rules for fairness of an action, which rests on ENABLED.


## What is not modelled

* Signatures as functions of a request, request formats, parsing of XML, JSON, settings and
  the output of `zfs`: pure functions. Where their failure matters (empty and
  cut answers) it is a fault.
* `UploadPartCopy`, bucket operations, bookmarks, properties: nothing in snapr calls
  them.
* Time zones: creation times are parsed as local time (`zed/components.go:146`), and an hour
  that a clock repeats has two meanings. Time in `Snapper` is one line.
* Two `snapr --send` at once, and `zfs list` of a file system whose children have
  destinations of their own: the loop of `sender.Send` over file systems is
  sequential, and their objects are disjoint, but the snapshots and holds of nested ones
  are not. `Replication` has the file system below as snapshots in the listing only.
* Progress, hashes for display, logging.
* Contents of the stream: blocks stand for them; S3 and ZFS are taken to keep what they
  acknowledged, but for the losses of `Restore`.
* In `Upload` and `Stream`, more than one file system: each send is of one.

## Plan

Done, in this order: `Archive`, `Upload`, its invariants and theorems; `Stream`
over `Archive`, its invariant, theorems and refinement; `Replica`, `Replication`; `Call`,
`Operation` and its theorems; `Catalogue`, `Restore`; `Snapper`; the theorems about
`Replication`, `Snapper`, the catalogue and `Restore`, and the refinement of
`Archive` by `Upload`.

What a next step could add: destinations of nested file systems that share snapshots; two
senders at once; a refinement that makes `Stream` one send of `Replication`; the answers of S3 without a
`Content-Range` (`remote.go:114`).
