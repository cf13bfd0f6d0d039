------------------------------- MODULE Upload -------------------------------
(***************************************************************************)
(* The multi-part upload of one ZFS stream (internal/snapr/upload.go).     *)
(*                                                                         *)
(* The main goroutine (Send) reads the stream into a fixed pool of         *)
(* requests, one per thread, and queues each filled request for the        *)
(* workers (takeRequests), which upload it as one part and hand it back    *)
(* with the response.  The stream is cut into volumes, one S3 object each. *)
(* When the stream ends the main goroutine waits for the workers, collects *)
(* the last responses and completes the volumes one after the other; when  *)
(* something fails it aborts them.                                         *)
(*                                                                         *)
(* Bytes are counted, not stored: the bytes [from, upto) of the stream are *)
(* a block.  A running hash is the sequence of the blocks written to it.   *)
(* The order inside the two channels is abstracted: any queued request may *)
(* be received next.  Volume v here is volume v - 1 of the code.           *)
(***************************************************************************)
EXTENDS Integers, Sequences, FiniteSets, Functions

CONSTANTS Requests,     \* the requests of the pool, one per thread
          PartSize,     \* capacity of a request's buffer
          VolumeSize,   \* most bytes a volume may hold
          Lengths,      \* the lengths the stream may have
          Faults        \* what the environment may do wrong

(***************************************************************************)
(* "create", "part", "complete" and "abort" let that S3 call fail for good *)
(* (its retries are used up), "lost" lets a call that fails have been      *)
(* carried out by S3, "cut" and "empty" are answers to a create whose body *)
(* breaks off or is missing, "straggler" lets S3 keep a part that is under *)
(* way while its upload is aborted, "source" is a failing zfs send and     *)
(* "cancel" a signal.                                                      *)
(***************************************************************************)
FaultKinds == {"create", "part", "complete", "abort", "lost", "cut", "empty",
               "straggler", "source", "cancel"}

ASSUME UploadAssumption ==
    /\ Requests # {} /\ IsFiniteSet(Requests)
    /\ PartSize \in Nat \ {0}
    /\ VolumeSize \in Nat \ {0}
    /\ Lengths \subseteq Nat
    /\ Faults \subseteq FaultKinds

VARIABLES pc,          \* where Send is
          at,          \* where each request is
          request,     \* what each request holds
          alive,       \* workers that have not returned an error
          cancelled,   \* the context of the program is cancelled
          length,      \* the length of the stream
          total,       \* bytes read so far (progress.bytes)
          volumes,     \* the volumes, as the program knows them
          uploads,     \* their uploads, as S3 knows them
          completed,   \* volumes the completing loop is past
          aborted,     \* volumes the aborting loop is past
          orphan       \* S3 keeps an upload whose identifier never arrived

vars == <<pc, at, request, alive, cancelled, length, total, volumes, uploads,
          completed, aborted, orphan>>
main == <<length, cancelled, alive>>   \* what the main goroutine only reads

Block   == [from : Nat, upto : Nat]
Part    == [number : Nat, tag : Block]
Nothing == [from |-> 0, upto |-> 0]
NoPart  == [number |-> 0, tag |-> Nothing]

Threads == Cardinality(Requests)

-----------------------------------------------------------------------------
(* The pieces the actions are made of.                                     *)

min(a, b) == IF a > b THEN b ELSE a

Rest == length - total

\* Mutant: the size of volumes is ignored.
RoomOfPart == PartSize

\* Room for the next part in the last volume (volume).
Room == min(PartSize, VolumeSize - volumes[Len(volumes)].bytes)

\* Mutant: a worker's error does not end the context.
OnlyCancelled == cancelled

\* The context the workers share is done: cancelled, or a worker failed.
ContextDone == cancelled \/ alive < Threads

\* Mutant: the response is kept with the volume being read.
readResponseLast(r) ==
    volumes' = IF request[r].response = NoPart
               THEN volumes
               ELSE [volumes EXCEPT ![Len(volumes)].parts = Append(@, request[r].response)]

\* The parts a volume will be completed with gain the response r came back with.
readResponse(r) ==
    volumes' = IF request[r].response = NoPart
               THEN volumes
               ELSE [volumes EXCEPT ![request[r].volume].parts =
                                    Append(@, request[r].response)]

\* The next n bytes of the stream become the next part of the last volume.
enqueue(r, n) ==
    LET v     == Len(volumes)
        block == [from |-> total, upto |-> total + n]
    IN  /\ request' = [request EXCEPT ![r] =
                          [volume   |-> v,
                           part     |-> Len(volumes[v].hash) + 1,
                           buffer   |-> block,
                           response |-> NoPart]]
        /\ volumes' = [volumes EXCEPT ![v] =
                          [bytes |-> @.bytes + n,
                           hash  |-> Append(@.hash, block),
                           parts |-> @.parts]]
        /\ total' = total + n
        /\ at' = [at EXCEPT ![r] = "pending"]

newVolume ==
    /\ volumes' = Append(volumes, [bytes |-> 0, hash |-> <<>>, parts |-> <<>>])
    /\ uploads' = Append(uploads, [state |-> "open", parts |-> {}])

\* S3 stores a part, in place of one that had its number.
Stored(parts, part) == {p \in parts : p.number # part.number} \cup {part}

\* Mutant: in the order they came back.
Unsorted(parts) == {parts}

\* The parts in the order the completing request lists them.
Sorts(parts) ==
    {[i \in DOMAIN parts |-> parts[p[i]]] :
        p \in {q \in Bijection(DOMAIN parts, DOMAIN parts) :
                  \A i, j \in DOMAIN parts :
                      i < j => parts[q[i]].number <= parts[q[j]].number}}

\* S3 accepts a list of stored parts in ascending order, and not an empty one.
Acceptable(list, upload) ==
    /\ upload.state = "open"
    /\ list # <<>>
    /\ \A i, j \in DOMAIN list : i < j => list[i].number < list[j].number
    /\ Range(list) \subseteq upload.parts

-----------------------------------------------------------------------------
Init ==
    /\ pc = "new"
    /\ at = [r \in Requests |-> "free"]
    /\ request = [r \in Requests |-> [volume |-> 0, part |-> 0,
                                      buffer |-> Nothing, response |-> NoPart]]
    /\ alive = Threads
    /\ cancelled = FALSE
    /\ length \in Lengths
    /\ total = 0
    /\ volumes = <<>>
    /\ uploads = <<>>
    /\ completed = 0
    /\ aborted = 0
    /\ orphan = FALSE

CreateFails == "create" \in Faults \/ cancelled

\* If only the answer to a create is lost there is an upload nobody knows of.
CreateLost == orphan' \in {orphan, "lost" \in Faults \/ orphan}

(* newUpload creates the first volume; there is no upload without it. *)
NewUpload ==
    /\ pc = "new"
    /\ ~cancelled
    /\ newVolume
    /\ pc' = "select"
    /\ UNCHANGED <<main, at, request, total, completed, aborted, orphan>>

NewUploadFails ==
    /\ pc = "new"
    /\ \/ CreateFails /\ CreateLost
       \/ "cut" \in Faults /\ ~cancelled /\ orphan' \in {orphan, TRUE}
       \/ "empty" \in Faults /\ ~cancelled /\ orphan' = TRUE
    /\ pc' = "failed"
    /\ UNCHANGED <<main, at, request, total, volumes, uploads, completed, aborted>>

(* read: a request from the free channel, its response kept, ...           *)
Take(r) ==
    /\ pc = "select"
    /\ at[r] = "free"
    /\ at' = [at EXCEPT ![r] = "held"]
    /\ readResponse(r)
    /\ pc' = IF Room = 0 THEN "roll" ELSE "fill"
    /\ UNCHANGED <<main, request, total, uploads, completed, aborted, orphan>>

(* ... or the end of the context.                                          *)
Cancelled ==
    /\ pc = "select"
    /\ ContextDone
    /\ pc' = "abort"
    /\ UNCHANGED <<main, at, request, total, volumes, uploads, completed, aborted, orphan>>

(* volume: the last volume is full, a new one is created.                  *)
Roll ==
    /\ pc = "roll"
    /\ ~cancelled
    /\ newVolume
    /\ pc' = "fill"
    /\ UNCHANGED <<main, at, request, total, completed, aborted, orphan>>

\* Mutant: the volume is there although it could not be created.
RollAnyway ==
    /\ pc = "roll"
    /\ CreateFails
    /\ pc' = "abort"
    /\ volumes' = Append(volumes, [bytes |-> 0, hash |-> <<>>, parts |-> <<>>])
    /\ UNCHANGED <<main, at, request, total, uploads, completed, aborted, orphan>>

RollFails ==
    /\ pc = "roll"
    /\ CreateFails /\ CreateLost
    /\ pc' = "abort"
    /\ UNCHANGED <<main, at, request, total, volumes, uploads, completed, aborted>>

(* The body of the answer breaks off: reading it returns ErrUnexpectedEOF, *)
(* which Send takes for a short read of the stream.  It goes on, without   *)
(* the request it took.                                                    *)
RollCut(r) ==
    /\ pc = "roll"
    /\ at[r] = "held"
    /\ "cut" \in Faults /\ ~cancelled
    /\ orphan' \in {orphan, TRUE}
    /\ at' = [at EXCEPT ![r] = "out"]
    /\ pc' = "select"
    /\ UNCHANGED <<main, request, total, volumes, uploads, completed, aborted>>

(* The body of the answer is empty: parsing it returns EOF, which Send     *)
(* takes for the end of the stream.                                        *)
RollEmpty ==
    /\ pc = "roll"
    /\ "empty" \in Faults /\ ~cancelled
    /\ orphan' = TRUE
    /\ pc' = "wait"
    /\ UNCHANGED <<main, at, request, total, volumes, uploads, completed, aborted>>

(* ReadFull fills the buffer, or reads what is left of the stream.         *)
Read(r) ==
    /\ pc = "fill"
    /\ at[r] = "held"
    /\ Rest > 0
    /\ enqueue(r, min(Room, Rest))
    /\ pc' = "select"
    /\ UNCHANGED <<main, uploads, completed, aborted, orphan>>

ReadEOF ==
    /\ pc = "fill"
    /\ Rest = 0
    /\ pc' = "wait"
    /\ UNCHANGED <<main, at, request, total, volumes, uploads, completed, aborted, orphan>>

\* Mutant: an error ends the stream.
ReadErrorEnds(r) ==
    /\ pc = "fill"
    /\ at[r] = "held"
    /\ "source" \in Faults
    /\ pc' = "wait"
    /\ UNCHANGED <<main, at, request, total, volumes, uploads, completed, aborted, orphan>>

(* The stream fails after n bytes, which are queued all the same.          *)
ReadError(r) ==
    /\ pc = "fill"
    /\ at[r] = "held"
    /\ "source" \in Faults
    /\ \/ \E n \in 1 .. min(Room - 1, Rest) : enqueue(r, n)
       \/ UNCHANGED <<at, request, total, volumes>>
    /\ pc' = "abort"
    /\ UNCHANGED <<main, uploads, completed, aborted, orphan>>

-----------------------------------------------------------------------------
(* The workers (takeRequests).                                             *)

InFlight == {r \in Requests : at[r] = "flight"}

Dequeue(r) ==
    /\ at[r] = "pending"
    /\ Cardinality(InFlight) < alive
    /\ at' = [at EXCEPT ![r] = "flight"]
    /\ UNCHANGED <<pc, request, main, total, volumes, uploads, completed, aborted, orphan>>

Upload(r) == uploads[request[r].volume]

\* The part a request holds, under the tag S3 gives it.
NewPart(r) == [number |-> request[r].part, tag |-> request[r].buffer]

Store(r) ==
    uploads' = [uploads EXCEPT ![request[r].volume].parts = Stored(@, NewPart(r))]

UploadPart(r) ==
    /\ at[r] = "flight"
    /\ ~cancelled
    /\ Upload(r).state = "open" \/ NewPart(r) \in Upload(r).parts
    /\ Store(r)
    /\ request' = [request EXCEPT ![r].response = NewPart(r)]
    /\ at' = [at EXCEPT ![r] = "free"]
    /\ UNCHANGED <<pc, main, total, volumes, completed, aborted, orphan>>

\* Mutant: the worker tries again, whatever the error.
UploadPartAgain(r) ==
    /\ at[r] = "flight"
    /\ "part" \in Faults \/ cancelled \/ Upload(r).state # "open"
    /\ UNCHANGED vars

UploadPartFails(r) ==
    /\ at[r] = "flight"
    /\ "part" \in Faults \/ cancelled \/ Upload(r).state # "open"
    /\ \/ UNCHANGED uploads
       \/ Upload(r).state = "open" /\ "lost" \in Faults /\ Store(r)
    /\ alive' = alive - 1
    /\ at' = [at EXCEPT ![r] = "out"]
    /\ UNCHANGED <<pc, request, length, cancelled, total, volumes, completed, aborted, orphan>>

-----------------------------------------------------------------------------
(* Send after the stream has ended.                                        *)

(* eg.Wait returns when every worker has failed or has found the channel   *)
(* closed and empty.                                                       *)
Wait ==
    /\ pc = "wait"
    /\ InFlight = {}
    /\ alive = 0 \/ \A r \in Requests : at[r] # "pending"
    /\ pc' = IF alive < Threads THEN "abort" ELSE "collect"
    /\ UNCHANGED <<main, at, request, total, volumes, uploads, completed, aborted, orphan>>

Collect(r) ==
    /\ pc = "collect"
    /\ at[r] = "free"
    /\ at' = [at EXCEPT ![r] = "out"]
    /\ readResponse(r)
    /\ UNCHANGED <<pc, main, request, total, uploads, completed, aborted, orphan>>

Collected ==
    /\ pc = "collect"
    /\ \A r \in Requests : at[r] # "free"
    /\ pc' = "complete"
    /\ UNCHANGED <<main, at, request, total, volumes, uploads, completed, aborted, orphan>>

\* Mutant: the answer is not looked at.
CompleteUnchecked(v) ==
    LET lists == {l \in Sorts(volumes[v].parts) : Acceptable(l, uploads[v])}
    IN  uploads' \in {uploads} \cup
            {[uploads EXCEPT ![v] = [state |-> "object", parts |-> Range(l)]] : l \in lists}

\* S3 turns the upload of volume v into an object.
CompleteMultipartUpload(v) ==
    \E list \in Sorts(volumes[v].parts) :
        /\ Acceptable(list, uploads[v])
        /\ uploads' = [uploads EXCEPT ![v] =
                           [state |-> "object", parts |-> Range(list)]]

Complete ==
    /\ pc = "complete"
    /\ ~cancelled
    /\ CompleteMultipartUpload(completed + 1)
    /\ completed' = completed + 1
    /\ pc' = IF completed' = Len(volumes) THEN "sent" ELSE "complete"
    /\ UNCHANGED <<main, at, request, total, volumes, aborted, orphan>>

Refused(v) == \A list \in Sorts(volumes[v].parts) : ~Acceptable(list, uploads[v])

(* A volume that cannot be completed ends Send at once: nothing is aborted. *)
CompleteFails ==
    /\ pc = "complete"
    /\ "complete" \in Faults \/ cancelled \/ Refused(completed + 1)
    /\ \/ UNCHANGED uploads
       \/ "lost" \in Faults /\ CompleteMultipartUpload(completed + 1)
    /\ pc' = "failed"
    /\ UNCHANGED <<main, at, request, total, volumes, completed, aborted, orphan>>

\* S3 throws away an upload and its parts, but may keep those under way.
AbortMultipartUpload(v) ==
    /\ uploads[v].state = "open"
    /\ \E late \in SUBSET {NewPart(r) : r \in {q \in InFlight : request[q].volume = v}} :
          /\ late = {} \/ "straggler" \in Faults
          /\ uploads' = [uploads EXCEPT ![v] = [state |-> "aborted", parts |-> late]]

\* Mutant: only the first volume is aborted.
AbortFirst ==
    /\ pc = "abort"
    /\ AbortMultipartUpload(aborted + 1)
    /\ aborted' = aborted + 1
    /\ pc' = "failed"
    /\ UNCHANGED <<main, at, request, total, volumes, completed, orphan>>

(* abort: one volume after the other, under a context of its own.          *)
Abort ==
    /\ pc = "abort"
    /\ AbortMultipartUpload(aborted + 1)
    /\ aborted' = aborted + 1
    /\ pc' = IF aborted' = Len(volumes) THEN "failed" ELSE "abort"
    /\ UNCHANGED <<main, at, request, total, volumes, completed, orphan>>

AbortFails ==
    /\ pc = "abort"
    /\ "abort" \in Faults \/ uploads[aborted + 1].state # "open"
    /\ \/ UNCHANGED uploads
       \/ "lost" \in Faults /\ AbortMultipartUpload(aborted + 1)
    /\ pc' = "failed"
    /\ UNCHANGED <<main, at, request, total, volumes, completed, aborted, orphan>>

-----------------------------------------------------------------------------
(* SIGINT or SIGTERM cancels the context of the program.                   *)
Cancel ==
    /\ "cancel" \in Faults
    /\ ~cancelled
    /\ pc \notin {"sent", "failed"}
    /\ cancelled' = TRUE
    /\ UNCHANGED <<pc, at, request, alive, length, total, volumes, uploads,
                   completed, aborted, orphan>>

(* Send has returned and the workers have nothing left to do.              *)
Returned ==
    /\ pc \in {"sent", "failed"}
    /\ InFlight = {}
    /\ alive = 0 \/ \A r \in Requests : at[r] # "pending"
    /\ UNCHANGED vars

Main ==
    \/ NewUpload \/ NewUploadFails
    \/ Cancelled
    \/ Roll \/ RollFails \/ RollEmpty
    \/ ReadEOF
    \/ Wait \/ Collected
    \/ Complete \/ CompleteFails
    \/ Abort \/ AbortFails
    \/ \E r \in Requests : \/ Take(r) \/ RollCut(r) \/ Read(r) \/ ReadError(r)
                           \/ Collect(r)

Worker(r) == Dequeue(r) \/ UploadPart(r) \/ UploadPartFails(r)

Next == Main \/ Cancel \/ Returned \/ \E r \in Requests : Worker(r)

Spec == Init /\ [][Next]_vars

(* Every call the two kinds of goroutine make returns: S3 calls have a     *)
(* timeout and a bounded number of retries, and the stream ends.           *)
FairSpec ==
    /\ Spec
    /\ WF_vars(Main)
    /\ \A r \in Requests : WF_vars(Worker(r))

-----------------------------------------------------------------------------
(* Properties.                                                             *)

Places == {"free", "held", "pending", "flight", "out"}

Request  == [volume : Nat, part : Nat, buffer : Block, response : Part]
Volume   == [bytes : Nat, hash : Seq(Block), parts : Seq(Part)]
S3Upload == [state : {"open", "aborted", "object"}, parts : SUBSET Part]

\* Type invariant: the shape of the state of an upload.
TypeOK ==
    /\ pc \in {"new", "select", "roll", "fill", "wait", "collect", "complete",
               "abort", "sent", "failed"}
    /\ at \in [Requests -> Places]
    /\ request \in [Requests -> Request]
    /\ alive \in Int
    /\ cancelled \in BOOLEAN
    /\ length \in Nat
    /\ total \in Nat
    /\ volumes \in Seq(Volume)
    /\ uploads \in Seq(S3Upload)
    /\ Len(uploads) = Len(volumes)
    /\ completed \in Nat
    /\ aborted \in Nat
    /\ orphan \in BOOLEAN

\* The parts of a volume whose blocks were hashed in the order of h.
Written(h) == {[number |-> n, tag |-> h[n]] : n \in DOMAIN h}

\* Whatever the order in which the workers upload the parts and the reader
\* takes their responses, an object S3 assembles holds every block that was
\* read for its volume, at its place, and nothing else.
ObjectIntact ==
    \A v \in DOMAIN uploads :
        uploads[v].state = "object" => uploads[v].parts = Written(volumes[v].hash)

\* The blocks of the volumes follow one another and stop at the byte total.
Adjacent ==
    \A v \in DOMAIN volumes : \A n \in DOMAIN volumes[v].hash :
        LET h == volumes[v].hash
        IN  h[n].upto = IF n < Len(h) THEN h[n + 1].from
                        ELSE IF v < Len(volumes) /\ volumes[v + 1].hash # <<>>
                        THEN volumes[v + 1].hash[1].from
                        ELSE total

SomeObject == \E v \in DOMAIN uploads : uploads[v].state = "object"

\* No object becomes visible before the whole stream has been read, and then
\* the volumes hold every byte of it once: a reader that fails, workers that
\* fail or a signal never publish the beginning of a stream.
PublishedOnlyWhole ==
    SomeObject =>
        /\ total = length
        /\ volumes[1].hash # <<>> /\ volumes[1].hash[1].from = 0
        /\ Adjacent

\* Send reports success only when every volume has become an object.
SentIsStored ==
    pc = "sent" => \A v \in DOMAIN uploads : uploads[v].state = "object"

\* "Interim files will be removed if there's an error" (the comment of Send):
\* once Send has failed and its workers are idle, S3 keeps no upload of the stream
\* and no part of one.  It does if a volume cannot be completed, or a signal comes
\* when they are being completed: Send returns without aborting any.
FailureLeavesNothing ==
    pc = "failed" /\ InFlight = {} =>
        /\ ~orphan
        /\ \A v \in DOMAIN uploads :
              uploads[v].state = "aborted" /\ uploads[v].parts = {}

\* A Send that gives up before it completes its volumes aborts all of them, those
\* whose parts the workers are still uploading too, and nothing these do later
\* brings an upload or a part back.
AbortLeavesNothing ==
    pc = "failed" /\ aborted > 0 =>
        \A v \in DOMAIN uploads :
            uploads[v].state = "aborted" /\ uploads[v].parts = {}

\* S3 has no reason to refuse a volume when its turn comes, unless it is empty:
\* all of its parts are stored, and listed in ascending order whatever the order
\* they came back in.
ListsAccepted ==
    pc = "complete" /\ volumes[completed + 1].hash # <<>> => ~Refused(completed + 1)

\* The archive as its reader sees it: the visible objects and the outcome.
Extent(v) == LET h == volumes[v].hash
             IN  [from |-> h[1].from, upto |-> h[Len(h)].upto]

Published == IF completed < Len(uploads) /\ uploads[completed + 1].state = "object"
             THEN completed + 1
             ELSE completed

A == INSTANCE Archive WITH
        objects <- [v \in 1 .. Published |-> Extent(v)],
        outcome <- IF pc \in {"sent", "failed"} THEN pc ELSE "sending"

\* An upload implements an archive: its objects appear in order, each holds
\* the next VolumeSize bytes, and it reports success only with the last one.
ImplementsArchive == A!Spec

\* When nothing goes wrong in the environment the stream is sent.
NeverFails == pc # "failed"

\* Send returns: the pool never runs dry while a worker is left, and nobody
\* waits for a worker that has gone.
Terminates == <>(pc \in {"sent", "failed"})

\* The workers of a failed Send drain the queue or give up; none is left
\* behind with a request.
WorkersStop ==
    (pc = "failed") ~> (InFlight = {} /\ (alive = 0 \/ \A r \in Requests : at[r] # "pending"))

-----------------------------------------------------------------------------
(* The inductive invariant, in four layers.                                *)

\* The control state fits the last volume.
Shape ==
    /\ TypeOK
    /\ pc \notin {"new", "failed"} => volumes # <<>>
    /\ \A v \in DOMAIN volumes : volumes[v].bytes <= VolumeSize
    /\ pc = "roll" => volumes[Len(volumes)].bytes = VolumeSize
    /\ pc = "fill" => volumes[Len(volumes)].bytes < VolumeSize

\* A part has been queued and its response has not been taken.
Outstanding(r) ==
    \/ at[r] \in {"pending", "flight"}
    \/ at[r] = "free" /\ request[r].response # NoPart

\* What an outstanding request holds is the part it says it is.
Loaded(r) ==
    /\ request[r].volume \in DOMAIN volumes
    /\ NewPart(r) \in Written(volumes[request[r].volume].hash)

\* A response that waits to be taken is that of the part S3 has stored.
Answered(r) ==
    at[r] = "free" /\ request[r].response # NoPart =>
        /\ request[r].response = NewPart(r)
        /\ Upload(r).state = "open" => NewPart(r) \in Upload(r).parts

\* A volume lists parts it was written, each once, all stored while it is open.
Listed(v) ==
    LET parts == volumes[v].parts
    IN  \A i \in DOMAIN parts :
            /\ parts[i] \in Written(volumes[v].hash)
            /\ uploads[v].state = "open" => parts[i] \in uploads[v].parts
            /\ \A j \in DOMAIN parts : parts[i].number = parts[j].number => i = j
            /\ \A r \in Requests : Outstanding(r) /\ request[r].volume = v =>
                                      parts[i].number # request[r].part

\* As long as no worker has failed every part is outstanding or listed.
Accounted(v) ==
    \A n \in DOMAIN volumes[v].hash :
        \/ \E i \in DOMAIN volumes[v].parts : volumes[v].parts[i].number = n
        \/ \E r \in Requests : /\ Outstanding(r)
                               /\ request[r].volume = v
                               /\ request[r].part = n

\* No two outstanding requests hold the same part.
Distinct ==
    \A r, q \in Requests :
        /\ Outstanding(r) /\ Outstanding(q)
        /\ request[r].volume = request[q].volume
        /\ request[r].part = request[q].part
        => r = q

\* When the responses are collected every worker has done its work.
Settled ==
    /\ alive <= Threads
    /\ pc \in {"collect", "complete", "sent"} =>
          alive = Threads /\ \A r \in Requests : at[r] \notin {"pending", "flight"}
    /\ pc \in {"complete", "sent"} => \A r \in Requests : at[r] # "free"

\* An object holds its volume, and nothing changes it any more.
Sealed(v) ==
    uploads[v].state = "object" =>
        /\ pc \in {"complete", "sent", "failed"}
        /\ \A r \in Requests : ~Outstanding(r)
        /\ uploads[v].parts = Written(volumes[v].hash)
        /\ volumes[v].hash # <<>>

Delivery ==
    /\ Settled
    /\ Distinct
    /\ \A r \in Requests : Outstanding(r) => Loaded(r) /\ Answered(r)
    /\ \A v \in DOMAIN volumes :
          /\ uploads[v].parts \subseteq Written(volumes[v].hash)
          /\ Listed(v)
          /\ alive = Threads => Accounted(v)
          /\ Sealed(v)

\* The bytes of a volume are those of its blocks, which are not empty.
Counted(v) ==
    LET h == volumes[v].hash
    IN  IF h = <<>> THEN volumes[v].bytes = 0
                    ELSE /\ volumes[v].bytes = h[Len(h)].upto - h[1].from
                         /\ volumes[v].bytes > 0

\* The volumes are full up to the last one, and their blocks one chain from 0.
Linked ==
    /\ volumes = <<>> => total = 0
    /\ volumes # <<>> => IF volumes[1].hash = <<>> THEN total = 0
                                                  ELSE volumes[1].hash[1].from = 0
    /\ \A v \in DOMAIN volumes :
          /\ Counted(v)
          /\ v < Len(volumes) => volumes[v].bytes = VolumeSize
    /\ Adjacent

\* Nothing is published before all of the stream has been read, and the last
\* volume is empty only if the stream has ended.
Tally ==
    /\ total <= length
    /\ pc \in {"wait", "collect", "complete"} =>
          total = length \/ volumes[Len(volumes)].hash # <<>>
    /\ /\ "empty" \notin Faults
       /\ pc \in {"wait", "collect", "complete", "sent"} \/ SomeObject
       => total = length

\* How far the completing and the aborting loops have come.
Loops ==
    /\ pc = "new" => volumes = <<>>
    /\ completed <= Len(volumes)
    /\ pc = "complete" => completed < Len(volumes)
    /\ pc = "sent" => completed = Len(volumes)
    /\ pc \notin {"complete", "sent", "failed"} => completed = 0
    /\ pc \notin {"abort", "failed"} => aborted = 0
    /\ pc = "abort" => aborted < Len(volumes)
    /\ \A v \in DOMAIN uploads :
          /\ v <= completed => uploads[v].state = "object"
          /\ uploads[v].state = "object" =>
                v <= completed \/ (v = completed + 1 /\ pc = "failed")

Chain == Linked /\ Tally /\ Loops

\* No stream ends exactly with a volume: S3 would be given an empty one.
EndsInside == \A n \in Lengths : \A k \in 0 .. n : n # k * VolumeSize

\* What is aborted, and when.  A Send that has begun to abort has aborted all of its
\* uploads when it returns; one that fails has begun to, unless a signal came when it
\* was completing them, or S3 failed it then.
Cleanup ==
    /\ \A v \in DOMAIN uploads : uploads[v].state = "aborted" =>
          /\ pc \in {"abort", "failed"}
          /\ "straggler" \notin Faults => uploads[v].parts = {}
    /\ pc = "abort" => \A v \in DOMAIN uploads :
          uploads[v].state = IF v <= aborted THEN "aborted" ELSE "open"
    /\ pc = "failed" /\ EndsInside /\ Faults \cap {"complete", "abort"} = {} =>
          \/ cancelled /\ aborted = 0
          \/ \A v \in DOMAIN uploads : uploads[v].state = "aborted"
    /\ pc = "failed" /\ aborted > 0 /\ "abort" \notin Faults =>
          \A v \in DOMAIN uploads : uploads[v].state = "aborted"

\* The inductive invariant: every part that was read is on its way, or listed
\* and stored, the parts are one chain from the beginning of the stream, and
\* what was given up is aborted.
Invariant == Shape /\ length \in Lengths /\ Delivery /\ Chain /\ Cleanup
=============================================================================
