------------------------------ MODULE Restore -------------------------------
(***************************************************************************)
(* snapr --restore: the bucket is listed, the catalogue verified, and one  *)
(* archive after the other is downloaded by ranges and given to a zfs      *)
(* receive of its own.                                                     *)
(*                                                                         *)
(* Three things run at once for an archive: the main goroutine downloads   *)
(* and writes to an io.Pipe; the copier os/exec starts reads that pipe and *)
(* writes the standard input of the process; and a goroutine waits for the *)
(* process and the copier.  A snapr --send may go on in the same bucket,   *)
(* and objects may have been lost from it before.                          *)
(***************************************************************************)
EXTENDS Catalogue, SequencesExt

CONSTANTS FileSystem,   \* the file system to restore
          Sizes,        \* of the volumes of each archive it has or gets
          Neighbours,   \* the keys of other file systems in the bucket
          PartSize,     \* of a range
          PageSize,     \* of a page of a listing
          Faults        \* what the environment may do

(***************************************************************************)
(* "settings" stands for a file system without a send entry, "call" for a  *)
(* call of S3 that fails, "receive" for a zfs receive that breaks off,     *)
(* "cancel" for a signal, "lost" for volumes that are missing and "send"   *)
(* for a snapr --send beside the restore.                                  *)
(*                                                                         *)
(* File systems are numbers, in the order of their names.  Names of        *)
(* volumes have five digits (padNumber).                                   *)
(***************************************************************************)
ASSUME RestoreAssumption ==
    /\ Sizes \in Seq(Seq(Nat \ {0}))
    /\ \A a \in DOMAIN Sizes : Sizes[a] # <<>> /\ Len(Sizes[a]) <= Contents
    /\ FileSystem \in Nat
    /\ IsFiniteSet(Neighbours)
    /\ Neighbours \subseteq [fs : Nat \ {FileSystem}, archive : Nat, volume : Nat]
    /\ PartSize \in Nat \ {0} /\ PageSize \in Nat \ {0}
    /\ Faults \subseteq {"settings", "call", "receive", "cancel", "lost", "send"}

VARIABLES written,    \* the keys a send has written
          lost,       \* keys that are missing
          had,        \* archives that had a volume at the start
          pc, error,
          listing,    \* keys listed so far
          paths,      \* the keys to restore, by archive and volume
          archive, volume,   \* being restored, from 0 and from 1
          position,   \* of the range asked for
          end,        \* of the range in the answer
          chunk,      \* what Write has left to write
          pipe,       \* "open", "eof", "error" (writer) or "broken" (reader)
          copier,     \* "reading", "writing" or "done"
          buffer,     \* of the copier
          process,    \* "running", "ok" or "failed"
          fed,        \* what zfs receive has been given
          received,   \* archives it has taken
          goroutine,  \* "running", "ok" or "failed"
          cancelled

bucket   == <<written, lost, had>>
catalog  == <<listing, paths>>
download == <<archive, volume, position, end>>
receive  == <<process, fed, received>>
control  == <<pc, error>>
vars     == <<bucket, control, catalog, download, chunk, pipe, copier, buffer, receive,
              goroutine, cancelled>>

Key(a, v) == [fs |-> FileSystem, archive |-> a, volume |-> v]
Archives  == 0 .. Len(Sizes) - 1

\* The sizes of the volumes of an archive, which are numbered from 0.
Volume(a) == 0 .. Len(Sizes[a + 1]) - 1
Size(key) == Sizes[key.archive + 1][key.volume + 1]

Volumes == UNION {{Key(a, v) : v \in Volume(a)} : a \in Archives}
Own     == Volumes \cup {Key(a, Contents) : a \in Archives}

\* The order of a listing, and that in which snapr --send writes the keys.
Before(k, l) ==
    \/ k.fs < l.fs
    \/ k.fs = l.fs /\ k.archive < l.archive
    \/ k.fs = l.fs /\ k.archive = l.archive /\ k.volume < l.volume
Prior(k) == {l \in Own : Before(l, k)}

\* The bytes of a range of a volume.
Bytes(key, from, to) == [n \in 1 .. to - from + 1 |-> <<key.archive, key.volume, from + n - 1>>]

Byte == Nat \X Nat \X Nat

\* The byte that follows one in the stream zfs send made of its archive.
End == <<>>
After(byte) ==
    LET a == byte[1]  v == byte[2]  n == byte[3]
    IN  IF n + 1 < Sizes[a + 1][v + 1] THEN <<a, v, n + 1>>
        ELSE IF v + 1 \in Volume(a) THEN <<a, v + 1, 0>>
        ELSE End

\* The beginning of the stream of an archive, or all of it.
Begins(s, a) ==
    /\ s # <<>> => s[1] = <<a, 0, 0>>
    /\ \A i \in 1 .. Len(s) - 1 : s[i + 1] = After(s[i])
IsStream(s, a) == Begins(s, a) /\ s # <<>> /\ After(s[Len(s)]) = End

-----------------------------------------------------------------------------
Init ==
    /\ written \in {w \in SUBSET Own : /\ "send" \in Faults \/ w = Own
                                      /\ \A k \in w : Prior(k) \subseteq w}
    /\ lost \in {l \in SUBSET Volumes : "lost" \in Faults \/ l = {}}
    /\ had = {k.archive : k \in (written \cap Volumes) \ lost}
    /\ pc = "start" /\ error = "none"
    /\ listing = <<>> /\ paths = <<>>
    /\ archive = 0 /\ volume = 1 /\ position = 0 /\ end = 0
    /\ chunk = <<>> /\ pipe = "eof"
    /\ copier = "done" /\ buffer = <<>>
    /\ process = "ok" /\ fed = <<>> /\ received = <<>>
    /\ goroutine = "ok"
    /\ cancelled = FALSE

\* The errors of restore end the program; what is writing the pipe closes it.
Fail(cause) ==
    /\ pc' = "failing" /\ error' = cause
    /\ pipe' = IF pipe = "open" THEN "error" ELSE pipe

NotSendable ==
    /\ pc = "start" /\ "settings" \in Faults
    /\ Fail("settings")
    /\ UNCHANGED <<bucket, catalog, download, chunk, copier, buffer, receive, goroutine, cancelled>>

Start ==
    /\ pc = "start"
    /\ pc' = "list"
    /\ UNCHANGED <<bucket, error, catalog, download, chunk, pipe, copier, buffer, receive,
                   goroutine, cancelled>>

\* The keys after those listed so far, the next page of them, and its keys in
\* some order.
Rest == {k \in Neighbours \cup (written \ lost) : \A i \in DOMAIN listing : Before(listing[i], k)}
Page == {k \in Rest : Cardinality({l \in Rest : Before(l, k)}) < PageSize}
Objects == SetToSeq(Page)

\* ListAllKeys: page after page until one is not truncated.
List(keys, last) ==
    /\ pc = "list" /\ ~cancelled
    /\ listing' = keys
    /\ pc' = IF last THEN "verify" ELSE "list"
    /\ UNCHANGED <<bucket, error, paths, download, chunk, pipe, copier, buffer, receive,
                   goroutine, cancelled>>

\* Mutants: the listing ends with its first page, or is the last page.
ListOnce == List(listing \o Objects, TRUE)
ListLast == List(Objects, Rest = Page)

ListObjects == List(listing \o Objects, Rest = Page)

Verify ==
    /\ pc = "verify"
    /\ LET c == load(listing)
       IN  IF Verifies(c, FileSystem)
           THEN paths' = verify(c, FileSystem) /\ pc' = "archive" /\ UNCHANGED <<error, pipe>>
           ELSE Fail("verify") /\ UNCHANGED paths
    /\ UNCHANGED <<bucket, listing, download, chunk, copier, buffer, receive,
                   goroutine, cancelled>>

\* restoreVolume makes a pipe and starts zfs receive at its other end, unless
\* all the archives have been restored.
Receive ==
    /\ pc = "archive"
    /\ IF archive = Len(paths)
       THEN pc' = "ok" /\ UNCHANGED <<volume, position, pipe, copier, process, fed, goroutine>>
       ELSE /\ pc' = "get" /\ volume' = 1 /\ position' = 0
            /\ pipe' = "open" /\ copier' = "reading"
            /\ process' = "running" /\ fed' = <<>>
            /\ goroutine' = "running"
    /\ UNCHANGED <<bucket, error, catalog, archive, end, chunk, buffer, received, cancelled>>

-----------------------------------------------------------------------------
(* The download.                                                           *)

path == paths[archive + 1][volume]

GetObject ==
    /\ pc = "get" /\ ~cancelled
    /\ end' = (IF position + PartSize < Size(path) THEN position + PartSize ELSE Size(path)) - 1
    /\ chunk' = Bytes(path, position, end')
    /\ pc' = "write"
    /\ UNCHANGED <<bucket, error, catalog, archive, volume, position, pipe, copier, buffer,
                   receive, goroutine, cancelled>>

CallFails ==
    /\ pc \in {"list", "get"}
    /\ "call" \in Faults \/ cancelled
    /\ Fail("call")
    /\ UNCHANGED <<bucket, catalog, download, chunk, copier, buffer, receive, goroutine, cancelled>>

\* Mutant: the next range begins with the last byte of this one.
NextRange(from) ==
    /\ pc = "write" /\ chunk = <<>>
    /\ IF end = Size(path) - 1
       THEN /\ position' = 0
            /\ IF volume = Len(paths[archive + 1])
               THEN pc' = "close" /\ UNCHANGED volume
               ELSE pc' = "get" /\ volume' = volume + 1
       ELSE position' = from /\ pc' = "get" /\ UNCHANGED volume
    /\ UNCHANGED <<bucket, error, catalog, archive, end, chunk, pipe, copier, buffer,
                   receive, goroutine, cancelled>>
RangeAgain == NextRange(end)

\* All of the chunk has been read from the pipe: the next range of the object
\* or, after its last byte, the next volume.
RangeWritten == NextRange(end + 1)

WriteFails ==
    /\ pc = "write" /\ chunk # <<>> /\ pipe = "broken"
    /\ Fail("receive")
    /\ UNCHANGED <<bucket, catalog, download, chunk, copier, buffer, receive, goroutine, cancelled>>

Close ==
    /\ pc = "close"
    /\ pipe' = IF pipe = "open" THEN "eof" ELSE pipe
    /\ pc' = "wait"
    /\ UNCHANGED <<bucket, error, catalog, download, chunk, copier, buffer, receive,
                   goroutine, cancelled>>

\* Mutant: the end of the goroutine is not waited for.
WaitNot ==
    /\ pc = "wait"
    /\ pc' = "archive" /\ archive' = archive + 1 /\ UNCHANGED <<error, pipe>>
    /\ UNCHANGED <<bucket, catalog, volume, position, end, chunk, copier, buffer, receive,
                   goroutine, cancelled>>

Wait ==
    /\ pc = "wait" /\ goroutine # "running"
    /\ IF goroutine = "ok"
       THEN pc' = "archive" /\ archive' = archive + 1 /\ UNCHANGED <<error, pipe>>
       ELSE Fail("receive") /\ UNCHANGED archive
    /\ UNCHANGED <<bucket, catalog, volume, position, end, chunk, copier, buffer, receive,
                   goroutine, cancelled>>

\* The program ends, and with it the copier.
Exit ==
    /\ pc = "failing"
    /\ pc' = "failed"
    /\ copier' = "done" /\ buffer' = <<>> /\ chunk' = <<>>
    /\ UNCHANGED <<bucket, error, catalog, download, pipe, receive, goroutine, cancelled>>

-----------------------------------------------------------------------------
(* The copier of os/exec, which ignores that the process no longer reads.  *)

CopyRead ==
    /\ copier = "reading" /\ pipe = "open" /\ chunk # <<>>
    /\ buffer' = <<Head(chunk)>> /\ chunk' = Tail(chunk)
    /\ copier' = "writing"
    /\ UNCHANGED <<bucket, control, catalog, download, pipe, receive, goroutine, cancelled>>

CopyWrite ==
    /\ copier = "writing"
    /\ IF process = "running"
       THEN fed' = fed \o buffer /\ copier' = "reading"
       ELSE copier' = "done" /\ UNCHANGED fed
    /\ buffer' = <<>>
    /\ UNCHANGED <<bucket, control, catalog, download, chunk, pipe, process, received,
                   goroutine, cancelled>>

CopyEnds ==
    /\ copier = "reading" /\ pipe \in {"eof", "error"}
    /\ copier' = "done"
    /\ UNCHANGED <<bucket, control, catalog, download, chunk, pipe, buffer, receive,
                   goroutine, cancelled>>

(* zfs receive: it ends with the stream, and fails when that breaks off,   *)
(* is not the stream of the archive, or a signal makes os/exec kill it.    *)
ReceiveEnds ==
    /\ process = "running"
    /\ \/ /\ IsStream(fed, archive)
          /\ process' = "ok" /\ received' = Append(received, archive)
       \/ /\ \/ ~Begins(fed, archive)
             \/ ~IsStream(fed, archive) /\ copier = "done"
             \/ cancelled
          /\ process' = "failed" /\ UNCHANGED received
    /\ UNCHANGED <<bucket, control, catalog, download, chunk, pipe, copier, buffer, fed,
                   goroutine, cancelled>>

ReceiveBreaks ==
    /\ process = "running" /\ "receive" \in Faults
    /\ process' = "failed"
    /\ UNCHANGED <<bucket, control, catalog, download, chunk, pipe, copier, buffer, fed,
                   received, goroutine, cancelled>>

\* Mutant: a failure is reported to the caller only, not to the writer.
ReceivedQuietly ==
    /\ goroutine = "running" /\ process # "running" /\ copier = "done"
    /\ goroutine' = process /\ UNCHANGED pipe
    /\ UNCHANGED <<bucket, control, catalog, download, chunk, copier, buffer, receive, cancelled>>

\* The goroutine of restoreVolume: Receive returns once the process and the
\* copier have ended, and an error closes the reader's end of the pipe.
Received ==
    /\ goroutine = "running" /\ process # "running" /\ copier = "done"
    /\ goroutine' = process
    /\ pipe' = IF process = "failed" /\ pipe = "open" THEN "broken" ELSE pipe
    /\ UNCHANGED <<bucket, control, catalog, download, chunk, copier, buffer, receive, cancelled>>

-----------------------------------------------------------------------------
(* The others.                                                             *)

PutObject ==
    /\ "send" \in Faults
    /\ \E k \in Own \ written : Prior(k) \subseteq written /\ written' = written \cup {k}
    /\ UNCHANGED <<lost, had, control, catalog, download, chunk, pipe, copier, buffer, receive,
                   goroutine, cancelled>>

Cancel ==
    /\ "cancel" \in Faults /\ ~cancelled /\ pc \notin {"ok", "failed"}
    /\ cancelled' = TRUE
    /\ UNCHANGED <<bucket, control, catalog, download, chunk, pipe, copier, buffer, receive,
                   goroutine>>

Main    == \/ Start \/ ListObjects \/ Verify \/ Receive \/ GetObject \/ RangeWritten
           \/ WriteFails \/ Close \/ Wait \/ Exit \/ (cancelled /\ CallFails)
Copier  == CopyRead \/ CopyWrite \/ CopyEnds
Returned == pc \in {"ok", "failed"} /\ UNCHANGED vars

Next == \/ Main \/ Copier \/ ReceiveEnds \/ Received
        \/ NotSendable \/ CallFails \/ ReceiveBreaks \/ PutObject \/ Cancel \/ Returned

Spec == Init /\ [][Next]_vars

(* Goroutines run, and zfs receive does what it is given to do.            *)
FairSpec == Spec /\ WF_vars(Main) /\ WF_vars(Copier) /\ WF_vars(ReceiveEnds) /\ WF_vars(Received)

-----------------------------------------------------------------------------
(* Properties.                                                             *)

TypeOK ==
    /\ written \subseteq Own
    /\ lost \subseteq Volumes
    /\ had \subseteq Archives
    /\ pc \in {"start", "list", "verify", "archive", "get", "write", "close", "wait",
               "failing", "ok", "failed"}
    /\ error \in {"none", "settings", "call", "verify", "receive"}
    /\ listing \in Seq(Neighbours \cup Own)
    /\ \A i \in DOMAIN listing : listing[i] \in Neighbours \cup (written \ lost)
    /\ paths \in Seq(Seq(Volumes))
    /\ archive \in 0 .. Len(paths) /\ volume \in Nat \ {0}
    /\ position \in Nat /\ end \in Nat
    /\ pc \in {"get", "write"} =>
          /\ archive < Len(paths) /\ volume \in DOMAIN paths[archive + 1]
          /\ position < Size(path)
          /\ pc = "write" => end < Size(path)
    /\ chunk \in Seq(Byte) /\ buffer \in Seq(Byte) /\ fed \in Seq(Byte)
    /\ Len(buffer) <= 1
    /\ received \in Seq(Nat)
    /\ pipe \in {"open", "eof", "error", "broken"}
    /\ copier \in {"reading", "writing", "done"}
    /\ process \in {"running", "ok", "failed"} /\ goroutine \in {"running", "ok", "failed"}
    /\ cancelled \in BOOLEAN

Listed == {listing[i] : i \in DOMAIN listing}
Busy   == {"get", "write", "close", "wait"}

\* What is written has all before it, and what is listed all of that that is
\* not lost; an archive that had a volume has it listed, or yet to be listed,
\* as long as the restore does not fail.
Ordered ==
    /\ \A k \in written : Prior(k) \subseteq written
    /\ \A k \in Listed \cap Own : Prior(k) \ lost \subseteq Listed
    /\ \A a \in had : \E k \in (written \cap Volumes) \ lost :
          /\ k.archive = a
          /\ pc \in {"start", "list"} =>
                k \in Listed \/ \A i \in DOMAIN listing : Before(listing[i], k)
          /\ pc = "verify" => k \in Listed
    /\ lost = {} => error # "verify"

\* The keys to restore are those of the volumes, each at its place, and of
\* every archive that had one.
Planned ==
    /\ Len(paths) <= Len(Sizes)
    /\ \A a \in DOMAIN paths :
          /\ paths[a] # <<>> /\ Len(paths[a]) <= Len(Sizes[a])
          /\ \A v \in DOMAIN paths[a] : paths[a][v] = Key(a - 1, v - 1)
    /\ pc \in {"start", "list", "verify"} => paths = <<>>
    /\ pc \in {"archive", "ok"} \cup Busy => \A a \in had : a < Len(paths)
    /\ pc \in Busy => archive < Len(paths)
    /\ pc = "ok" => archive = Len(paths)

\* Between two archives nothing of a receive is left.
Settled ==
    /\ pc \in {"start", "list", "verify", "archive", "ok"} =>
          process # "running" /\ copier = "done"
    /\ pc \notin {"write", "failing"} => chunk = <<>>
    /\ copier # "writing" => buffer = <<>>
    /\ goroutine # "running" => process # "running" /\ copier = "done"
    /\ pc \in Busy /\ goroutine = "ok" => process = "ok"

\* What zfs receive has taken: the archives before the one being restored, and
\* that one too once it has succeeded.
UpTo(n) == [i \in 1 .. n |-> i - 1]
Taken ==
    /\ received = UpTo(archive) \/ (process = "ok" /\ received = UpTo(archive + 1))
    /\ pc \in {"start", "list", "verify", "archive", "ok"} => received = UpTo(archive)
    /\ pc \in Busy /\ process = "ok" => received = UpTo(archive + 1)

\* What is on its way to a zfs receive that runs begins the stream of the
\* archive, and the download goes on with the byte that follows.
Flow == fed \o buffer \o chunk
Continued ==
    process = "running" =>
        /\ Begins(Flow, archive)
        /\ pc = "write" => Flow # <<>> /\ Flow[Len(Flow)] = <<archive, volume - 1, end>>
        /\ pc = "get" => <<archive, volume - 1, position>> =
                             IF Flow = <<>> THEN <<archive, 0, 0>> ELSE After(Flow[Len(Flow)])

\* The inductive invariant of RestoreProofs.
Invariant == TypeOK /\ Ordered /\ Planned /\ Settled /\ Taken /\ Continued

\* Whatever is lost, fails or goes on beside it, zfs receive is given archives
\* in their order, each after it has taken all those before, and of each the
\* stream byte by byte: never a byte twice, out of its place or left out.
InOrder ==
    process = "running" =>
        /\ received = [i \in 1 .. archive |-> i - 1]
        /\ Begins(fed, archive)

\* A restore that succeeds has restored, whole and in order, every archive
\* that had any volume in the bucket when it began.
OkIsAll ==
    pc = "ok" =>
        /\ received = [i \in 1 .. Len(received) |-> i - 1]
        /\ \A a \in had : a < Len(received)

\* A bucket that has lost nothing always verifies: neither pages, nor another
\* file system, nor a send that goes on meanwhile makes a gap in its listing.
ListingVerifies == lost = {} => error # "verify"

\* The restore ends, and with it zfs receive: no end of the pipe waits for the
\* other for ever, wherever one of them stops.
Returns == <>(pc \in {"ok", "failed"} /\ process # "running")
=============================================================================
