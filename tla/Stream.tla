------------------------------- MODULE Stream -------------------------------
(***************************************************************************)
(* One send: a zfs send process, the goroutine that copies its output into *)
(* a pipe and releases the holds when it is over (zed.Stream), and         *)
(* remote.send, which uploads what it reads from the pipe, writes the      *)
(* contents of the archive and waits for the goroutine.                    *)
(*                                                                         *)
(* The stream is counted in chunks.  The upload is the one Archive         *)
(* specifies, of the chunks read: it may publish once it has read to the   *)
(* end of the pipe, and fail at any time.  Snapshot i here is entry i - 1  *)
(* of the included listing.                                                *)
(***************************************************************************)
EXTENDS Integers, Sequences

CONSTANTS Chunks,       \* chunks zfs send writes when it succeeds
          Buffer,       \* chunks its standard output may hold
          VolumeSize,   \* most chunks a volume may hold
          Snapshots,    \* number of snapshots the stream includes
          Tags,         \* the tags on every included snapshot
          Release,      \* the tags to release, in the order of the settings
          Faults        \* what the environment may do wrong

(***************************************************************************)
(* "source" is a failing zfs send, "create", "upload" and "contents" are   *)
(* calls of the reader that fail, "lost" lets the failing call be carried  *)
(* out, "release" lets zfs release fail and "cancel" is a signal.          *)
(***************************************************************************)
ASSUME StreamAssumption ==
    /\ Chunks \in Nat \ {0} /\ Buffer \in Nat \ {0} /\ VolumeSize \in Nat \ {0}
    /\ Snapshots \in Nat \ {0}
    /\ Release \in Seq(Tags)
    /\ Faults \subseteq {"source", "create", "upload", "contents", "lost",
                         "release", "cancel"}

VARIABLES zfs,        \* the process (cmd)
          left,       \* chunks it has not written yet
          stdout,     \* chunks in its standard output
          copier,     \* where the goroutine of run is
          cause,      \* it has met an error
          tries,      \* releases it has tried
          in, out,    \* the two ends of the pipe
          send,       \* where remote.send is
          got,        \* chunks it has read
          objects,    \* the volumes that are visible
          outcome,    \* outcome of the upload
          contents,   \* the contents of the archive have been written
          held,       \* the holds on the included snapshots
          cancelled   \* the context of the program is cancelled

process == <<zfs, left>>
pipe    == <<in, out>>
archive == <<objects, outcome, contents>>
vars == <<process, stdout, copier, cause, tries, pipe, send, got, archive, held,
          cancelled>>

\* The upload by what it promises, which Upload keeps for a stream that does not end
\* exactly with a volume: there the last volume is empty and its upload is refused.
U == INSTANCE Archive WITH length <- got, Lengths <- 0 .. Chunks

Holds == (1 .. Snapshots) \X Tags

\* Mutant: the last snapshot is released, too.
ReleasesAll == Snapshots * Len(Release)

\* The releases of the completion function: every tag of every snapshot but
\* the last one.
Releases == (Snapshots - 1) * Len(Release)
Released(i) == <<(i - 1) \div Len(Release) + 1, Release[((i - 1) % Len(Release)) + 1]>>

Init ==
    /\ zfs = "running" /\ left = Chunks /\ stdout = 0
    /\ copier = "copy" /\ cause = FALSE /\ tries = 0
    /\ in = "open" /\ out = "open"
    /\ send = "create" /\ got = 0
    /\ objects = <<>> /\ outcome = "sending" /\ contents = FALSE
    /\ held = Holds
    /\ cancelled = FALSE

-----------------------------------------------------------------------------
(* The process.                                                            *)

Produce ==
    /\ zfs = "running" /\ left > 0 /\ stdout < Buffer
    /\ left' = left - 1
    /\ stdout' = stdout + 1
    /\ UNCHANGED <<zfs, copier, cause, tries, pipe, send, got, archive, held, cancelled>>

Exit ==
    /\ zfs = "running"
    /\ \/ left = 0 /\ zfs' = "exited"
       \/ cancelled /\ zfs' = "killed"       \* by exec.CommandContext
    /\ UNCHANGED <<left, stdout, copier, cause, tries, pipe, send, got, archive, held,
                   cancelled>>

SourceFails ==
    /\ zfs = "running" /\ "source" \in Faults
    /\ zfs' = "failed"
    /\ UNCHANGED <<left, stdout, copier, cause, tries, pipe, send, got, archive, held,
                   cancelled>>

-----------------------------------------------------------------------------
(* The goroutine of run.                                                   *)

\* io.Copy takes a chunk from the process ...
CopyRead ==
    /\ copier = "copy" /\ stdout > 0
    /\ stdout' = stdout - 1
    /\ copier' = "write"
    /\ UNCHANGED <<process, cause, tries, pipe, send, got, archive, held, cancelled>>

\* Mutant: a chunk is written again.
CopyTwice ==
    /\ copier = "write" /\ send = "read" /\ out = "open"
    /\ got' = got + 1
    /\ UNCHANGED <<process, stdout, copier, cause, tries, pipe, send, archive, held,
                   cancelled>>

\* ... and hands it to the reader: the pipe has no buffer.
CopyWrite ==
    /\ copier = "write" /\ send = "read" /\ out = "open"
    /\ got' = got + 1
    /\ copier' = "copy"
    /\ UNCHANGED <<process, stdout, cause, tries, pipe, send, archive, held, cancelled>>

\* The reader has closed the pipe: the process is killed and not waited for.
CopyFails ==
    /\ copier = "write" /\ out = "closed"
    /\ cause' = TRUE
    /\ in' = "error"
    /\ zfs' = IF zfs = "running" THEN "killed" ELSE zfs
    /\ copier' = "completion"
    /\ UNCHANGED <<left, stdout, tries, out, send, got, archive, held, cancelled>>

CopyEnds ==
    /\ copier = "copy" /\ stdout = 0 /\ zfs # "running"
    /\ copier' = "command"
    /\ UNCHANGED <<process, stdout, cause, tries, pipe, send, got, archive, held,
                   cancelled>>

\* Mutant: the exit status is ignored.
CommandIgnored ==
    /\ copier = "command"
    /\ copier' = "completion"
    /\ UNCHANGED <<process, stdout, cause, tries, pipe, send, got, archive, held, cancelled>>

\* cmd.Wait: an exit status that is not 0, or perhaps a cancelled context, is
\* an error, which the reader is told.
CommandWait ==
    /\ copier = "command"
    /\ cause' \in {zfs # "exited", zfs # "exited" \/ cancelled}
    /\ in' = IF cause' THEN "error" ELSE in
    /\ copier' = "completion"
    /\ UNCHANGED <<process, stdout, tries, out, send, got, archive, held, cancelled>>

\* completion: one zfs release after the other, their errors ignored.
ReleaseSnapshot ==
    /\ copier = "completion" /\ ~cause /\ tries < Releases
    /\ \/ ~cancelled /\ held' = held \ {Released(tries + 1)}
       \/ ("release" \in Faults \/ cancelled) /\ UNCHANGED held
    /\ tries' = tries + 1
    /\ UNCHANGED <<process, stdout, copier, cause, pipe, send, got, archive, cancelled>>

\* Mutant: the pipe is closed only when there was an error.
CloseOnError ==
    /\ copier = "completion" /\ (cause \/ tries = Releases)
    /\ copier' = "done"
    /\ UNCHANGED <<process, stdout, cause, tries, pipe, send, got, archive, held, cancelled>>

\* The deferred close comes last: the end of the pipe, unless it has an error.
Close ==
    /\ copier = "completion" /\ (cause \/ tries = Releases)
    /\ in' = IF in = "open" THEN "eof" ELSE in
    /\ copier' = "done"
    /\ UNCHANGED <<process, stdout, cause, tries, out, send, got, archive, held, cancelled>>

-----------------------------------------------------------------------------
(* remote.send.                                                            *)

\* Mutant: the pipe is left open.
NewUploadLeaks ==
    /\ send = "create"
    /\ \/ send' = "read" /\ UNCHANGED <<out, outcome>>
       \/ /\ "create" \in Faults \/ cancelled
          /\ send' = "error" /\ outcome' = "failed" /\ UNCHANGED out
    /\ UNCHANGED <<process, stdout, copier, cause, tries, in, got, objects, contents, held,
                   cancelled>>

NewUpload ==
    /\ send = "create"
    /\ \/ send' = "read" /\ UNCHANGED <<out, outcome>>
       \/ /\ "create" \in Faults \/ cancelled
          /\ send' = "error" /\ out' = "closed" /\ outcome' = "failed"
    /\ UNCHANGED <<process, stdout, copier, cause, tries, in, got, objects, contents, held,
                   cancelled>>

\* upload.Send fails by itself or with the pipe, and cleans up; it reads no more.
UploadFails ==
    /\ send \in {"read", "complete"}
    /\ "upload" \in Faults \/ cancelled
    /\ U!Fail
    /\ send' = "abort"
    /\ UNCHANGED <<process, stdout, copier, cause, tries, pipe, got, contents, held,
                   cancelled>>

ReadError ==
    /\ send = "read" /\ in = "error"
    /\ U!Fail
    /\ send' = "abort"
    /\ UNCHANGED <<process, stdout, copier, cause, tries, pipe, got, contents, held,
                   cancelled>>

\* Mutant: an error of the pipe is taken for its end.
ReadEnd ==
    /\ send = "read" /\ in # "open"
    /\ send' = "complete"
    /\ UNCHANGED <<process, stdout, copier, cause, tries, pipe, got, archive, held,
                   cancelled>>

ReadEOF ==
    /\ send = "read" /\ in = "eof"
    /\ send' = "complete"
    /\ UNCHANGED <<process, stdout, copier, cause, tries, pipe, got, archive, held,
                   cancelled>>

\* upload.Send completes a volume.
Publish ==
    /\ send = "complete"
    /\ U!Publish
    /\ outcome' = "failed" => {"upload", "lost"} \subseteq Faults
    /\ send' = CASE outcome' = "sending" -> "complete"
                 [] outcome' = "sent"    -> "contents"
                 [] outcome' = "failed"  -> "abort"
    /\ UNCHANGED <<process, stdout, copier, cause, tries, pipe, contents, held, cancelled>>

PutContents ==
    /\ send = "contents" /\ ~cancelled
    /\ contents' = TRUE
    /\ send' = "wait"
    /\ UNCHANGED <<process, stdout, copier, cause, tries, pipe, got, objects, outcome, held,
                   cancelled>>

\* Mutant: the failure is passed over.
PutContentsIgnored ==
    /\ send = "contents" /\ ("contents" \in Faults \/ cancelled)
    /\ send' = "wait"
    /\ UNCHANGED <<process, stdout, copier, cause, tries, pipe, got, archive, held,
                   cancelled>>

\* upload.Fail has nothing left to abort and the archive stays without contents.
PutContentsFails ==
    /\ send = "contents" /\ ("contents" \in Faults \/ cancelled)
    /\ contents' \in BOOLEAN
    /\ contents' => "lost" \in Faults
    /\ send' = "abort"
    /\ UNCHANGED <<process, stdout, copier, cause, tries, pipe, got, objects, outcome, held,
                   cancelled>>

\* The error is returned once the upload has been aborted, the pipe closed.
Abort ==
    /\ send = "abort"
    /\ out' = "closed"
    /\ send' = "error"
    /\ UNCHANGED <<process, stdout, copier, cause, tries, in, got, archive, held, cancelled>>

Wait ==
    /\ send = "wait" /\ copier = "done"
    /\ out' = "closed"
    /\ send' = IF cause THEN "error" ELSE "ok"
    /\ UNCHANGED <<process, stdout, copier, cause, tries, in, got, archive, held, cancelled>>

-----------------------------------------------------------------------------
Cancel ==
    /\ "cancel" \in Faults /\ ~cancelled
    /\ cancelled' = TRUE
    /\ UNCHANGED <<process, stdout, copier, cause, tries, pipe, send, got, archive, held>>

\* snapr goes on with the next entry, whether or not the goroutine is done.
Returned == send \in {"ok", "error"} /\ UNCHANGED vars

Process == Produce \/ Exit
Copier  == CopyRead \/ CopyWrite \/ CopyFails \/ CopyEnds \/ CommandWait
           \/ ReleaseSnapshot \/ Close
Sender  == NewUpload \/ ReadError \/ ReadEOF \/ Publish
           \/ PutContents \/ PutContentsFails \/ Abort \/ Wait

Next == \/ Process \/ SourceFails
        \/ Copier
        \/ Sender \/ UploadFails
        \/ Cancel \/ Returned

Spec == Init /\ [][Next]_vars

(* A running process makes progress, and so do the two goroutines: the     *)
(* calls they make return.  Neither process nor upload need ever fail.     *)
FairSpec == Spec /\ WF_vars(Process) /\ WF_vars(Copier) /\ WF_vars(Sender)

-----------------------------------------------------------------------------
(* Properties.                                                             *)

\* Type invariant.
TypeOK ==
    /\ zfs \in {"running", "exited", "failed", "killed"}
    /\ left \in 0 .. Chunks
    /\ stdout \in 0 .. Buffer
    /\ copier \in {"copy", "write", "command", "completion", "done"}
    /\ cause \in BOOLEAN
    /\ tries \in 0 .. Releases
    /\ in \in {"open", "eof", "error"}
    /\ out \in {"open", "closed"}
    /\ send \in {"create", "read", "complete", "contents", "wait", "abort", "ok", "error"}
    /\ got \in 0 .. Chunks
    /\ objects \in Seq([from : Nat, upto : Nat])
    /\ outcome \in {"sending", "sent", "failed"}
    /\ contents \in BOOLEAN
    /\ held \subseteq Holds
    /\ cancelled \in BOOLEAN

\* The process succeeded and its whole output went through the pipe.
Complete == zfs = "exited" /\ got = Chunks

\* A process that fails or is killed midway looks to io.Copy like one that
\* ends; nothing of its output is ever published as an archive, because the
\* exit status is waited for before the pipe is closed.
PublishedOnlyComplete == objects # <<>> => Complete

\* The contents of an archive are written only when all its volumes, the whole
\* output of a successful zfs send, are visible.
ContentsAreLast ==
    contents => Complete /\ outcome = "sent" /\ objects[Len(objects)].upto = Chunks

\* A hold is released only when the whole output has been read, and never
\* that of the target snapshot, which the next incremental send starts from.
ReleasedAfterRead ==
    \A h \in Holds \ held : Complete /\ h[1] < Snapshots

\* A send that succeeds has written the contents and has come to the end of
\* the releases: nothing of it goes on in the background.
OkIsOver ==
    send = "ok" => contents /\ copier = "done" /\ tries = Releases

\* When no release fails, a successful send leaves of the tags to release
\* those of the target.
OkReleases ==
    send = "ok" => held = {h \in Holds : h[1] = Snapshots \/ h[2] \notin {Release[i] : i \in DOMAIN Release}}

\* The archive of all of the output of zfs.
Whole == INSTANCE Archive WITH length <- Chunks, Lengths <- {Chunks}

\* What a send makes of the output of zfs is an archive of all of it, whatever
\* process, pipe and upload do meanwhile; with Upload, as long as the output does not
\* end exactly with a volume.
ArchivesTheOutput == Whole!Spec

\* remote.send returns: reader and goroutine never wait for each other.
Returns == <>(send \in {"ok", "error"})

\* The process and the goroutine that remote.send leaves behind when it fails
\* come to an end too: closing the pipe reaches them.
NothingLeftRunning == <>[](copier = "done" /\ zfs # "running")

-----------------------------------------------------------------------------
(* The inductive invariant, in four parts.                                 *)

\* No chunk is lost on its way from the process to the reader, unless the
\* goroutine has met an error.
Conveyed ==
    /\ zfs = "exited" => left = 0
    /\ copier = "copy"  => got + stdout + left = Chunks
    /\ copier = "write" => got + 1 + stdout + left = Chunks
    /\ copier = "command" => stdout = 0 /\ zfs # "running" /\ got + left = Chunks
    /\ copier \in {"completion", "done"} /\ ~cause => Complete

\* The reader's end of the pipe says how the goroutine has fared, and holds are
\* released only while it completes without an error.
Signalled ==
    /\ in = "error" <=> cause
    /\ in = "eof" <=> copier = "done" /\ ~cause
    /\ cause => copier \in {"completion", "done"}
    /\ copier = "done" /\ ~cause => tries = Releases
    /\ tries > 0 => copier \in {"completion", "done"} /\ ~cause
    /\ \A h \in Holds \ held : tries > 0 /\ h[1] < Snapshots

\* How far the sender is, against the archive and the pipe.
Stepwise ==
    /\ send \in {"complete", "contents", "wait", "ok"} \/ objects # <<>> => in = "eof"
    /\ send \in {"create", "read", "complete"} => outcome = "sending"
    /\ send \in {"contents", "wait", "ok"} \/ contents => outcome = "sent"
    /\ outcome = "sent" => objects # <<>> /\ objects[Len(objects)].upto = got
    /\ send \in {"wait", "ok"} => contents

\* If no release fails by itself, those tried have freed what they were for, or
\* a signal stopped one, which also keeps the contents from being written.
Freed ==
    "release" \notin Faults =>
        \/ held = Holds \ {Released(i) : i \in 1 .. tries}
        \/ cancelled /\ send \notin {"wait", "ok"}

Invariant == TypeOK /\ Conveyed /\ Signalled /\ Stepwise /\ Freed
=============================================================================
