---------------------------- MODULE StreamProofs ----------------------------
(***************************************************************************)
(* What is proved about Stream for every length of the output, buffer,     *)
(* volume size, listing, set of tags and set of faults.                    *)
(***************************************************************************)
EXTENDS Stream, SequenceTheorems, TLAPS

\* What the assumption says of the constants, and the number of releases.
LEMMA Constants ==
    /\ Chunks \in Nat /\ Chunks > 0
    /\ Buffer \in Nat /\ Buffer > 0
    /\ VolumeSize \in Nat /\ VolumeSize > 0
    /\ Snapshots \in Nat /\ Snapshots > 0
    /\ Release \in Seq(Tags) /\ Len(Release) \in Nat
    /\ Releases \in Nat
<1>1. /\ Chunks \in Nat /\ Chunks > 0
      /\ Buffer \in Nat /\ Buffer > 0
      /\ VolumeSize \in Nat /\ VolumeSize > 0
      /\ Snapshots \in Nat /\ Snapshots > 0
  BY StreamAssumption
<1>2. Release \in Seq(Tags) /\ Len(Release) \in Nat
  BY StreamAssumption, LenProperties
<1>3. \A a, b \in Nat : a * b \in Nat
  OBVIOUS
<1>4. Releases \in Nat
  BY <1>1, <1>2, <1>3 DEF Releases
<1> QED
  BY <1>1, <1>2, <1>4

\* The releases stop short of the last snapshot, the target of the stream.
LEMMA ReleasedBeforeTarget ==
    ASSUME NEW i \in Nat, i < Releases
    PROVE  Released(i + 1)[1] < Snapshots
<1> DEFINE L == Len(Release)
           q == i \div L
           S == Snapshots - 1
<1>1. L \in Nat /\ S \in Nat /\ i < S * L
  BY Constants DEF Releases
<1>2. L > 0
  BY <1>1
<1>3. q \in Nat /\ L * q <= i
  BY <1>1, <1>2
<1>4. q < S
  <2>1. \A a, b, n \in Nat : a >= b => n * a >= b * n
    OBVIOUS
  <2> HIDE DEF L, q, S
  <2> QED
    BY <1>1, <1>3, <2>1
<1>5. Released(i + 1)[1] = q + 1
  BY DEF Released
<1> QED
  BY <1>1, <1>3, <1>4, <1>5, Constants

\* What an upload publishes next holds some chunks, and is the last object.
LEMMA PublishEffect ==
    ASSUME TypeOK, U!Publish
    PROVE  /\ objects' \in Seq([from : Nat, upto : Nat])
           /\ objects' # <<>>
           /\ outcome' \in {"sending", "sent", "failed"}
           /\ outcome' = "sent" => objects'[Len(objects')].upto = got
           /\ outcome = "sending"
<1>1. U!Visible \in Nat
  <2>1. objects # <<>> => Len(objects) \in 1 .. Len(objects)
    BY EmptySeq, LenProperties DEF TypeOK
  <2>2. objects # <<>> => objects[Len(objects)] \in [from : Nat, upto : Nat]
    BY <2>1, ElementOfSeq DEF TypeOK
  <2> QED
    BY <2>2 DEF U!Visible
<1>2. PICK upto \in {U!Visible + VolumeSize, got} :
         /\ objects' = Append(objects, [from |-> U!Visible, upto |-> upto])
         /\ outcome' \in {"failed", IF upto = got THEN "sent" ELSE "sending"}
  BY DEF U!Publish
<1>3. upto \in Nat
  BY <1>1, <1>2, Constants DEF TypeOK
<1>4. [from |-> U!Visible, upto |-> upto] \in [from : Nat, upto : Nat]
  BY <1>1, <1>3
<1>5. /\ objects' \in Seq([from : Nat, upto : Nat])
      /\ Len(objects') = Len(objects) + 1
      /\ objects'[Len(objects) + 1].upto = upto
  BY <1>2, <1>4, AppendProperties DEF TypeOK
<1>6. Len(objects) \in Nat
  BY LenProperties DEF TypeOK
<1>7. objects' # <<>>
  BY <1>5, <1>6, EmptySeq
<1> QED
  BY <1>2, <1>5, <1>7 DEF U!Publish

\* Euclid's division, with the remainder known.
LEMMA Division ==
    ASSUME NEW a \in Nat, NEW n \in Nat, NEW r \in Nat, r < n
    PROVE  (a * n + r) \div n = a /\ (a * n + r) % n = r
<1> DEFINE i == a * n + r
           q == i \div n
<1>1. i \in Nat /\ n \in Nat /\ n > 0
  <2>1. \A x, y \in Nat : x * y \in Nat
    OBVIOUS
  <2> QED BY <2>1
<1>2. q \in Nat /\ n * q <= i /\ i < n * q + n /\ i % n = i - n * q
  <2> HIDE DEF i
  <2> QED BY <1>1
<1>3. q = a
  <2>1. \A x, y, z \in Nat : x < y => y * z >= x * z + z
    <3>1. \A x, y, z \in Nat : x < y => y * z = (x + 1) * z + (y - (x + 1)) * z
      OBVIOUS
    <3>2. \A x, z \in Nat : (x + 1) * z = x * z + z
      OBVIOUS
    <3>3. \A x, y, z \in Nat : x < y => (y - (x + 1)) * z \in Nat
      OBVIOUS
    <3>4. \A x, z \in Nat : x * z \in Nat
      OBVIOUS
    <3> QED BY <3>1, <3>2, <3>3, <3>4
  <2>2. n * q = q * n /\ q * n \in Nat /\ a * n \in Nat
    <3>1. \A x, y \in Nat : x * y = y * x /\ x * y \in Nat
      OBVIOUS
    <3> QED BY <1>2, <3>1
  <2>3. q < a => a * n >= q * n + n
    BY <1>2, <2>1
  <2>4. a < q => q * n >= a * n + n
    BY <1>2, <2>1
  <2>5. q * n <= a * n + r /\ a * n + r < q * n + n
    BY <1>2, <2>2
  <2> HIDE DEF q, i
  <2> QED BY <1>2, <2>2, <2>3, <2>4, <2>5
<1>4. n * q = a * n
  <2>1. \A x, y \in Nat : x * y = y * x
    OBVIOUS
  <2> QED BY <1>3, <2>1
<1>5. \A x, y \in Nat : x * y \in Nat
  OBVIOUS
<1> QED
  BY <1>1, <1>2, <1>3, <1>4, <1>5

\* The releases are those of every tag to release on every snapshot but the target.
LEMMA ReleasedAre ==
    ASSUME NEW h \in Holds
    PROVE  (\E i \in 1 .. Releases : h = Released(i)) <=>
               h[1] # Snapshots /\ h[2] \in {Release[k] : k \in DOMAIN Release}
<1> DEFINE L == Len(Release)
<1>1. /\ L \in Nat /\ Snapshots \in Nat /\ Snapshots > 0 /\ DOMAIN Release = 1 .. L
      /\ Releases = (Snapshots - 1) * L /\ Releases \in Nat
  BY Constants DEF Releases
<1>2. h[1] \in 1 .. Snapshots /\ h = <<h[1], h[2]>>
  BY DEF Holds
<1>3. ASSUME NEW i \in 1 .. Releases, h = Released(i)
      PROVE  h[1] # Snapshots /\ h[2] \in {Release[k] : k \in DOMAIN Release}
  <2>1. h[1] < Snapshots
    <3>1. i - 1 \in Nat /\ i - 1 < Releases /\ (i - 1) + 1 = i
      BY <1>1
    <3>2. Released((i - 1) + 1)[1] < Snapshots
      BY <3>1, ReleasedBeforeTarget
    <3> QED BY <1>3, <3>1, <3>2
  <2>2. L > 0
    <3>1. L = 0 => (Snapshots - 1) * L = 0
      BY <1>1
    <3> QED BY <1>1, <3>1
  <2>3. (i - 1) % L \in 0 .. L - 1
    BY <1>1, <2>2
  <2>4. h[2] = Release[((i - 1) % L) + 1]
    BY <1>3 DEF Released
  <2>5. ((i - 1) % L) + 1 \in 1 .. L
    BY <1>1, <2>3
  <2> QED BY <1>1, <1>2, <2>1, <2>4, <2>5
<1>4. ASSUME h[1] # Snapshots, NEW k \in DOMAIN Release, h[2] = Release[k]
      PROVE  \E i \in 1 .. Releases : h = Released(i)
  <2> DEFINE a == h[1] - 1
             i == a * L + k
  <2>1. a \in Nat /\ k - 1 \in Nat /\ k - 1 < L /\ a + 1 <= Snapshots - 1 /\ a + 1 = h[1]
    BY <1>1, <1>2, <1>4
  <2>2. a * L \in Nat /\ a * L + L <= (Snapshots - 1) * L
    <3>1. \A x, y, z \in Nat : x + 1 <= y => x * z \in Nat /\ x * z + z <= y * z
      <4>1. \A x, y, z \in Nat : x + 1 <= y => y * z = (x + 1) * z + (y - (x + 1)) * z
        OBVIOUS
      <4>2. \A x, z \in Nat : (x + 1) * z = x * z + z /\ x * z \in Nat
        OBVIOUS
      <4>3. \A x, y, z \in Nat : x + 1 <= y => (y - (x + 1)) * z \in Nat
        OBVIOUS
      <4> QED BY <4>1, <4>2, <4>3
    <3>2. Snapshots - 1 \in Nat
      BY <1>1
    <3> HIDE DEF a, L
    <3> QED BY <1>1, <2>1, <3>1, <3>2
  <2>3. i - 1 = a * L + (k - 1) /\ i \in 1 .. Releases
    <3>1. \A x, y, z \in Nat : \A j \in 1 .. z : x + z <= y => (x + j) - 1 = x + (j - 1) /\ x + j \in 1 .. y
      OBVIOUS
    <3>2. k \in 1 .. L
      BY <1>1, <1>4
    <3> HIDE DEF a, L
    <3> QED BY <1>1, <2>2, <3>1, <3>2
  <2>4. (i - 1) \div L = a /\ (i - 1) % L = k - 1
    <3>1. (a * L + (k - 1)) \div L = a /\ (a * L + (k - 1)) % L = k - 1
      <4> HIDE DEF a, L, i
      <4> QED BY <1>1, <2>1, Division
    <3> HIDE DEF a, L, i
    <3> QED BY <2>3, <3>1
  <2>5. Released(i) = <<a + 1, Release[(k - 1) + 1]>>
    BY <2>4 DEF Released
  <2>6. Released(i) = h
    <3>1. a + 1 = h[1] /\ (k - 1) + 1 = k
      BY <1>1, <1>4, <2>1
    <3> HIDE DEF a, i
    <3> QED BY <1>2, <1>4, <2>5, <3>1
  <2> QED BY <2>3, <2>6
<1> QED
  BY <1>3, <1>4

-----------------------------------------------------------------------------
\* A send begins in a state of the invariant.
LEMMA InitInvariant == Init => Invariant
<1> SUFFICES ASSUME Init PROVE Invariant
  OBVIOUS
<1> USE Constants DEF Init
<1>1. TypeOK
  <2>1. objects \in Seq([from : Nat, upto : Nat])
    BY EmptySeq
  <2>2. 0 \in 0 .. Releases /\ left \in 0 .. Chunks /\ stdout \in 0 .. Buffer /\ got \in 0 .. Chunks
    OBVIOUS
  <2> QED
    BY <2>1, <2>2 DEF TypeOK
<1>2. Conveyed
  BY DEF Conveyed
<1>3. Signalled
  BY DEF Signalled
<1>4. Stepwise
  BY DEF Stepwise
<1>5. Freed
  BY DEF Freed
<1> QED
  BY <1>1, <1>2, <1>3, <1>4, <1>5 DEF Invariant

\* What the process does disturbs its type and the count of the chunks only.
LEMMA ProcessInvariant ==
    ASSUME Invariant, Process \/ SourceFails PROVE TypeOK' /\ Conveyed' /\ Signalled' /\ Stepwise'
<1> USE Constants DEF Invariant
<1>1. CASE Produce
  <2>1. TypeOK'
    BY <1>1 DEF TypeOK, Produce, process, pipe, archive
  <2>2. Conveyed'
    BY <1>1 DEF TypeOK, Conveyed, Complete, Produce, process, pipe, archive
  <2>3. Signalled' /\ Stepwise'
    BY <1>1 DEF Signalled, Stepwise, Produce, process, pipe, archive
  <2> QED
    BY <2>1, <2>2, <2>3
<1>2. CASE Exit
  <2>1. TypeOK'
    BY <1>2 DEF TypeOK, Exit, process, pipe, archive
  <2>2. Conveyed'
    BY <1>2 DEF TypeOK, Conveyed, Complete, Exit, process, pipe, archive
  <2>3. Signalled' /\ Stepwise'
    BY <1>2 DEF Signalled, Stepwise, Exit, process, pipe, archive
  <2> QED
    BY <2>1, <2>2, <2>3
<1>3. CASE SourceFails
  <2>1. TypeOK'
    BY <1>3 DEF TypeOK, SourceFails, process, pipe, archive
  <2>2. Conveyed'
    BY <1>3 DEF TypeOK, Conveyed, Complete, SourceFails, process, pipe, archive
  <2>3. Signalled' /\ Stepwise'
    BY <1>3 DEF Signalled, Stepwise, SourceFails, process, pipe, archive
  <2> QED
    BY <2>1, <2>2, <2>3
<1> QED
  BY <1>1, <1>2, <1>3 DEF Process

\* The goroutine moves the chunks, then reports to the reader and releases.
LEMMA CopierInvariant ==
    ASSUME Invariant, Copier PROVE TypeOK' /\ Conveyed' /\ Signalled' /\ Stepwise'
<1> USE Constants DEF Invariant
<1>1. CASE CopyRead
  <2>1. TypeOK'
    BY <1>1 DEF TypeOK, CopyRead, process, pipe, archive
  <2>2. Conveyed'
    BY <1>1 DEF TypeOK, Conveyed, Complete, CopyRead, process, pipe, archive
  <2>3. Signalled' /\ Stepwise'
    BY <1>1 DEF Signalled, Stepwise, CopyRead, process, pipe, archive
  <2> QED
    BY <2>1, <2>2, <2>3
<1>2. CASE CopyWrite
  <2>1. TypeOK'
    <3>1. got + 1 \in 0 .. Chunks
      BY <1>2 DEF TypeOK, Conveyed, CopyWrite
    <3> QED
      BY <1>2, <3>1 DEF TypeOK, CopyWrite, process, pipe, archive
  <2>2. Conveyed'
    BY <1>2 DEF TypeOK, Conveyed, Complete, CopyWrite, process, pipe, archive
  <2>3. Signalled'
    BY <1>2 DEF Signalled, CopyWrite, process, pipe, archive
  <2>4. Stepwise'
    BY <1>2 DEF Signalled, Stepwise, CopyWrite, process, pipe, archive
  <2> QED
    BY <2>1, <2>2, <2>3, <2>4
<1>3. CASE CopyFails
  <2>1. TypeOK'
    BY <1>3 DEF TypeOK, CopyFails, process, pipe, archive
  <2>2. Conveyed'
    BY <1>3 DEF TypeOK, Conveyed, Complete, CopyFails, process, pipe, archive
  <2>3. Signalled'
    BY <1>3 DEF TypeOK, Signalled, CopyFails, process, pipe, archive
  <2>4. Stepwise'
    BY <1>3 DEF Signalled, Stepwise, CopyFails, process, pipe, archive
  <2> QED
    BY <2>1, <2>2, <2>3, <2>4
<1>4. CASE CopyEnds
  <2>1. TypeOK'
    BY <1>4 DEF TypeOK, CopyEnds, process, pipe, archive
  <2>2. Conveyed'
    BY <1>4 DEF TypeOK, Conveyed, Complete, CopyEnds, process, pipe, archive
  <2>3. Signalled' /\ Stepwise'
    BY <1>4 DEF Signalled, Stepwise, CopyEnds, process, pipe, archive
  <2> QED
    BY <2>1, <2>2, <2>3
<1>5. CASE CommandWait
  <2>0. cause' \in BOOLEAN /\ (~cause' => zfs = "exited") /\ ~cause /\ in = "open"
    BY <1>5 DEF TypeOK, Signalled, CommandWait
  <2>1. TypeOK'
    BY <1>5, <2>0 DEF TypeOK, CommandWait, process, pipe, archive
  <2>2. Conveyed'
    BY <1>5, <2>0 DEF TypeOK, Conveyed, Complete, CommandWait, process, pipe, archive
  <2>3. Signalled'
    <3>1. in' = "error" <=> cause'
      BY <1>5, <2>0 DEF CommandWait
    <3>2. in' # "eof" /\ copier' = "completion" /\ tries = 0
      BY <1>5, <2>0 DEF CommandWait, Signalled, TypeOK
    <3> QED
      BY <1>5, <3>1, <3>2 DEF Signalled, CommandWait, process, pipe, archive
  <2>4. Stepwise'
    BY <1>5, <2>0 DEF Stepwise, CommandWait, process, pipe, archive
  <2> QED
    BY <2>1, <2>2, <2>3, <2>4
<1>6. CASE ReleaseSnapshot
  <2>1. TypeOK'
    BY <1>6 DEF TypeOK, ReleaseSnapshot, process, pipe, archive
  <2>2. Conveyed' /\ Stepwise'
    BY <1>6 DEF Conveyed, Complete, Stepwise, ReleaseSnapshot, process, pipe, archive
  <2>3. Signalled'
    <3>1. tries \in Nat /\ tries' > 0 /\ Released(tries + 1)[1] < Snapshots
      BY <1>6, ReleasedBeforeTarget DEF TypeOK, ReleaseSnapshot
    <3>2. \A h \in Holds \ held' : h \in Holds \ held \/ h = Released(tries + 1)
      BY <1>6 DEF ReleaseSnapshot
    <3>3. \A h \in Holds \ held' : tries' > 0 /\ h[1] < Snapshots
      BY <3>1, <3>2 DEF Signalled
    <3> QED
      BY <1>6, <3>3 DEF Signalled, ReleaseSnapshot, process, pipe, archive
  <2> QED
    BY <2>1, <2>2, <2>3
<1>7. CASE Close
  <2>1. TypeOK'
    BY <1>7 DEF TypeOK, Close, process, pipe, archive
  <2>2. Conveyed'
    BY <1>7 DEF Conveyed, Complete, Close, process, pipe, archive
  <2>3. Signalled'
    BY <1>7 DEF TypeOK, Signalled, Close, process, pipe, archive
  <2>4. Stepwise'
    BY <1>7 DEF Stepwise, Close, process, pipe, archive
  <2> QED
    BY <2>1, <2>2, <2>3, <2>4
<1> QED
  BY <1>1, <1>2, <1>3, <1>4, <1>5, <1>6, <1>7 DEF Copier

\* remote.send closes its end of the pipe, publishes and goes on only from there.
LEMMA SenderInvariant ==
    ASSUME Invariant, Sender \/ UploadFails PROVE TypeOK' /\ Conveyed' /\ Signalled' /\ Stepwise'
<1> USE Constants DEF Invariant
<1>1. CASE NewUpload
  <2>1. TypeOK'
    BY <1>1 DEF TypeOK, NewUpload, process, pipe, archive
  <2>2. Conveyed' /\ Signalled'
    BY <1>1 DEF Conveyed, Complete, Signalled, NewUpload, process, pipe, archive
  <2>3. Stepwise'
    BY <1>1 DEF Stepwise, NewUpload, process, pipe, archive
  <2> QED
    BY <2>1, <2>2, <2>3
<1>2. CASE UploadFails \/ ReadError
  <2> USE DEF UploadFails, ReadError, U!Fail
  <2>1. TypeOK'
    BY <1>2 DEF TypeOK, process, pipe, archive
  <2>2. Conveyed' /\ Signalled'
    BY <1>2 DEF Conveyed, Complete, Signalled, process, pipe, archive
  <2>3. Stepwise'
    BY <1>2 DEF Stepwise, process, pipe, archive
  <2> QED
    BY <2>1, <2>2, <2>3
<1>3. CASE ReadEOF
  <2>1. TypeOK'
    BY <1>3 DEF TypeOK, ReadEOF, process, pipe, archive
  <2>2. Conveyed' /\ Signalled'
    BY <1>3 DEF Conveyed, Complete, Signalled, ReadEOF, process, pipe, archive
  <2>3. Stepwise'
    BY <1>3 DEF Stepwise, ReadEOF, process, pipe, archive
  <2> QED
    BY <2>1, <2>2, <2>3
<1>4. CASE Publish
  <2>0. /\ objects' \in Seq([from : Nat, upto : Nat])
        /\ objects' # <<>>
        /\ outcome' \in {"sending", "sent", "failed"}
        /\ outcome' = "sent" => objects'[Len(objects')].upto = got
        /\ outcome = "sending"
    BY <1>4, PublishEffect DEF Publish
  <2>1. got' = got
    BY <1>4 DEF Publish, U!Publish
  <2>2. send' = CASE outcome' = "sending" -> "complete"
                  [] outcome' = "sent"    -> "contents"
                  [] outcome' = "failed"  -> "abort"
    BY <1>4 DEF Publish
  <2>3. TypeOK'
    BY <1>4, <2>0, <2>1, <2>2 DEF TypeOK, Publish, process, pipe
  <2>4. Conveyed' /\ Signalled'
    BY <1>4, <2>1 DEF Conveyed, Complete, Signalled, Publish, process, pipe
  <2>5. Stepwise'
    <3>1. in' = "eof" /\ ~contents'
      BY <1>4, <2>0 DEF Publish, Stepwise, pipe, TypeOK
    <3> QED
      BY <2>0, <2>1, <2>2, <3>1 DEF Stepwise
  <2> QED
    BY <2>3, <2>4, <2>5
<1>5. CASE PutContents
  <2>1. TypeOK'
    BY <1>5 DEF TypeOK, PutContents, process, pipe
  <2>2. Conveyed' /\ Signalled'
    BY <1>5 DEF Conveyed, Complete, Signalled, PutContents, process, pipe
  <2>3. Stepwise'
    BY <1>5 DEF Stepwise, PutContents, process, pipe
  <2> QED
    BY <2>1, <2>2, <2>3
<1>6. CASE PutContentsFails
  <2>1. TypeOK'
    BY <1>6 DEF TypeOK, PutContentsFails, process, pipe
  <2>2. Conveyed' /\ Signalled'
    BY <1>6 DEF Conveyed, Complete, Signalled, PutContentsFails, process, pipe
  <2>3. Stepwise'
    BY <1>6 DEF Stepwise, PutContentsFails, process, pipe
  <2> QED
    BY <2>1, <2>2, <2>3
<1>7. CASE Abort \/ Wait
  <2> USE DEF Abort, Wait
  <2>1. TypeOK'
    BY <1>7 DEF TypeOK, process, pipe, archive
  <2>2. Conveyed' /\ Signalled'
    BY <1>7 DEF Conveyed, Complete, Signalled, process, pipe, archive
  <2>3. Stepwise'
    BY <1>7 DEF Stepwise, process, pipe, archive
  <2> QED
    BY <2>1, <2>2, <2>3
<1> QED
  BY <1>1, <1>2, <1>3, <1>4, <1>5, <1>6, <1>7 DEF Sender

\* Releases free what they are for, and the contents are not written after a signal.
LEMMA FreedKept ==
    ASSUME Invariant, [Next]_vars PROVE Freed'
<1> USE DEF Invariant
<1> SUFFICES ASSUME "release" \notin Faults
             PROVE  \/ held' = Holds \ {Released(i) : i \in 1 .. tries'}
                    \/ cancelled' /\ send' \notin {"wait", "ok"}
  BY DEF Freed
<1>0. \/ held = Holds \ {Released(i) : i \in 1 .. tries}
      \/ cancelled /\ send \notin {"wait", "ok"}
  BY DEF Freed
<1>1. CASE ReleaseSnapshot
  <2>1. send' = send /\ cancelled' = cancelled /\ tries' = tries + 1 /\ tries \in Nat
    BY <1>1, Constants DEF ReleaseSnapshot, TypeOK
  <2>2. send \notin {"wait", "ok"}
    BY <1>1 DEF ReleaseSnapshot, Stepwise, Signalled
  <2>3. CASE cancelled
    BY <2>1, <2>2, <2>3
  <2>4. CASE ~cancelled
    <3>1. held' = held \ {Released(tries + 1)} /\ held = Holds \ {Released(i) : i \in 1 .. tries}
      BY <1>0, <1>1, <2>4 DEF ReleaseSnapshot
    <3>2. \A i : i \in 1 .. tries + 1 <=> i \in 1 .. tries \/ i = tries + 1
      BY <2>1
    <3>3. {Released(i) : i \in 1 .. tries + 1} = {Released(i) : i \in 1 .. tries} \cup {Released(tries + 1)}
      BY <3>2
    <3> QED BY <2>1, <3>1, <3>3
  <2> QED BY <2>3, <2>4
<1>2. CASE PutContents
  <2>1. held' = held /\ tries' = tries /\ ~cancelled
    BY <1>2 DEF PutContents
  <2> QED BY <1>0, <2>1
<1>3. CASE ~ReleaseSnapshot /\ ~PutContents
  <2>1. held' = held /\ tries' = tries /\ (cancelled => cancelled')
    BY <1>3
       DEF Next, Process, Copier, Sender, Produce, Exit, SourceFails, CopyRead, CopyWrite, CopyFails,
           CopyEnds, CommandWait, Close, NewUpload, UploadFails, ReadError, ReadEOF, Publish,
           PutContentsFails, Abort, Wait, Cancel, Returned, vars
  <2>2. send' \in {"wait", "ok"} => send \in {"wait", "ok"}
    <3>1. CASE Publish
      <4>1. send' = CASE outcome' = "sending" -> "complete"
                      [] outcome' = "sent"    -> "contents"
                      [] outcome' = "failed"  -> "abort"
        BY <3>1 DEF Publish
      <4>2. outcome' \in {"sending", "sent", "failed"}
        BY <3>1, PublishEffect DEF Publish
      <4> QED BY <4>1, <4>2
    <3> QED
      BY <1>3, <3>1
         DEF Next, Process, Copier, Sender, Produce, Exit, SourceFails, CopyRead, CopyWrite, CopyFails,
             CopyEnds, CommandWait, Close, NewUpload, UploadFails, ReadError, ReadEOF,
             PutContentsFails, Abort, Wait, Cancel, Returned, vars
  <2> QED BY <1>0, <2>1, <2>2
<1> QED
  BY <1>1, <1>2, <1>3

\* The four parts together are inductive.
LEMMA NextInvariant == Invariant /\ [Next]_vars => Invariant'
<1> SUFFICES ASSUME Invariant, [Next]_vars PROVE Invariant'
  OBVIOUS
<1>1. CASE Cancel
  <2>1. TypeOK'
    BY <1>1 DEF Invariant, TypeOK, Cancel, process, pipe, archive
  <2>2. Conveyed' /\ Signalled' /\ Stepwise'
    BY <1>1 DEF Invariant, Conveyed, Complete, Signalled, Stepwise, Cancel, process, pipe, archive
  <2> QED
    BY <2>1, <2>2, FreedKept DEF Invariant
<1>2. CASE UNCHANGED vars
  <2>1. TypeOK'
    BY <1>2 DEF Invariant, TypeOK, vars, process, pipe, archive
  <2>2. Conveyed' /\ Signalled' /\ Stepwise'
    BY <1>2 DEF Invariant, Conveyed, Complete, Signalled, Stepwise, vars, process, pipe, archive
  <2> QED
    BY <2>1, <2>2, FreedKept DEF Invariant
<1> QED
  BY <1>1, <1>2, ProcessInvariant, CopierInvariant, SenderInvariant, FreedKept
     DEF Next, Returned, Invariant

\* Type correctness, and what the process, the pipe and the sender agree on: no
\* chunk is lost between zfs send and the upload, and the end of the pipe is
\* the verdict of the goroutine.
THEOREM StreamInvariant == Spec => []Invariant
<1> QED
  BY InitInvariant, NextInvariant, PTL DEF Spec

-----------------------------------------------------------------------------
\* An end of the pipe that is not an error has all of the output behind it.
LEMMA EOFIsComplete == Invariant /\ in = "eof" => Complete
BY DEF Invariant, Conveyed, Signalled

\* zed.Stream closes the pipe after cmd.Wait, so no volume of a zfs send that
\* failed or was killed is ever published.
THEOREM PublishedComplete == Spec => []PublishedOnlyComplete
<1>1. Invariant => PublishedOnlyComplete
  BY EOFIsComplete DEF Invariant, Stepwise, PublishedOnlyComplete
<1> QED
  BY <1>1, StreamInvariant, PTL

\* The contents of an archive are written last.
THEOREM ContentsLast == Spec => []ContentsAreLast
<1>1. Invariant => ContentsAreLast
  BY EOFIsComplete DEF Invariant, Stepwise, ContentsAreLast, Complete
<1> QED
  BY <1>1, StreamInvariant, PTL

\* The completion function releases after the whole output has been read, and
\* never the target.
THEOREM ReleasedLate == Spec => []ReleasedAfterRead
<1>1. Invariant => ReleasedAfterRead
  BY DEF Invariant, Conveyed, Signalled, ReleasedAfterRead
<1> QED
  BY <1>1, StreamInvariant, PTL

\* remote.send returns no error only after the goroutine is done.
THEOREM OkOver == Spec => []OkIsOver
<1>1. Invariant => OkIsOver
  BY DEF Invariant, Signalled, Stepwise, OkIsOver
<1> QED
  BY <1>1, StreamInvariant, PTL

\* When no release fails by itself, a send that succeeds has released every tag it
\* should on every snapshot but the target, whatever was interrupted meanwhile.
THEOREM OkFrees == ASSUME "release" \notin Faults PROVE Spec => []OkReleases
<1>1. Invariant => OkReleases
  <2> SUFFICES ASSUME Invariant, send = "ok"
               PROVE  held = {h \in Holds : h[1] = Snapshots
                                            \/ h[2] \notin {Release[i] : i \in DOMAIN Release}}
    BY DEF OkReleases
  <2>1. held = Holds \ {Released(i) : i \in 1 .. tries}
    BY DEF Invariant, Freed
  <2>2. tries = Releases
    BY DEF Invariant, Signalled, Stepwise
  <2>3. \A h \in Holds : h \in held <=> h[1] = Snapshots
                                     \/ h[2] \notin {Release[i] : i \in DOMAIN Release}
    <3> TAKE h \in Holds
    <3>1. h \in held <=> ~\E i \in 1 .. Releases : h = Released(i)
      BY <2>1, <2>2
    <3> QED BY <3>1, ReleasedAre
  <2>4. held \subseteq Holds
    BY DEF Invariant, TypeOK
  <2> QED BY <2>3, <2>4
<1> QED
  BY <1>1, StreamInvariant, PTL

-----------------------------------------------------------------------------
\* An archive of the chunks read is one of all the chunks.
LEMMA StepArchives == Invariant /\ [Next]_vars => [Whole!Next]_Whole!vars
<1> SUFFICES ASSUME Invariant, [Next]_vars PROVE [Whole!Next]_Whole!vars
  OBVIOUS
<1> USE DEF Whole!vars
<1>1. CASE Publish
  <2>1. got = Chunks
    BY <1>1, EOFIsComplete DEF Publish, Invariant, Stepwise, Complete
  <2>2. U!Publish
    BY <1>1 DEF Publish
  <2>3. Whole!Visible = U!Visible
    BY DEF Whole!Visible, U!Visible
  <2>4. Whole!Publish
    BY <2>1, <2>2, <2>3 DEF U!Publish, Whole!Publish
  <2> QED
    BY <2>4 DEF Whole!Next
<1>2. CASE UploadFails \/ ReadError
  BY <1>2 DEF UploadFails, ReadError, U!Fail, Whole!Next, Whole!Fail
<1>3. CASE NewUpload
  BY <1>3 DEF NewUpload, Invariant, Stepwise, Whole!Next, Whole!Fail
<1>4. CASE UNCHANGED <<objects, outcome>>
  BY <1>4
<1>5. ASSUME \/ Process \/ SourceFails \/ Copier
             \/ ReadEOF \/ PutContents \/ PutContentsFails \/ Abort \/ Wait
             \/ Cancel \/ UNCHANGED vars
      PROVE  UNCHANGED <<objects, outcome>>
  <2>1. CASE Process \/ SourceFails
    BY <2>1 DEF Process, SourceFails, Produce, Exit, archive
  <2>2. CASE Copier
    BY <2>2 DEF Copier, CopyRead, CopyWrite, CopyFails, CopyEnds, CommandWait,
                ReleaseSnapshot, Close, archive
  <2>3. CASE ReadEOF \/ PutContents \/ PutContentsFails \/ Abort \/ Wait
    BY <2>3 DEF ReadEOF, PutContents, PutContentsFails, Abort, Wait, archive
  <2>4. CASE Cancel \/ UNCHANGED vars
    BY <2>4 DEF Cancel, vars, archive
  <2> QED
    BY <1>5, <2>1, <2>2, <2>3, <2>4
<1> QED
  BY <1>1, <1>2, <1>3, <1>4, <1>5 DEF Next, Sender, Returned

\* Whatever process, pipe, goroutine and upload do, a send makes an archive of
\* all of the output: it implements the abstract one with length Chunks.
THEOREM Implements == Spec => ArchivesTheOutput
<1>1. Init => Whole!Init
  BY DEF Init, Whole!Init
<1> QED
  BY <1>1, StreamInvariant, StepArchives, PTL DEF Spec, Whole!Spec, ArchivesTheOutput
=============================================================================
