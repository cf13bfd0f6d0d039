---------------------------- MODULE UploadProofs ----------------------------
(***************************************************************************)
(* What is proved about Upload for every pool, part size, volume size,     *)
(* stream length and set of faults.                                        *)
(***************************************************************************)
EXTENDS Upload, SetLemmas, FiniteSetTheorems, SequenceTheorems, TLAPS

\* The pool holds some requests.
LEMMA ThreadsNat == Threads \in Nat /\ Threads > 0
BY UploadAssumption, FS_CardinalityType, FS_EmptySet DEF Threads

\* A sequence updated at one place is a sequence of the same length.
LEMMA UpdateSeq ==
    ASSUME NEW S, NEW s \in Seq(S), NEW i, NEW x \in S
    PROVE  /\ [s EXCEPT ![i] = x] \in Seq(S)
           /\ Len([s EXCEPT ![i] = x]) = Len(s)
           /\ DOMAIN [s EXCEPT ![i] = x] = DOMAIN s
<1>1. CASE i \in 1 .. Len(s)
  BY <1>1, ExceptSeq, LenProperties
<1>2. CASE i \notin 1 .. Len(s)
  <2>1. [s EXCEPT ![i] = x] = s
    BY <1>2, LenProperties
  <2> QED
    BY <2>1
<1> QED
  BY <1>1, <1>2

\* Reading a response adds it to the parts of its volume and changes no more.
LEMMA ReadResponseEffect ==
    ASSUME TypeOK, NEW r \in Requests, readResponse(r)
    PROVE  /\ volumes' \in Seq(Volume)
           /\ Len(volumes') = Len(volumes)
           /\ \A v \in DOMAIN volumes :
                 /\ volumes'[v].bytes = volumes[v].bytes
                 /\ volumes'[v].hash = volumes[v].hash
                 /\ volumes'[v].parts =
                       IF request[r].response # NoPart /\ request[r].volume = v
                       THEN Append(volumes[v].parts, request[r].response)
                       ELSE volumes[v].parts
<1>1. CASE request[r].response = NoPart
  BY <1>1 DEF TypeOK, readResponse
<1>2. CASE request[r].response # NoPart
  <2>1. PICK w, x : /\ w = request[r].volume
                    /\ x = [volumes[w] EXCEPT !.parts = Append(@, request[r].response)]
    OBVIOUS
  <2>2. CASE w \in DOMAIN volumes
    <3>1. volumes[w] \in Volume /\ request[r].response \in Part
      BY <2>1, <2>2, LenProperties DEF TypeOK, Request
    <3>2. Append(volumes[w].parts, request[r].response) \in Seq(Part)
      BY <2>1, <3>1, AppendProperties DEF Volume
    <3>3. x \in Volume
      BY <2>1, <3>1, <3>2 DEF Volume
    <3>4. /\ x.bytes = volumes[w].bytes /\ x.hash = volumes[w].hash
          /\ x.parts = Append(volumes[w].parts, request[r].response)
      BY <2>1, <3>1 DEF Volume
    <3>5. volumes' = [volumes EXCEPT ![w] = x]
      BY <1>2, <2>1 DEF readResponse
    <3>6. volumes' \in Seq(Volume) /\ Len(volumes') = Len(volumes)
      BY <3>3, <3>5, UpdateSeq DEF TypeOK
    <3>7. \A v \in DOMAIN volumes : volumes'[v] = IF v = w THEN x ELSE volumes[v]
      BY <3>5, LenProperties DEF TypeOK
    <3> QED
      BY <1>2, <2>1, <3>4, <3>6, <3>7
  <2>3. CASE w \notin DOMAIN volumes
    <3>1. volumes' = volumes
      BY <1>2, <2>1, <2>3, LenProperties DEF TypeOK, readResponse
    <3> QED
      BY <2>1, <2>3, <3>1 DEF TypeOK
  <2> QED
    BY <2>2, <2>3
<1> QED
  BY <1>1, <1>2

\* Queueing n bytes appends one block to the last volume and changes no other.
LEMMA EnqueueEffect ==
    ASSUME TypeOK, NEW r \in Requests, NEW n \in Nat, volumes # <<>>, enqueue(r, n)
    PROVE  /\ volumes' \in Seq(Volume)
           /\ Len(volumes') = Len(volumes)
           /\ Len(volumes) \in DOMAIN volumes
           /\ \A v \in DOMAIN volumes :
                 /\ volumes'[v].parts = volumes[v].parts
                 /\ v # Len(volumes) => volumes'[v] = volumes[v]
           /\ LET v == Len(volumes)
                  b == [from |-> total, upto |-> total + n]
              IN  /\ b \in Block
                  /\ volumes'[v].bytes = volumes[v].bytes + n
                  /\ volumes'[v].hash = Append(volumes[v].hash, b)
           /\ at' \in [Requests -> Places]
           /\ request' \in [Requests -> Request]
           /\ total' = total + n
<1>1. PICK v, b, x :
         /\ v = Len(volumes)
         /\ b = [from |-> total, upto |-> total + n]
         /\ x = [bytes |-> volumes[v].bytes + n, hash |-> Append(volumes[v].hash, b),
                 parts |-> volumes[v].parts]
  OBVIOUS
<1>2. v \in DOMAIN volumes /\ v \in Nat
  BY <1>1, EmptySeq, LenProperties DEF TypeOK
<1>3. b \in Block
  BY <1>1 DEF Block, TypeOK
<1>4. volumes' = [volumes EXCEPT ![v] = x]
  BY <1>1 DEF enqueue
<1>10. volumes[v] \in Volume
  BY <1>2, LenProperties DEF TypeOK
<1>11. x \in Volume
  <2>1. Append(volumes[v].hash, b) \in Seq(Block)
    BY <1>3, <1>10, AppendProperties DEF Volume
  <2>2. volumes[v].bytes + n \in Nat /\ volumes[v].parts \in Seq(Part)
    BY <1>10 DEF Volume
  <2> QED
    BY <1>1, <2>1, <2>2 DEF Volume
<1>5. volumes' \in Seq(Volume) /\ Len(volumes') = Len(volumes)
  BY <1>11, <1>4, UpdateSeq DEF TypeOK
<1>6. NoPart \in Part
  BY DEF NoPart, Part, Nothing, Block
<1>7. [volume |-> v, part |-> Len(volumes[v].hash) + 1, buffer |-> b, response |-> NoPart] \in Request
  <2>1. Len(volumes[v].hash) \in Nat
    BY <1>10, LenProperties DEF Volume
  <2> QED
    BY <1>2, <1>3, <1>6, <2>1 DEF Request
<1>8. request' \in [Requests -> Request]
  BY <1>1, <1>7 DEF TypeOK, enqueue
<1>9. at' \in [Requests -> Places]
  BY DEF TypeOK, enqueue, Places
<1>12. \A w \in DOMAIN volumes : volumes'[w] = IF w = v THEN x ELSE volumes[w]
  BY <1>4, LenProperties DEF TypeOK
<1>13. total' = total + n
  BY DEF enqueue
<1> QED
  BY <1>1, <1>2, <1>3, <1>5, <1>8, <1>9, <1>12, <1>13

\* A new volume is empty and its upload open.
LEMMA NewVolumeEffect ==
    ASSUME TypeOK, newVolume
    PROVE  /\ volumes' \in Seq(Volume) /\ uploads' \in Seq(S3Upload)
           /\ Len(volumes') = Len(volumes) + 1 /\ Len(uploads') = Len(uploads) + 1
           /\ \A v \in DOMAIN volumes : volumes'[v] = volumes[v] /\ uploads'[v] = uploads[v]
           /\ volumes'[Len(volumes')] = [bytes |-> 0, hash |-> <<>>, parts |-> <<>>]
           /\ uploads'[Len(volumes')] = [state |-> "open", parts |-> {}]
<1>1. [bytes |-> 0, hash |-> <<>>, parts |-> <<>>] \in Volume
  BY EmptySeq DEF Volume
<1>2. [state |-> "open", parts |-> {}] \in S3Upload
  BY DEF S3Upload
<1> QED
  BY <1>1, <1>2, AppendProperties, LenProperties DEF TypeOK, newVolume

\* The part a request holds is a part.
LEMMA NewPartType == ASSUME TypeOK, NEW r \in Requests PROVE NewPart(r) \in Part
BY DEF TypeOK, NewPart, Part, Request

\* One upload replaced by another: the sequence keeps its length.
LEMMA ReplaceUpload ==
    ASSUME TypeOK, NEW v, NEW u \in S3Upload, uploads' = [uploads EXCEPT ![v] = u]
    PROVE  /\ uploads' \in Seq(S3Upload)
           /\ Len(uploads') = Len(uploads)
           /\ \A w \in DOMAIN uploads : uploads'[w] = IF w = v THEN u ELSE uploads[w]
<1>1. uploads \in Seq(S3Upload)
  BY DEF TypeOK
<1>2. uploads' \in Seq(S3Upload) /\ Len(uploads') = Len(uploads)
  BY <1>1, UpdateSeq
<1>3. \A w \in DOMAIN uploads : uploads'[w] = IF w = v THEN u ELSE uploads[w]
  BY <1>1, LenProperties
<1> QED
  BY <1>2, <1>3

\* Storing a part changes the parts of one upload and no state.
LEMMA StoreEffect ==
    ASSUME TypeOK, NEW r \in Requests, Store(r)
    PROVE  /\ uploads' \in Seq(S3Upload)
           /\ Len(uploads') = Len(uploads)
           /\ \A v \in DOMAIN uploads :
                 /\ uploads'[v].state = uploads[v].state
                 /\ uploads'[v].parts = IF v = request[r].volume
                                        THEN Stored(uploads[v].parts, NewPart(r))
                                        ELSE uploads[v].parts
<1>1. PICK v, u : /\ v = request[r].volume
                  /\ u = [uploads[v] EXCEPT !.parts = Stored(@, NewPart(r))]
  OBVIOUS
<1>2. uploads' = [uploads EXCEPT ![v] = u]
  BY <1>1 DEF Store
<1>3. CASE v \in DOMAIN uploads
  <2>1. uploads[v] \in S3Upload
    BY <1>3, LenProperties DEF TypeOK
  <2>2. Stored(uploads[v].parts, NewPart(r)) \in SUBSET Part
    BY <2>1, NewPartType DEF Stored, S3Upload
  <2>3. u \in S3Upload
    BY <1>1, <2>1, <2>2 DEF S3Upload
  <2>4. u.state = uploads[v].state /\ u.parts = Stored(uploads[v].parts, NewPart(r))
    BY <1>1, <2>1 DEF S3Upload
  <2> QED
    BY <1>1, <1>2, <2>3, <2>4, ReplaceUpload
<1>4. CASE v \notin DOMAIN uploads
  <2>1. uploads' = uploads
    BY <1>2, <1>4, LenProperties DEF TypeOK
  <2> QED
    BY <1>1, <1>4, <2>1 DEF TypeOK
<1> QED
  BY <1>3, <1>4

\* Completing replaces an open upload by the object made of the listed parts.
LEMMA CompleteEffect ==
    ASSUME TypeOK, NEW v \in DOMAIN uploads, CompleteMultipartUpload(v)
    PROVE  /\ uploads' \in Seq(S3Upload)
           /\ Len(uploads') = Len(uploads)
           /\ uploads[v].state = "open"
           /\ \A w \in DOMAIN uploads : w # v => uploads'[w] = uploads[w]
           /\ uploads'[v].state = "object"
           /\ uploads'[v].parts = Range(volumes[v].parts)
           /\ uploads'[v].parts \subseteq uploads[v].parts
           /\ volumes[v].parts # <<>>
<1>1. PICK list \in Sorts(volumes[v].parts) :
         /\ Acceptable(list, uploads[v])
         /\ uploads' = [uploads EXCEPT ![v] = [state |-> "object", parts |-> Range(list)]]
  BY DEF CompleteMultipartUpload
<1>2. PICK p \in Bijection(DOMAIN volumes[v].parts, DOMAIN volumes[v].parts) :
         list = [i \in DOMAIN volumes[v].parts |-> volumes[v].parts[p[i]]]
  BY <1>1 DEF Sorts
<1>3. Range(list) = Range(volumes[v].parts)
  BY <1>2 DEF Range, Bijection, Injection, Surjection
<1>4. PICK u : u = [state |-> "object", parts |-> Range(list)]
  OBVIOUS
<1>5. uploads[v] \in S3Upload
  BY LenProperties DEF TypeOK
<1>6. u \in S3Upload
  BY <1>1, <1>4, <1>5 DEF Acceptable, S3Upload
<1>7. volumes[v].parts # <<>>
  BY <1>1, <1>2 DEF Acceptable
<1>8. uploads' = [uploads EXCEPT ![v] = u]
  BY <1>1, <1>4
<1>9. /\ uploads' \in Seq(S3Upload) /\ Len(uploads') = Len(uploads)
      /\ \A w \in DOMAIN uploads : uploads'[w] = IF w = v THEN u ELSE uploads[w]
  BY <1>6, <1>8, ReplaceUpload
<1>10. uploads[v].state = "open" /\ Range(list) \subseteq uploads[v].parts
  BY <1>1 DEF Acceptable
<1> QED
  BY <1>3, <1>4, <1>7, <1>9, <1>10

\* Aborting leaves at most the parts that were under way.
LEMMA AbortEffect ==
    ASSUME TypeOK, NEW v \in DOMAIN uploads, AbortMultipartUpload(v)
    PROVE  /\ uploads' \in Seq(S3Upload)
           /\ Len(uploads') = Len(uploads)
           /\ uploads[v].state = "open"
           /\ \A w \in DOMAIN uploads : w # v => uploads'[w] = uploads[w]
           /\ uploads'[v].state = "aborted"
           /\ uploads'[v].parts \subseteq
                 {NewPart(r) : r \in {q \in InFlight : request[q].volume = v}}
<1>1. PICK late \in SUBSET {NewPart(r) : r \in {q \in InFlight : request[q].volume = v}} :
         uploads' = [uploads EXCEPT ![v] = [state |-> "aborted", parts |-> late]]
  BY DEF AbortMultipartUpload
<1>2. PICK u : u = [state |-> "aborted", parts |-> late]
  OBVIOUS
<1>3. late \subseteq Part
  BY NewPartType DEF InFlight
<1>4. u \in S3Upload
  BY <1>2, <1>3 DEF S3Upload
<1>5. uploads' = [uploads EXCEPT ![v] = u]
  BY <1>1, <1>2
<1>6. uploads[v].state = "open"
  BY DEF AbortMultipartUpload
<1>7. /\ uploads' \in Seq(S3Upload) /\ Len(uploads') = Len(uploads)
      /\ \A w \in DOMAIN uploads : uploads'[w] = IF w = v THEN u ELSE uploads[w]
  BY <1>4, <1>5, ReplaceUpload
<1> QED
  BY <1>2, <1>6, <1>7

\* Completing or aborting keeps the type of the uploads.
LEMMA CompleteType ==
    ASSUME TypeOK, NEW v, CompleteMultipartUpload(v)
    PROVE  uploads' \in Seq(S3Upload) /\ Len(uploads') = Len(uploads)
<1>1. CASE v \in DOMAIN uploads
  BY <1>1, CompleteEffect
<1>2. CASE v \notin DOMAIN uploads
  <2>1. PICK u : uploads' = [uploads EXCEPT ![v] = u]
    BY DEF CompleteMultipartUpload
  <2>2. uploads' = uploads
    BY <1>2, <2>1, LenProperties DEF TypeOK
  <2> QED
    BY <2>2 DEF TypeOK
<1> QED
  BY <1>1, <1>2

\* Aborting an upload changes its state only.
LEMMA AbortType ==
    ASSUME TypeOK, NEW v, AbortMultipartUpload(v)
    PROVE  uploads' \in Seq(S3Upload) /\ Len(uploads') = Len(uploads)
<1>1. CASE v \in DOMAIN uploads
  BY <1>1, AbortEffect
<1>2. CASE v \notin DOMAIN uploads
  <2>1. PICK u : uploads' = [uploads EXCEPT ![v] = u]
    BY DEF AbortMultipartUpload
  <2>2. uploads' = uploads
    BY <1>2, <2>1, LenProperties DEF TypeOK
  <2> QED
    BY <2>2 DEF TypeOK
<1> QED
  BY <1>1, <1>2

-----------------------------------------------------------------------------
(* The first layer.                                                        *)

\* No volume, no part, every request free.
LEMMA InitShape == Init => Shape
<1> SUFFICES ASSUME Init PROVE Shape
  OBVIOUS
<1>1. NoPart \in Part /\ Nothing \in Block
  BY DEF NoPart, Part, Nothing, Block
<1>2. request \in [Requests -> Request]
  BY <1>1 DEF Init, Request
<1>3. at \in [Requests -> Places]
  BY DEF Init, Places
<1>4. volumes \in Seq(Volume) /\ uploads \in Seq(S3Upload) /\ Len(uploads) = Len(volumes)
  BY EmptySeq DEF Init
<1>5. alive \in Int /\ length \in Nat /\ total \in Nat
  BY ThreadsNat, UploadAssumption DEF Init
<1>6. TypeOK
  BY <1>2, <1>3, <1>4, <1>5 DEF Init, TypeOK
<1>7. DOMAIN volumes = {}
  BY DEF Init
<1> QED
  BY <1>6, <1>7 DEF Init, Shape

\* An upload nobody knows of is there or is not.
LEMMA NextOrphan == ASSUME TypeOK, [Next]_vars PROVE orphan' \in BOOLEAN
<1>1. orphan \in BOOLEAN /\ TRUE \in BOOLEAN /\ ("lost" \in Faults \/ orphan) \in BOOLEAN
  BY DEF TypeOK
<1>2. CASE NewUploadFails \/ RollFails
  BY <1>1, <1>2 DEF NewUploadFails, RollFails, CreateLost
<1>3. CASE RollEmpty \/ \E r \in Requests : RollCut(r)
  BY <1>1, <1>3 DEF RollEmpty, RollCut
<1>4. CASE orphan' = orphan
  BY <1>1, <1>4
<1> QED
  BY <1>2, <1>3, <1>4
     DEF Next, Main, Worker, Returned, vars, NewUpload, Cancelled, Roll, Take, Read, ReadError,
         ReadEOF, Wait, Collect, Collected, Complete, CompleteFails, Abort, AbortFails, Dequeue,
         UploadPart, UploadPartFails, Cancel

\* What a step must keep for Shape to hold after it.
LEMMA KeepShape ==
    ASSUME Shape,
           at' \in [Requests -> Places], request' \in [Requests -> Request],
           alive' \in Int, cancelled' \in BOOLEAN, length' = length, total' \in Nat,
           volumes' \in Seq(Volume), uploads' \in Seq(S3Upload),
           Len(volumes') = Len(volumes), Len(uploads') = Len(uploads),
           \A v \in DOMAIN volumes : volumes'[v].bytes <= VolumeSize,
           completed' \in Nat, aborted' \in Nat, orphan' \in BOOLEAN,
           pc' \in {"new", "select", "roll", "fill", "wait", "collect", "complete",
                    "abort", "sent", "failed"},
           pc' \notin {"new", "failed"} => volumes # <<>>,
           pc' = "roll" => volumes'[Len(volumes)].bytes = VolumeSize,
           pc' = "fill" => volumes'[Len(volumes)].bytes < VolumeSize
    PROVE  Shape'
<1>1. DOMAIN volumes' = DOMAIN volumes
  BY LenProperties DEF Shape, TypeOK
<1>2. volumes # <<>> => volumes' # <<>>
  BY EmptySeq DEF Shape, TypeOK
<1>3. TypeOK'
  BY DEF Shape, TypeOK
<1> QED
  BY <1>1, <1>2, <1>3 DEF Shape

\* The facts about the current state that the steps below need.
LEMMA ShapeFacts ==
    ASSUME Shape
    PROVE  /\ TypeOK
           /\ DOMAIN volumes = 1 .. Len(volumes) /\ DOMAIN uploads = 1 .. Len(volumes)
           /\ Len(volumes) \in Nat /\ Len(uploads) = Len(volumes)
           /\ \A v \in DOMAIN volumes : volumes[v] \in Volume /\ uploads[v] \in S3Upload
           /\ volumes # <<>> => Len(volumes) \in DOMAIN volumes
BY LenProperties, EmptySeq DEF Shape, TypeOK

\* The bytes the next part takes are more than none and fit in the volume.
LEMMA RoomFits ==
    ASSUME Shape, volumes # <<>>
    PROVE  /\ Room \in Nat /\ Room <= PartSize
           /\ Room <= VolumeSize - volumes[Len(volumes)].bytes
           /\ Room = 0 => volumes[Len(volumes)].bytes = VolumeSize
           /\ Room # 0 => volumes[Len(volumes)].bytes < VolumeSize
<1>1. volumes[Len(volumes)].bytes \in Nat /\ volumes[Len(volumes)].bytes <= VolumeSize
  BY ShapeFacts DEF Shape, Volume
<1> QED
  BY <1>1, UploadAssumption DEF Room, min

\* enqueue adds to the last volume what there is room for.
LEMMA EnqueueShape ==
    ASSUME Shape, NEW r \in Requests, NEW n \in Nat, volumes # <<>>, n <= Room,
           enqueue(r, n), UNCHANGED <<main, uploads, completed, aborted>>,
           orphan' \in BOOLEAN, pc' \in {"select", "abort"}
    PROVE  Shape'
<1>1. TypeOK
  BY DEF Shape
<1>2. /\ volumes' \in Seq(Volume) /\ Len(volumes') = Len(volumes)
      /\ at' \in [Requests -> Places] /\ request' \in [Requests -> Request]
      /\ total' = total + n
  BY <1>1, EnqueueEffect
<1>3. \A v \in DOMAIN volumes : volumes'[v].bytes <= VolumeSize
  <2>1. \A v \in DOMAIN volumes : v # Len(volumes) => volumes'[v] = volumes[v]
    BY <1>1, EnqueueEffect
  <2>2. volumes'[Len(volumes)].bytes = volumes[Len(volumes)].bytes + n
    BY <1>1, EnqueueEffect
  <2>3. volumes[Len(volumes)].bytes + n <= VolumeSize
    <3>1. volumes[Len(volumes)].bytes \in Nat
      BY ShapeFacts DEF Volume
    <3> QED
      BY <3>1, RoomFits, UploadAssumption
  <2> QED
    BY <2>1, <2>2, <2>3 DEF Shape
<1> QED
  BY <1>1, <1>2, <1>3, KeepShape DEF TypeOK, main

\* readResponse adds a part to the list of its volume.
LEMMA ReadResponseShape ==
    ASSUME Shape, NEW r \in Requests, readResponse(r), volumes # <<>>,
           at' \in [Requests -> Places],
           UNCHANGED <<main, request, total, uploads, completed, aborted>>,
           orphan' \in BOOLEAN,
           \/ pc' \in {"select", "collect"}
           \/ pc' = IF Room = 0 THEN "roll" ELSE "fill"
    PROVE  Shape'
<1>1. TypeOK
  BY DEF Shape
<1>2. volumes' \in Seq(Volume) /\ Len(volumes') = Len(volumes)
  BY <1>1, ReadResponseEffect
<1>3. \A v \in DOMAIN volumes : volumes'[v].bytes = volumes[v].bytes
  BY <1>1, ReadResponseEffect
<1>4. Len(volumes) \in DOMAIN volumes
  BY ShapeFacts
<1>5. /\ pc' = "roll" => volumes'[Len(volumes)].bytes = VolumeSize
      /\ pc' = "fill" => volumes'[Len(volumes)].bytes < VolumeSize
  BY <1>3, <1>4, RoomFits
<1>6. \A v \in DOMAIN volumes : volumes'[v].bytes <= VolumeSize
  BY <1>3 DEF Shape
<1> QED
  BY <1>1, <1>2, <1>5, <1>6, KeepShape DEF TypeOK, main

\* newVolume appends an empty volume.
LEMMA NewVolumeShape ==
    ASSUME Shape, newVolume, pc' \in {"select", "fill"}, orphan' \in BOOLEAN,
           UNCHANGED <<main, at, request, total, completed, aborted>>
    PROVE  Shape'
<1>1. TypeOK
  BY DEF Shape
<1>2. /\ volumes' \in Seq(Volume) /\ uploads' \in Seq(S3Upload)
      /\ Len(volumes') = Len(volumes) + 1 /\ Len(uploads') = Len(uploads) + 1
      /\ \A v \in DOMAIN volumes : volumes'[v] = volumes[v]
      /\ volumes'[Len(volumes')] = [bytes |-> 0, hash |-> <<>>, parts |-> <<>>]
  BY <1>1, NewVolumeEffect
<1>3. TypeOK'
  BY <1>1, <1>2 DEF TypeOK, main
<1>4. volumes'[Len(volumes')].bytes = 0
  BY <1>2
<1>5. \A v \in DOMAIN volumes' : v \in DOMAIN volumes \/ v = Len(volumes')
  BY <1>2, LenProperties, ShapeFacts
<1>6. \A v \in DOMAIN volumes' : volumes'[v].bytes <= VolumeSize
  BY <1>2, <1>4, <1>5, UploadAssumption DEF Shape
<1>7. volumes' # <<>>
  BY <1>2, ShapeFacts, EmptySeq
<1> QED
  BY <1>3, <1>4, <1>6, <1>7, UploadAssumption DEF Shape

\* A step that leaves the volumes alone and does not start a part.
LEMMA QuietShape ==
    ASSUME Shape, UNCHANGED <<length, total, volumes>>,
           at' \in [Requests -> Places], request' \in [Requests -> Request],
           alive' \in Int, cancelled' \in BOOLEAN,
           uploads' \in Seq(S3Upload), Len(uploads') = Len(uploads),
           completed' \in Nat, aborted' \in Nat, orphan' \in BOOLEAN,
           \/ pc' = pc
           \/ pc' = "failed"
           \/ /\ pc \notin {"new", "failed"}
              /\ pc' \in {"select", "wait", "collect", "complete", "abort", "sent"}
    PROVE  Shape'
BY KeepShape DEF Shape, TypeOK

\* Shape in every step.
LEMMA NextShape == ASSUME Shape, [Next]_vars PROVE Shape'
<1>1. TypeOK
  BY DEF Shape
<1>0. orphan' \in BOOLEAN
  BY <1>1, NextOrphan
<1> USE <1>0 DEF main
<1>2. CASE NewUpload
  BY <1>2, NewVolumeShape DEF NewUpload
<1>3. CASE NewUploadFails
  BY <1>1, <1>3, QuietShape DEF NewUploadFails, TypeOK
<1>4. CASE Cancelled
  BY <1>1, <1>4, QuietShape DEF Cancelled, TypeOK
<1>5. CASE Roll
  BY <1>5, NewVolumeShape DEF Roll
<1>6. CASE RollFails
  BY <1>1, <1>6, QuietShape DEF RollFails, TypeOK
<1>7. CASE RollEmpty
  BY <1>1, <1>7, QuietShape DEF RollEmpty, TypeOK
<1>8. CASE ReadEOF
  BY <1>1, <1>8, QuietShape DEF ReadEOF, TypeOK
<1>9. CASE Wait
  BY <1>1, <1>9, QuietShape DEF Wait, TypeOK
<1>10. CASE Collected
  BY <1>1, <1>10, QuietShape DEF Collected, TypeOK
<1>11. CASE Complete
  BY <1>1, <1>11, CompleteType, QuietShape DEF Complete, TypeOK
<1>12. CASE CompleteFails
  <2>1. uploads' \in Seq(S3Upload) /\ Len(uploads') = Len(uploads)
    BY <1>1, <1>12, CompleteType DEF CompleteFails, TypeOK
  <2> QED
    BY <1>1, <1>12, <2>1, QuietShape DEF CompleteFails, TypeOK
<1>13. CASE Abort
  BY <1>1, <1>13, AbortType, QuietShape DEF Abort, TypeOK
<1>14. CASE AbortFails
  <2>1. uploads' \in Seq(S3Upload) /\ Len(uploads') = Len(uploads)
    BY <1>1, <1>14, AbortType DEF AbortFails, TypeOK
  <2> QED
    BY <1>1, <1>14, <2>1, QuietShape DEF AbortFails, TypeOK
<1>15. ASSUME NEW r \in Requests, Take(r) PROVE Shape'
  <2>1. at' \in [Requests -> Places]
    BY <1>1, <1>15 DEF Take, TypeOK, Places
  <2>2. volumes # <<>>
    BY <1>15 DEF Take, Shape
  <2> QED
    BY <1>15, <2>1, <2>2, ReadResponseShape DEF Take
<1>16. ASSUME NEW r \in Requests, RollCut(r) PROVE Shape'
  <2>1. at' \in [Requests -> Places]
    BY <1>1, <1>16 DEF RollCut, TypeOK, Places
  <2> QED
    BY <1>1, <1>16, <2>1, QuietShape DEF RollCut, TypeOK
<1>17. ASSUME NEW r \in Requests, Read(r) PROVE Shape'
  <2>1. volumes # <<>>
    BY <1>17 DEF Read, Shape
  <2>2. min(Room, Rest) \in Nat /\ min(Room, Rest) <= Room
    BY <1>1, <1>17, <2>1, RoomFits DEF Read, Rest, min, TypeOK
  <2> QED
    BY <1>17, <2>1, <2>2, EnqueueShape DEF Read
<1>18. ASSUME NEW r \in Requests, ReadError(r) PROVE Shape'
  <2>1. volumes # <<>>
    BY <1>18 DEF ReadError, Shape
  <2>2. CASE UNCHANGED <<at, request, total, volumes>>
    BY <1>1, <1>18, <2>2, QuietShape DEF ReadError, TypeOK
  <2>3. ASSUME NEW n \in 1 .. min(Room - 1, Rest), enqueue(r, n) PROVE Shape'
    <3>1. n \in Nat /\ n <= Room
      BY <1>1, <2>1, RoomFits DEF Rest, min, TypeOK
    <3> QED
      BY <1>18, <2>1, <2>3, <3>1, EnqueueShape DEF ReadError
  <2> QED
    BY <1>18, <2>2, <2>3 DEF ReadError
<1>19. ASSUME NEW r \in Requests, Collect(r) PROVE Shape'
  <2>1. at' \in [Requests -> Places]
    BY <1>1, <1>19 DEF Collect, TypeOK, Places
  <2>2. volumes # <<>>
    BY <1>19 DEF Collect, Shape
  <2>3. pc' = "collect"
    BY <1>19 DEF Collect
  <2> QED
    BY <1>19, <2>1, <2>2, <2>3, ReadResponseShape DEF Collect
<1>20. ASSUME NEW r \in Requests, Dequeue(r) PROVE Shape'
  <2>1. at' \in [Requests -> Places]
    BY <1>1, <1>20 DEF Dequeue, TypeOK, Places
  <2> QED
    BY <1>1, <1>20, <2>1, QuietShape DEF Dequeue, TypeOK
<1>21. ASSUME NEW r \in Requests, UploadPart(r) PROVE Shape'
  <2>1. at' \in [Requests -> Places]
    BY <1>1, <1>21 DEF UploadPart, TypeOK, Places
  <2>2. request' \in [Requests -> Request]
    BY <1>1, <1>21, NewPartType DEF UploadPart, TypeOK, Request
  <2>3. uploads' \in Seq(S3Upload) /\ Len(uploads') = Len(uploads)
    BY <1>1, <1>21, StoreEffect DEF UploadPart
  <2> QED
    BY <1>1, <1>21, <2>1, <2>2, <2>3, QuietShape DEF UploadPart, TypeOK
<1>22. ASSUME NEW r \in Requests, UploadPartFails(r) PROVE Shape'
  <2>1. at' \in [Requests -> Places]
    BY <1>1, <1>22 DEF UploadPartFails, TypeOK, Places
  <2>2. uploads' \in Seq(S3Upload) /\ Len(uploads') = Len(uploads)
    BY <1>1, <1>22, StoreEffect DEF UploadPartFails, TypeOK
  <2> QED
    BY <1>1, <1>22, <2>1, <2>2, QuietShape DEF UploadPartFails, TypeOK
<1>23. CASE Cancel
  BY <1>1, <1>23, QuietShape DEF Cancel, TypeOK
<1>24. CASE UNCHANGED vars
  BY <1>1, <1>24, QuietShape DEF vars, TypeOK
<1> QED
  BY <1>2, <1>3, <1>4, <1>5, <1>6, <1>7, <1>8, <1>9, <1>10, <1>11, <1>12, <1>13,
     <1>14, <1>15, <1>16, <1>17, <1>18, <1>19, <1>20, <1>21, <1>22, <1>23, <1>24
     DEF Next, Main, Worker, Returned

\* The state of an upload keeps its type, in every step of main goroutine,
\* workers and S3.
THEOREM TypeCorrect == Spec => []TypeOK
<1>1. Shape => TypeOK
  BY DEF Shape
<1> QED
  BY <1>1, InitShape, NextShape, PTL DEF Spec

-----------------------------------------------------------------------------
(* The second layer: every part is delivered once, to its place.           *)

\* No part is on its way.
LEMMA InitDelivery == Init => Delivery
<1> SUFFICES ASSUME Init PROVE Delivery
  OBVIOUS
<1>1. DOMAIN volumes = {}
  BY DEF Init
<1>2. \A r \in Requests : ~Outstanding(r)
  BY DEF Init, Outstanding
<1>3. Settled
  BY ThreadsNat DEF Init, Settled
<1> QED
  BY <1>1, <1>2, <1>3 DEF Delivery, Distinct

\* What is written to a volume stays written when a block is added.
LEMMA WrittenAppend ==
    ASSUME NEW h \in Seq(Block), NEW b \in Block
    PROVE  Written(Append(h, b)) = Written(h) \cup {[number |-> Len(h) + 1, tag |-> b]}
<1>1. DOMAIN h = 1 .. Len(h) /\ Len(h) \in Nat
  BY LenProperties
<1>2. /\ DOMAIN Append(h, b) = 1 .. Len(h) + 1
      /\ \A n \in 1 .. Len(h) : Append(h, b)[n] = h[n]
      /\ Append(h, b)[Len(h) + 1] = b
  BY AppendProperties, LenProperties
<1>3. ASSUME NEW e \in Written(Append(h, b))
      PROVE  e \in Written(h) \cup {[number |-> Len(h) + 1, tag |-> b]}
  <2>1. PICK n \in 1 .. Len(h) + 1 : e = [number |-> n, tag |-> Append(h, b)[n]]
    BY <1>2, <1>3 DEF Written
  <2> QED
    BY <1>1, <1>2, <2>1 DEF Written
<1>4. ASSUME NEW e \in Written(h) \cup {[number |-> Len(h) + 1, tag |-> b]}
      PROVE  e \in Written(Append(h, b))
  BY <1>1, <1>2, <1>4 DEF Written
<1> QED
  BY <1>3, <1>4

\* A written part is told by its number.
LEMMA WrittenNumber ==
    ASSUME NEW h \in Seq(Block)
    PROVE  /\ \A e \in Written(h) : /\ e.number \in 1 .. Len(h)
                                    /\ e = [number |-> e.number, tag |-> h[e.number]]
           /\ \A n \in 1 .. Len(h) : [number |-> n, tag |-> h[n]] \in Written(h)
BY LenProperties DEF Written

\* A step that touches no part.
LEMMA QuietDelivery ==
    ASSUME Delivery, UNCHANGED <<at, request, alive, volumes, uploads>>, Settled',
           \/ pc' \in {"complete", "sent", "failed"}
           \/ pc \notin {"complete", "sent", "failed"}
    PROVE  Delivery'
<1>1. \A r \in Requests : /\ Outstanding(r)' = Outstanding(r)
                           /\ Loaded(r)' = Loaded(r)
                           /\ Answered(r)' = Answered(r)
  BY DEF Outstanding, Loaded, Answered, NewPart, Upload
<1>2. Distinct'
  BY <1>1 DEF Delivery, Distinct
<1>3. \A v \in DOMAIN volumes : /\ Listed(v)' = Listed(v)
                                 /\ Accounted(v)' = Accounted(v)
  BY <1>1 DEF Listed, Accounted
<1>4. \A v \in DOMAIN volumes : Sealed(v)'
  BY <1>1 DEF Delivery, Sealed
<1> QED
  BY <1>1, <1>2, <1>3, <1>4 DEF Delivery

\* Taking a response moves its part from the outstanding to the listed ones.
LEMMA ReadResponseDelivery ==
    ASSUME Shape, Delivery, NEW r \in Requests, at[r] = "free", readResponse(r),
           NEW place \in {"held", "out"}, at' = [at EXCEPT ![r] = place],
           UNCHANGED <<main, request, uploads>>, Settled',
           pc \notin {"complete", "sent", "failed"}
    PROVE  Delivery'
<1>1. TypeOK /\ DOMAIN volumes' = DOMAIN volumes
  BY LenProperties, ReadResponseEffect DEF Shape, TypeOK
<1>2. \A v \in DOMAIN volumes :
         /\ volumes'[v].hash = volumes[v].hash
         /\ volumes'[v].parts =
               IF request[r].response # NoPart /\ request[r].volume = v
               THEN Append(volumes[v].parts, request[r].response)
               ELSE volumes[v].parts
  BY <1>1, ReadResponseEffect
<1>3. \A q \in Requests : Outstanding(q)' <=> q # r /\ Outstanding(q)
  BY <1>1 DEF Outstanding, TypeOK
<1>4. \A q \in Requests : NewPart(q)' = NewPart(q) /\ Upload(q)' = Upload(q)
  BY DEF NewPart, Upload
<1>5. \A q \in Requests : Outstanding(q)' => Loaded(q)'
  BY <1>1, <1>2, <1>3, <1>4 DEF Delivery, Loaded
<1>6. \A q \in Requests : Outstanding(q)' => Answered(q)'
  <2>1. \A q \in Requests : q # r => at'[q] = at[q]
    BY <1>1 DEF TypeOK
  <2> QED
    BY <1>3, <1>4, <2>1 DEF Delivery, Answered
<1>7. Distinct'
  BY <1>3 DEF Delivery, Distinct
<1>8. ASSUME NEW v \in DOMAIN volumes
      PROVE  Listed(v)' /\ (alive = Threads => Accounted(v)')
  <2>1. /\ volumes[v].parts \in Seq(Part) /\ Len(volumes[v].parts) \in Nat
        /\ DOMAIN volumes[v].parts = 1 .. Len(volumes[v].parts)
    BY <1>1, ShapeFacts, LenProperties DEF Volume
  <2>2. CASE volumes'[v].parts = volumes[v].parts /\ ~(Outstanding(r) /\ request[r].volume = v)
    <3>1. Listed(v)'
      BY <1>2, <1>3, <2>2 DEF Delivery, Listed
    <3>2. alive = Threads => Accounted(v)'
      BY <1>2, <1>3, <2>2 DEF Delivery, Accounted
    <3> QED
      BY <3>1, <3>2
  <2>3. CASE Outstanding(r) /\ request[r].volume = v
    <3> DEFINE k == Len(volumes[v].parts)
    <3>1. /\ NewPart(r) \in Written(volumes[v].hash)
          /\ request[r].response = NewPart(r) /\ request[r].response # NoPart
          /\ uploads[v].state = "open" => NewPart(r) \in uploads[v].parts
      BY <2>3 DEF Delivery, Loaded, Answered, Outstanding, Upload
    <3>2. volumes'[v].parts = Append(volumes[v].parts, NewPart(r))
      BY <1>2, <2>3, <3>1
    <3>3. NewPart(r) \in Part /\ NewPart(r).number = request[r].part
      BY <1>1, NewPartType DEF NewPart
    <3>4. /\ DOMAIN volumes'[v].parts = 1 .. k + 1
          /\ \A i \in 1 .. k : volumes'[v].parts[i] = volumes[v].parts[i]
          /\ volumes'[v].parts[k + 1] = NewPart(r)
      BY <2>1, <3>2, <3>3, AppendProperties, LenProperties
    <3>5. \A i \in 1 .. k : volumes[v].parts[i].number # request[r].part
      BY <2>1, <2>3 DEF Delivery, Listed
    <3>6. \A i \in 1 .. k + 1 :
             /\ volumes'[v].parts[i] \in Written(volumes[v].hash)
             /\ uploads[v].state = "open" => volumes'[v].parts[i] \in uploads[v].parts
      BY <2>1, <3>1, <3>4 DEF Delivery, Listed
    <3>7. \A i, j \in 1 .. k + 1 :
             volumes'[v].parts[i].number = volumes'[v].parts[j].number => i = j
      <4>1. \A i, j \in 1 .. k : volumes[v].parts[i].number = volumes[v].parts[j].number => i = j
        BY <2>1 DEF Delivery, Listed
      <4> HIDE DEF k
      <4>2. k \in Nat
        BY <2>1 DEF k
      <4>3. \A i \in 1 .. k : volumes'[v].parts[i].number # volumes'[v].parts[k + 1].number
        BY <3>3, <3>4, <3>5
      <4>4. \A i, j \in 1 .. k :
               volumes'[v].parts[i].number = volumes'[v].parts[j].number => i = j
        BY <3>4, <4>1
      <4>5. \A i \in 1 .. k + 1 : i \in 1 .. k \/ i = k + 1
        BY <4>2
      <4> QED
        BY <4>3, <4>4, <4>5
    <3>8. ASSUME NEW i \in 1 .. k + 1, NEW q \in Requests,
                 Outstanding(q), q # r, request[q].volume = v
          PROVE  volumes'[v].parts[i].number # request[q].part
      <4>1. request[q].part # request[r].part
        BY <2>3, <3>8 DEF Delivery, Distinct
      <4>2. \A j \in 1 .. k : volumes[v].parts[j].number # request[q].part
        BY <2>1, <3>8 DEF Delivery, Listed
      <4> HIDE DEF k
      <4>3. k \in Nat
        BY <2>1 DEF k
      <4> QED
        BY <3>3, <3>4, <4>1, <4>2, <4>3
    <3>9. Listed(v)'
      BY <1>2, <1>3, <3>4, <3>6, <3>7, <3>8 DEF Listed
    <3>10. ASSUME alive = Threads, NEW n \in DOMAIN volumes[v].hash
           PROVE  \/ \E i \in 1 .. k + 1 : volumes'[v].parts[i].number = n
                  \/ \E q \in Requests : /\ Outstanding(q)'
                                         /\ request[q].volume = v
                                         /\ request[q].part = n
      <4>1. CASE \E i \in 1 .. k : volumes[v].parts[i].number = n
        BY <2>1, <3>4, <4>1
      <4>2. CASE \E q \in Requests : /\ Outstanding(q)
                                    /\ request[q].volume = v
                                    /\ request[q].part = n
        BY <1>3, <2>1, <3>3, <3>4, <4>2
      <4> QED
        BY <2>1, <3>10, <4>1, <4>2 DEF Delivery, Accounted
    <3> QED
      BY <1>2, <3>4, <3>9, <3>10 DEF Accounted
  <2> QED
    BY <1>2, <2>2, <2>3 DEF Outstanding
<1>9. \A v \in DOMAIN volumes : uploads[v].state # "object"
  BY DEF Delivery, Sealed
<1> QED
  BY <1>1, <1>2, <1>5, <1>6, <1>7, <1>8, <1>9 DEF Delivery, Sealed, main

\* Queueing a request makes the next part of the last volume outstanding.
LEMMA EnqueueDelivery ==
    ASSUME Shape, Delivery, NEW r \in Requests, NEW n \in Nat, volumes # <<>>,
           at[r] = "held", enqueue(r, n), UNCHANGED <<main, uploads>>, Settled',
           pc \notin {"complete", "sent", "failed"}
    PROVE  Delivery'
<1>1. TypeOK /\ DOMAIN volumes' = DOMAIN volumes
  BY LenProperties, EnqueueEffect DEF Shape, TypeOK
<1>2. PICK w, b : w = Len(volumes) /\ b = [from |-> total, upto |-> total + n]
  OBVIOUS
<1>3. /\ w \in DOMAIN volumes /\ b \in Block
      /\ \A v \in DOMAIN volumes :
            /\ volumes'[v].parts = volumes[v].parts
            /\ v # w => volumes'[v].hash = volumes[v].hash
      /\ volumes'[w].hash = Append(volumes[w].hash, b)
  BY <1>1, <1>2, EnqueueEffect
<1>4. \A v \in DOMAIN volumes : /\ volumes[v].hash \in Seq(Block)
                                 /\ Len(volumes[v].hash) \in Nat
                                 /\ DOMAIN volumes[v].hash = 1 .. Len(volumes[v].hash)
                                 /\ volumes[v].parts \in Seq(Part)
                                 /\ DOMAIN volumes[v].parts = 1 .. Len(volumes[v].parts)
  BY LenProperties, ShapeFacts DEF Volume
<1>5. PICK k : k = Len(volumes[w].hash) + 1
  OBVIOUS
<1>6. /\ request'[r].volume = w /\ request'[r].part = k
      /\ request'[r].buffer = b /\ request'[r].response = NoPart
      /\ \A q \in Requests : q # r => request'[q] = request[q]
      /\ at'[r] = "pending"
      /\ \A q \in Requests : q # r => at'[q] = at[q]
  BY <1>1, <1>2, <1>5 DEF enqueue, TypeOK
<1>7. \A v \in DOMAIN volumes :
         Written(volumes'[v].hash) = IF v = w
                                     THEN Written(volumes[v].hash) \cup
                                            {[number |-> k, tag |-> b]}
                                     ELSE Written(volumes[v].hash)
  <2>1. Written(volumes'[w].hash) = Written(volumes[w].hash) \cup {[number |-> k, tag |-> b]}
    BY <1>3, <1>4, <1>5, WrittenAppend
  <2>2. \A v \in DOMAIN volumes : v # w => Written(volumes'[v].hash) = Written(volumes[v].hash)
    BY <1>3
  <2> QED
    BY <2>1, <2>2
<1>8. /\ Outstanding(r)' /\ ~Outstanding(r)
      /\ \A q \in Requests : q # r => Outstanding(q)' = Outstanding(q)
  BY <1>6 DEF Outstanding
<1>9. /\ NewPart(r)' = [number |-> k, tag |-> b]
      /\ \A q \in Requests : q # r => NewPart(q)' = NewPart(q) /\ Upload(q)' = Upload(q)
  BY <1>6 DEF NewPart, Upload
<1>10. ASSUME NEW q \in Requests, Outstanding(q)' PROVE Loaded(q)' /\ Answered(q)'
  <2>1. CASE q = r
    BY <1>1, <1>3, <1>6, <1>7, <1>9, <2>1 DEF Loaded, Answered
  <2>2. CASE q # r
    <3>1. Loaded(q) /\ Answered(q)
      BY <1>8, <1>10, <2>2 DEF Delivery
    <3>2. Loaded(q)'
      BY <1>1, <1>6, <1>7, <1>9, <2>2, <3>1 DEF Loaded
    <3>3. Answered(q)'
      BY <1>6, <1>9, <2>2, <3>1 DEF Answered
    <3> QED
      BY <3>2, <3>3
  <2> QED
    BY <2>1, <2>2
<1>11. ASSUME NEW q \in Requests, Outstanding(q) PROVE request[q].volume = w => request[q].part # k
  <2>1. NewPart(q) \in Written(volumes[request[q].volume].hash) /\ request[q].volume \in DOMAIN volumes
    BY <1>11 DEF Delivery, Loaded
  <2>2. NewPart(q).number \in 1 .. Len(volumes[request[q].volume].hash)
    BY <1>4, <2>1, WrittenNumber
  <2> QED
    BY <1>4, <1>3, <1>5, <2>2 DEF NewPart
<1>12. Distinct'
  BY <1>6, <1>8, <1>11 DEF Delivery, Distinct
<1>13. ASSUME NEW v \in DOMAIN volumes PROVE Listed(v)'
  <2>1. \A i \in DOMAIN volumes[v].parts :
           /\ volumes[v].parts[i] \in Written(volumes[v].hash)
           /\ uploads[v].state = "open" => volumes[v].parts[i] \in uploads[v].parts
           /\ \A j \in DOMAIN volumes[v].parts :
                 volumes[v].parts[i].number = volumes[v].parts[j].number => i = j
           /\ \A q \in Requests : Outstanding(q) /\ request[q].volume = v =>
                                     volumes[v].parts[i].number # request[q].part
    BY DEF Delivery, Listed
  <2>2. \A i \in DOMAIN volumes[v].parts : v = w => volumes[v].parts[i].number # k
    BY <1>4, <1>5, <2>1, WrittenNumber
  <2>3. \A i \in DOMAIN volumes[v].parts : volumes[v].parts[i] \in Written(volumes'[v].hash)
    BY <1>7, <2>1
  <2>4. \A i \in DOMAIN volumes[v].parts : \A q \in Requests :
           Outstanding(q)' /\ request'[q].volume = v =>
               volumes[v].parts[i].number # request'[q].part
    <3>1. \A i \in DOMAIN volumes[v].parts : \A q \in Requests : q # r =>
             (Outstanding(q)' /\ request'[q].volume = v =>
                 volumes[v].parts[i].number # request'[q].part)
      BY <1>6, <1>8, <2>1
    <3> QED
      BY <1>6, <2>2, <3>1
  <2> QED
    BY <1>3, <2>1, <2>3, <2>4 DEF Listed
<1>14. ASSUME NEW v \in DOMAIN volumes, alive = Threads PROVE Accounted(v)'
  <2>1. \A i \in DOMAIN volumes'[v].hash : i \in DOMAIN volumes[v].hash \/ (v = w /\ i = k)
    BY <1>3, <1>4, <1>5, AppendProperties, LenProperties
  <2>2. Accounted(v)
    BY <1>14 DEF Delivery
  <2> QED
    BY <1>3, <1>6, <1>8, <2>1, <2>2 DEF Accounted
<1>15. \A v \in DOMAIN volumes : uploads[v].state # "object"
  BY DEF Delivery, Sealed
<1>16. \A v \in DOMAIN volumes : uploads[v].parts \subseteq Written(volumes'[v].hash)
  BY <1>7 DEF Delivery
<1> QED
  BY <1>1, <1>10, <1>12, <1>13, <1>14, <1>15, <1>16 DEF Delivery, Sealed, main

\* A new volume has nothing written, listed or outstanding.
LEMMA NewVolumeDelivery ==
    ASSUME Shape, Delivery, newVolume, UNCHANGED <<main, at, request>>, Settled',
           pc \notin {"complete", "sent", "failed"}
    PROVE  Delivery'
<1>1. TypeOK
  BY DEF Shape
<1>2. PICK w : w = Len(volumes) + 1
  OBVIOUS
<1>3. /\ \A v \in DOMAIN volumes : volumes'[v] = volumes[v] /\ uploads'[v] = uploads[v]
      /\ volumes'[w].hash = <<>> /\ volumes'[w].parts = <<>>
      /\ uploads'[w].parts = {} /\ uploads'[w].state = "open"
  BY <1>1, <1>2, NewVolumeEffect
<1>4. DOMAIN volumes' = DOMAIN volumes \cup {w} /\ w \notin DOMAIN volumes
  BY <1>1, <1>2, NewVolumeEffect, ShapeFacts, LenProperties
<1>5. \A q \in Requests : /\ Outstanding(q)' = Outstanding(q)
                           /\ NewPart(q)' = NewPart(q)
  BY DEF Outstanding, NewPart
<1>6. \A q \in Requests : Outstanding(q) => /\ request[q].volume \in DOMAIN volumes
                                            /\ Upload(q)' = Upload(q)
  BY <1>3 DEF Delivery, Loaded, Upload
<1>7. \A q \in Requests : Outstanding(q)' => Loaded(q)' /\ Answered(q)'
  BY <1>3, <1>4, <1>5, <1>6 DEF Delivery, Loaded, Answered
<1>8. Distinct'
  BY <1>5 DEF Delivery, Distinct
<1>9. ASSUME NEW v \in DOMAIN volumes
      PROVE  Listed(v)' /\ (alive = Threads => Accounted(v)')
  BY <1>3, <1>5 DEF Delivery, Listed, Accounted
<1>10. Listed(w)' /\ Accounted(w)'
  BY <1>3 DEF Listed, Accounted
<1>11. \A v \in DOMAIN volumes' : uploads'[v].state # "object"
  BY <1>3, <1>4 DEF Delivery, Sealed
<1>12. \A v \in DOMAIN volumes' : uploads'[v].parts \subseteq Written(volumes'[v].hash)
  BY <1>3, <1>4 DEF Delivery
<1> QED
  BY <1>4, <1>7, <1>8, <1>9, <1>10, <1>11, <1>12 DEF Delivery, Sealed, main

\* Moving a request while its part stays outstanding or stays out of play.
LEMMA MoveDelivery ==
    ASSUME Shape, Delivery, NEW r \in Requests, NEW place \in {"flight", "out"},
           at' = [at EXCEPT ![r] = place],
           at[r] = IF place = "out" THEN "held" ELSE "pending",
           UNCHANGED <<main, request, volumes, uploads>>, Settled',
           pc' = pc \/ (pc = "roll" /\ pc' = "select")
    PROVE  Delivery'
<1>1. /\ \A q \in Requests : q # r => at'[q] = at[q]
      /\ at'[r] = place
  BY DEF Shape, TypeOK
<1>2. \A q \in Requests : /\ Outstanding(q)' = Outstanding(q)
                           /\ Loaded(q)' = Loaded(q)
  BY <1>1 DEF Outstanding, Loaded, NewPart
<1>3. \A q \in Requests : Answered(q) => Answered(q)'
  BY <1>1 DEF Answered, NewPart, Upload
<1>4. Distinct'
  BY <1>2 DEF Delivery, Distinct
<1>5. \A v \in DOMAIN volumes : Listed(v)' = Listed(v) /\ Accounted(v)' = Accounted(v)
  BY <1>2 DEF Listed, Accounted
<1>6. \A v \in DOMAIN volumes : Sealed(v)'
  BY <1>2 DEF Delivery, Sealed
<1> QED
  BY <1>2, <1>3, <1>4, <1>5, <1>6 DEF Delivery, main

\* S3 storing an outstanding part loses no other part anyone counts on.
LEMMA StoreKeeps ==
    ASSUME Shape, Delivery, NEW r \in Requests, Outstanding(r), Store(r)
    PROVE  /\ Len(uploads') = Len(uploads)
           /\ \A v \in DOMAIN volumes :
                 /\ uploads'[v].state = uploads[v].state
                 /\ uploads[v].state # "object"
                 /\ uploads'[v].parts \subseteq Written(volumes[v].hash)
                 /\ \A i \in DOMAIN volumes[v].parts :
                       uploads[v].state = "open" => volumes[v].parts[i] \in uploads'[v].parts
           /\ \A q \in Requests :
                 Outstanding(q) /\ NewPart(q) \in uploads[request[q].volume].parts =>
                     NewPart(q) \in uploads'[request[q].volume].parts
           /\ NewPart(r) \in uploads'[request[r].volume].parts
<1>1. TypeOK
  BY DEF Shape
<1>2. /\ Len(uploads') = Len(uploads)
      /\ \A v \in DOMAIN volumes :
            /\ uploads'[v].state = uploads[v].state
            /\ uploads'[v].parts = IF v = request[r].volume
                                   THEN Stored(uploads[v].parts, NewPart(r))
                                   ELSE uploads[v].parts
  BY <1>1, StoreEffect, ShapeFacts
<1>3. /\ request[r].volume \in DOMAIN volumes
      /\ NewPart(r) \in Written(volumes[request[r].volume].hash)
  BY DEF Delivery, Loaded
<1>4. NewPart(r).number = request[r].part
  BY DEF NewPart
<1>5. ASSUME NEW v \in DOMAIN volumes
      PROVE  /\ uploads[v].state # "object"
             /\ uploads'[v].parts \subseteq Written(volumes[v].hash)
             /\ \A i \in DOMAIN volumes[v].parts :
                   uploads[v].state = "open" => volumes[v].parts[i] \in uploads'[v].parts
  <2>1. /\ uploads[v].parts \subseteq Written(volumes[v].hash)
        /\ Listed(v) /\ Sealed(v)
    BY DEF Delivery
  <2>2. uploads[v].state # "object"
    BY <2>1 DEF Sealed
  <2>3. CASE v = request[r].volume
    <3>1. uploads'[v].parts = {p \in uploads[v].parts : p.number # request[r].part} \cup {NewPart(r)}
      BY <1>2, <1>4, <2>3 DEF Stored
    <3>2. uploads'[v].parts \subseteq Written(volumes[v].hash)
      BY <1>3, <2>1, <2>3, <3>1
    <3>3. \A i \in DOMAIN volumes[v].parts :
             /\ uploads[v].state = "open" => volumes[v].parts[i] \in uploads[v].parts
             /\ volumes[v].parts[i].number # request[r].part
      BY <2>1, <2>3 DEF Listed
    <3> QED
      BY <2>2, <3>1, <3>2, <3>3
  <2>4. CASE v # request[r].volume
    BY <1>2, <2>1, <2>2, <2>4 DEF Listed
  <2> QED
    BY <2>3, <2>4
<1>6. ASSUME NEW q \in Requests, Outstanding(q), NewPart(q) \in uploads[request[q].volume].parts
      PROVE  NewPart(q) \in uploads'[request[q].volume].parts
  <2>1. request[q].volume \in DOMAIN volumes
    BY <1>6 DEF Delivery, Loaded
  <2>2. q # r /\ request[q].volume = request[r].volume => NewPart(q).number # NewPart(r).number
    BY <1>6 DEF Delivery, Distinct, NewPart
  <2> QED
    BY <1>2, <1>6, <2>1, <2>2 DEF Stored
<1>7. NewPart(r) \in uploads'[request[r].volume].parts
  BY <1>2, <1>3 DEF Stored
<1> QED
  BY <1>2, <1>5, <1>6, <1>7

\* An uploaded part waits for its response to be taken.
LEMMA UploadPartDelivery ==
    ASSUME Shape, Delivery, NEW r \in Requests, UploadPart(r)
    PROVE  Delivery'
<1> USE DEF UploadPart, main
<1>1. Outstanding(r) /\ request[r].volume \in DOMAIN volumes
  BY DEF Outstanding, Delivery, Loaded
<1>2. NewPart(r) # NoPart
  <2>1. NewPart(r) \in Written(volumes[request[r].volume].hash)
    BY <1>1 DEF Delivery, Loaded
  <2>2. volumes[request[r].volume].hash \in Seq(Block)
    BY <1>1, ShapeFacts DEF Volume
  <2>3. NewPart(r).number \in 1 .. Len(volumes[request[r].volume].hash)
    BY <2>1, <2>2, WrittenNumber
  <2>4. Len(volumes[request[r].volume].hash) \in Nat
    BY <2>2, LenProperties
  <2> QED
    BY <2>3, <2>4 DEF NoPart
<1>3. /\ at'[r] = "free" /\ request'[r].response = NewPart(r)
      /\ request'[r].volume = request[r].volume /\ request'[r].part = request[r].part
      /\ request'[r].buffer = request[r].buffer
      /\ \A q \in Requests : q # r => at'[q] = at[q] /\ request'[q] = request[q]
  BY DEF Shape, TypeOK, Request
<1>4. \A q \in Requests : /\ NewPart(q)' = NewPart(q)
                           /\ request'[q].volume = request[q].volume
                           /\ request'[q].part = request[q].part
  BY <1>3 DEF NewPart
<1>5. \A q \in Requests : Outstanding(q)' = Outstanding(q)
  BY <1>1, <1>2, <1>3 DEF Outstanding
<1>6. Distinct'
  BY <1>4, <1>5 DEF Delivery, Distinct
<1>7. \A q \in Requests : Outstanding(q)' => Loaded(q)'
  BY <1>4, <1>5 DEF Delivery, Loaded
<1>8. /\ Len(uploads') = Len(uploads)
      /\ \A v \in DOMAIN volumes :
            /\ uploads'[v].state = uploads[v].state
            /\ uploads[v].state # "object"
            /\ uploads'[v].parts \subseteq Written(volumes[v].hash)
            /\ \A i \in DOMAIN volumes[v].parts :
                  uploads[v].state = "open" => volumes[v].parts[i] \in uploads'[v].parts
      /\ \A q \in Requests :
            Outstanding(q) /\ NewPart(q) \in uploads[request[q].volume].parts =>
                NewPart(q) \in uploads'[request[q].volume].parts
      /\ NewPart(r) \in uploads'[request[r].volume].parts
  BY <1>1, StoreKeeps
<1>9. ASSUME NEW q \in Requests, Outstanding(q) PROVE Answered(q)'
  <2>1. CASE q = r
    BY <1>3, <1>4, <1>8, <2>1 DEF Answered, Upload
  <2>2. CASE q # r
    <3>1. Answered(q) /\ request[q].volume \in DOMAIN volumes
      BY <1>9 DEF Delivery, Loaded
    <3>2. uploads'[request[q].volume].state = uploads[request[q].volume].state
      BY <1>8, <3>1
    <3> QED
      BY <1>3, <1>4, <1>8, <1>9, <2>2, <3>1, <3>2 DEF Answered, Upload
  <2> QED
    BY <2>1, <2>2
<1>10. ASSUME NEW v \in DOMAIN volumes PROVE Listed(v)' /\ (alive = Threads => Accounted(v)')
  BY <1>4, <1>5, <1>8 DEF Delivery, Listed, Accounted
<1>11. Settled'
  BY <1>3 DEF Delivery, Settled
<1> QED
  BY <1>5, <1>6, <1>7, <1>8, <1>9, <1>10, <1>11 DEF Delivery, Sealed

\* A worker that fails drops its part, and from then on no part is counted on.
LEMMA UploadPartFailsDelivery ==
    ASSUME Shape, Delivery, NEW r \in Requests, UploadPartFails(r)
    PROVE  Delivery'
<1> USE DEF UploadPartFails
<1>1. Outstanding(r)
  BY DEF Outstanding
<1>2. /\ at'[r] = "out"
      /\ \A q \in Requests : q # r => at'[q] = at[q]
  BY DEF Shape, TypeOK
<1>3. \A q \in Requests : /\ Outstanding(q)' <=> q # r /\ Outstanding(q)
                           /\ NewPart(q)' = NewPart(q)
  BY <1>2 DEF Outstanding, NewPart
<1>4. /\ Len(uploads') = Len(uploads)
      /\ \A v \in DOMAIN volumes :
            /\ uploads'[v].state = uploads[v].state
            /\ uploads[v].state # "object"
            /\ uploads'[v].parts \subseteq Written(volumes[v].hash)
            /\ \A i \in DOMAIN volumes[v].parts :
                  uploads[v].state = "open" => volumes[v].parts[i] \in uploads'[v].parts
      /\ \A q \in Requests :
            Outstanding(q) /\ NewPart(q) \in uploads[request[q].volume].parts =>
                NewPart(q) \in uploads'[request[q].volume].parts
  <2>1. CASE Store(r)
    BY <1>1, <2>1, StoreKeeps
  <2>2. CASE UNCHANGED uploads
    <3>1. ASSUME NEW v \in DOMAIN volumes
          PROVE  /\ uploads[v].state # "object"
                 /\ uploads[v].parts \subseteq Written(volumes[v].hash)
                 /\ \A i \in DOMAIN volumes[v].parts :
                       uploads[v].state = "open" => volumes[v].parts[i] \in uploads[v].parts
      <4>1. Listed(v) /\ Sealed(v) /\ uploads[v].parts \subseteq Written(volumes[v].hash)
        BY DEF Delivery
      <4> QED
        BY <1>1, <4>1 DEF Listed, Sealed
    <3> QED
      BY <2>2, <3>1
  <2> QED
    BY <2>1, <2>2
<1>5. Distinct'
  BY <1>3 DEF Delivery, Distinct
<1>6. \A q \in Requests : Outstanding(q)' => Loaded(q)'
  BY <1>3 DEF Delivery, Loaded
<1>7. ASSUME NEW q \in Requests, q # r, Outstanding(q) PROVE Answered(q)'
  <2>1. Answered(q) /\ request[q].volume \in DOMAIN volumes
    BY <1>7 DEF Delivery, Loaded
  <2>2. uploads'[request[q].volume].state = uploads[request[q].volume].state
    BY <1>4, <2>1
  <2>3. NewPart(q) \in uploads[request[q].volume].parts =>
             NewPart(q) \in uploads'[request[q].volume].parts
    BY <1>4, <1>7
  <2>4. at'[q] = at[q] /\ NewPart(q)' = NewPart(q) /\ request' = request
    <3>1. request' = request
      OBVIOUS
    <3>2. at'[q] = at[q]
      BY <1>2, <1>7
    <3> QED
      BY <3>1, <3>2 DEF NewPart
  <2>5. CASE at[q] = "free" /\ request[q].response # NoPart
    BY <2>1, <2>2, <2>3, <2>4, <2>5 DEF Answered, Upload
  <2>6. CASE ~(at[q] = "free" /\ request[q].response # NoPart)
    BY <2>4, <2>6 DEF Answered
  <2> QED
    BY <2>5, <2>6
<1>8. ASSUME NEW v \in DOMAIN volumes PROVE Listed(v)'
  BY <1>3, <1>4 DEF Delivery, Listed
<1>9. Settled' /\ alive' # Threads
  BY ThreadsNat DEF Delivery, Settled, Shape, TypeOK
<1> QED
  BY <1>3, <1>4, <1>5, <1>6, <1>7, <1>8, <1>9 DEF Delivery, Sealed

\* A volume whose parts are all listed is completed with what was written to it.
LEMMA ListedIsWritten ==
    ASSUME Shape, NEW v \in DOMAIN volumes, Listed(v), Accounted(v),
           \A r \in Requests : ~Outstanding(r)
    PROVE  Range(volumes[v].parts) = Written(volumes[v].hash)
<1>1. /\ volumes[v].hash \in Seq(Block)
      /\ DOMAIN volumes[v].hash = 1 .. Len(volumes[v].hash)
  BY ShapeFacts, LenProperties DEF Volume
<1>2. Range(volumes[v].parts) \subseteq Written(volumes[v].hash)
  BY DEF Range, Listed
<1>3. ASSUME NEW e \in Written(volumes[v].hash) PROVE e \in Range(volumes[v].parts)
  <2>1. e.number \in DOMAIN volumes[v].hash /\ e = [number |-> e.number, tag |-> volumes[v].hash[e.number]]
    BY <1>1, WrittenNumber
  <2>2. PICK i \in DOMAIN volumes[v].parts : volumes[v].parts[i].number = e.number
    BY <2>1 DEF Accounted
  <2>3. volumes[v].parts[i] \in Written(volumes[v].hash)
    BY DEF Listed
  <2>4. volumes[v].parts[i] = [number |-> e.number, tag |-> volumes[v].hash[e.number]]
    BY <1>1, <2>2, <2>3, WrittenNumber
  <2> QED
    BY <2>1, <2>4 DEF Range
<1> QED
  BY <1>2, <1>3

\* Completing a volume seals it.
LEMMA CompleteDelivery ==
    ASSUME Shape, Delivery, CompleteMultipartUpload(completed + 1), pc = "complete",
           UNCHANGED <<main, at, request, volumes>>, pc' \in {"complete", "sent", "failed"}
    PROVE  Delivery'
<1>1. TypeOK
  BY DEF Shape
<1>2. /\ alive = Threads
      /\ \A r \in Requests : ~Outstanding(r)
  BY DEF Delivery, Settled, Outstanding
<1>3. \A r \in Requests : ~Outstanding(r)'
  BY <1>2 DEF Outstanding
<1>4. PICK w : w = completed + 1
  OBVIOUS
<1>5. Len(uploads') = Len(uploads)
  BY <1>1, CompleteType
<1>6. ASSUME NEW v \in DOMAIN volumes
      PROVE  /\ uploads'[v].parts \subseteq Written(volumes[v].hash)
             /\ \/ uploads'[v] = uploads[v]
                \/ /\ uploads'[v].state = "object"
                   /\ uploads'[v].parts = Written(volumes[v].hash)
                   /\ volumes[v].hash # <<>>
  <2>0. Listed(v) /\ Accounted(v) /\ uploads[v].parts \subseteq Written(volumes[v].hash)
    BY <1>2 DEF Delivery
  <2>1. v \in DOMAIN uploads
    BY ShapeFacts
  <2>2. CASE v = w
    <3>1. /\ uploads'[v].state = "object"
          /\ uploads'[v].parts = Written(volumes[v].hash)
          /\ volumes[v].parts # <<>>
      BY <1>1, <1>2, <1>4, <2>0, <2>1, <2>2, CompleteEffect, ListedIsWritten
    <3>2. volumes[v].parts \in Seq(Part) /\ volumes[v].hash \in Seq(Block)
      BY ShapeFacts DEF Volume
    <3>3. 1 \in DOMAIN volumes[v].parts
      BY <3>1, <3>2, EmptySeq, LenProperties
    <3>4. volumes[v].parts[1] \in Written(volumes[v].hash)
      BY <2>0, <3>3 DEF Listed
    <3>5. volumes[v].hash # <<>>
      BY <3>4 DEF Written
    <3> QED
      BY <2>0, <3>1, <3>5
  <2>3. CASE v # w
    <3>1. PICK u : uploads' = [uploads EXCEPT ![w] = u]
      BY <1>4 DEF CompleteMultipartUpload
    <3> QED
      BY <1>1, <2>0, <2>1, <2>3, <3>1, LenProperties DEF TypeOK
  <2> QED
    BY <2>2, <2>3
<1>7. ASSUME NEW v \in DOMAIN volumes PROVE Sealed(v)' /\ Listed(v)' /\ Accounted(v)'
  <2>1. Listed(v) /\ Accounted(v) /\ Sealed(v)
    BY <1>2 DEF Delivery
  <2> QED
    BY <1>2, <1>3, <1>6, <2>1 DEF Sealed, Listed, Accounted
<1>8. Settled'
  BY DEF Delivery, Settled, main
<1>9. Distinct'
  BY <1>3 DEF Distinct
<1> QED
  BY <1>3, <1>6, <1>7, <1>8, <1>9 DEF Delivery

\* Aborting an upload takes it out of what anyone counts on.
LEMMA AbortDelivery ==
    ASSUME Shape, Delivery, NEW w, AbortMultipartUpload(w), pc = "abort",
           UNCHANGED <<main, at, request, volumes>>, pc' \in {"abort", "failed"}
    PROVE  Delivery'
<1>1. TypeOK
  BY DEF Shape
<1>2. \A v \in DOMAIN volumes : uploads[v].state # "object"
  BY DEF Delivery, Sealed
<1>3. ASSUME NEW v \in DOMAIN volumes
      PROVE  \/ uploads'[v] = uploads[v]
             \/ /\ uploads'[v].state = "aborted"
                /\ uploads'[v].parts \subseteq Written(volumes[v].hash)
  <2>1. v \in DOMAIN uploads
    BY ShapeFacts
  <2>2. CASE v = w
    <3>1. /\ uploads'[v].state = "aborted"
          /\ uploads'[v].parts \subseteq {NewPart(r) : r \in {q \in InFlight : request[q].volume = v}}
      BY <1>1, <2>1, <2>2, AbortEffect
    <3>2. \A q \in InFlight : request[q].volume = v => NewPart(q) \in Written(volumes[v].hash)
      BY DEF InFlight, Delivery, Outstanding, Loaded
    <3> QED
      BY <3>1, <3>2
  <2>3. CASE v # w
    <3>1. PICK u : uploads' = [uploads EXCEPT ![w] = u]
      BY DEF AbortMultipartUpload
    <3> QED
      BY <1>1, <2>1, <2>3, <3>1, LenProperties DEF TypeOK
  <2> QED
    BY <2>2, <2>3
<1>4. \A q \in Requests : /\ Outstanding(q)' = Outstanding(q)
                           /\ Loaded(q)' = Loaded(q)
                           /\ NewPart(q)' = NewPart(q)
  BY DEF Outstanding, Loaded, NewPart
<1>5. ASSUME NEW q \in Requests, Outstanding(q) PROVE Answered(q)'
  <2>1. Answered(q) /\ request[q].volume \in DOMAIN volumes
    BY <1>5 DEF Delivery, Loaded
  <2> QED
    BY <1>3, <1>4, <2>1 DEF Answered, Upload
<1>6. Distinct'
  BY <1>4 DEF Delivery, Distinct
<1>7. ASSUME NEW v \in DOMAIN volumes
      PROVE  /\ Listed(v)' /\ (alive = Threads => Accounted(v)') /\ Sealed(v)'
             /\ uploads'[v].parts \subseteq Written(volumes[v].hash)
  <2>1. Listed(v) /\ (alive = Threads => Accounted(v)) /\ uploads[v].parts \subseteq Written(volumes[v].hash)
    BY DEF Delivery
  <2> QED
    BY <1>2, <1>3, <1>4, <2>1 DEF Sealed, Listed, Accounted
<1>8. Settled'
  BY DEF Delivery, Settled, main
<1> QED
  BY <1>4, <1>5, <1>6, <1>7, <1>8 DEF Delivery, main

\* Delivery in every step, given Shape.
LEMMA NextDelivery == ASSUME Shape, Delivery, [Next]_vars PROVE Delivery'
<1> USE DEF main
<1>1. TypeOK /\ Settled
  BY DEF Shape, Delivery
<1>2. CASE NewUpload
  BY <1>1, <1>2, NewVolumeDelivery DEF NewUpload, Settled
<1>3. CASE NewUploadFails
  BY <1>1, <1>3, QuietDelivery DEF NewUploadFails, Settled
<1>4. CASE Cancelled
  BY <1>1, <1>4, QuietDelivery DEF Cancelled, Settled
<1>5. CASE Roll
  BY <1>1, <1>5, NewVolumeDelivery DEF Roll, Settled
<1>6. CASE RollFails
  BY <1>1, <1>6, QuietDelivery DEF RollFails, Settled
<1>7. CASE RollEmpty
  BY <1>1, <1>7, QuietDelivery DEF RollEmpty, Settled
<1>8. CASE ReadEOF
  BY <1>1, <1>8, QuietDelivery DEF ReadEOF, Settled
<1>9. CASE Wait
  <2>1. Settled'
    BY <1>1, <1>9, ThreadsNat DEF Wait, Settled, InFlight, TypeOK
  <2> QED
    BY <1>9, <2>1, QuietDelivery DEF Wait
<1>10. CASE Collected
  BY <1>1, <1>10, QuietDelivery DEF Collected, Settled
<1>11. CASE Complete
  BY <1>11, CompleteDelivery DEF Complete
<1>12. CASE CompleteFails
  <2>1. CASE UNCHANGED uploads
    BY <1>1, <1>12, <2>1, QuietDelivery DEF CompleteFails, Settled
  <2>2. CASE CompleteMultipartUpload(completed + 1)
    BY <1>12, <2>2, CompleteDelivery DEF CompleteFails
  <2> QED
    BY <1>12, <2>1, <2>2 DEF CompleteFails
<1>13. CASE Abort
  BY <1>13, AbortDelivery DEF Abort
<1>14. CASE AbortFails
  <2>1. CASE UNCHANGED uploads
    BY <1>1, <1>14, <2>1, QuietDelivery DEF AbortFails, Settled
  <2>2. CASE AbortMultipartUpload(aborted + 1)
    BY <1>14, <2>2, AbortDelivery DEF AbortFails
  <2> QED
    BY <1>14, <2>1, <2>2 DEF AbortFails
<1>15. ASSUME NEW r \in Requests, Take(r) PROVE Delivery'
  <2>1. Settled'
    BY <1>1, <1>15 DEF Take, Settled
  <2> QED
    BY <1>15, <2>1, ReadResponseDelivery DEF Take
<1>16. ASSUME NEW r \in Requests, RollCut(r) PROVE Delivery'
  <2>1. Settled'
    BY <1>1, <1>16 DEF RollCut, Settled
  <2> QED
    BY <1>16, <2>1, MoveDelivery DEF RollCut
<1>17. ASSUME NEW r \in Requests, Read(r) PROVE Delivery'
  <2>1. volumes # <<>>
    BY <1>17 DEF Read, Shape
  <2>2. min(Room, Rest) \in Nat
    BY <1>1, <1>17, <2>1, RoomFits DEF Read, Rest, min, TypeOK
  <2>3. Settled'
    BY <1>1, <1>17 DEF Read, Settled
  <2> QED
    BY <1>17, <2>1, <2>2, <2>3, EnqueueDelivery DEF Read
<1>18. ASSUME NEW r \in Requests, ReadError(r) PROVE Delivery'
  <2>1. volumes # <<>>
    BY <1>18 DEF ReadError, Shape
  <2>2. Settled'
    BY <1>1, <1>18 DEF ReadError, Settled
  <2>3. CASE UNCHANGED <<at, request, total, volumes>>
    BY <1>18, <2>2, <2>3, QuietDelivery DEF ReadError
  <2>4. ASSUME NEW n \in 1 .. min(Room - 1, Rest), enqueue(r, n) PROVE Delivery'
    <3>1. n \in Nat
      BY <1>1, <2>1, RoomFits DEF Rest, min, TypeOK
    <3> QED
      BY <1>18, <2>1, <2>2, <2>4, <3>1, EnqueueDelivery DEF ReadError
  <2> QED
    BY <1>18, <2>3, <2>4 DEF ReadError
<1>19. ASSUME NEW r \in Requests, Collect(r) PROVE Delivery'
  <2>1. Settled'
    BY <1>1, <1>19 DEF Collect, Settled, TypeOK
  <2> QED
    BY <1>19, <2>1, ReadResponseDelivery DEF Collect
<1>20. ASSUME NEW r \in Requests, Dequeue(r) PROVE Delivery'
  <2>1. Settled'
    BY <1>1, <1>20 DEF Dequeue, Settled
  <2>2. /\ at[r] = "pending" /\ at' = [at EXCEPT ![r] = "flight"]
        /\ UNCHANGED <<main, request, volumes, uploads>> /\ pc' = pc
    BY <1>20 DEF Dequeue
  <2> QED
    BY <2>1, <2>2, MoveDelivery DEF main
<1>21. ASSUME NEW r \in Requests, UploadPart(r) PROVE Delivery'
  BY <1>21, UploadPartDelivery
<1>22. ASSUME NEW r \in Requests, UploadPartFails(r) PROVE Delivery'
  BY <1>22, UploadPartFailsDelivery
<1>23. CASE Cancel
  <2>1. Settled'
    BY <1>1, <1>23 DEF Cancel, Settled
  <2> QED
    BY <1>23, <2>1, QuietDelivery DEF Cancel
<1>24. CASE UNCHANGED vars
  <2>1. Settled'
    BY <1>1, <1>24 DEF vars, Settled
  <2> QED
    BY <1>24, <2>1, QuietDelivery DEF vars
<1> QED
  BY <1>2, <1>3, <1>4, <1>5, <1>6, <1>7, <1>8, <1>9, <1>10, <1>11, <1>12, <1>13,
     <1>14, <1>15, <1>16, <1>17, <1>18, <1>19, <1>20, <1>21, <1>22, <1>23, <1>24
     DEF Next, Main, Worker, Returned

\* Whatever the interleaving of reader and workers, and whatever fails, an
\* object holds exactly the blocks read for its volume, each at its place.
THEOREM ObjectsIntact == Spec => []ObjectIntact
<1>1. Shape /\ Delivery => ObjectIntact
  BY ShapeFacts DEF Delivery, Sealed, ObjectIntact
<1>2. Init => Shape /\ Delivery
  BY InitShape, InitDelivery
<1>3. Shape /\ Delivery /\ [Next]_vars => Shape' /\ Delivery'
  BY NextShape, NextDelivery
<1> QED
  BY <1>1, <1>2, <1>3, PTL DEF Spec

-----------------------------------------------------------------------------
(* The third layer: the volumes are one chain, published when it is whole. *)

\* No block, and nothing read.
LEMMA InitChain == Init => Chain
<1> SUFFICES ASSUME Init PROVE Chain
  OBVIOUS
<1>1. DOMAIN volumes = {} /\ DOMAIN uploads = {} /\ Len(volumes) = 0 /\ length \in Nat
  BY UploadAssumption DEF Init
<1> QED
  BY <1>1 DEF Init, Chain, Linked, Adjacent, Tally, SomeObject, Loops

\* The blocks of a volume, and what the chain says of them.
LEMMA ChainFacts ==
    ASSUME Shape, Linked, NEW v \in DOMAIN volumes
    PROVE  /\ volumes[v].hash \in Seq(Block) /\ Len(volumes[v].hash) \in Nat
           /\ DOMAIN volumes[v].hash = 1 .. Len(volumes[v].hash)
           /\ \A n \in 1 .. Len(volumes[v].hash) :
                 volumes[v].hash[n].from \in Nat /\ volumes[v].hash[n].upto \in Nat
           /\ volumes[v].bytes \in Nat /\ v \in 1 .. Len(volumes) /\ Len(volumes) \in Nat
           /\ v < Len(volumes) => volumes[v].hash # <<>>
           /\ volumes[v].hash # <<>> <=> Len(volumes[v].hash) > 0
<1>1. volumes[v] \in Volume /\ DOMAIN volumes = 1 .. Len(volumes) /\ Len(volumes) \in Nat
  BY ShapeFacts
<1>2. /\ volumes[v].hash \in Seq(Block) /\ Len(volumes[v].hash) \in Nat
      /\ DOMAIN volumes[v].hash = 1 .. Len(volumes[v].hash)
      /\ volumes[v].bytes \in Nat
  BY <1>1, LenProperties DEF Volume
<1>3. \A n \in 1 .. Len(volumes[v].hash) : volumes[v].hash[n] \in Block
  BY <1>2, ElementOfSeq
<1>4. volumes[v].hash # <<>> <=> Len(volumes[v].hash) > 0
  BY <1>2, EmptySeq
<1>5. v < Len(volumes) => volumes[v].hash # <<>>
  BY UploadAssumption DEF Linked, Counted
<1> QED
  BY <1>1, <1>2, <1>3, <1>4, <1>5 DEF Block

\* The chain speaks of nothing but the blocks, the byte counts and the total.
LEMMA KeepLinked ==
    ASSUME Shape, Linked, volumes' \in Seq(Volume), Len(volumes') = Len(volumes), total' = total,
           \A v \in DOMAIN volumes : /\ volumes'[v].bytes = volumes[v].bytes
                                    /\ volumes'[v].hash = volumes[v].hash
    PROVE  Linked'
<1>1. DOMAIN volumes' = DOMAIN volumes /\ DOMAIN volumes = 1 .. Len(volumes)
  BY ShapeFacts, LenProperties
<1>2. volumes' = <<>> <=> volumes = <<>>
  BY EmptySeq DEF Shape, TypeOK
<1>3. volumes # <<>> => 1 \in DOMAIN volumes
  BY ShapeFacts
<1>4. \A v \in DOMAIN volumes : Counted(v)'
  BY DEF Linked, Counted
<1>5. Adjacent'
  <2>1. \A v \in DOMAIN volumes : v < Len(volumes) => v + 1 \in DOMAIN volumes
    BY ShapeFacts
  <2>2. ASSUME NEW v \in DOMAIN volumes, NEW n \in DOMAIN volumes[v].hash
        PROVE  volumes'[v].hash[n].upto =
                  IF n < Len(volumes'[v].hash) THEN volumes'[v].hash[n + 1].from
                  ELSE IF v < Len(volumes') /\ volumes'[v + 1].hash # <<>>
                  THEN volumes'[v + 1].hash[1].from
                  ELSE total'
    <3>1. volumes[v].hash[n].upto =
                  IF n < Len(volumes[v].hash) THEN volumes[v].hash[n + 1].from
                  ELSE IF v < Len(volumes) /\ volumes[v + 1].hash # <<>>
                  THEN volumes[v + 1].hash[1].from
                  ELSE total
      BY DEF Linked, Adjacent
    <3>2. volumes'[v].hash = volumes[v].hash
      OBVIOUS
    <3>3. CASE v < Len(volumes)
      <4>1. volumes'[v + 1].hash = volumes[v + 1].hash
        BY <2>1, <3>3
      <4> QED
        BY <3>1, <3>2, <3>3, <4>1
    <3>4. CASE ~(v < Len(volumes))
      BY <3>1, <3>2, <3>4
    <3> QED
      BY <3>3, <3>4
  <2> QED
    BY <1>1, <2>2 DEF Adjacent
<1> QED
  BY <1>1, <1>2, <1>3, <1>4, <1>5 DEF Linked

\* A new volume follows a full one.
LEMMA NewVolumeLinked ==
    ASSUME Shape, Linked, newVolume, total' = total,
           volumes # <<>> => volumes[Len(volumes)].bytes = VolumeSize
    PROVE  Linked'
<1>1. PICK w : w = Len(volumes) + 1
  OBVIOUS
<1>2. /\ \A v \in DOMAIN volumes : volumes'[v] = volumes[v]
      /\ volumes'[w].hash = <<>> /\ volumes'[w].bytes = 0
      /\ Len(volumes') = w /\ volumes' \in Seq(Volume)
  BY <1>1, NewVolumeEffect DEF Shape
<1>3. /\ DOMAIN volumes' = DOMAIN volumes \cup {w} /\ w \notin DOMAIN volumes
      /\ DOMAIN volumes = 1 .. Len(volumes) /\ Len(volumes) \in Nat
  BY <1>1, <1>2, ShapeFacts, LenProperties
<1>4. volumes' # <<>>
  BY <1>1, <1>2, <1>3, EmptySeq
<1>5. IF volumes'[1].hash = <<>> THEN total = 0 ELSE volumes'[1].hash[1].from = 0
  <2>1. CASE volumes = <<>>
    <3>1. w = 1
      BY <1>1, <2>1
    <3> QED
      BY <1>2, <2>1, <3>1 DEF Linked
  <2>2. CASE volumes # <<>>
    <3>1. 1 \in DOMAIN volumes
      BY <2>2, ShapeFacts
    <3> QED
      BY <1>2, <2>2, <3>1 DEF Linked
  <2> QED
    BY <2>1, <2>2
<1>6. \A v \in DOMAIN volumes' : Counted(v)'
  BY <1>2, <1>3 DEF Linked, Counted
<1>7. \A v \in DOMAIN volumes' : v < w => volumes'[v].bytes = VolumeSize
  BY <1>1, <1>2, <1>3, ShapeFacts DEF Linked
<1>8. ASSUME NEW v \in DOMAIN volumes, NEW n \in DOMAIN volumes[v].hash
      PROVE  volumes[v].hash[n].upto =
                IF n < Len(volumes[v].hash) THEN volumes[v].hash[n + 1].from
                ELSE IF v < w /\ volumes'[v + 1].hash # <<>>
                THEN volumes'[v + 1].hash[1].from
                ELSE total
  <2>1. volumes[v].hash[n].upto =
                IF n < Len(volumes[v].hash) THEN volumes[v].hash[n + 1].from
                ELSE IF v < Len(volumes) /\ volumes[v + 1].hash # <<>>
                THEN volumes[v + 1].hash[1].from
                ELSE total
    BY DEF Linked, Adjacent
  <2>2. CASE v = Len(volumes)
    BY <1>1, <1>2, <1>3, <2>1, <2>2
  <2>3. CASE v # Len(volumes)
    <3>1. v < Len(volumes) /\ v < w /\ v + 1 \in DOMAIN volumes
      BY <1>1, <1>3, <2>3
    <3> QED
      BY <1>2, <2>1, <3>1
  <2> QED
    BY <2>2, <2>3
<1>9. Adjacent'
  BY <1>2, <1>3, <1>8 DEF Adjacent
<1> QED
  BY <1>2, <1>4, <1>5, <1>6, <1>7, <1>9 DEF Linked

\* The bytes read next follow the last block of the last volume.
LEMMA EnqueueLinked ==
    ASSUME Shape, Linked, NEW r \in Requests, NEW n \in Nat \ {0}, volumes # <<>>, enqueue(r, n)
    PROVE  Linked'
<1>1. TypeOK /\ total \in Nat
  BY DEF Shape, TypeOK
<1>2. PICK w, b, h : /\ w = Len(volumes) /\ h = volumes[w].hash
                     /\ b = [from |-> total, upto |-> total + n]
  OBVIOUS
<1>3. /\ w \in DOMAIN volumes /\ b \in Block
      /\ \A v \in DOMAIN volumes : v # w => volumes'[v] = volumes[v]
      /\ volumes'[w].hash = Append(h, b)
      /\ volumes'[w].bytes = volumes[w].bytes + n
      /\ Len(volumes') = w /\ volumes' \in Seq(Volume)
      /\ total' = total + n
  BY <1>1, <1>2, EnqueueEffect
<1>4. /\ DOMAIN volumes' = DOMAIN volumes /\ volumes' # <<>>
      /\ DOMAIN volumes = 1 .. w /\ w \in Nat
  BY <1>2, <1>3, ShapeFacts, LenProperties, EmptySeq
<1>5. /\ h \in Seq(Block) /\ Len(h) \in Nat /\ DOMAIN h = 1 .. Len(h)
      /\ \A i \in 1 .. Len(h) : h[i].from \in Nat /\ h[i].upto \in Nat
      /\ volumes[w].bytes \in Nat /\ (h # <<>> <=> Len(h) > 0)
  BY <1>2, <1>3, ChainFacts
<1>6. PICK g : g = Append(h, b)
  OBVIOUS
<1>7. /\ g \in Seq(Block) /\ Len(g) = Len(h) + 1 /\ g # <<>> /\ DOMAIN g = 1 .. Len(h) + 1
      /\ \A i \in 1 .. Len(h) : g[i] = h[i]
      /\ g[Len(h) + 1] = b
  BY <1>3, <1>5, <1>6, AppendProperties, LenProperties
<1>8. b.from = total /\ b.upto = total + n
  BY <1>2
<1>9. h # <<>> => h[Len(h)].upto = total
  BY <1>2, <1>3, <1>5 DEF Linked, Adjacent
<1>10. \A v \in DOMAIN volumes : v < w => volumes[v].hash # <<>>
  BY <1>2, ChainFacts
<1>11. IF volumes'[1].hash = <<>> THEN total' = 0 ELSE volumes'[1].hash[1].from = 0
  <2>1. CASE w = 1 /\ h = <<>>
    <3>1. volumes[1].hash = <<>>
      BY <1>2, <2>1
    <3>2. total = 0
      BY <3>1 DEF Linked
    <3>3. volumes'[1].hash = g /\ Len(h) = 0
      BY <1>3, <1>5, <1>6, <2>1
    <3>4. g[1] = b
      <4>1. Len(h) + 1 = 1
        BY <3>3
      <4> QED
        BY <1>7, <4>1
    <3> QED
      BY <1>7, <1>8, <3>2, <3>3, <3>4
  <2>2. CASE w = 1 /\ h # <<>>
    <3>1. volumes[1].hash = h
      BY <1>2, <2>2
    <3>2. h[1].from = 0
      BY <2>2, <3>1 DEF Linked
    <3>3. volumes'[1].hash = g /\ 1 \in 1 .. Len(h)
      BY <1>3, <1>5, <1>6, <2>2
    <3> QED
      BY <1>7, <3>2, <3>3
  <2>3. CASE w # 1
    <3>1. 1 \in DOMAIN volumes /\ 1 < w
      BY <1>3, <1>4, <2>3
    <3> QED
      BY <1>3, <1>10, <2>3, <3>1 DEF Linked
  <2> QED
    BY <2>1, <2>2, <2>3
<1>12. \A v \in DOMAIN volumes : Counted(v)'
  <2>1. Counted(w)'
    <3>1. Counted(w)
      BY <1>3 DEF Linked
    <3>2. CASE h = <<>>
      <4>1. volumes[w].bytes = 0 /\ Len(h) = 0
        BY <1>2, <1>5, <3>1, <3>2 DEF Counted
      <4>2. g[1] = b /\ g[Len(g)] = b
        <5>1. Len(h) + 1 = 1
          BY <4>1
        <5> QED
          BY <1>7, <5>1
      <4>3. volumes'[w].bytes = n /\ (total + n) - total = n /\ n > 0
        BY <1>1, <1>3, <4>1
      <4> QED
        BY <1>3, <1>6, <1>7, <1>8, <4>2, <4>3 DEF Counted
    <3>3. CASE h # <<>>
      <4>1. volumes[w].bytes = h[Len(h)].upto - h[1].from /\ volumes[w].bytes > 0
        BY <1>2, <3>1, <3>3 DEF Counted
      <4>2. 1 \in 1 .. Len(h)
        BY <1>5, <3>3
      <4>3. h[1].from \in Nat /\ g[1] = h[1] /\ g[Len(g)] = b
        BY <1>5, <1>7, <4>2
      <4>4. h[Len(h)].upto = total /\ g[Len(g)].upto = total + n /\ g[1].from = h[1].from
        BY <1>8, <1>9, <3>3, <4>3
      <4>5. volumes'[w].bytes = (total - h[1].from) + n
        BY <1>3, <4>1, <4>4
      <4>6. volumes'[w].bytes = g[Len(g)].upto - g[1].from
        <5>1. PICK x : x = h[1].from
          OBVIOUS
        <5>2. x \in Nat /\ (total - x) + n = (total + n) - x
          BY <1>1, <4>3, <5>1
        <5> QED
          BY <4>4, <4>5, <5>1, <5>2
      <4>7. volumes'[w].bytes > 0
        BY <1>3, <1>5, <4>1
      <4> QED
        BY <1>3, <1>6, <1>7, <4>6, <4>7 DEF Counted
    <3> QED
      BY <3>2, <3>3
  <2>2. \A v \in DOMAIN volumes : v # w => Counted(v)'
    BY <1>3 DEF Linked, Counted
  <2> QED
    BY <2>1, <2>2
<1>13. \A v \in DOMAIN volumes : v < w => volumes'[v].bytes = VolumeSize
  BY <1>2, <1>3, <1>4 DEF Linked
<1>14. ASSUME NEW v \in DOMAIN volumes, NEW i \in DOMAIN volumes'[v].hash
       PROVE  volumes'[v].hash[i].upto =
                 IF i < Len(volumes'[v].hash) THEN volumes'[v].hash[i + 1].from
                 ELSE IF v < w /\ volumes'[v + 1].hash # <<>>
                 THEN volumes'[v + 1].hash[1].from
                 ELSE total'
  <2>1. CASE v = w
    <3>1. i \in 1 .. Len(h) + 1 /\ volumes'[v].hash = g
      BY <1>3, <1>6, <1>7, <1>14, <2>1
    <3>2. CASE i = Len(h) + 1
      BY <1>3, <1>4, <1>5, <1>7, <1>8, <2>1, <3>1, <3>2
    <3>3. CASE i = Len(h)
      <4>1. g[i] = h[i] /\ h[i].upto = total
        BY <1>5, <1>7, <1>9, <3>1, <3>3
      <4> QED
        BY <1>5, <1>7, <1>8, <3>1, <3>3, <4>1
    <3>4. CASE i < Len(h)
      <4>1. i \in DOMAIN h /\ i + 1 \in 1 .. Len(h)
        BY <1>5, <3>1, <3>4
      <4>2. h[i].upto = h[i + 1].from
        BY <1>2, <1>3, <3>4, <4>1 DEF Linked, Adjacent
      <4> QED
        BY <1>5, <1>7, <3>1, <3>4, <4>1, <4>2
    <3> QED
      BY <1>5, <3>1, <3>2, <3>3, <3>4
  <2>2. CASE v # w
    <3>1. v < w /\ v + 1 \in DOMAIN volumes /\ volumes'[v] = volumes[v]
      BY <1>3, <1>4, <2>2
    <3>2. volumes[v].hash[i].upto =
                 IF i < Len(volumes[v].hash) THEN volumes[v].hash[i + 1].from
                 ELSE IF volumes[v + 1].hash # <<>>
                 THEN volumes[v + 1].hash[1].from
                 ELSE total
      BY <1>2, <1>14, <3>1 DEF Linked, Adjacent
    <3>3. CASE v + 1 = w
      <4>1. volumes'[v + 1].hash = g /\ volumes[v + 1].hash = h
        BY <1>2, <1>3, <1>6, <3>3
      <4>2. CASE h = <<>>
        BY <1>7, <1>8, <1>5, <3>1, <3>2, <4>1, <4>2
      <4>3. CASE h # <<>>
        BY <1>7, <1>5, <3>1, <3>2, <4>1, <4>3
      <4> QED
        BY <4>2, <4>3
    <3>4. CASE v + 1 # w
      <4>1. volumes'[v + 1] = volumes[v + 1] /\ v + 1 < w
        BY <1>3, <1>4, <3>1, <3>4
      <4>2. volumes[v + 1].hash # <<>>
        BY <1>10, <3>1, <4>1
      <4> QED
        BY <3>1, <3>2, <4>1, <4>2
    <3> QED
      BY <3>3, <3>4
  <2> QED
    BY <2>1, <2>2
<1>15. Adjacent'
  BY <1>3, <1>4, <1>14 DEF Adjacent
<1> QED
  BY <1>2, <1>3, <1>4, <1>11, <1>12, <1>13, <1>15 DEF Linked

\* The blocks of the volumes stay one chain.
LEMMA NextLinked == ASSUME Shape, Chain, [Next]_vars PROVE Linked'
<1> USE DEF main
<1>1. TypeOK /\ Linked /\ Shape'
  BY NextShape DEF Shape, Chain
<1>2. CASE UNCHANGED <<total, volumes>>
  BY <1>1, <1>2 DEF Linked, Adjacent, Counted
<1>3. CASE NewUpload
  BY <1>1, <1>3, NewVolumeLinked DEF NewUpload, Chain, Loops
<1>4. CASE Roll
  BY <1>1, <1>4, NewVolumeLinked DEF Roll, Shape
<1>5. ASSUME NEW r \in Requests, Take(r) \/ Collect(r) PROVE Linked'
  <2>1. readResponse(r) /\ total' = total
    BY <1>5 DEF Take, Collect
  <2> QED
    BY <1>1, <2>1, ReadResponseEffect, KeepLinked
<1>6. ASSUME NEW r \in Requests, Read(r) PROVE Linked'
  <2>1. volumes # <<>>
    BY <1>6 DEF Read, Shape
  <2>2. min(Room, Rest) \in Nat \ {0}
    <3>1. Room \in Nat /\ Room # 0
      BY <1>6, <2>1, RoomFits, UploadAssumption DEF Read, Shape
    <3>2. Rest \in Nat /\ Rest # 0
      BY <1>1, <1>6 DEF Read, Rest, TypeOK
    <3> QED BY <3>1, <3>2 DEF min
  <2> QED
    BY <1>1, <1>6, <2>1, <2>2, EnqueueLinked DEF Read
<1>7. ASSUME NEW r \in Requests, ReadError(r) PROVE Linked'
  <2>1. volumes # <<>>
    BY <1>7 DEF ReadError, Shape
  <2>2. ASSUME NEW n \in 1 .. min(Room - 1, Rest), enqueue(r, n) PROVE Linked'
    BY <1>1, <2>1, <2>2, EnqueueLinked DEF min
  <2> QED
    BY <1>2, <1>7, <2>2 DEF ReadError
<1> QED
  BY <1>2, <1>3, <1>4, <1>5, <1>6, <1>7
     DEF Next, Main, Worker, Returned, vars, NewUploadFails, Cancelled, RollFails,
         RollEmpty, RollCut, ReadEOF, Wait, Collected, Complete, CompleteFails, Abort,
         AbortFails, Dequeue, UploadPart, UploadPartFails, Cancel

\* An object comes from completing the next volume and stays an object.
LEMMA NextObjects ==
    ASSUME Shape, Loops, [Next]_vars
    PROVE  /\ Len(uploads') = IF NewUpload \/ Roll THEN Len(uploads) + 1 ELSE Len(uploads)
           /\ \A v \in DOMAIN uploads :
                 uploads[v].state = "object" => uploads'[v].state = "object"
           /\ \A v \in DOMAIN uploads' : uploads'[v].state = "object" =>
                 /\ v \in DOMAIN uploads
                 /\ \/ uploads[v].state = "object"
                    \/ pc = "complete" /\ v = completed + 1
           /\ Complete => uploads'[completed + 1].state = "object"
<1> USE DEF main
<1>1. /\ TypeOK /\ Shape' /\ DOMAIN uploads = 1 .. Len(uploads)
      /\ DOMAIN uploads' = 1 .. Len(uploads') /\ Len(uploads) \in Nat
      /\ completed \in Nat /\ aborted \in Nat /\ Len(uploads) = Len(volumes)
  BY NextShape, LenProperties DEF Shape, TypeOK
<1>2. NewUpload \/ Roll => newVolume /\ ~Complete
  BY DEF NewUpload, Roll, Complete
<1>3. CASE UNCHANGED uploads
  <2>1. ~newVolume
    <3> SUFFICES ASSUME newVolume PROVE FALSE
      OBVIOUS
    <3>1. Len(uploads') = Len(uploads) + 1
      BY <1>1, NewVolumeEffect
    <3>2. Len(uploads') = Len(uploads)
      BY <1>3
    <3> QED
      BY <1>1, <3>1, <3>2
  <2>2. Complete => uploads'[completed + 1].state = "object"
    <3> SUFFICES ASSUME Complete PROVE FALSE
      OBVIOUS
    <3>1. pc = "complete" /\ CompleteMultipartUpload(completed + 1)
      BY DEF Complete
    <3>2. completed + 1 \in DOMAIN uploads
      BY <1>1, <3>1 DEF Loops
    <3> QED
      BY <1>1, <1>3, <3>1, <3>2, CompleteEffect
  <2> QED
    BY <1>2, <1>3, <2>1, <2>2
<1>4. CASE NewUpload \/ Roll
  <2>1. newVolume /\ ~Complete
    BY <1>2, <1>4
  <2>2. PICK w : w = Len(uploads) + 1
    OBVIOUS
  <2>3. /\ Len(uploads') = w /\ uploads'[w].state = "open"
        /\ \A v \in DOMAIN uploads : uploads'[v] = uploads[v]
    <3>1. Len(uploads') = w /\ Len(volumes') = w
      BY <1>1, <2>1, <2>2, NewVolumeEffect
    <3>2. uploads'[w] = [state |-> "open", parts |-> {}]
      BY <1>1, <2>1, <3>1, NewVolumeEffect
    <3>3. \A v \in DOMAIN volumes : uploads'[v] = uploads[v]
      BY <1>1, <2>1, NewVolumeEffect
    <3>4. DOMAIN volumes = DOMAIN uploads
      BY ShapeFacts
    <3> QED
      BY <3>1, <3>2, <3>3, <3>4
  <2> QED
    BY <1>1, <1>4, <2>1, <2>2, <2>3
<1>5. ASSUME NEW r \in Requests, Store(r), UNCHANGED pc, UNCHANGED completed
      PROVE  /\ Len(uploads') = Len(uploads)
             /\ \A v \in DOMAIN uploads : uploads'[v].state = uploads[v].state
  BY <1>1, <1>5, StoreEffect
<1>6. ASSUME Complete \/ CompleteFails, CompleteMultipartUpload(completed + 1)
      PROVE  /\ Len(uploads') = Len(uploads) /\ pc = "complete"
             /\ completed + 1 \in DOMAIN uploads
             /\ uploads'[completed + 1].state = "object"
             /\ \A w \in DOMAIN uploads : w # completed + 1 => uploads'[w] = uploads[w]
  <2>1. pc = "complete" /\ completed + 1 \in DOMAIN uploads
    BY <1>1, <1>6 DEF Complete, CompleteFails, Loops, TypeOK
  <2> QED
    BY <1>1, <1>6, <2>1, CompleteEffect
<1>7. ASSUME Abort \/ AbortFails, AbortMultipartUpload(aborted + 1)
      PROVE  /\ Len(uploads') = Len(uploads)
             /\ uploads[aborted + 1].state # "object"
             /\ uploads'[aborted + 1].state # "object"
             /\ \A w \in DOMAIN uploads : w # aborted + 1 => uploads'[w] = uploads[w]
  <2>0. pc = "abort"
    BY <1>7 DEF Abort, AbortFails
  <2>1. aborted + 1 \in DOMAIN uploads
    BY <1>1, <2>0 DEF Loops
  <2> QED
    BY <1>1, <1>7, <2>1, AbortEffect
<1>8. CASE \E r \in Requests : Store(r) /\ (UploadPart(r) \/ UploadPartFails(r))
  <2>1. ~Complete /\ ~NewUpload /\ ~Roll
    BY <1>1, <1>8 DEF UploadPart, UploadPartFails, Complete, NewUpload, Roll
  <2> QED
    BY <1>1, <1>5, <1>8, <2>1 DEF UploadPart, UploadPartFails
<1>9. CASE (Complete \/ CompleteFails) /\ CompleteMultipartUpload(completed + 1)
  <2>1. ~NewUpload /\ ~Roll
    BY <1>6, <1>9 DEF NewUpload, Roll
  <2> QED
    BY <1>1, <1>6, <1>9, <2>1
<1>10. CASE (Abort \/ AbortFails) /\ AbortMultipartUpload(aborted + 1)
  <2>1. ~NewUpload /\ ~Roll /\ ~Complete
    BY <1>10 DEF Abort, AbortFails, NewUpload, Roll, Complete
  <2> QED
    BY <1>1, <1>7, <1>10, <2>1
<1> QED
  BY <1>3, <1>4, <1>8, <1>9, <1>10
     DEF Next, Main, Worker, Returned, vars, NewUploadFails, Cancelled, RollFails,
         RollEmpty, RollCut, Read, ReadEOF, ReadError, Take, Wait, Collect, Collected,
         Complete, CompleteFails, Abort, AbortFails, Dequeue, UploadPart,
         UploadPartFails, Cancel

\* Reading takes no more than what is left.
LEMMA NextTotal == ASSUME Shape, Tally, [Next]_vars PROVE total' <= length'
<1> USE DEF main
<1>1. TypeOK /\ total \in Nat /\ length \in Nat /\ total <= length
  BY DEF Shape, TypeOK, Tally
<1>2. CASE UNCHANGED <<length, total>>
  BY <1>1, <1>2
<1>3. ASSUME NEW r \in Requests, NEW n \in Nat, n <= Rest, enqueue(r, n), length' = length
      PROVE  total' <= length'
  BY <1>1, <1>3 DEF enqueue, Rest
<1>4. ASSUME NEW r \in Requests, Read(r) PROVE total' <= length'
  <2>1. volumes # <<>>
    BY <1>4 DEF Read, Shape
  <2>2. Rest \in Nat /\ Room \in Nat
    BY <1>1, <2>1, RoomFits DEF Rest
  <2>3. min(Room, Rest) \in Nat /\ min(Room, Rest) <= Rest
    BY <2>2 DEF min
  <2> QED
    BY <1>3, <1>4, <2>3 DEF Read
<1>5. ASSUME NEW r \in Requests, ReadError(r) PROVE total' <= length'
  <2>1. volumes # <<>>
    BY <1>5 DEF ReadError, Shape
  <2>2. \A n \in 1 .. min(Room - 1, Rest) : n \in Nat /\ n <= Rest
    BY <1>1, <2>1, RoomFits DEF Rest, min
  <2> QED
    BY <1>2, <1>3, <1>5, <2>2 DEF ReadError
<1> QED
  BY <1>2, <1>4, <1>5
     DEF Next, Main, Worker, Returned, vars, NewUpload, NewUploadFails, Cancelled, Roll,
         RollFails, RollEmpty, RollCut, Take, ReadEOF, Wait, Collect, Collected, Complete,
         CompleteFails, Abort, AbortFails, Dequeue, UploadPart, UploadPartFails, Cancel

\* The reader stops when the stream has ended, or behind a full volume.
LEMMA NextLast ==
    ASSUME Shape, Chain, [Next]_vars, pc' \in {"wait", "collect", "complete"}
    PROVE  total' = length' \/ volumes'[Len(volumes')].hash # <<>>
<1> USE DEF main
<1>1. TypeOK /\ Tally /\ (pc # "new" => volumes # <<>>)
  <2>1. pc # "failed"
    BY DEF Next, Main, Worker, Returned, vars, NewUpload, NewUploadFails, Cancelled,
           Roll, RollFails, RollEmpty, RollCut, Take, Read, ReadError, ReadEOF, Wait, Collect,
           Collected, Complete, CompleteFails, Abort, AbortFails, Dequeue, UploadPart,
           UploadPartFails, Cancel
  <2> QED BY <2>1 DEF Shape, Chain
<1>2. CASE ReadEOF
  BY <1>1, <1>2 DEF ReadEOF, Rest, TypeOK
<1>3. CASE RollEmpty
  <2>1. Len(volumes) \in DOMAIN volumes /\ volumes[Len(volumes)].bytes = VolumeSize
    BY <1>1, <1>3, ShapeFacts DEF RollEmpty, Shape
  <2>2. volumes[Len(volumes)].hash # <<>>
    BY <2>1, UploadAssumption DEF Chain, Linked, Counted
  <2> QED BY <1>3, <2>2 DEF RollEmpty
<1>4. ASSUME NEW r \in Requests, Collect(r) PROVE total' = length' \/ volumes'[Len(volumes')].hash # <<>>
  <2>1. /\ pc = "collect" /\ readResponse(r) /\ total' = total /\ length' = length
        /\ Len(volumes) \in DOMAIN volumes
    BY <1>1, <1>4, ShapeFacts DEF Collect
  <2>2. total = length \/ volumes[Len(volumes)].hash # <<>>
    BY <1>1, <2>1 DEF Tally
  <2> QED BY <1>1, <2>1, <2>2, ReadResponseEffect
<1>5. CASE UNCHANGED <<total, length, volumes>> /\ pc \in {"wait", "collect", "complete"}
  BY <1>1, <1>5 DEF Tally
<1> QED
  BY <1>2, <1>3, <1>4, <1>5
     DEF Next, Main, Worker, Returned, vars, NewUpload, NewUploadFails, Cancelled,
         Roll, RollFails, RollCut, Take, Read, ReadError, Wait, Collected, Complete,
         CompleteFails, Abort, AbortFails, Dequeue, UploadPart, UploadPartFails, Cancel

\* What was read is what the chain is long, until all of it was.
LEMMA NextTally == ASSUME Shape, Delivery, Chain, [Next]_vars PROVE Tally'
<1> USE DEF main
<1>1. TypeOK /\ Tally /\ Loops /\ total' <= length'
  BY NextTotal DEF Shape, Chain
<1>2. SUFFICES ASSUME "empty" \notin Faults,
                      pc' \in {"wait", "collect", "complete", "sent"} \/ SomeObject'
               PROVE  total' = length'
  BY <1>1, NextLast DEF Tally
<1>3. SomeObject' => SomeObject \/ pc = "complete"
  BY <1>1, NextObjects DEF SomeObject
<1>4. SomeObject => pc \in {"complete", "sent", "failed"}
  BY ShapeFacts DEF SomeObject, Delivery, Sealed
<1>5. \/ pc \in {"wait", "collect", "complete", "sent"} \/ SomeObject => total = length
  BY <1>1, <1>2 DEF Tally
<1>6. CASE pc \in {"new", "select", "roll", "fill", "abort"}
  <2>1. pc' \in {"wait", "collect", "complete", "sent"}
    BY <1>2, <1>3, <1>4, <1>6
  <2>2. ReadEOF
    BY <1>2, <1>6, <2>1
       DEF Next, Main, Worker, Returned, vars, NewUpload, NewUploadFails, Cancelled, Roll,
           RollFails, RollEmpty, RollCut, Take, Read, ReadError, Wait, Collect, Collected,
           Complete, CompleteFails, Abort, AbortFails, Dequeue, UploadPart, UploadPartFails,
           Cancel
  <2> QED
    BY <1>1, <2>2 DEF ReadEOF, Rest, TypeOK
<1>7. CASE pc \in {"wait", "collect", "complete", "sent", "failed"}
  <2>1. UNCHANGED <<length, total>>
    BY <1>7
       DEF Next, Main, Worker, Returned, vars, NewUpload, NewUploadFails, Cancelled, Roll,
           RollFails, RollEmpty, RollCut, Take, Read, ReadError, ReadEOF, Wait, Collect,
           Collected, Complete, CompleteFails, Abort, AbortFails, Dequeue, UploadPart,
           UploadPartFails, Cancel
  <2>2. pc = "failed" => pc' = "failed"
    BY DEF Next, Main, Worker, Returned, vars, NewUpload, NewUploadFails, Cancelled, Roll,
           RollFails, RollEmpty, RollCut, Take, Read, ReadError, ReadEOF, Wait, Collect,
           Collected, Complete, CompleteFails, Abort, AbortFails, Dequeue, UploadPart,
           UploadPartFails, Cancel
  <2>3. pc = "failed" => SomeObject
    BY <1>2, <1>3, <2>2
  <2> QED
    BY <1>5, <1>7, <2>1, <2>3
<1> QED
  BY <1>1, <1>6, <1>7 DEF TypeOK

\* The loops that complete and abort go through the volumes in order.
LEMMA NextLoops == ASSUME Shape, Delivery, Chain, [Next]_vars PROVE Loops'
<1> USE DEF main
<1>1. /\ TypeOK /\ Loops /\ completed \in Nat /\ aborted \in Nat
      /\ Len(uploads) \in Nat /\ Len(uploads) = Len(volumes) /\ Len(uploads') = Len(volumes')
      /\ DOMAIN uploads = 1 .. Len(uploads) /\ DOMAIN uploads' = 1 .. Len(uploads')
  BY NextShape, LenProperties DEF Shape, TypeOK, Chain
<1>2. /\ \A v \in DOMAIN uploads :
            uploads[v].state = "object" => uploads'[v].state = "object"
      /\ \A v \in DOMAIN uploads' : uploads'[v].state = "object" =>
            /\ v \in DOMAIN uploads
            /\ \/ uploads[v].state = "object"
               \/ pc = "complete" /\ v = completed + 1
      /\ Len(uploads') = IF NewUpload \/ Roll THEN Len(uploads) + 1 ELSE Len(uploads)
      /\ Complete => uploads'[completed + 1].state = "object"
  BY <1>1, NextObjects
<1>3. pc \notin {"new", "failed"} => Len(volumes) > 0
  BY <1>1, EmptySeq DEF Shape, TypeOK
<1>4. pc' = "new" => volumes' = <<>>
  BY <1>1
     DEF Loops, Next, Main, Worker, Returned, vars, NewUpload, NewUploadFails, Cancelled,
         Roll, RollFails, RollEmpty, RollCut, Take, Read, ReadError, ReadEOF, Wait, Collect,
         Collected, Complete, CompleteFails, Abort, AbortFails, Dequeue, UploadPart,
         UploadPartFails, Cancel
<1>5. /\ completed' <= Len(volumes')
      /\ pc' = "complete" => completed' < Len(volumes')
      /\ pc' = "sent" => completed' = Len(volumes')
      /\ pc' \notin {"complete", "sent", "failed"} => completed' = 0
  <2>1. CASE Complete
    <3>0. ~(NewUpload \/ Roll)
      BY <2>1 DEF Complete, NewUpload, Roll
    <3>1. Len(volumes') = Len(volumes)
      BY <1>1, <1>2, <3>0
    <3>2. completed < Len(volumes) /\ completed' = completed + 1
      BY <1>1, <2>1 DEF Complete, Loops
    <3>3. pc' = IF completed' = Len(volumes) THEN "sent" ELSE "complete"
      BY <2>1 DEF Complete
    <3>4. Len(volumes) \in Nat /\ completed' \in Nat /\ completed' <= Len(volumes)
      BY <1>1, <3>2
    <3>5. CASE completed' = Len(volumes)
      BY <3>1, <3>3, <3>4, <3>5
    <3>6. CASE completed' # Len(volumes)
      BY <3>1, <3>3, <3>4, <3>6
    <3> QED
      BY <3>5, <3>6
  <2>2. CASE ~Complete
    <3>1. /\ completed' = completed
          /\ pc' = "complete" => pc \in {"collect", "complete"}
          /\ pc' = "sent" => pc = "sent"
          /\ pc' \notin {"complete", "sent", "failed"} => pc \notin {"complete", "sent", "failed"}
      BY <2>2
         DEF Next, Main, Worker, Returned, vars, NewUpload, NewUploadFails, Cancelled,
             Roll, RollFails, RollEmpty, RollCut, Take, Read, ReadError, ReadEOF, Wait,
             Collect, Collected, CompleteFails, Abort, AbortFails, Dequeue, UploadPart,
             UploadPartFails, Cancel
    <3>2. pc = "sent" => ~(NewUpload \/ Roll)
      BY DEF NewUpload, Roll
    <3>3. Len(volumes) \in Nat /\ completed \in Nat /\ completed <= Len(volumes)
          /\ (pc = "complete" => completed < Len(volumes))
          /\ (pc = "sent" => completed = Len(volumes))
          /\ (pc \notin {"complete", "sent", "failed"} => completed = 0)
      BY <1>1 DEF Loops
    <3>4. CASE NewUpload \/ Roll
      <4>1. Len(volumes') = Len(volumes) + 1
        BY <1>1, <1>2, <3>4
      <4> QED BY <3>1, <3>2, <3>3, <3>4, <4>1
    <3>5. CASE ~(NewUpload \/ Roll)
      <4>1. Len(volumes') = Len(volumes)
        BY <1>1, <1>2, <3>5
      <4>2. pc = "collect" => completed < Len(volumes)
        BY <1>3, <3>3
      <4> QED BY <3>1, <3>3, <4>1, <4>2
    <3> QED BY <3>4, <3>5
  <2> QED
    BY <2>1, <2>2
<1>6. /\ pc' \notin {"abort", "failed"} => aborted' = 0
      /\ pc' = "abort" => aborted' < Len(volumes')
  <2>1. CASE Abort
    <3>0. ~(NewUpload \/ Roll)
      BY <2>1 DEF Abort, NewUpload, Roll
    <3>1. Len(volumes') = Len(volumes)
      BY <1>1, <1>2, <3>0
    <3>2. aborted < Len(volumes) /\ aborted' = aborted + 1
      BY <1>1, <2>1 DEF Abort, Loops
    <3>3. pc' = IF aborted' = Len(volumes) THEN "failed" ELSE "abort"
      BY <2>1 DEF Abort
    <3>4. Len(volumes) \in Nat /\ aborted' \in Nat /\ aborted' <= Len(volumes)
      BY <1>1, <3>2
    <3>5. CASE aborted' = Len(volumes)
      BY <3>1, <3>3, <3>4, <3>5
    <3>6. CASE aborted' # Len(volumes)
      BY <3>1, <3>3, <3>4, <3>6
    <3> QED
      BY <3>5, <3>6
  <2>2. CASE ~Abort
    BY <1>1, <1>2, <1>3, <2>2
       DEF Loops, Next, Main, Worker, Returned, vars, NewUpload, NewUploadFails, Cancelled,
           Roll, RollFails, RollEmpty, RollCut, Take, Read, ReadError, ReadEOF, Wait, Collect,
           Collected, Complete, CompleteFails, AbortFails, Dequeue, UploadPart,
           UploadPartFails, Cancel
  <2> QED
    BY <2>1, <2>2
<1>7. ASSUME NEW v \in DOMAIN uploads'
      PROVE  /\ v <= completed' => uploads'[v].state = "object"
             /\ uploads'[v].state = "object" =>
                   v <= completed' \/ (v = completed' + 1 /\ pc' = "failed")
  <2>1. CASE Complete
    <3>1. completed' = completed + 1 /\ pc = "complete"
      BY <2>1 DEF Complete
    <3>2. v \in DOMAIN uploads
      BY <1>1, <1>2, <2>1, <3>1 DEF NewUpload, Roll
    <3> QED
      BY <1>1, <1>2, <2>1, <3>1, <3>2 DEF Loops
  <2>2. CASE ~Complete
    <3>1. pc = "complete" => \A r \in Requests : at[r] \notin {"pending", "flight"}
      BY DEF Delivery, Settled
    <3>2. completed' = completed /\ (pc = "failed" => pc' = "failed")
      BY <2>2
         DEF Next, Main, Worker, Returned, vars, NewUpload, NewUploadFails, Cancelled,
           Roll, RollFails, RollEmpty, RollCut, Take, Read, ReadError, ReadEOF, Wait, Collect,
           Collected, CompleteFails, Abort, AbortFails, Dequeue, UploadPart,
           UploadPartFails, Cancel
    <3>3. pc = "complete" => pc' = "failed" \/ UNCHANGED uploads
      BY <2>2, <3>1
         DEF Next, Main, Worker, Returned, vars, NewUpload, NewUploadFails, Cancelled,
           Roll, RollFails, RollEmpty, RollCut, Take, Read, ReadError, ReadEOF, Wait, Collect,
           Collected, CompleteFails, Abort, AbortFails, Dequeue, UploadPart,
           UploadPartFails, Cancel
    <3>4. CASE v \in DOMAIN uploads
      <4>1. /\ v <= completed => uploads[v].state = "object"
            /\ uploads[v].state = "object" =>
                  v <= completed \/ (v = completed + 1 /\ pc = "failed")
        BY <1>1, <3>4 DEF Loops
      <4> QED
        BY <1>2, <3>2, <3>3, <3>4, <4>1
    <3>5. CASE v \notin DOMAIN uploads
      <4>1. completed <= Len(volumes)
        BY <1>1 DEF Loops
      <4> QED
        BY <1>1, <1>2, <3>2, <3>5, <4>1
    <3> QED
      BY <3>4, <3>5
  <2> QED
    BY <2>1, <2>2
<1> QED
  BY <1>4, <1>5, <1>6, <1>7 DEF Loops

\* Chain in every step, given Shape and Delivery.
LEMMA NextChain == ASSUME Shape, Delivery, Chain, [Next]_vars PROVE Chain'
BY NextLinked, NextTally, NextLoops DEF Chain

-----------------------------------------------------------------------------
(* The fourth layer: what failed is cleared away.                          *)

\* S3 accepts the parts of a volume that is not empty: put in order their
\* numbers are 1, 2, ... to that of its last block.
LEMMA ListFits ==
    ASSUME Shape, Delivery, Loops, NEW v \in DOMAIN volumes, v = completed + 1,
           pc = "complete", uploads[v].state # "aborted", volumes[v].hash # <<>>
    PROVE  ~Refused(v)
<1> DEFINE h == volumes[v].hash
           parts == volumes[v].parts
           n == Len(h)
<1>1. /\ h \in Seq(Block) /\ n \in Nat /\ n > 0 /\ DOMAIN h = 1 .. n
      /\ parts \in Seq(Part) /\ Len(parts) \in Nat /\ DOMAIN parts = 1 .. Len(parts)
      /\ uploads[v] \in S3Upload /\ v \in DOMAIN uploads
  <2>1. volumes[v] \in Volume /\ uploads[v] \in S3Upload /\ v \in DOMAIN uploads
    BY ShapeFacts
  <2>2. h \in Seq(Block) /\ parts \in Seq(Part)
    BY <2>1 DEF Volume
  <2> QED BY <2>1, <2>2, LenProperties, EmptySeq
<1>2. uploads[v].state = "open"
  <2>1. uploads[v].state # "object"
    BY <1>1 DEF Loops, Shape, TypeOK
  <2> QED BY <1>1, <2>1 DEF S3Upload
<1>3. \A r \in Requests : ~Outstanding(r)
  BY DEF Delivery, Settled, Outstanding
<1>4. Listed(v) /\ Accounted(v)
  BY DEF Delivery, Settled
<1>5. Range(parts) = Written(h)
  BY <1>3, <1>4, ListedIsWritten
<1>6. \A i \in 1 .. Len(parts) : parts[i].number \in 1 .. n
  <2>1. \A i \in 1 .. Len(parts) : parts[i] \in Written(h)
    BY <1>1, <1>4 DEF Listed
  <2> QED BY <1>1, <2>1, WrittenNumber
<1>7. \A k \in 1 .. n : \E i \in 1 .. Len(parts) : parts[i].number = k
  <2> TAKE k \in 1 .. n
  <2>1. [number |-> k, tag |-> h[k]] \in Range(parts)
    BY <1>1, <1>5, WrittenNumber
  <2> QED BY <1>1, <2>1 DEF Range
<1>8. \A i, j \in 1 .. Len(parts) : parts[i].number = parts[j].number => i = j
  BY <1>1, <1>4 DEF Listed
<1>9. Len(parts) = n
  <2> DEFINE g == [i \in 1 .. Len(parts) |-> parts[i].number]
  <2>1. g \in Bijection(1 .. Len(parts), 1 .. n)
    BY <1>6, <1>7, <1>8 DEF Bijection, Injection, Surjection, IsInjective
  <2>2. Cardinality(1 .. n) = Len(parts)
    BY <1>1, <2>1, FS_CountingElements DEF ExistsBijection
  <2>3. Cardinality(1 .. n) = n
    BY <1>1, FS_Interval
  <2> QED BY <2>2, <2>3
<1> DEFINE p == [k \in 1 .. n |-> CHOOSE i \in 1 .. n : parts[i].number = k]
           list == [i \in DOMAIN parts |-> parts[p[i]]]
<1>10. \A k \in 1 .. n : p[k] \in 1 .. n /\ parts[p[k]].number = k
  BY <1>7, <1>9
<1> HIDE DEF p
<1>11. p \in Bijection(1 .. n, 1 .. n)
  <2>1. p \in [1 .. n -> 1 .. n]
    BY <1>10 DEF p
  <2>2. \A i, j \in 1 .. n : p[i] = p[j] => i = j
    BY <1>10
  <2>3. ASSUME NEW t \in 1 .. n PROVE \E k \in 1 .. n : p[k] = t
    <3>1. PICK k \in 1 .. n : k = parts[t].number
      BY <1>6, <1>9
    <3>2. p[k] \in 1 .. n /\ parts[p[k]].number = parts[t].number
      BY <1>10, <3>1
    <3> QED BY <1>8, <1>9, <3>2
  <2> QED BY <2>1, <2>2, <2>3 DEF Bijection, Injection, Surjection, IsInjective
<1>12. \A i, j \in 1 .. n : i < j => parts[p[i]].number <= parts[p[j]].number
  BY <1>10
<1>13. list \in Sorts(parts)
  BY <1>1, <1>9, <1>11, <1>12 DEF Sorts
<1>14. /\ DOMAIN list = 1 .. n
       /\ \A i \in 1 .. n : list[i] = parts[p[i]] /\ list[i].number = i
                           /\ list[i] \in uploads[v].parts
  BY <1>1, <1>2, <1>4, <1>9, <1>10 DEF Listed
<1> HIDE DEF list, parts, h, n
<1>15. list # <<>>
  BY <1>1, <1>14
<1>16. Acceptable(list, uploads[v])
  BY <1>1, <1>2, <1>14, <1>15 DEF Acceptable, Range
<1> QED
  BY <1>13, <1>16 DEF Refused, parts

\* Where a volume begins: every one before it is full.
LEMMA Extents ==
    ASSUME Shape, Linked, NEW v \in DOMAIN volumes, volumes[v].hash # <<>>
    PROVE  /\ Extent(v).from = (v - 1) * VolumeSize
           /\ Extent(v).upto = Extent(v).from + volumes[v].bytes
           /\ volumes[v].bytes \in Nat \ {0}
<1> DEFINE S == {w \in DOMAIN volumes : /\ volumes[w].hash # <<>>
                                       /\ volumes[w].hash[1].from # (w - 1) * VolumeSize}
<1>1. DOMAIN volumes = 1 .. Len(volumes) /\ Len(volumes) \in Nat /\ VolumeSize \in Nat
  BY ShapeFacts, UploadAssumption
<1>2. ASSUME NEW w \in DOMAIN volumes, volumes[w].hash # <<>>
      PROVE  LET h == volumes[w].hash
             IN  /\ h[1].from \in Nat /\ h[Len(h)].upto \in Nat /\ Len(h) \in DOMAIN h
                 /\ volumes[w].bytes = h[Len(h)].upto - h[1].from
                 /\ volumes[w].bytes \in Nat \ {0}
  <2>1. /\ Len(volumes[w].hash) \in Nat /\ DOMAIN volumes[w].hash = 1 .. Len(volumes[w].hash)
        /\ Len(volumes[w].hash) > 0 /\ volumes[w].bytes \in Nat
    BY <1>2, ChainFacts
  <2>2. 1 \in 1 .. Len(volumes[w].hash) /\ Len(volumes[w].hash) \in 1 .. Len(volumes[w].hash)
    BY <2>1
  <2>3. volumes[w].hash[1].from \in Nat /\ volumes[w].hash[Len(volumes[w].hash)].upto \in Nat
    BY <2>2, ChainFacts
  <2>4. Counted(w)
    BY DEF Linked
  <2> QED BY <1>2, <2>1, <2>2, <2>3, <2>4 DEF Counted
<1>3. S = {}
  <2> SUFFICES ASSUME S # {} PROVE FALSE
    OBVIOUS
  <2>1. PICK m \in S : \A w \in S : m <= w
    <3>1. S \subseteq Nat
      BY <1>1
    <3> HIDE DEF S
    <3> QED BY <3>1, Least
  <2>2. m # 1
    <3> SUFFICES ASSUME m = 1 PROVE FALSE
      OBVIOUS
    <3>1. volumes # <<>> /\ volumes[1].hash # <<>> /\ volumes[1].hash[1].from # (1 - 1) * VolumeSize
      BY <2>1, ShapeFacts, EmptySeq
    <3>2. volumes[1].hash[1].from = 0
      BY <3>1 DEF Linked
    <3> QED BY <1>1, <3>1, <3>2
  <2>3. PICK w : w = m - 1
    OBVIOUS
  <2>4. w \in DOMAIN volumes /\ m = w + 1 /\ w < Len(volumes) /\ w \in Nat /\ ~(m <= w)
    BY <1>1, <2>1, <2>2, <2>3
  <2>5. volumes[w].hash # <<>> /\ volumes[w].bytes = VolumeSize
    BY <2>4, ChainFacts DEF Linked
  <2>6. volumes[w].hash[1].from = (w - 1) * VolumeSize
    BY <2>1, <2>4, <2>5
  <2>7. volumes[w].hash[Len(volumes[w].hash)].upto = volumes[m].hash[1].from
    <3>1. Len(volumes[w].hash) \in DOMAIN volumes[w].hash /\ Len(volumes[w].hash) \in Nat
      BY <1>2, <2>4, <2>5, ChainFacts
    <3>2. volumes[m].hash # <<>> /\ volumes[m] = volumes[w + 1]
      BY <2>1, <2>4
    <3>3. volumes[w].hash[Len(volumes[w].hash)].upto =
             IF Len(volumes[w].hash) < Len(volumes[w].hash)
             THEN volumes[w].hash[Len(volumes[w].hash) + 1].from
             ELSE IF w < Len(volumes) /\ volumes[w + 1].hash # <<>>
             THEN volumes[w + 1].hash[1].from
             ELSE total
      BY <2>4, <3>1 DEF Linked, Adjacent
    <3> QED BY <2>4, <3>1, <3>2, <3>3
  <2>8. volumes[m].hash[1].from = (w - 1) * VolumeSize + VolumeSize
    <3>1. \A x, y \in Nat : VolumeSize = x - y => x = y + VolumeSize
      BY <1>1
    <3>2. /\ volumes[w].hash[1].from \in Nat
          /\ volumes[w].hash[Len(volumes[w].hash)].upto \in Nat
          /\ VolumeSize = volumes[w].hash[Len(volumes[w].hash)].upto - volumes[w].hash[1].from
      BY <1>2, <2>4, <2>5
    <3> QED BY <2>6, <2>7, <3>1, <3>2
  <2>9. (w - 1) * VolumeSize + VolumeSize = (m - 1) * VolumeSize
    <3>1. \A x, y \in Int : (x - 1) * y + y = x * y
      OBVIOUS
    <3>2. m - 1 = w
      BY <2>4
    <3> QED BY <1>1, <2>4, <3>1, <3>2
  <2>10. volumes[m].hash[1].from # (m - 1) * VolumeSize
    BY <2>1
  <2> QED BY <2>8, <2>9, <2>10
<1>4. volumes[v].hash[1].from = (v - 1) * VolumeSize
  BY <1>3
<1>5. \A x, y, z \in Nat : z = x - y => x = y + z
  OBVIOUS
<1>6. /\ volumes[v].hash[1].from \in Nat /\ volumes[v].hash[Len(volumes[v].hash)].upto \in Nat
      /\ volumes[v].bytes = volumes[v].hash[Len(volumes[v].hash)].upto - volumes[v].hash[1].from
      /\ volumes[v].bytes \in Nat \ {0}
  BY <1>2
<1>7. volumes[v].hash[Len(volumes[v].hash)].upto = volumes[v].hash[1].from + volumes[v].bytes
  BY <1>5, <1>6
<1> QED
  BY <1>4, <1>6, <1>7 DEF Extent

\* The bytes read fill all volumes but the last.
LEMMA WholeVolumes ==
    ASSUME Shape, Linked, volumes # <<>>
    PROVE  total = (Len(volumes) - 1) * VolumeSize + volumes[Len(volumes)].bytes
<1> DEFINE l == Len(volumes)
           upto(v) == volumes[v].hash[Len(volumes[v].hash)].upto
<1>1. /\ DOMAIN volumes = 1 .. l /\ l \in Nat /\ l \in DOMAIN volumes /\ VolumeSize \in Nat
      /\ total \in Nat
  BY ShapeFacts, UploadAssumption DEF TypeOK
<1>2. CASE volumes[l].hash # <<>>
  <2>1. Len(volumes[l].hash) \in DOMAIN volumes[l].hash /\ Len(volumes[l].hash) \in Nat
    BY <1>1, <1>2, ChainFacts
  <2>2. upto(l) = total
    BY <1>1, <2>1 DEF Linked, Adjacent
  <2>3. Extent(l).upto = upto(l) /\ Extent(l).upto = (l - 1) * VolumeSize + volumes[l].bytes
    BY <1>1, <1>2, Extents DEF Extent
  <2> QED BY <2>2, <2>3
<1>3. CASE volumes[l].hash = <<>>
  <2>1. volumes[l].bytes = 0
    BY <1>1, <1>3 DEF Linked, Counted
  <2>2. CASE l = 1
    <3>1. total = 0
      BY <1>3, <2>2 DEF Linked
    <3> QED BY <1>1, <2>1, <2>2, <3>1
  <2>3. CASE l # 1
    <3>1. PICK w : w = l - 1
      OBVIOUS
    <3>2. w \in DOMAIN volumes /\ w < l /\ l = w + 1 /\ w \in Nat
      BY <1>1, <2>3, <3>1
    <3>3. volumes[w].hash # <<>> /\ volumes[w].bytes = VolumeSize
      BY <3>2, ChainFacts DEF Linked
    <3>4. Len(volumes[w].hash) \in DOMAIN volumes[w].hash /\ Len(volumes[w].hash) \in Nat
      BY <3>2, <3>3, ChainFacts
    <3>5. upto(w) = total
      BY <1>3, <3>2, <3>4 DEF Linked, Adjacent
    <3>6. upto(w) = (w - 1) * VolumeSize + VolumeSize
      BY <3>2, <3>3, Extents DEF Extent
    <3>7. (w - 1) * VolumeSize + VolumeSize = w * VolumeSize
      <4>1. \A x, y \in Int : (x - 1) * y + y = x * y
        OBVIOUS
      <4> QED BY <1>1, <3>2, <4>1
    <3>8. w * VolumeSize \in Nat
      BY <1>1, <3>2
    <3> QED BY <2>1, <3>1, <3>5, <3>6, <3>7, <3>8
  <2> QED BY <2>2, <2>3
<1> QED
  BY <1>2, <1>3

\* If no stream ends exactly with a volume, no volume is empty once the reader is done.
LEMMA NoneEmpty ==
    ASSUME Shape, Chain, EndsInside, length \in Lengths, NEW v \in DOMAIN volumes,
           pc \in {"wait", "collect", "complete"}
    PROVE  volumes[v].hash # <<>>
<1> DEFINE l == Len(volumes)
<1>1. /\ volumes # <<>> /\ l \in DOMAIN volumes /\ DOMAIN volumes = 1 .. l /\ l \in Nat
      /\ VolumeSize \in Nat \ {0} /\ length \in Nat
  BY ShapeFacts, UploadAssumption DEF Shape, TypeOK
<1>2. CASE v < l
  BY <1>1, <1>2, ChainFacts DEF Chain
<1>3. CASE v = l /\ volumes[l].hash = <<>>
  <2>1. total = length
    BY <1>3 DEF Chain, Tally
  <2>2. volumes[l].bytes = 0
    BY <1>1, <1>3 DEF Chain, Linked, Counted
  <2>3. total = (l - 1) * VolumeSize + 0
    BY <1>1, <2>2, WholeVolumes DEF Chain
  <2>4. l - 1 \in Nat /\ (l - 1) * VolumeSize \in Nat
    BY <1>1
  <2>5. l - 1 <= (l - 1) * VolumeSize
    <3>1. \A a \in Nat, b \in Nat \ {0} : a <= a * b
      OBVIOUS
    <3> QED BY <1>1, <2>4, <3>1
  <2>6. length = (l - 1) * VolumeSize /\ l - 1 \in 0 .. length
    BY <1>1, <2>1, <2>3, <2>4, <2>5
  <2> QED BY <2>6 DEF EndsInside
<1> QED
  BY <1>1, <1>2, <1>3


\* An aborted upload is empty unless S3 keeps the part of a straggler.
LEMMA AbortEmpties ==
    ASSUME TypeOK, NEW v \in DOMAIN uploads, AbortMultipartUpload(v)
    PROVE  "straggler" \notin Faults => uploads'[v].parts = {}
<1>1. PICK late \in SUBSET {NewPart(r) : r \in {q \in InFlight : request[q].volume = v}} :
         /\ late = {} \/ "straggler" \in Faults
         /\ uploads' = [uploads EXCEPT ![v] = [state |-> "aborted", parts |-> late]]
  BY DEF AbortMultipartUpload
<1>2. uploads'[v] = [state |-> "aborted", parts |-> late]
  BY <1>1
<1> QED
  BY <1>1, <1>2

\* A worker changes no upload that is aborted, and no state of one.
LEMMA StoreCleanup ==
    ASSUME Shape, Delivery, Cleanup, NEW r \in Requests, Store(r), at[r] = "flight",
           Upload(r).state = "open" \/ NewPart(r) \in Upload(r).parts,
           UNCHANGED <<pc, aborted, cancelled, volumes>>
    PROVE  Cleanup'
<1>1. TypeOK /\ DOMAIN uploads = DOMAIN volumes /\ request[r].volume \in DOMAIN volumes
  BY ShapeFacts DEF Delivery, Outstanding, Loaded
<1>2. /\ DOMAIN uploads' = DOMAIN uploads
      /\ \A v \in DOMAIN uploads :
            /\ uploads'[v].state = uploads[v].state
            /\ uploads'[v].parts = IF v = request[r].volume
                                   THEN Stored(uploads[v].parts, NewPart(r))
                                   ELSE uploads[v].parts
  <2>1. uploads' \in Seq(S3Upload) /\ Len(uploads') = Len(uploads)
    BY <1>1, StoreEffect
  <2>2. DOMAIN uploads' = 1 .. Len(uploads') /\ DOMAIN uploads = 1 .. Len(uploads)
    BY <1>1, <2>1, LenProperties DEF TypeOK
  <2> QED BY <1>1, <2>1, <2>2, StoreEffect
<1>3. ASSUME NEW v \in DOMAIN uploads, uploads[v].state = "aborted", "straggler" \notin Faults
      PROVE  uploads'[v].parts = {}
  <2>1. uploads[v].parts = {}
    BY <1>3 DEF Cleanup
  <2>2. v # request[r].volume
    BY <1>3, <2>1 DEF Upload
  <2> QED BY <1>2, <2>1, <2>2
<1> QED
  BY <1>2, <1>3 DEF Cleanup

\* What the reader does before it completes leaves nothing to clear away.
LEMMA BeforeCleanup ==
    ASSUME Shape, Delivery, Chain, Cleanup, UNCHANGED uploads, aborted' = aborted,
           pc \notin {"abort", "failed", "complete", "sent"},
           pc' # "failed" \/ uploads = <<>>
    PROVE  Cleanup'
<1>1. \A v \in DOMAIN uploads : uploads[v].state # "aborted"
  BY DEF Cleanup
<1>2. aborted = 0
  BY DEF Chain, Loops
<1>3. ASSUME NEW v \in DOMAIN uploads PROVE uploads[v].state = "open" /\ ~(v <= aborted)
  <2>1. uploads[v] \in S3Upload /\ v \in 1 .. Len(volumes) /\ v \in DOMAIN volumes
    BY ShapeFacts
  <2>2. uploads[v].state # "object"
    BY <2>1 DEF Delivery, Sealed
  <2> QED BY <1>1, <1>2, <2>1, <2>2 DEF S3Upload
<1>4. uploads = <<>> => \A v \in DOMAIN uploads : FALSE
  BY LenProperties, EmptySeq
<1> QED
  BY <1>1, <1>3, <1>4 DEF Cleanup

\* A volume that is there is completed unless S3 fails or a signal has come.
LEMMA CompletedAll ==
    ASSUME Shape, Delivery, Chain, Cleanup, length \in Lengths, EndsInside,
           pc = "complete", Refused(completed + 1)
    PROVE  FALSE
<1>1. completed + 1 \in DOMAIN volumes /\ DOMAIN uploads = DOMAIN volumes
  BY ShapeFacts DEF Chain, Loops, Shape, TypeOK
<1>2. volumes[completed + 1].hash # <<>>
  BY <1>1, NoneEmpty
<1>3. uploads[completed + 1].state # "aborted"
  BY <1>1 DEF Cleanup
<1> QED
  BY <1>1, <1>2, <1>3, ListFits DEF Chain

\* What is aborted is aborted for good.
LEMMA AbortCleanup ==
    ASSUME Shape, Chain, Cleanup, pc = "abort", AbortMultipartUpload(aborted + 1)
    PROVE  /\ DOMAIN uploads' = DOMAIN uploads /\ aborted + 1 \in DOMAIN uploads
           /\ \A v \in DOMAIN uploads :
                 /\ uploads'[v].state = IF v <= aborted + 1 THEN "aborted" ELSE "open"
                 /\ uploads'[v].state = "aborted" /\ "straggler" \notin Faults =>
                       uploads'[v].parts = {}
<1>1. /\ TypeOK /\ DOMAIN uploads = 1 .. Len(volumes) /\ aborted \in Nat /\ Len(volumes) \in Nat
      /\ aborted + 1 \in DOMAIN uploads
  BY ShapeFacts DEF Chain, Loops, TypeOK
<1>2. /\ uploads' \in Seq(S3Upload) /\ Len(uploads') = Len(uploads)
      /\ \A w \in DOMAIN uploads : w # aborted + 1 => uploads'[w] = uploads[w]
      /\ uploads'[aborted + 1].state = "aborted"
      /\ "straggler" \notin Faults => uploads'[aborted + 1].parts = {}
  BY <1>1, AbortEffect, AbortEmpties
<1>3. DOMAIN uploads' = DOMAIN uploads
  BY <1>1, <1>2, ShapeFacts, LenProperties
<1>4. ASSUME NEW v \in DOMAIN uploads
      PROVE  /\ uploads[v].state = IF v <= aborted THEN "aborted" ELSE "open"
             /\ uploads[v].state = "aborted" /\ "straggler" \notin Faults => uploads[v].parts = {}
             /\ v \in Nat
  BY <1>1 DEF Cleanup
<1>5. ASSUME NEW v \in DOMAIN uploads
      PROVE  /\ uploads'[v].state = IF v <= aborted + 1 THEN "aborted" ELSE "open"
             /\ uploads'[v].state = "aborted" /\ "straggler" \notin Faults =>
                   uploads'[v].parts = {}
  <2>1. CASE v = aborted + 1
    BY <1>1, <1>2, <2>1
  <2>2. CASE v # aborted + 1
    <3>1. v <= aborted <=> v <= aborted + 1
      BY <1>1, <1>4, <2>2
    <3> QED BY <1>2, <1>4, <2>2, <3>1
  <2> QED BY <2>1, <2>2
<1> QED
  BY <1>1, <1>3, <1>5

\* There is nothing to clean up.
LEMMA InitCleanup == Init => Cleanup
<1>1. Init => DOMAIN uploads = {}
  BY DEF Init
<1> QED
  BY <1>1 DEF Init, Cleanup

\* Each step keeps what is known of the uploads that were given up.
LEMMA NextCleanup ==
    ASSUME Shape, Delivery, Chain, Cleanup, length \in Lengths, [Next]_vars PROVE Cleanup'
<1> USE DEF main
<1>1. /\ TypeOK /\ DOMAIN uploads = DOMAIN volumes /\ completed \in Nat /\ aborted \in Nat
      /\ DOMAIN volumes = 1 .. Len(volumes) /\ Len(volumes) \in Nat
  BY ShapeFacts DEF TypeOK
<1>2. ASSUME UNCHANGED <<uploads, pc, aborted>>, pc = "failed" => cancelled' = cancelled
      PROVE  Cleanup'
  BY <1>2 DEF Cleanup
<1>3. CASE NewUpload \/ Roll
  <2>1. newVolume /\ pc' \in {"select", "fill"} /\ pc \in {"new", "roll"}
    BY <1>3 DEF NewUpload, Roll
  <2>2. /\ Len(uploads') = Len(uploads) + 1 /\ Len(volumes') = Len(uploads) + 1
        /\ uploads' \in Seq(S3Upload) /\ uploads'[Len(volumes')].state = "open"
        /\ \A v \in DOMAIN volumes : uploads'[v] = uploads[v]
    BY <1>1, <2>1, NewVolumeEffect, ShapeFacts
  <2>3. DOMAIN uploads' = 1 .. Len(uploads) + 1 /\ Len(uploads) = Len(volumes)
    BY <2>2, LenProperties, ShapeFacts
  <2>4. \A v \in DOMAIN uploads : uploads[v].state # "aborted"
    BY <2>1 DEF Cleanup
  <2>5. \A v \in DOMAIN uploads' : uploads'[v].state # "aborted"
    <3> TAKE v \in DOMAIN uploads'
    <3>1. v \in DOMAIN uploads \/ v = Len(uploads) + 1
      BY <1>1, <2>3
    <3> QED BY <1>1, <2>2, <2>4, <3>1
  <2> QED BY <2>1, <2>5 DEF Cleanup
<1>4. ASSUME NEW r \in Requests, UploadPart(r) \/ UploadPartFails(r) PROVE Cleanup'
  <2>1. CASE UNCHANGED uploads
    BY <1>2, <1>4, <2>1 DEF UploadPart, UploadPartFails
  <2>2. CASE uploads' # uploads
    <3>1. /\ Store(r) /\ at[r] = "flight"
          /\ Upload(r).state = "open" \/ NewPart(r) \in Upload(r).parts
          /\ UNCHANGED <<pc, aborted, cancelled, volumes>>
      BY <1>4, <2>2 DEF UploadPart, UploadPartFails
    <3> QED BY <3>1, StoreCleanup
  <2> QED BY <1>4, <2>1, <2>2 DEF UploadPart, UploadPartFails
<1>5. CASE (Complete \/ CompleteFails) /\ CompleteMultipartUpload(completed + 1)
  <2>1. pc = "complete" /\ completed + 1 \in DOMAIN uploads /\ aborted' = aborted /\ aborted = 0
    <3>1. pc = "complete" /\ aborted' = aborted
      BY <1>5 DEF Complete, CompleteFails
    <3> QED BY <1>1, <3>1 DEF Chain, Loops
  <2>2. /\ Len(uploads') = Len(uploads) /\ uploads' \in Seq(S3Upload)
        /\ uploads'[completed + 1].state = "object"
        /\ \A w \in DOMAIN uploads : w # completed + 1 => uploads'[w] = uploads[w]
    BY <1>1, <1>5, <2>1, CompleteEffect
  <2>3. DOMAIN uploads' = DOMAIN uploads
    BY <1>1, <2>2, LenProperties, ShapeFacts
  <2>4. \A v \in DOMAIN uploads' : uploads'[v].state # "aborted"
    BY <2>1, <2>2, <2>3 DEF Cleanup
  <2>5. CASE Complete
    BY <2>4, <2>5 DEF Complete, Cleanup
  <2>6. CASE CompleteFails
    <3>1. pc' = "failed" /\ cancelled' = cancelled
          /\ ("complete" \in Faults \/ cancelled \/ Refused(completed + 1))
      BY <2>6 DEF CompleteFails
    <3>2. EndsInside => ~Refused(completed + 1)
      BY <2>1, CompletedAll
    <3> QED BY <2>1, <2>4, <3>1, <3>2 DEF Cleanup
  <2> QED BY <1>5, <2>5, <2>6
<1>6. CASE CompleteFails /\ UNCHANGED uploads
  <2>1. pc = "complete" /\ aborted' = aborted /\ aborted = 0
    BY <1>6 DEF CompleteFails, Chain, Loops
  <2>2. pc' = "failed" /\ cancelled' = cancelled
          /\ ("complete" \in Faults \/ cancelled \/ Refused(completed + 1))
    BY <1>6 DEF CompleteFails
  <2>3. EndsInside => ~Refused(completed + 1)
    BY <2>1, CompletedAll
  <2>4. \A v \in DOMAIN uploads : uploads[v].state # "aborted"
    BY <2>1 DEF Cleanup
  <2> QED BY <1>6, <2>1, <2>2, <2>3, <2>4 DEF Cleanup
<1>7. CASE Abort
  <2>1. pc = "abort" /\ AbortMultipartUpload(aborted + 1) /\ aborted' = aborted + 1
        /\ pc' = IF aborted' = Len(volumes) THEN "failed" ELSE "abort"
    BY <1>7 DEF Abort
  <2>2. /\ DOMAIN uploads' = DOMAIN uploads
        /\ \A v \in DOMAIN uploads :
              /\ uploads'[v].state = IF v <= aborted' THEN "aborted" ELSE "open"
              /\ uploads'[v].state = "aborted" /\ "straggler" \notin Faults => uploads'[v].parts = {}
    BY <2>1, AbortCleanup
  <2>3. pc' = "failed" => \A v \in DOMAIN uploads : uploads'[v].state = "aborted"
    <3>1. pc' = "failed" => aborted' = Len(volumes)
      BY <2>1
    <3>2. \A v \in DOMAIN uploads : v <= Len(volumes)
      BY <1>1
    <3> QED BY <2>2, <3>1, <3>2
  <2> QED BY <2>1, <2>2, <2>3 DEF Cleanup
<1>8. CASE AbortFails
  <2>1. pc = "abort" /\ pc' = "failed" /\ aborted' = aborted /\ aborted + 1 \in DOMAIN uploads
    BY <1>1, <1>8 DEF AbortFails, Chain, Loops
  <2>2. uploads[aborted + 1].state = "open"
    BY <1>1, <2>1 DEF Cleanup
  <2>3. "abort" \in Faults
    BY <1>8, <2>2 DEF AbortFails
  <2>4. CASE UNCHANGED uploads
    BY <2>1, <2>3, <2>4 DEF Cleanup
  <2>5. CASE AbortMultipartUpload(aborted + 1)
    BY <2>1, <2>3, <2>5, AbortCleanup DEF Cleanup
  <2> QED BY <1>8, <2>4, <2>5 DEF AbortFails
<1>9. CASE NewUploadFails
  <2>1. pc = "new" /\ uploads' = uploads /\ aborted' = aborted
    BY <1>9 DEF NewUploadFails
  <2>2. uploads = <<>>
    <3>1. volumes = <<>>
      BY <2>1 DEF Chain, Loops
    <3>2. Len(uploads) = 0 /\ uploads \in Seq(S3Upload)
      BY <1>1, <3>1, ShapeFacts, EmptySeq DEF TypeOK
    <3> QED BY <3>2, EmptySeq
  <2> QED BY <2>1, <2>2, BeforeCleanup
<1>10. ASSUME UNCHANGED <<uploads, aborted>>, pc' # "failed",
              pc \notin {"abort", "failed", "complete", "sent"}
       PROVE  Cleanup'
  BY <1>10, BeforeCleanup
<1>11. CASE Cancelled \/ RollFails \/ RollEmpty \/ ReadEOF \/ Wait \/ Collected
  BY <1>10, <1>11 DEF Cancelled, RollFails, RollEmpty, ReadEOF, Wait, Collected
<1>12. ASSUME NEW r \in Requests, Take(r) \/ RollCut(r) \/ Read(r) \/ ReadError(r) \/ Collect(r)
       PROVE  Cleanup'
  <2>1. CASE Take(r)
    BY <1>10, <2>1 DEF Take
  <2>2. CASE RollCut(r)
    BY <1>10, <2>2 DEF RollCut
  <2>3. CASE Read(r)
    BY <1>10, <2>3 DEF Read
  <2>4. CASE ReadError(r)
    BY <1>10, <2>4 DEF ReadError
  <2>5. CASE Collect(r)
    BY <1>10, <2>5 DEF Collect
  <2> QED BY <1>12, <2>1, <2>2, <2>3, <2>4, <2>5
<1>13. CASE Cancel \/ Returned \/ UNCHANGED vars \/ \E r \in Requests : Dequeue(r)
  BY <1>2, <1>13 DEF Cancel, Returned, vars, Dequeue
<1> QED
  BY <1>3, <1>4, <1>5, <1>6, <1>7, <1>8, <1>9, <1>11, <1>12, <1>13
     DEF Next, Main, Worker, Complete, CompleteFails

\* The stream has the length it began with.
LEMMA NextLength == [Next]_vars => length' = length
BY DEF Next, Main, Worker, Returned, vars, main, NewUpload, NewUploadFails, Cancelled, Roll,
       RollFails, RollEmpty, RollCut, Take, Read, ReadError, ReadEOF, Wait, Collect, Collected,
       Complete, CompleteFails, Abort, AbortFails, Dequeue, UploadPart, UploadPartFails, Cancel

\* The four layers together are inductive.
THEOREM Invariance == Spec => []Invariant
<1>1. Init => Invariant
  BY InitShape, InitDelivery, InitChain, InitCleanup DEF Invariant, Init
<1>2. Invariant /\ [Next]_vars => Invariant'
  BY NextShape, NextDelivery, NextChain, NextCleanup, NextLength DEF Invariant
<1> QED
  BY <1>1, <1>2, PTL DEF Spec

\* When every answer to a create carries its identifier, no object is visible
\* before the stream has been read to its end, and then the volumes hold every
\* byte of it once, whatever fails or is interrupted.
THEOREM OnlyWholeStreams ==
    ASSUME "empty" \notin Faults
    PROVE  Spec => []PublishedOnlyWhole
<1>1. ASSUME Invariant PROVE PublishedOnlyWhole
  <2> SUFFICES ASSUME SomeObject
               PROVE  /\ total = length
                      /\ volumes[1].hash # <<>> /\ volumes[1].hash[1].from = 0
                      /\ Adjacent
    BY DEF PublishedOnlyWhole
  <2>1. total = length /\ Adjacent
    BY <1>1 DEF Invariant, Chain, Tally, Linked
  <2>2. PICK v \in DOMAIN uploads : uploads[v].state = "object"
    BY DEF SomeObject
  <2>3. volumes # <<>> /\ 1 \in DOMAIN volumes
    BY <1>1, ShapeFacts DEF Invariant
  <2>4. volumes[1].hash # <<>>
    <3>1. CASE Len(volumes) > 1
      BY <1>1, <2>3, <3>1, ChainFacts DEF Invariant, Chain
    <3>2. CASE Len(volumes) <= 1
      BY <1>1, <2>2, <2>3, <3>2, ShapeFacts DEF Invariant, Delivery, Sealed
    <3> QED
      BY <1>1, <3>1, <3>2, ShapeFacts DEF Invariant
  <2> QED
    BY <1>1, <2>1, <2>3, <2>4 DEF Invariant, Chain, Linked
<1> QED
  BY <1>1, Invariance, PTL

\* Send reports success only when every volume is an object.
THEOREM SuccessIsStored == Spec => []SentIsStored
<1>1. ASSUME Invariant PROVE SentIsStored
  BY <1>1, ShapeFacts DEF Invariant, Chain, Loops, SentIsStored
<1> QED
  BY <1>1, Invariance, PTL

\* S3 accepts what it is asked to complete: when its turn comes a volume that is not
\* empty lists all of its parts, stored and in ascending order, whatever the order
\* they came back in.
THEOREM ListsComplete == Spec => []ListsAccepted
<1>1. ASSUME Invariant PROVE ListsAccepted
  <2> SUFFICES ASSUME pc = "complete", volumes[completed + 1].hash # <<>>
               PROVE  ~Refused(completed + 1)
    BY DEF ListsAccepted
  <2>1. completed + 1 \in DOMAIN volumes /\ DOMAIN uploads = DOMAIN volumes
    BY <1>1, ShapeFacts DEF Invariant, Chain, Loops, Shape, TypeOK
  <2> QED BY <1>1, <2>1, ListFits DEF Invariant, Chain, Cleanup
<1> QED
  BY <1>1, Invariance, PTL

\* A Send that gives up before it completes its volumes aborts every upload it knows
\* of, and no part of one comes back, whatever failed and however far the workers were:
\* as long as S3 does not refuse to abort, or keep a part of what it has aborted.
THEOREM AbortClears ==
    ASSUME Faults \cap {"abort", "straggler"} = {}
    PROVE  Spec => []AbortLeavesNothing
<1>1. ASSUME Invariant PROVE AbortLeavesNothing
  <2> SUFFICES ASSUME pc = "failed", aborted > 0, NEW v \in DOMAIN uploads
               PROVE  uploads[v].state = "aborted" /\ uploads[v].parts = {}
    BY DEF AbortLeavesNothing
  <2>1. uploads[v].state = "aborted"
    BY <1>1 DEF Invariant, Cleanup
  <2> QED BY <1>1, <2>1 DEF Invariant, Cleanup
<1> QED
  BY <1>1, Invariance, PTL
-----------------------------------------------------------------------------
(* An upload implements an archive.                                        *)

Objects == [v \in 1 .. Published |-> Extent(v)]
Outcome == IF pc \in {"sent", "failed"} THEN pc ELSE "sending"

\* The volumes that are objects are the first ones.
FirstVisible ==
    /\ Published \in Nat /\ Published <= Len(volumes) /\ Len(volumes) \in Nat
    /\ DOMAIN uploads = 1 .. Len(volumes) /\ DOMAIN volumes = 1 .. Len(volumes)
    /\ \A v \in DOMAIN uploads : uploads[v].state = "object" <=> v <= Published
    /\ pc = "complete" => Published = completed
    /\ \A v \in 1 .. Published : volumes[v].hash # <<>> /\ Extent(v) \in Block
    /\ Objects \in Seq(Block) /\ Len(Objects) = Published

\* Volumes become objects in order, and an object has a block.
LEMMA PublishedIs == ASSUME Invariant PROVE FirstVisible
<1>1. /\ Shape /\ Loops /\ Len(volumes) \in Nat /\ Len(uploads) = Len(volumes) /\ completed \in Nat
      /\ DOMAIN uploads = 1 .. Len(volumes) /\ DOMAIN volumes = 1 .. Len(volumes)
      /\ completed <= Len(volumes)
  BY ShapeFacts DEF Invariant, Chain, Loops, TypeOK
<1>2. Published \in Nat /\ Published <= Len(volumes)
  BY <1>1 DEF Published
<1>3. ASSUME NEW v \in DOMAIN uploads PROVE uploads[v].state = "object" <=> v <= Published
  <2>1. /\ v <= completed => uploads[v].state = "object"
        /\ uploads[v].state = "object" => v <= completed \/ v = completed + 1
    BY <1>1 DEF Loops
  <2>4. v \in 1 .. Len(volumes) /\ v \in Nat
    <3>1. v \in 1 .. Len(volumes)
      BY <1>1
    <3> QED BY <3>1
  <2>2. CASE completed < Len(uploads) /\ uploads[completed + 1].state = "object"
    <3>1. Published = completed + 1
      BY <2>2 DEF Published
    <3> QED BY <1>1, <2>1, <2>2, <2>4, <3>1
  <2>3. CASE ~(completed < Len(uploads) /\ uploads[completed + 1].state = "object")
    <3>1. Published = completed
      BY <2>3 DEF Published
    <3>2. v = completed + 1 => uploads[v].state # "object"
      BY <1>1, <2>1, <2>3, <2>4
    <3> QED BY <1>1, <2>1, <2>4, <3>1, <3>2
  <2> QED BY <2>2, <2>3
<1>4. pc = "complete" => Published = completed
  <2>1. CASE completed + 1 \in DOMAIN uploads /\ pc = "complete"
    <3>1. uploads[completed + 1].state # "object"
      BY <1>1, <2>1 DEF Loops
    <3> QED BY <3>1 DEF Published
  <2>2. CASE completed + 1 \notin DOMAIN uploads
    BY <1>1, <2>2 DEF Published
  <2> QED BY <2>1, <2>2
<1>5. ASSUME NEW v \in 1 .. Published PROVE volumes[v].hash # <<>> /\ Extent(v) \in Block
  <2>1. v \in DOMAIN volumes /\ uploads[v].state = "object"
    BY <1>1, <1>2, <1>3
  <2>2. volumes[v].hash # <<>>
    BY <2>1 DEF Invariant, Delivery, Sealed
  <2>3. /\ Len(volumes[v].hash) \in Nat /\ Len(volumes[v].hash) > 0
        /\ \A n \in 1 .. Len(volumes[v].hash) :
              volumes[v].hash[n].from \in Nat /\ volumes[v].hash[n].upto \in Nat
    BY <1>1, <2>1, <2>2, ChainFacts DEF Invariant, Chain
  <2>4. volumes[v].hash[1].from \in Nat /\ volumes[v].hash[Len(volumes[v].hash)].upto \in Nat
    BY <2>3
  <2> QED BY <2>2, <2>4 DEF Extent, Block
<1>6. Objects \in [1 .. Published -> Block]
  BY <1>5 DEF Objects
<1>7. Objects \in Seq(Block)
  BY <1>2, <1>6, SeqDef
<1>8. Len(Objects) = Published
  <2>1. DOMAIN Objects = 1 .. Len(Objects) /\ Len(Objects) \in Nat
    BY <1>7, LenProperties
  <2>2. DOMAIN Objects = 1 .. Published
    BY <1>6
  <2>3. \A a, b \in Nat : 1 .. a = 1 .. b => a <= b
    <3> SUFFICES ASSUME NEW a \in Nat, NEW b \in Nat, 1 .. a = 1 .. b, b < a PROVE FALSE
      OBVIOUS
    <3>1. a \in 1 .. a /\ a \notin 1 .. b
      OBVIOUS
    <3> QED BY <3>1
  <2>4. 1 .. Len(Objects) = 1 .. Published /\ 1 .. Published = 1 .. Len(Objects)
    BY <2>1, <2>2
  <2>5. Len(Objects) <= Published /\ Published <= Len(Objects)
    BY <1>2, <2>1, <2>3, <2>4
  <2>6. \A a, b \in Nat : a <= b /\ b <= a => a = b
    OBVIOUS
  <2> QED BY <1>2, <2>1, <2>5, <2>6
<1> QED
  BY <1>1, <1>2, <1>3, <1>4, <1>5, <1>7, <1>8 DEF FirstVisible

\* While an object is visible the volumes do not change.
LEMMA VisibleStays ==
    ASSUME Invariant, [Next]_vars, NEW v \in DOMAIN uploads, uploads[v].state = "object"
    PROVE  volumes' = volumes
<1>1. pc \in {"complete", "sent", "failed"} /\ \A r \in Requests : ~Outstanding(r)
  BY ShapeFacts DEF Invariant, Delivery, Sealed
<1>2. \A r \in Requests : at[r] \notin {"pending", "flight"}
  BY <1>1 DEF Outstanding
<1> QED
  BY <1>1, <1>2
     DEF Next, Main, Worker, Returned, vars, main, NewUpload, NewUploadFails, Cancelled, Roll,
         RollFails, RollEmpty, RollCut, Take, Read, ReadError, ReadEOF, Wait, Collect, Collected,
         Complete, CompleteFails, Abort, AbortFails, Dequeue, UploadPart, UploadPartFails, Cancel

\* A step that makes nothing visible leaves what is visible as it was.
LEMMA NothingNew ==
    ASSUME Invariant, Invariant', FirstVisible, FirstVisible', [Next]_vars,
           \A v \in DOMAIN uploads' : uploads'[v].state = "object" =>
               v \in DOMAIN uploads /\ uploads[v].state = "object"
    PROVE  Objects' = Objects
<1>1. /\ Published \in Nat /\ Published <= Len(volumes)
      /\ \A v \in 1 .. Len(volumes) : uploads[v].state = "object" <=> v <= Published
      /\ DOMAIN uploads = 1 .. Len(volumes) /\ Len(volumes) \in Nat
  BY DEF FirstVisible
<1>2. /\ Published' \in Nat /\ Published' <= Len(volumes')
      /\ \A v \in 1 .. Len(volumes') : uploads'[v].state = "object" <=> v <= Published'
      /\ DOMAIN uploads' = 1 .. Len(volumes') /\ Len(volumes') \in Nat
  BY DEF FirstVisible
<1>3. \A v \in DOMAIN uploads : uploads[v].state = "object" => uploads'[v].state = "object"
  BY NextObjects DEF Invariant, Chain
<1>4. Len(volumes) <= Len(volumes')
  <2>1. /\ Len(uploads') = IF NewUpload \/ Roll THEN Len(uploads) + 1 ELSE Len(uploads)
    BY NextObjects DEF Invariant, Chain
  <2>2. Len(uploads) = Len(volumes) /\ Len(uploads') = Len(volumes')
    BY ShapeFacts DEF Invariant, Shape, TypeOK
  <2> QED BY <1>1, <2>1, <2>2
<1>5. Published' <= Published
  <2>1. CASE Published' = 0
    BY <1>1, <2>1
  <2>2. CASE Published' # 0
    <3>1. Published' \in 1 .. Len(volumes')
      BY <1>2, <2>2
    <3>2. Published' \in DOMAIN uploads /\ uploads[Published'].state = "object"
      BY <1>2, <3>1
    <3> QED BY <1>1, <3>2
  <2> QED BY <2>1, <2>2
<1>6. Published <= Published'
  <2>1. CASE Published = 0
    BY <1>2, <2>1
  <2>2. CASE Published # 0
    <3>1. Published \in 1 .. Len(volumes) /\ Published \in 1 .. Len(volumes')
      BY <1>1, <1>2, <1>4, <2>2
    <3> QED BY <1>1, <1>2, <1>3, <3>1
  <2> QED BY <2>1, <2>2
<1>7. Published' = Published
  BY <1>1, <1>2, <1>5, <1>6
<1>8. ASSUME NEW v \in 1 .. Published PROVE Extent(v)' = Extent(v)
  <2>1. v \in DOMAIN uploads /\ uploads[v].state = "object"
    BY <1>1
  <2> QED BY <2>1, VisibleStays DEF Extent
<1> QED
  BY <1>7, <1>8 DEF Objects

\* When the volumes are completed each begins where the one before it ends; the last
\* ends with the stream, the others are full and end before it.
LEMMA CompletedExtent ==
    ASSUME Invariant, EndsInside, "empty" \notin Faults, pc = "complete",
           NEW v \in DOMAIN volumes, v = completed + 1
    PROVE  LET before == completed * VolumeSize
           IN  /\ Extent(v).from = before /\ before \in Nat /\ before < length
               /\ Extent(v).upto <= before + VolumeSize
               /\ v = Len(volumes) => Extent(v).upto = length
               /\ v < Len(volumes) => Extent(v).upto = before + VolumeSize /\ Extent(v).upto < length
               /\ completed # 0 => Extent(completed).upto = before
<1> DEFINE l == Len(volumes)
           before == completed * VolumeSize
<1>1. /\ Shape /\ Chain /\ Linked /\ total = length /\ length \in Nat /\ length \in Lengths
      /\ volumes # <<>> /\ l \in DOMAIN volumes /\ DOMAIN volumes = 1 .. l /\ l \in Nat
      /\ VolumeSize \in Nat \ {0} /\ completed \in Nat
  BY ShapeFacts, UploadAssumption DEF Invariant, Chain, Tally, Shape, TypeOK
<1>2. \A w \in DOMAIN volumes : volumes[w].hash # <<>>
  BY <1>1, NoneEmpty
<1>3. ASSUME NEW w \in DOMAIN volumes
      PROVE  /\ Extent(w).from = (w - 1) * VolumeSize
             /\ Extent(w).upto = Extent(w).from + volumes[w].bytes
             /\ volumes[w].bytes \in Nat \ {0} /\ volumes[w].bytes <= VolumeSize
             /\ w < l => volumes[w].bytes = VolumeSize
  BY <1>1, <1>2, Extents DEF Linked, Shape
<1>4. length = (l - 1) * VolumeSize + volumes[l].bytes
  BY <1>1, WholeVolumes
<1>5. Extent(v).from = before /\ before \in Nat
  <2>1. v - 1 = completed
    BY <1>1
  <2>2. Extent(v).from = (v - 1) * VolumeSize
    BY <1>3
  <2>3. \A a, b \in Nat : a * b \in Nat
    OBVIOUS
  <2> QED BY <1>1, <2>1, <2>2, <2>3
<1>6. v < l => before + VolumeSize <= (l - 1) * VolumeSize
  <2>1. \A a \in Nat, b \in Nat, c \in Nat : a + 1 <= b => a * c + c <= b * c
    <3>1. \A a \in Nat, b \in Nat, c \in Nat : a + 1 <= b => b * c = (a + 1) * c + (b - (a + 1)) * c
      OBVIOUS
    <3>2. \A a \in Nat, c \in Nat : (a + 1) * c = a * c + c
      OBVIOUS
    <3>3. \A a \in Nat, b \in Nat, c \in Nat : a + 1 <= b => (b - (a + 1)) * c \in Nat
      OBVIOUS
    <3> QED BY <3>1, <3>2, <3>3
  <2>2. v < l => l - 1 \in Nat /\ completed + 1 <= l - 1
    BY <1>1
  <2> QED BY <1>1, <2>1, <2>2
<1>7. v = l => before = (l - 1) * VolumeSize
  <2>1. v - 1 = completed
    BY <1>1
  <2> QED BY <2>1
<1> HIDE DEF before
<1>8. volumes[l].bytes \in Nat \ {0} /\ (l - 1) * VolumeSize \in Nat
  <2>1. \A a, b \in Nat : a * b \in Nat
    OBVIOUS
  <2>2. l - 1 \in Nat
    BY <1>1
  <2> QED BY <1>1, <1>3, <2>1, <2>2
<1> DEFINE rest == (l - 1) * VolumeSize
<1>12. /\ Extent(v).upto = before + volumes[v].bytes
       /\ volumes[v].bytes \in Nat \ {0} /\ volumes[v].bytes <= VolumeSize
       /\ v < l => volumes[v].bytes = VolumeSize
  BY <1>3, <1>5
<1>13. length = rest + volumes[l].bytes /\ rest \in Nat
  BY <1>4, <1>8
<1>14. v < l => before + VolumeSize <= rest
  BY <1>6
<1>15. v = l => before = rest
  BY <1>7
<1>16. v < l \/ v = l
  <2>1. v \in 1 .. l
    BY <1>1
  <2> HIDE DEF l
  <2> QED BY <1>1, <2>1
<1>17. /\ length \in Nat /\ before \in Nat /\ VolumeSize \in Nat
       /\ volumes[v].bytes \in Nat /\ volumes[l].bytes \in Nat \ {0}
       /\ v = l => volumes[v].bytes = volumes[l].bytes
  BY <1>1, <1>5, <1>8, <1>12
<1> HIDE DEF rest, l
<1>9. /\ v = l => Extent(v).upto = length
      /\ v < l => Extent(v).upto = before + VolumeSize /\ Extent(v).upto < length
      /\ Extent(v).upto <= before + VolumeSize
  BY <1>12, <1>13, <1>14, <1>15, <1>16, <1>17
<1>10. before < length
  BY <1>13, <1>14, <1>15, <1>16, <1>17
<1>11. completed # 0 => Extent(completed).upto = before
  <2> SUFFICES ASSUME completed # 0 PROVE Extent(completed).upto = before
    OBVIOUS
  <2>1. completed \in DOMAIN volumes /\ completed < l
    BY <1>1
  <2>2. Extent(completed).upto = (completed - 1) * VolumeSize + VolumeSize
    BY <1>3, <2>1
  <2>3. \A x, y \in Int : (x - 1) * y + y = x * y
    OBVIOUS
  <2> QED BY <1>1, <2>2, <2>3 DEF before
<1> QED
  BY <1>5, <1>9, <1>10, <1>11 DEF before, l

\* What becomes visible is the next volume.
LEMMA SomethingNew ==
    ASSUME Invariant, Invariant', FirstVisible, FirstVisible', [Next]_vars,
           NEW v \in DOMAIN uploads', uploads'[v].state = "object",
           ~(v \in DOMAIN uploads /\ uploads[v].state = "object")
    PROVE  /\ pc = "complete" /\ v = completed + 1 /\ v \in DOMAIN volumes
           /\ Complete \/ CompleteFails
           /\ Published = completed /\ Objects' = Append(Objects, Extent(v))
<1>1. pc = "complete" /\ v = completed + 1 /\ v \in DOMAIN uploads
  BY NextObjects DEF Invariant, Chain
<1>2. /\ Published = completed /\ v \in DOMAIN volumes /\ v \in 1 .. Len(volumes)
      /\ Published \in Nat /\ Objects \in Seq(Block) /\ Len(Objects) = Published
      /\ DOMAIN uploads = 1 .. Len(volumes)
      /\ \A w \in DOMAIN uploads : uploads[w].state = "object" <=> w <= Published
  BY <1>1 DEF FirstVisible
<1>3. \A r \in Requests : at[r] \notin {"pending", "flight"}
  BY <1>1 DEF Invariant, Delivery, Settled
<1>4. uploads' # uploads
  BY <1>1
<1>5. (Complete \/ CompleteFails) /\ volumes' = volumes
  BY <1>1, <1>3, <1>4
     DEF Next, Main, Worker, Returned, vars, main, NewUpload, NewUploadFails, Cancelled, Roll,
         RollFails, RollEmpty, RollCut, Take, Read, ReadError, ReadEOF, Wait, Collect, Collected,
         Complete, CompleteFails, Abort, AbortFails, Dequeue, UploadPart, UploadPartFails, Cancel
<1>6. /\ Published' \in Nat /\ DOMAIN uploads' = 1 .. Len(volumes') /\ Published' <= Len(volumes')
      /\ \A w \in DOMAIN uploads' : uploads'[w].state = "object" <=> w <= Published'
      /\ Objects' \in Seq(Block) /\ Len(Objects') = Published'
      /\ \A w \in 1 .. Published' : Extent(w)' \in Block
      /\ Len(volumes') \in Nat
  BY DEF FirstVisible
<1>7. Published' = v
  <2>1. v <= Published' /\ v \in Nat
    BY <1>2, <1>6
  <2>2. Published' \in DOMAIN uploads'
    BY <1>1, <1>2, <1>6, <2>1
  <2>3. uploads'[Published'].state = "object"
    BY <1>6, <2>2
  <2>4. Published' = v \/ (Published' \in DOMAIN uploads /\ uploads[Published'].state = "object")
    BY <1>1, <2>2, <2>3, NextObjects DEF Invariant, Chain
  <2>5. Published' = v \/ Published' <= Published
    BY <1>2, <2>4
  <2> QED BY <1>1, <1>2, <1>6, <2>1, <2>5
<1>8. \A w : Extent(w)' = Extent(w)
  BY <1>5 DEF Extent
<1>9. Extent(v) \in Block
  BY <1>2, <1>6, <1>7, <1>8
<1>10. \A w \in 1 .. v : Objects'[w] = Extent(w)
  BY <1>7, <1>8 DEF Objects
<1>11. \A w \in 1 .. Published : Objects[w] = Extent(w)
  BY DEF Objects
<1>12. /\ Append(Objects, Extent(v)) \in Seq(Block)
       /\ Len(Append(Objects, Extent(v))) = v
       /\ \A w \in 1 .. Published : Append(Objects, Extent(v))[w] = Objects[w]
       /\ Append(Objects, Extent(v))[v] = Extent(v)
  BY <1>1, <1>2, <1>9, AppendProperties
<1>13. \A w \in 1 .. v : Objects'[w] = Append(Objects, Extent(v))[w]
  <2> TAKE w \in 1 .. v
  <2>1. w \in 1 .. Published \/ w = v
    BY <1>1, <1>2
  <2> QED BY <1>10, <1>11, <1>12, <2>1
<1>14. Objects' = Append(Objects, Extent(v))
  <2> DEFINE more == Append(Objects, Extent(v))
  <2>1. more \in Seq(Block) /\ Len(more) = v /\ \A w \in 1 .. v : Objects'[w] = more[w]
    BY <1>12, <1>13
  <2>2. Objects' \in Seq(Block) /\ Len(Objects') = v
    BY <1>6, <1>7
  <2> HIDE DEF more
  <2>3. DOMAIN Objects' = 1 .. v /\ DOMAIN more = 1 .. v
    BY <2>1, <2>2, LenProperties
  <2>4. Objects' = [w \in DOMAIN Objects' |-> Objects'[w]] /\ more = [w \in DOMAIN more |-> more[w]]
    BY <2>1, <2>2, SeqDef
  <2> QED BY <2>1, <2>3, <2>4 DEF more
<1> QED
  BY <1>1, <1>2, <1>5, <1>14

\* A step that publishes nothing leaves the archive as it is, or fails it.
LEMMA QuietStep ==
    ASSUME Invariant, Invariant', FirstVisible, FirstVisible', [Next]_vars,
           \A v \in DOMAIN uploads' : uploads'[v].state = "object" =>
               v \in DOMAIN uploads /\ uploads[v].state = "object"
    PROVE  A!Fail \/ UNCHANGED A!vars
<1>1. Objects' = Objects /\ length' = length
  BY NothingNew, NextLength
<1>2. ~Complete
  <2> SUFFICES ASSUME Complete PROVE FALSE
    OBVIOUS
  <2>1. pc = "complete" /\ uploads'[completed + 1].state = "object"
    BY NextObjects DEF Invariant, Chain, Complete
  <2>2. /\ Len(volumes) \in Nat /\ completed \in Nat /\ completed < Len(volumes)
        /\ DOMAIN uploads = 1 .. Len(volumes) /\ Published = completed
    BY <2>1, ShapeFacts DEF Invariant, Chain, Loops, Shape, TypeOK, FirstVisible
  <2>3. volumes' = volumes /\ DOMAIN uploads' = 1 .. Len(volumes')
    BY DEF Complete, FirstVisible
  <2>4. completed + 1 \in DOMAIN uploads' /\ completed + 1 \in DOMAIN uploads
    BY <2>2, <2>3
  <2>5. uploads[completed + 1].state = "object"
    BY <2>1, <2>4
  <2> QED BY <2>2, <2>4, <2>5 DEF FirstVisible
<1>3. Outcome' = Outcome \/ (Outcome = "sending" /\ Outcome' = "failed")
  BY <1>2
     DEF Outcome, Next, Main, Worker, Returned, vars, main, NewUpload, NewUploadFails, Cancelled, Roll,
         RollFails, RollEmpty, RollCut, Take, Read, ReadError, ReadEOF, Wait, Collect, Collected,
         CompleteFails, Abort, AbortFails, Dequeue, UploadPart, UploadPartFails, Cancel
<1> QED
  BY <1>1, <1>3 DEF A!Fail, A!vars, Objects, Outcome

\* Completing a volume publishes the next one.
LEMMA PublishStep ==
    ASSUME Invariant, Invariant', FirstVisible, FirstVisible', [Next]_vars,
           EndsInside, "empty" \notin Faults,
           NEW v \in DOMAIN uploads', uploads'[v].state = "object",
           ~(v \in DOMAIN uploads /\ uploads[v].state = "object")
    PROVE  A!Publish
<1> DEFINE before == completed * VolumeSize
<1>1. /\ pc = "complete" /\ v = completed + 1 /\ v \in DOMAIN volumes
      /\ Complete \/ CompleteFails
      /\ Published = completed /\ Objects' = Append(Objects, Extent(v))
  BY SomethingNew
<1>2. /\ Extent(v).from = before /\ before \in Nat /\ before < length
      /\ Extent(v).upto <= before + VolumeSize
      /\ v = Len(volumes) => Extent(v).upto = length
      /\ v < Len(volumes) => Extent(v).upto = before + VolumeSize /\ Extent(v).upto < length
      /\ completed # 0 => Extent(completed).upto = before
  BY <1>1, CompletedExtent
<1>3. /\ Objects \in Seq(Block) /\ Len(Objects) = completed /\ completed \in Nat
      /\ Len(volumes) \in Nat /\ v \in 1 .. Len(volumes) /\ length \in Nat
      /\ volumes' = volumes
  BY <1>1, ShapeFacts
     DEF FirstVisible, Complete, CompleteFails, Invariant, Shape, TypeOK, Loops, Chain
<1>4. A!Visible = before
  <2>1. CASE completed = 0
    <3>1. Objects = <<>> /\ before = 0
      BY <1>3, <2>1, EmptySeq, UploadAssumption
    <3> QED BY <3>1 DEF A!Visible, Objects
  <2>2. CASE completed # 0
    <3>1. Objects # <<>> /\ Objects[Len(Objects)] = Extent(completed)
      BY <1>1, <1>3, <2>2 DEF Objects
    <3> QED BY <1>2, <2>2, <3>1 DEF A!Visible, Objects
  <2> QED BY <2>1, <2>2
<1> HIDE DEF before
<1>5. Extent(v) = [from |-> before, upto |-> Extent(v).upto]
  BY <1>2 DEF Extent
<1>6. /\ Extent(v).upto \in {before + VolumeSize, length}
      /\ Extent(v).upto <= before + VolumeSize /\ Extent(v).upto <= length
      /\ Extent(v).upto = length <=> v = Len(volumes)
  <2>1. CASE v = Len(volumes)
    BY <1>2, <1>3, <2>1
  <2>2. CASE v < Len(volumes)
    BY <1>2, <1>3, <2>2, UploadAssumption
  <2> QED BY <1>3, <2>1, <2>2
<1>7. /\ Outcome = "sending"
      /\ Outcome' \in {"failed", IF Extent(v).upto = length THEN "sent" ELSE "sending"}
  <2>1. CASE Complete
    <3>1. pc' = IF v = Len(volumes) THEN "sent" ELSE "complete"
      BY <1>1, <1>3, <2>1 DEF Complete
    <3> QED BY <1>1, <1>6, <3>1 DEF Outcome
  <2>2. CASE CompleteFails
    BY <1>1, <2>2 DEF CompleteFails, Outcome
  <2> QED BY <1>1, <2>1, <2>2
<1>8. length' = length
  BY NextLength
<1>9. Objects' = Append(Objects, [from |-> before, upto |-> Extent(v).upto])
  BY <1>1, <1>5
<1> DEFINE upto == Extent(v).upto
<1>10. /\ upto \in {before + VolumeSize, length}
       /\ upto <= before + VolumeSize /\ upto <= length
       /\ Objects' = Append(Objects, [from |-> before, upto |-> upto])
       /\ Outcome' \in {"failed", IF upto = length THEN "sent" ELSE "sending"}
  BY <1>6, <1>7, <1>9
<1> HIDE DEF upto
<1> QED
  BY <1>2, <1>4, <1>7, <1>8, <1>10 DEF A!Publish, Objects, Outcome

\* Whatever its threads, parts, failures and signals do, an upload implements an
\* archive: its objects become visible one after the other, each holds the next
\* VolumeSize bytes of the stream, and it succeeds exactly with the last one.  Every
\* answer to a create carries its identifier, and no stream ends with a full volume.
THEOREM Implements ==
    ASSUME EndsInside, "empty" \notin Faults
    PROVE  Spec => ImplementsArchive
<1>1. Init => A!Init
  <2> SUFFICES ASSUME Init PROVE A!Init
    OBVIOUS
  <2>1. Invariant
    BY InitShape, InitDelivery, InitChain, InitCleanup DEF Invariant, Init
  <2>2. Objects \in Seq(Block) /\ Len(Objects) = Published /\ Published \in Nat
    BY <2>1, PublishedIs DEF FirstVisible
  <2>3. Published = 0
    BY DEF Init, Published
  <2>4. Objects = <<>>
    BY <2>2, <2>3, EmptySeq
  <2> QED BY <2>4 DEF A!Init, Init, Objects
<1>2. Invariant => FirstVisible
  BY PublishedIs
<1>3. Invariant /\ Invariant' /\ FirstVisible /\ FirstVisible' /\ [Next]_vars => [A!Next]_(A!vars)
  BY QuietStep, PublishStep DEF A!Next
<1> QED
  BY <1>1, <1>2, <1>3, Invariance, PTL DEF Spec, ImplementsArchive, A!Spec
=============================================================================
