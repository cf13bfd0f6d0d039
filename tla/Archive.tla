------------------------------ MODULE Archive -------------------------------
(***************************************************************************)
(* What an upload promises about an archive, whatever its threads, parts   *)
(* and retries: the objects of the archive become visible one after the    *)
(* other, each of them the next VolumeSize bytes of the stream, and the    *)
(* archive is sent exactly when they hold all of it.  A failing upload may *)
(* stop anywhere; what is visible then is a prefix of whole volumes.       *)
(***************************************************************************)
EXTENDS Integers, Sequences

CONSTANTS VolumeSize, Lengths

VARIABLES length,    \* the length of the stream
          objects,   \* the bytes each visible object holds
          outcome    \* "sending", "sent" or "failed"

vars == <<length, objects, outcome>>

\* The bytes visible so far.
Visible == IF objects = <<>> THEN 0 ELSE objects[Len(objects)].upto

Init ==
    /\ length \in Lengths
    /\ objects = <<>>
    /\ outcome = "sending"

(* The next object becomes visible; the last one ends the upload, and an   *)
(* upload may fail in the very step that makes an object visible.          *)
Publish ==
    /\ outcome = "sending"
    /\ Visible < length
    /\ \E upto \in {Visible + VolumeSize, length} :
          /\ upto <= Visible + VolumeSize /\ upto <= length
          /\ objects' = Append(objects, [from |-> Visible, upto |-> upto])
          /\ outcome' \in {"failed", IF upto = length THEN "sent" ELSE "sending"}
    /\ UNCHANGED length

Fail ==
    /\ outcome = "sending"
    /\ outcome' = "failed"
    /\ UNCHANGED <<length, objects>>

Next == Publish \/ Fail

Spec == Init /\ [][Next]_vars
=============================================================================
