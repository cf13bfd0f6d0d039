-------------------------------- MODULE Call --------------------------------
(***************************************************************************)
(* What stow promises about one call, whatever happens to its attempts: a  *)
(* call that succeeds has been carried out.  One that fails may have been, *)
(* and may even be carried out later, by an attempt that was given up.     *)
(***************************************************************************)

VARIABLES done,      \* S3 has carried the operation out
          outcome    \* "calling", "ok" or "failed"

vars == <<done, outcome>>

Init == done = FALSE /\ outcome = "calling"

CarryOut == done' = TRUE /\ UNCHANGED outcome

Succeed ==
    /\ outcome = "calling" /\ done
    /\ outcome' = "ok"
    /\ UNCHANGED done

Fail ==
    /\ outcome = "calling"
    /\ outcome' = "failed"
    /\ UNCHANGED done

Next == CarryOut \/ Succeed \/ Fail

Spec == Init /\ [][Next]_vars
=============================================================================
