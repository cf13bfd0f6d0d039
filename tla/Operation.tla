------------------------------ MODULE Operation -----------------------------
(***************************************************************************)
(* One call of stow: doOperation, which forms, signs and sends a request   *)
(* until an attempt succeeds, fails for good or the retries are used up,   *)
(* and the reading of the answer.                                          *)
(*                                                                         *)
(* Time is counted in ticks of a few minutes.  An attempt whose connection *)
(* breaks or that times out is given up, but its request may still be      *)
(* under way: S3 carries it out late or never.                             *)
(***************************************************************************)
EXTENDS Integers

CONSTANTS Retries,    \* count of fixedRetry
          Timeout,    \* ticks http.Client waits for an attempt
          Validity,   \* ticks S3 accepts a signature for
          Faults      \* what the environment may do wrong

(***************************************************************************)
(* "form" is a request that cannot be formed, "refuse" a status that is    *)
(* not retried, "busy" one that is, "lost" a connection that breaks, "cut" *)
(* an answer that cannot be read and "cancel" a signal.                    *)
(***************************************************************************)
ASSUME OperationAssumption ==
    /\ Retries \in Nat /\ Timeout \in Nat \ {0}
    /\ Validity \in Nat /\ Timeout <= Validity
    /\ Faults \subseteq {"form", "refuse", "busy", "lost", "cut", "cancel"}

(***************************************************************************)
(* The kinds of operations.  "same": done twice it leaves what it leaves   *)
(* done once (putting an object or a part, reading).  "once": done again   *)
(* it is refused (completing or aborting an upload).  "new": each time it  *)
(* makes another one (creating an upload).                                 *)
(***************************************************************************)
Kinds == {"same", "once", "new"}

VARIABLES kind,
          pc,         \* where the call is
          count,      \* retries left
          attempts,   \* requests formed
          error,      \* of the last attempt
          wire,       \* the request, or the answer to it
          spent,      \* ticks this attempt has taken
          age,        \* ticks since the request was signed
          late,       \* requests of attempts that were given up
          effects,    \* times S3 has carried the operation out
          cancelled   \* the context of the call is cancelled

client  == <<pc, count, attempts, error>>
network == <<wire, late>>
vars    == <<kind, client, network, spent, age, effects, cancelled>>

Init ==
    /\ kind \in Kinds
    /\ pc = "form" /\ count = Retries /\ attempts = 0 /\ error = "none"
    /\ wire = "nothing" /\ late = 0
    /\ spent = 0 /\ age = 0
    /\ effects = 0
    /\ cancelled = FALSE

-----------------------------------------------------------------------------
(* The client.                                                             *)

\* Mutant: the request is formed and signed before the first attempt only.
FormOnce ==
    /\ pc = "form" /\ ~cancelled
    /\ pc' = "wait" /\ wire' = "request"
    /\ attempts' = attempts + 1
    /\ spent' = 0 /\ UNCHANGED age
    /\ UNCHANGED <<kind, count, error, late, effects, cancelled>>

\* Each attempt is a request of its own, signed with the time of the attempt.
Form ==
    /\ pc = "form" /\ ~cancelled
    /\ pc' = "wait" /\ wire' = "request"
    /\ attempts' = attempts + 1
    /\ spent' = 0 /\ age' = 0
    /\ UNCHANGED <<kind, count, error, late, effects, cancelled>>

\* A request that cannot be formed ends the call.
FormFails ==
    /\ pc = "form" /\ attempts = 0 /\ "form" \in Faults
    /\ pc' = "failed" /\ error' = "form"
    /\ UNCHANGED <<kind, count, attempts, network, spent, age, effects, cancelled>>

\* Mutant: whatever answer there is is taken for a success.
AnswerUnchecked ==
    /\ pc = "wait" /\ wire \in {"ok", "refused", "busy"}
    /\ pc' = "read" /\ UNCHANGED error
    /\ wire' = "nothing"
    /\ UNCHANGED <<kind, count, attempts, late, spent, age, effects, cancelled>>

\* The forwarder: a status from 200 to 299 is a success, any other an error.
Answer ==
    /\ pc = "wait" /\ wire \in {"ok", "refused", "busy"}
    /\ IF wire = "ok"
       THEN pc' = "read" /\ UNCHANGED error
       ELSE pc' = "retry" /\ error' = wire
    /\ wire' = "nothing"
    /\ UNCHANGED <<kind, count, attempts, late, spent, age, effects, cancelled>>

\* An attempt is given up; its request, if it has not been answered, goes on.
GiveUp(cause) ==
    /\ pc' = "retry" /\ error' = cause
    /\ wire' = "nothing"
    /\ late' = IF wire = "request" THEN late + 1 ELSE late
    /\ UNCHANGED <<kind, count, attempts, spent, age, effects, cancelled>>

\* Mutant: an http.Client without a timeout, which waits until a signal comes.
WaitsForSignal == pc = "wait" /\ cancelled /\ GiveUp("network")

\* http.Client gives up an attempt that takes too long.
TimesOut == pc = "wait" /\ spent = Timeout /\ GiveUp("network")

\* The connection breaks.
Breaks == pc = "wait" /\ "lost" \in Faults /\ GiveUp("network")

\* A signal ends an attempt, or keeps it from being made.
Canceled == pc \in {"form", "wait"} /\ cancelled /\ GiveUp("canceled")

\* Mutants: the last retry is left out, one too many is made.
RetryShort ==
    /\ pc = "retry"
    /\ IF error \in {"canceled", "refused"}
       THEN pc' = "failed" /\ UNCHANGED count
       ELSE /\ count' = count - 1
            /\ pc' = IF count' > 0 THEN "sleep" ELSE "failed"
    /\ UNCHANGED <<kind, attempts, error, network, spent, age, effects, cancelled>>
RetryLong ==
    /\ pc = "retry"
    /\ IF error \in {"canceled", "refused"}
       THEN pc' = "failed" /\ UNCHANGED count
       ELSE /\ count' = count - 1
            /\ pc' = IF count >= 0 THEN "sleep" ELSE "failed"
    /\ UNCHANGED <<kind, attempts, error, network, spent, age, effects, cancelled>>

\* fixedRetry: a cancelled context and a status that is not retryable are
\* final; any other error uses up a retry.
Retry ==
    /\ pc = "retry"
    /\ IF error \in {"canceled", "refused"}
       THEN pc' = "failed" /\ UNCHANGED count
       ELSE /\ count' = count - 1
            /\ pc' = IF count' >= 0 THEN "sleep" ELSE "failed"
    /\ UNCHANGED <<kind, attempts, error, network, spent, age, effects, cancelled>>

\* time.Sleep, which a signal does not interrupt.
Wake ==
    /\ pc = "sleep"
    /\ pc' = "form"
    /\ UNCHANGED <<kind, count, attempts, error, network, spent, age, effects, cancelled>>

\* The caller of doOperation reads the body; this is not tried again.
ReadAll ==
    /\ pc = "read"
    /\ \/ pc' = "ok" /\ UNCHANGED error
       \/ /\ "cut" \in Faults \/ cancelled
          /\ pc' = "failed" /\ error' = "cut"
    /\ UNCHANGED <<kind, count, attempts, network, spent, age, effects, cancelled>>

-----------------------------------------------------------------------------
(* S3 and the network.                                                     *)

\* S3 carries the operation out, unless it is a second time for one of "once".
Executable == kind = "once" => effects = 0

Serve ==
    /\ wire = "request"
    /\ \/ /\ age <= Validity /\ Executable
          /\ effects' = effects + 1 /\ wire' = "ok"
       \/ /\ age > Validity \/ ~Executable \/ "refuse" \in Faults
          /\ wire' = "refused" /\ UNCHANGED effects
       \/ /\ "busy" \in Faults
          /\ wire' = "busy" /\ UNCHANGED effects
    /\ UNCHANGED <<kind, client, late, spent, age, cancelled>>

ServeLate ==
    /\ late > 0
    /\ late' = late - 1
    /\ effects' \in {effects} \cup {n \in {effects + 1} : Executable}
    /\ UNCHANGED <<kind, client, wire, spent, age, cancelled>>

Tick ==
    /\ pc = "wait" /\ spent < Timeout
    /\ spent' = spent + 1
    /\ age' = IF age > Validity THEN age ELSE age + 1
    /\ UNCHANGED <<kind, client, network, effects, cancelled>>

Cancel ==
    /\ "cancel" \in Faults /\ ~cancelled
    /\ cancelled' = TRUE
    /\ UNCHANGED <<kind, client, network, spent, age, effects>>

-----------------------------------------------------------------------------
Returned == pc \in {"ok", "failed"} /\ UNCHANGED vars

Client == Form \/ Answer \/ TimesOut \/ Canceled \/ Retry \/ Wake \/ ReadAll

Next == \/ Client \/ FormFails \/ Breaks
        \/ Serve \/ ServeLate
        \/ Tick \/ Cancel \/ Returned

Spec == Init /\ [][Next]_vars

(* The client goes on and time passes; S3 need not answer.                 *)
FairSpec == Spec /\ WF_vars(Client) /\ WF_vars(Tick)

-----------------------------------------------------------------------------
(* Properties.                                                             *)

Errors == {"none", "form", "refused", "busy", "network", "canceled", "cut"}

TypeOK ==
    /\ kind \in Kinds
    /\ pc \in {"form", "wait", "retry", "sleep", "read", "ok", "failed"}
    /\ count \in -1 .. Retries
    /\ attempts \in 0 .. Retries + 1
    /\ error \in Errors
    /\ wire \in {"nothing", "request", "ok", "refused", "busy"}
    /\ spent \in 0 .. Timeout
    /\ age \in 0 .. Validity + 1
    /\ late \in Nat
    /\ effects \in Nat
    /\ cancelled \in BOOLEAN

Outcome == IF pc \in {"ok", "failed"} THEN pc ELSE "calling"

C == INSTANCE Call WITH done <- effects > 0, outcome <- Outcome

\* A call that returns no error has been carried out, by one of its attempts.
ImplementsCall == C!Spec

\* A call gives up on an error that may pass only after all its retries, and
\* makes no attempt beyond them: requests are retried for ten minutes, neither
\* for ever nor too few times.
GivesUpLast ==
    /\ attempts <= Retries + 1
    /\ pc = "failed" /\ error \in {"busy", "network"} => attempts = Retries + 1

\* However long the attempts before took, S3 never finds the signature of a
\* request it gets while the client waits too old.
NeverStale == wire = "request" => age <= Validity

\* The call returns though S3 need not answer.
Returns == <>(pc \in {"ok", "failed"})

-----------------------------------------------------------------------------
(* The inductive invariant.                                                *)

\* The attempts made and the retries left add up.
Counted ==
    /\ pc \in {"form", "sleep"} => attempts + count = Retries /\ count >= 0
    /\ pc = "wait" \/ (pc = "retry" /\ error # "canceled")
           => attempts + count = Retries + 1 /\ count >= 0
    /\ pc = "retry" => error \in {"refused", "busy", "network", "canceled"}
    /\ pc = "failed" /\ error \in {"busy", "network"} => attempts = Retries + 1

\* A request is on the wire only while the client waits for it, its signature
\* is as old as the attempt, and an answer of success has its effect.
Awaited ==
    /\ wire # "nothing" => pc = "wait"
    /\ pc = "wait" => age = spent
    /\ wire = "ok" \/ pc \in {"read", "ok"} => effects > 0

Invariant == TypeOK /\ Counted /\ Awaited
=============================================================================
