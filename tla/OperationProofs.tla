--------------------------- MODULE OperationProofs --------------------------
(***************************************************************************)
(* Proofs about Operation, for every number of retries, timeout, validity  *)
(* of a signature and set of faults.                                       *)
(***************************************************************************)
EXTENDS Operation, TLAPS

USE DEF client, network

-----------------------------------------------------------------------------
(* The invariant.                                                          *)

\* Before its first request a call has made no attempt and S3 has no effect of
\* it.
LEMMA InitInvariant == Init => Invariant
<1> SUFFICES ASSUME Init PROVE Invariant
  OBVIOUS
<1>1. TypeOK
  <2>1. count \in -1 .. Retries /\ attempts \in 0 .. Retries + 1
    BY OperationAssumption DEF Init
  <2>2. spent \in 0 .. Timeout /\ age \in 0 .. Validity + 1
    BY OperationAssumption DEF Init
  <2>3. late \in Nat /\ effects \in Nat
    BY DEF Init
  <2>4. error \in Errors /\ cancelled \in BOOLEAN
    BY DEF Init, Errors
  <2> QED BY <2>1, <2>2, <2>3, <2>4 DEF Init, TypeOK
<1>2. Counted
  BY OperationAssumption DEF Init, Counted
<1>3. Awaited
  BY DEF Init, Awaited
<1> QED BY <1>1, <1>2, <1>3 DEF Invariant

\* A step of the client keeps the invariant.
LEMMA ClientInvariant == ASSUME Invariant, Client \/ FormFails \/ Breaks PROVE Invariant'
<1> USE OperationAssumption DEF Invariant, TypeOK, Counted, Awaited, Errors
<1>1. CASE Form
  BY <1>1 DEF Form
<1>2. CASE Answer
  BY <1>2 DEF Answer
<1>3. CASE TimesOut
  BY <1>3 DEF TimesOut, GiveUp
<1>4. CASE Canceled
  BY <1>4 DEF Canceled, GiveUp
<1>5. CASE Retry
  <2>1. CASE error \in {"canceled", "refused"}
    BY <1>5, <2>1 DEF Retry
  <2>2. CASE error \notin {"canceled", "refused"}
    BY <1>5, <2>2 DEF Retry
  <2> QED BY <2>1, <2>2
<1>6. CASE Wake
  BY <1>6 DEF Wake
<1>7. CASE ReadAll
  BY <1>7 DEF ReadAll
<1>8. CASE FormFails
  BY <1>8 DEF FormFails
<1>9. CASE Breaks
  BY <1>9 DEF Breaks, GiveUp
<1> QED BY <1>1, <1>2, <1>3, <1>4, <1>5, <1>6, <1>7, <1>8, <1>9 DEF Client

\* S3, the network, time and signals keep it.
LEMMA EnvironmentInvariant ==
  ASSUME Invariant, Serve \/ ServeLate \/ Tick \/ Cancel \/ UNCHANGED vars
  PROVE  Invariant'
<1> USE OperationAssumption DEF Invariant, TypeOK, Counted, Awaited
<1>1. CASE Serve
  BY <1>1 DEF Serve
<1>2. CASE ServeLate
  <2>1. effects' \in Nat /\ effects' >= effects
    BY <1>2 DEF ServeLate
  <2> QED BY <1>2, <2>1 DEF ServeLate
<1>3. CASE Tick
  BY <1>3 DEF Tick
<1>4. CASE Cancel
  BY <1>4 DEF Cancel
<1>5. CASE UNCHANGED vars
  BY <1>5 DEF vars
<1> QED BY <1>1, <1>2, <1>3, <1>4, <1>5

\* Types, the count of attempts, and what an answer stands for.
THEOREM Invariance == Spec => []Invariant
<1>1. Init => Invariant
  BY InitInvariant
<1>2. Invariant /\ [Next]_vars => Invariant'
  BY ClientInvariant, EnvironmentInvariant DEF Next, Returned
<1> QED BY <1>1, <1>2, PTL DEF Spec

-----------------------------------------------------------------------------
(* What follows from it.                                                   *)

\* A call makes as many attempts as it has retries, and one, before it gives
\* up on an error that may pass, and never more.
THEOREM Persistent == Spec => []GivesUpLast
<1>1. Invariant => GivesUpLast
  BY OperationAssumption DEF Invariant, TypeOK, Counted, GivesUpLast
<1> QED BY <1>1, Invariance, PTL

\* A request that S3 gets in time has a signature S3 accepts, however many
\* attempts there were before it.
THEOREM Fresh == Spec => []NeverStale
<1>1. Invariant => NeverStale
  BY OperationAssumption DEF Invariant, TypeOK, Awaited, NeverStale
<1> QED BY <1>1, Invariance, PTL

\* A call that returns no error has been carried out, also when answers are
\* lost and attempts overtake each other.
THEOREM Carried == Spec => ImplementsCall
<1>1. Init => C!Init
  BY DEF Init, C!Init, Outcome
<1>2. Invariant /\ [Next]_vars => [C!Next]_(C!vars)
  <2> SUFFICES ASSUME Invariant, [Next]_vars PROVE [C!Next]_(C!vars)
    OBVIOUS
  <2> USE DEF C!Next, C!vars, C!CarryOut, C!Succeed, C!Fail, Outcome
  <2>1. CASE ReadAll
    <3>1. effects > 0
      BY <2>1 DEF ReadAll, Invariant, Awaited
    <3> QED BY <2>1, <3>1 DEF ReadAll
  <2>2. CASE Retry
    BY <2>2 DEF Retry
  <2>3. CASE FormFails
    BY <2>3 DEF FormFails
  <2>4. CASE Serve \/ ServeLate
    <3>1. effects \in Nat /\ effects' \in Nat /\ effects' >= effects /\ UNCHANGED pc
      BY <2>4 DEF Serve, ServeLate, Invariant, TypeOK
    <3> QED BY <3>1
  <2>5. CASE Form \/ Answer \/ TimesOut \/ Canceled \/ Wake \/ Breaks
    BY <2>5 DEF Form, Answer, TimesOut, Canceled, Wake, Breaks, GiveUp
  <2>6. CASE Tick \/ Cancel \/ UNCHANGED vars
    BY <2>6 DEF Tick, Cancel, vars
  <2> QED BY <2>1, <2>2, <2>3, <2>4, <2>5, <2>6 DEF Next, Client, Returned
<1> QED BY <1>1, <1>2, Invariance, PTL DEF Spec, ImplementsCall, C!Spec
=============================================================================
