------------------------------ MODULE Replica -------------------------------
(***************************************************************************)
(* What replication promises about each destination: a chain of archives,  *)
(* the first of a full stream, every other of the increment from the       *)
(* target of the one before to a newer target.  The chain only grows.      *)
(***************************************************************************)
EXTENDS Integers, Sequences

CONSTANTS Destinations,
          Snapshots     \* the snapshots there may be, numbered from 1

VARIABLE chain    \* the archives of each destination

\* The snapshot the next archive starts from; 0 stands for a full stream.
Tip(d) == IF chain[d] = <<>> THEN 0 ELSE chain[d][Len(chain[d])].target

Init == chain = [d \in Destinations |-> <<>>]

Extend(d, target) ==
    /\ target > Tip(d)
    /\ chain' = [chain EXCEPT ![d] = Append(@, [source |-> Tip(d), target |-> target])]

\* That the chain gets longer follows from Extend, and is said first because it
\* is quickly checked of a step that extends nothing.
Next == \E d \in Destinations :
            /\ Len(chain'[d]) > Len(chain[d])
            /\ \E target \in Snapshots : Extend(d, target)

Spec == Init /\ [][Next]_chain
=============================================================================
