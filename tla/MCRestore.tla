----------------------------- MODULE MCRestore ------------------------------
(* Small instances of Restore for TLC.                                     *)
EXTENDS Restore

\* Three archives, the first of two volumes; a volume takes one range or two.
MCSizes == <<<<3, 1>>, <<2>>, <<1>>>>

\* Two other file systems in the bucket have lost their first archives.
MCNeighbours == {[fs |-> 0, archive |-> 1, volume |-> 0], [fs |-> 2, archive |-> 2, volume |-> 0]}
=============================================================================
