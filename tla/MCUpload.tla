------------------------------ MODULE MCUpload ------------------------------
(* Small instances of Upload for TLC: requests are model values and        *)
(* interchangeable.                                                        *)
EXTENDS Upload, TLC

Symmetry == Permutations(Requests)
=============================================================================
