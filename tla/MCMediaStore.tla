---------------------------- MODULE MCMediaStore ----------------------------
(* Two tasks, interchangeable; two files, two methods or none.             *)
EXTENDS MediaStore, TLC
MCSymmetry == Permutations(Tasks)
=============================================================================
