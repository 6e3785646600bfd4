----------------------------- MODULE MCDocument -----------------------------
(* TLC instances of Document: two users share two files, two or three      *)
(* deletions run at a time.                                                *)
EXTENDS Document, TLC

CONSTANTS u1, u2, d1, d2, d3, p1, f1, f2

MCUser == {u1, u2}
TwoFiles == {f1, f2}
MCDeleter == {d1, d2, d3}
MCChunks == [f \in File |-> 1]
DeleterSymmetry == Permutations(Deleter)
=============================================================================
