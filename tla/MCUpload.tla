------------------------------ MODULE MCUpload ------------------------------
(* TLC instances of Upload: two users, who may upload the same file; a     *)
(* document of two chunks, under names of a supported and of an            *)
(* unsupported type.                                                       *)
EXTENDS Upload, TLC

CONSTANTS u1, u2, w1, w2, p1, doc

TwoUsers == {u1, u2}
MCWorker == {w1, w2}
DocOnly == {doc}
TwoChunks == [f \in File |-> 2]

WorkerSymmetry == Permutations(Worker)
=============================================================================
