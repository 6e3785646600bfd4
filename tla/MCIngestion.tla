---------------------------- MODULE MCIngestion -----------------------------
(* TLC instances of Ingestion.                                             *)
EXTENDS Ingestion, TLC

CONSTANTS u1, u2, w1, w2, c1, p1, d1, doc

OneUser == {u1}
TwoUsers == {u1, u2}
DocOnly == {doc}
OneWorker == {w1}
MCConsumer == {c1}
OneDeleter == {d1}

OneEach == [f \in File |-> 1]
NoneEach == [f \in File |-> 0]
=============================================================================
