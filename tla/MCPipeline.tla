----------------------------- MODULE MCPipeline -----------------------------
(* TLC instances of Pipeline.                                              *)
EXTENDS Pipeline, TLC

CONSTANTS u1, c1, c2, p1, p2, doc

MCUser == {u1}
MCFile == {doc}
TwoConsumers == {c1, c2}
OnePartition == {p1}
TwoPartitions == {p1, p2}

OneEach == [f \in File |-> 1]
TwoEach == [f \in File |-> 2]
NoneEach == [f \in File |-> 0]
=============================================================================
