--------------------------- MODULE MCProjectRoom ---------------------------
(* Instances of ProjectRoom: which batch is whose, and what the batches do. *)
EXTENDS ProjectRoom

CONSTANTS t1, t2,     \* tabs
          e1, e2, s1, \* edits and a save of t1
          f1,         \* an edit of t2
          p1          \* an edit that comes over HTTP

MCOwner ==
  [b \in Batch |-> CASE b \in {e1, e2, s1} -> t1 [] b = f1 -> t2 [] OTHER -> p1]

NoPairs == {}

(* p1 makes e2 break a document rule, until f1 takes p1 back.               *)
PeerBlocksE2 == {<<e2, p1>>}

PeerUnblocks == {<<p1, f1>>}
=============================================================================
