---------------------------- MODULE MCFeedReplica -----------------------------
(***************************************************************************)
(* Small instances of FeedReplica.                                         *)
(***************************************************************************)
EXTENDS FeedReplica

CONSTANTS c1, c2, op, p1, ip1, ip2, a, b

MCIP == [c \in Clients |-> IF c = c1 THEN ip1 ELSE ip2]
=============================================================================
