------------------------------ MODULE MCFeedMap -------------------------------
(***************************************************************************)
(* Small instances of FeedMap.                                             *)
(***************************************************************************)
EXTENDS FeedMap

CONSTANTS c1, c2, t1, t2, s1, i1, i2, i3, i4
=============================================================================
