------------------------------ MODULE MCOpenPost ------------------------------
(***************************************************************************)
(* Small instances of OpenPost.                                            *)
(***************************************************************************)
EXTENDS OpenPost

CONSTANTS c1, c2, p1, t0, t1, t2
=============================================================================
