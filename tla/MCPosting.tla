----------------------------- MODULE MCPosting -----------------------------
(***************************************************************************)
(* Small instances of Posting: uploads and posts that disturb one another. *)
(***************************************************************************)
EXTENDS Posting, TLC

CONSTANTS i1, w1, w2, p1, p2, p3, here, elsewhere

OneElsewhere == [p \in Post |-> IF p = p3 THEN elsewhere ELSE here]

Says(kind, u, commands) == [kind |-> kind, upload |-> u, commands |-> commands]
Sends(w) == [image |-> i1, worker |-> w]

Only(posts, uploads) == [posts |-> posts, uploads |-> uploads, failures |-> 0, cleanups |-> 0,
                         releases |-> 0, expiry |-> FALSE, moderated |-> FALSE, pruned |-> FALSE]

MCBounds == {
    [Only((p1 :> Says("reply", 1, <<>>)) @@ (p2 :> Says("open", 2, <<>>)), <<Sends(w1), Sends(w2)>>)
        EXCEPT !.failures = 1, !.cleanups = 1, !.expiry = TRUE],
    [Only((p1 :> Says("open", 1, <<>>)) @@ (p2 :> Says("open", 1, <<>>)), <<Sends(w1), Sends(w1)>>)
        EXCEPT !.cleanups = 1, !.expiry = TRUE],
    [Only((p1 :> Says("thread", 1, <<>>)) @@ (p2 :> Says("open", 2, <<>>)), <<Sends(w1), Sends(None)>>)
        EXCEPT !.failures = 1, !.cleanups = 1, !.moderated = TRUE, !.expiry = TRUE],
    [Only((p1 :> Says("open", None, <<"pyu", "pyu">>)) @@ (p2 :> Says("reply", None, <<"pyu">>)), <<>>)
        EXCEPT !.releases = 1],
    Only((p1 :> Says("open", None, <<"pyu">>)) @@ (p3 :> Says("thread", None, <<"pcount", "pyu">>)), <<>>),
    Only((p1 :> Says("open", None, <<"roulette", "rcount">>)) @@ (p2 :> Says("open", None, <<"pyu", "roulette">>)), <<>>),
    [Only((p1 :> Says("open", None, <<"roulette">>)) @@ (p2 :> Says("reply", None, <<"pcount", "roulette">>)), <<>>)
        EXCEPT !.pruned = TRUE]}
=============================================================================
