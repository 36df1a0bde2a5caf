-------------------------- MODULE MCAdministration --------------------------
(***************************************************************************)
(* Small instances of Administration, one for each group of operations     *)
(* that disturb one another.                                               *)
(***************************************************************************)
EXTENDS Administration

CONSTANTS admin, user, b1, p1, p2, c1, r1, r2, s1, s2

OnOneBoard == [p \in Post |-> b1]

Only(ops, n, there) == [ops |-> ops, acts |-> n, there |-> there, visits |-> FALSE,
                        solutions |-> FALSE, scored |-> 0, errors |-> 0, time |-> 0]

MCBounds == {
    [Only({"ban"}, 1, {p1}) EXCEPT !.visits = TRUE],
    Only({"ban", "unban", "deleteBoard", "deleteOldThreads"}, 2, {p1}),
    [Only({}, 0, {}) EXCEPT !.solutions = TRUE, !.scored = 1, !.errors = 1, !.time = 1],
    [Only({}, 0, {}) EXCEPT !.scored = 2, !.time = 2, !.solutions = TRUE],
    Only({"register", "login", "logoutAll", "changePassword"}, 4, {}),
    Only({"assignStaff", "createBoard", "deleteBoard"}, 3, {}),
    Only({"assignStaff", "deletePosts", "deleteImages", "purgePost", "sameIPPosts", "setThreadLock"}, 2, {p1}),
    Only({"deletePostsByIP", "insert"}, 2, {p1})}
=============================================================================
