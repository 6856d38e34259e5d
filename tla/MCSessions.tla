----------------------------- MODULE MCSessions -----------------------------
(* Small instances of Sessions.                                            *)
EXTENDS Sessions, TLC

CONSTANTS u1, p1, p2, admin, c1

OwnFold  == [u \in Users |-> u]
InGoogle == [g \in Groups |-> "google"]

\* One administrator whose hash is outdated.
Outdated ==
    [config |-> [DefaultConfig EXCEPT
        !.users[u1] = [role |-> admin, password |-> p1, current |-> FALSE]],
     initialized |-> TRUE]

MCUploads == {Outdated}
=============================================================================
