--------------------------- MODULE MCConfigStore ---------------------------
(* Small instances of ConfigStore.                                         *)
EXTENDS ConfigStore, TLC

CONSTANTS u1, U1, pw, admin, ops, g1

MCUsers  == {u1, U1}
MCRoles  == {admin, ops}

\* U1 is u1 in capitals: no two accounts are made so but by a second bootstrap.
MCFold   == [u \in Users |-> u1]

InOIDC   == g1 :> "oidc"

Blank(c) == [c EXCEPT !.roles[AdminRole] = NoRole]

\* A partial snapshot: one administrator whose hash is outdated, no admin role
\* listed, not marked initialized.
Partial ==
    [config |-> [Blank(DefaultConfig) EXCEPT
        !.users[u1] = [role |-> AdminRole, password |-> pw, current |-> FALSE]],
     initialized |-> FALSE]

\* A mapping to a role that is not listed: refused.
Dangling ==
    [config |-> [DefaultConfig EXCEPT !.mappings = [g \in Groups |-> ops]],
     initialized |-> FALSE]

\* No account at all, but marked initialized: refused.
Headless == [config |-> DefaultConfig, initialized |-> TRUE]

MCUploads == {Partial, Dangling, Headless}
=============================================================================
