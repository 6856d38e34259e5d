-------------------------- MODULE MCProviderSignIn --------------------------
(* A small instance of ProviderSignIn.                                     *)
EXTENDS ProviderSignIn, TLC

CONSTANTS t1, t2, ann, bob, dev, ops, admin, viewer, i1, i2

\* Ann's configured claim is there, bob is known by the default one only.
MCClaims == ann :> [configured |-> {{dev}}, groups |-> {{ops}}]
         @@ bob :> [configured |-> {}, groups |-> {{ops}}]

\* Google's directory and Microsoft Graph know both; Google does not call bob's
\* address verified.
MCDirectory == [p \in People |-> {ops}]

MCOrder == admin :> 1 @@ viewer :> 2

Unset == [g \in Groups |-> NoRole]

Off == [issuer |-> NoIssuer, hosted |-> FALSE]

\* Every provider is set up, one of them with a hosted domain; dev is mapped by
\* OpenID Connect, ops by the others.
Mixed ==
    [settings |-> [google |-> [issuer |-> i1, hosted |-> TRUE],
                   oidc   |-> [issuer |-> i1, hosted |-> FALSE],
                   entra  |-> [issuer |-> i2, hosted |-> FALSE]],
     mappings |-> [google |-> [Unset EXCEPT ![ops] = viewer],
                   oidc   |-> [Unset EXCEPT ![dev] = viewer],
                   entra  |-> [Unset EXCEPT ![ops] = viewer, ![dev] = admin]],
     modes    |-> admin :> "admin" @@ viewer :> "viewer"]

\* A configuration to import: Entra ID alone, and one role.
OneRole ==
    [Mixed EXCEPT !.settings.google = Off, !.settings.oidc = Off,
                  !.mappings = [google |-> Unset, oidc |-> Unset, entra |-> [Unset EXCEPT ![ops] = admin]],
                  !.modes[viewer] = "none"]

MCConfigs == {Mixed}
MCImports == {OneRole}
=============================================================================
