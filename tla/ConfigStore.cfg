SPECIFICATION FairSpec
CONSTANTS
    u1 = u1
    U1 = U1
    pw = pw
    admin = admin
    ops = ops
    g1 = g1
    Users <- MCUsers
    Fold <- MCFold
    Passwords = {pw}
    Roles <- MCRoles
    AdminRole = admin
    Providers = {"oidc"}
    Groups = {g1}
    ProviderOf <- InOIDC
    Oversized = {g1}
    Uploads <- MCUploads
    MaxVersion = 2
    MaxCrashes = 1
    NoRole = NoRole
    NoAccount = NoAccount
    NoSecret = NoSecret
INVARIANTS
    ReferencesResolve
    SecretImportable
PROPERTIES
    ReadersSeeDurable
    ServiceReturns
