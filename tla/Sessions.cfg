SPECIFICATION SessionSpec
CONSTANTS
    u1 = u1
    p1 = p1
    p2 = p2
    admin = admin
    c1 = c1
    Users = {u1}
    Fold <- OwnFold
    Passwords = {p1, p2}
    Roles = {admin}
    AdminRole = admin
    Providers = {}
    Groups = {}
    ProviderOf <- InGoogle
    Oversized = {}
    Uploads <- MCUploads
    MaxVersion = 2
    MaxCrashes = 1
    NoRole = NoRole
    NoAccount = NoAccount
    NoSecret = NoSecret
    Clients = {c1}
    TTL = 1
    MaxTime = 1
    NoToken = NoToken
INVARIANT LoggedOutStaysOut
PROPERTIES
    PasswordChangeEndsLiveSessions
    UpgradeKeepsPassword
    NoStillbornSession
    SweepSparesLiveSessions
