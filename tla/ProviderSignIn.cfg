SPECIFICATION Spec
CONSTANTS
    t1 = t1
    t2 = t2
    ann = ann
    bob = bob
    dev = dev
    ops = ops
    admin = admin
    viewer = viewer
    i1 = i1
    i2 = i2
    Tabs = {t1, t2}
    People = {ann, bob}
    Groups = {dev, ops}
    Roles = {admin, viewer}
    NameOrder <- MCOrder
    Issuers = {i1, i2}
    Unverified = {bob}
    Outsiders = {bob}
    Claims <- MCClaims
    Directory <- MCDirectory
    Configs <- MCConfigs
    Imports <- MCImports
    MaxStarts = 2
    MaxEvents = 3
    NoIssuer = NoIssuer
    NoRole = NoRole
    NoState = NoState
    NoCode = NoCode
PROPERTIES
    SignInReachesItsProvider
    SessionWellFounded
CHECK_DEADLOCK FALSE
