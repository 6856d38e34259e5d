SPECIFICATION SuppressionSpec
CONSTANTS
    k1 = k1
    k2 = k2
    r1 = r1
    r2 = r2
    Keys = {k1, k2}
    Updates = {r1, r2}
PROPERTIES
    UndisturbedWriteExact
    AckHonoured
