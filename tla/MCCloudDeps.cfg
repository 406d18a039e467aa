CONSTANTS
    r1 = r1
    r2 = r2
    z1 = z1
    z2 = z2
    z3 = z3
    Zones    = {z1, z2, z3}
    RegionOf <- ZoneRegion
    IdxOf    <- ZoneIdx
    Attempts = {a1, a2, a3}
    NoNet    = NoNet
SPECIFICATION Spec
SYMMETRY Alike
INVARIANTS TypeOK NoneTwice NothingInTheWay
CHECK_DEADLOCK FALSE
