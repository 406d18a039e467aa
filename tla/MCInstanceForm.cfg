CONSTANTS
    r1 = r1
    r2 = r2
    z1 = z1
    z2 = z2
    z3 = z3
    Regions = {r1, r2}
    ZonesOf <- RegionZones
    Types   = {t1, t2}
    Undef   = Undef
    Empty   = Empty
    NoForm  = NoForm
    MaxCalls = 2
SPECIFICATION Spec
SYMMETRY TypesAlike
INVARIANTS TypeOK ReadyMeansComplete ZoneOfRegion
