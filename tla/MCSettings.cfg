CONSTANTS
    Hosts   = {h1}
    NoHost  = NoHost
    Rules   = {x1, x2}
    Widths  = {200, 1000}
    Savers  = {s1, s2}
SPECIFICATION Spec
SYMMETRY Alike
INVARIANTS CommonAsSaved ProxyIsConfigured
