CONSTANTS
    Hosts  = {h1, h2}
    NoHost = NoHost
    Chains = {c1, c2}
    Modes  = {"desktop", "mobile", "reopen"}
    Autos  = {TRUE}
SPECIFICATION Spec
SYMMETRY Alike
INVARIANTS TypeOK AddressMatches KeepsTrying
