CONSTANTS
    Hosts  = {h1}
    NoHost = NoHost
    Chains = {c1, c2}
    Modes  = {"desktop"}
    Autos  = {FALSE}
SPECIFICATION FairSpec
PROPERTIES Connects
