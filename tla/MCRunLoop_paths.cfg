CONSTANTS
    Binds <- MCBinds
    None = None
    Nodes = {1, 2, 3}
    Programs <- TwoPorts
    Seeds <- MCPathSeeds
    MaxRuns = 4
    MaxFaults = 0
    MaxFile = 2

SPECIFICATION Spec

INVARIANT RunIsFresh
