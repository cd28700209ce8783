CONSTANTS
    Binds <- MCBinds
    None = None
    Nodes = {1, 2, 3, 4}
    Programs <- MCPrograms
    Seeds <- MCSeeds
    MaxRuns = 2
    MaxFaults = 1
    MaxFile = 2

SPECIFICATION Spec

INVARIANT KeysAreHonest
INVARIANT RunIsFresh
INVARIANT InputsAreDelivered
INVARIANT ReadsAreExact
INVARIANT SpentOutputsAreReleased
INVARIANT BeliefIsBacked
INVARIANT EvictionTakesHold
