CONSTANTS
    r1 = r1
    r2 = r2
    g = g
    None = None
    Runs = {r1, r2}
    Sources = {1, 2}
    Paths <- MCPaths
    LastVersion <- MCLastVersion
    Stems = {3, 5}
    Stem <- MCStem
    Gains = {g}
    GainOf <- MCGainOf
    MaxStarts = 2
    MaxUpsets = 1

SPECIFICATION Spec

INVARIANT FramesAreDecodes
INVARIANT CommittedIsWhole
INVARIANT RunsHealTheCache

CHECK_DEADLOCK FALSE
