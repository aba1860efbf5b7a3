SPECIFICATION LineSpec
CONSTANTS
    k_TICK_BITS = 59
    Ticks <- FewTicks
    Contexts <- FewTicks
    Kinds <- FewTicks
    Reasons <- FewReasons
    Declarations <- FewDeclarations
    Leftovers <- MC_Leftovers
    Corrupt <- FewTicks
    Sources <- FewSources
    Counts <- MC_Counts
    MaxText = 3
    SecondsSizes = {1, 4, 11}
    Threads <- MC_BrokenThreads
INVARIANTS
    OneLine
