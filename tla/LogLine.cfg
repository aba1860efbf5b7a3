SPECIFICATION LineSpec
CONSTANTS
    k_TICK_BITS = 59
    Ticks <- MC_Ticks
    Contexts <- MC_Contexts
    Kinds <- MC_Kinds
    Reasons <- MC_Reasons
    Declarations <- MC_Declarations
    Leftovers <- MC_Leftovers
    Corrupt <- MC_Corrupt
    Sources <- MC_Sources
    Counts <- MC_Counts
    MaxText = 5
    SecondsSizes = {1, 4, 11}
    Threads <- MC_Threads
INVARIANTS
    HeaderReadsBack
    PayloadReadsBack
    WellFormedAndWhole
    ShownAsLogged
    PayloadColumn
    LinesFit
