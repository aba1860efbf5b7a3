SPECIFICATION Spec
CONSTANTS
    WordSpace = 64
    TermSpace = 8
    TickSpace = 32
    LastTick = 40
    MaxPending = 1
    Threads = {render}
    Rates <- MC_Rates
INVARIANTS
    ExactTime
    NeverLate
