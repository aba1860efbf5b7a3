SPECIFICATION Spec
CONSTANTS
    Capacity = 2
    Modulus = 4
    Values = {v1, v2}
    Zero = zero
    Batches <- AllBatches
INVARIANTS NoDataRace RingInvariant
PROPERTIES ImplementsFifo CallsReturn PushedIsPopped PushesGoOn
