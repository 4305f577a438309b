SPECIFICATION Spec
CONSTANTS
    Mantissa = 2
    IntBits = 5
    NaN = NaN
    WordBits = 2
    Stores <- MCStores
    Queries <- MCQueries
    Filters <- MCOptionalFilters
    Dimensioned <- MCDimensioned
    Calls <- MCCalls
    HardwareThreads = {0, 2}
    Allowed <- build_allowed
    Search <- flat_search
INVARIANTS
    TypeOK
    NoSharedElement
    JoinedBeforeReturn
    BatchIsSerial
    NearestOfEligible
    LeafNeverInverts
PROPERTIES
    CallsEnd
