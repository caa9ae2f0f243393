\* A client with and without a breaker.
SPECIFICATION Spec
CONSTANTS
    c1 = c1
    c2 = c2
    Caller <- MCCaller
    Configs <- MCConfigs
    Calls <- MCCalls
INVARIANTS
    ResponsesAreAccounted
PROPERTIES
    TripsOnFailures
    EveryCallEnds
