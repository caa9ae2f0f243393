\* Two replicas move from the first release to the second, with one fault.
SPECIFICATION Spec
CONSTANTS
    r1 = r1
    r2 = r2
    a = a
    b = b
    c = c
    g = g
    Nobody = Nobody
    Replica <- MCReplica
    Routes <- MCRoutes
    Setups <- MCSetups
    Good <- MCGood
    MaxFaults = 1
INVARIANTS
    WorkHasItsResources
    SchemaServesRelease
    RoutesFollowLastSync
    ProductionIsGuarded
PROPERTIES
    EveryReplicaServes
