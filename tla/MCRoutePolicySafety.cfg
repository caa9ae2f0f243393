SPECIFICATION Spec
CONSTANTS
    p1 = p1
    p2 = p2
    w1 = w1
    w2 = w2
    rx = rx
    ry = ry
    rz = rz
    e0 = e0
    e1 = e1
    e2 = e2
    r0 = r0
    r1 = r1
    r2 = r2
    padded = padded
    Replica = {p1, p2}
    Route = {rx, ry, rz}
    Registered = {rx, ry}
    Writer = {w1, w2}
    Home <- MCHome
    Expr = {e0, e1, e2}
    Refs = {r0, r1, r2, padded}
    NoRefs = r0
    Trimmed <- MCTrimmed
    Compiles <- MCCompiles
    Inputs <- SafetyInputs
    Seed <- MCSeed
    None = None
    Redis = TRUE
    MaxFaults = 1
INVARIANTS
    TypeOK
    OneWriterPerVersion
    WriterSeesItsPolicy
PROPERTIES
    SnapshotNeverGoesBack
