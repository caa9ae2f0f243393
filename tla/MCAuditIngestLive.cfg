SPECIFICATION FairSpec
CONSTANTS
    Worker = {w1, w2}
    event = event
    copy = copy
    rival = rival
    call = call
    wrong = wrong
    i1 = i1
    f1 = f1
    f2 = f2
    t1 = t1
    t2 = t2
    b1 = b1
    b2 = b2
    n1 = n1
    n2 = n2
    Message = {event, copy, wrong}
    Req <- MCReq
    Id = {i1}
    FreshId = {f1}
    Tenant = {t1, t2}
    Body = {b1, b2}
    Time = {n1, n2}
    NoId = NoId
    BadId = BadId
    NoTenant = NoTenant
    NoTime = NoTime
    NoJob = NoJob
    NoRow = NoRow
    MaxDeliver = 3
    MaxFaults = 2
INVARIANTS
    ReplaysAgree
PROPERTIES
    AdmissibleEventsRecorded
