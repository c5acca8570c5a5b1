CONSTANTS
    m1 = m1  m2 = m2  p = p   c = c  d = d  w1 = w1  w2 = w2
    Machines = {m1, m2}
    Cpus = {1}
    Handlers = {p, c}
    Workers = {w1, w2}
    Home <- MCHome
    Uses <- UsesGive
    Peers <- AnyMachine
    Bufs = {4096, 8192}
    Nobody = Nobody
    MayMigrate = FALSE
    MaxId = 2
    MaxCalls = 1
SPECIFICATION Spec
INVARIANT FetchHasSession
CHECK_DEADLOCK FALSE
