CONSTANTS
    m1 = m1  m2 = m2  p = p   c = c  d = d  w1 = w1  w2 = w2
    Machines = {m1, m2}
    Cpus = {1, 2}
    Handlers = {p, c, d}
    Workers = {w1, w2}
    Home <- MCHome
    Uses <- UsesPull
    Peers <- AnyMachine
    Bufs = {4096, 8192}
    Nobody = Nobody
    MayMigrate = TRUE
    MaxId = 1
    MaxCalls = 2
SPECIFICATION Spec
INVARIANT QPOfLockedCpu
CHECK_DEADLOCK FALSE
