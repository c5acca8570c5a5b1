CONSTANTS
    m1 = m1  m2 = m2  p = p   c = c  d = d  w1 = w1  w2 = w2
    Machines = {m1, m2}
    Cpus = {1}
    Handlers = {p, c, d}
    Workers = {w1}
    Home <- MCHome
    Uses <- UsesMixed
    Peers <- OtherMachine
    Bufs = {4096, 8192}
    Nobody = Nobody
    MayMigrate = FALSE
    MaxId = 2
    MaxCalls = 2
SPECIFICATION Spec
INVARIANTS TypeOK RegistryOwned PullExact GiveExact PullHasSession
PROPERTIES HintNeverReused KeepsPromise
SYMMETRY ConsumerSymmetry
CHECK_DEADLOCK FALSE
