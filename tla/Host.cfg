SPECIFICATION HostSpec
CONSTANTS
    i1 = i1
    i2 = i2
    p1 = p1
    p2 = p2
    p3 = p3
    m1 = m1
    NoPty = NoPty
    NoMeta = NoMeta
    Id = {i1, i2}
    Pty = {p1, p2, p3}
    Meta = {m1}
    GraceTicks = 2
    EarlyReopen = FALSE
    Parts = {"shells", "e2e", "json", "files", "store", "pid", "db"}
    MaxSteps = 2
    Agents = {1, 2, 3}
    LOCK_RETRY_MAX = 2
    JsonFaults = {}
    Chats = {1, 2}
    FileFaults = {}
    Writers = {1, 2}
    Project = {"p1", "p2"}
    Default = "p1"
    MaxKills = 1
    StoreFaults = {}
    Starts = {1, 2, 3}
    Pids = {1, 2}
    Hosts = {1, 2}
    PidFaults = {}
    Queries = {1, 2}
    Ports = {1, 2}
    DbFaults = {}
INVARIANTS SessionsKept ClaudeJsonKept TestKept TunnelsKept
PROPERTIES FilesKept StoreKept PidFileTrue HostSettles
CHECK_DEADLOCK FALSE
