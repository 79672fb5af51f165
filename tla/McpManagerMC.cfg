SPECIFICATION Spec
CONSTANTS
    x1 = x1  x2 = x2
    s1 = s1  s2 = s2
    npx = npx  uvx = uvx
    Session = {x1, x2}
    Agent = {x1}
    Server = {s1, s2}
    Cmd = {npx, uvx}
    Document <- MCDocument
    MaxServers = 1
    Caller = {c1, c2}
    Task = {t1, t2}
    MaxOps = 2
    NoCfg = NoCfg
    NoConn = NoConn
    Nobody = Nobody
INVARIANTS
    CallsReachTheirListing
    ReleasedIsReclaimed
    QuietIsSettled
CHECK_DEADLOCK FALSE
