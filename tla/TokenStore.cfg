CONSTANTS
    s1 = s1
    s2 = s2
    k1 = k1
    k2 = k2
    k3 = k3
    Servers = {s1, s2}
    SignIns = {e1}
    Calls = {k1, k2, k3}
    ServerOf <- TwoAndOne
    None = None
    MaxIssued = 3

SPECIFICATION FairSpec
INVARIANTS
    TypeOK
    FileUsable
    MemoryNotAhead
PROPERTIES
    RefreshReplacesWhatItRead
    CallSettles
