\* Two requests and two documents, one of them changing, the other one breaking off, in a
\* cache for three blocks.
CONSTANTS
    r1 = r1  r2 = r2
    u1 = u1  u2 = u2
    Requests = {r1, r2}
    NoRequest = NoRequest
    Urls = {u1, u2}
    Versions = {1, 2}
    Length <- Blocks
    Announced = {}
    Modifiable = {u1}
    Fragile = {u2}
    Bucket <- Hash
    Buckets <- Table
    Inodes = 3
    NoFile = NoFile
    NoEntry = NoEntry
    Total = 3
    Folder = 1
    Buffer = 0
    MaxEntry = 2
    MaxHits = 2
    MaxContent = 3
    Env = {"break", "partial", "restart"}
SYMMETRY Symmetry
SPECIFICATION Spec
INVARIANTS
    TypeOK
    LockKeepsOthersOut
    ContentCovers
    RangeIsWritten
PROPERTIES
    HitIsComplete
    LeastUsedFirst
