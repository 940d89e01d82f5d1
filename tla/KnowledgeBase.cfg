\* One article, two admins at once, two jobs; a deleted article
\* ends the run of the system.
CONSTANTS
    a1 = a1  short = short  long = long
    r1 = r1  r2 = r2  j1 = j1  j2 = j2  None = None
    Articles = {a1}
    Contents = {short, long}
    Size <- ChunkCounts
    Requests = {r1, r2}
    Jobs = {j1, j2}
    MaxTries = 2
SPECIFICATION Spec
SYMMETRY KbSymmetry
INVARIANTS NoMixedChunks NoOrphanChunks
CHECK_DEADLOCK FALSE
