\* A second ingestion of the same article.
CONSTANTS
    a1 = a1  short = short  long = long
    r1 = r1  r2 = r2  j1 = j1  j2 = j2  None = None
    Articles = {a1}
    Contents = {short, long}
    Size <- ChunkCounts
    Requests = {r1, r2}
    Jobs = {j1, j2}
    MaxTries = 2
SPECIFICATION Spec
INVARIANT EmbeddingsCanBeStored
CHECK_DEADLOCK FALSE
