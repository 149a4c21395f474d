SPECIFICATION MCSpec
CONSTANTS
  v1 = v1
  v2 = v2
  v3 = v3
  r1 = r1
  r2 = r2
  Vmas <- ThreeVmas
  Readers <- TwoReaders
  NoLine = NoLine
  MaxFrame = 3
  p1 = p1
  p2 = p2
  Procs <- TwoProcs
  None = None
  Allocs <- ThreeAllocs
  Bases <- ThreeBases
  YLEN = 2
  CLEN = 1
  DB_N = 2
  MAXMAPS = 2
  MAXZC = 2
  MaxFd = 7
  Count = 2
  Hops = 2
  Memory = 4
SYMMETRY Symmetry
INVARIANTS
    TypeOK
    BracketedReadsFresh
    CacheInv
    RunsLeaveTheBadge
    MapsRight
    ChecksHonest
\* A program that ended, and a count at its bound, take no further step.
CHECK_DEADLOCK FALSE
