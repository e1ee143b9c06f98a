\* Sockets: two clients of the server and one of the slave's socket, messages that
\* can be read in two parts, a backlog of one, so that connect has to wait, and
\* descriptors for both connections, or for one and a half.
\* Timers: two threads, one name of each kind, seconds of two nanoseconds, so that
\* differences borrow.
\* Reads: batches of two reads of two bytes, ints of four bits; files that are
\* empty, odd, several batches long, and larger than an int.
\* Coroutines: the two programs, and a longer chain.
\* Pool and cache: a pool that is full and empty, and more users than pages; the
\* array of four pages does not fit 32 bits, here three.
\* Page: it takes four to six records, an offset array of odd and even length for
\* the binary search, and inserts find it full.  ArgsSize is below what the fill
\* factor leaves free, as in a page of 8k.
CONSTANTS
  Client = {c1, c2}
  UnixClient = {u}
  Units = 2
  Backlog = 1
  FdLimits = {3, 5}
  Thread = {t1, t2}
  CpuName = {"com1"}
  LatencyName = {"com1"}
  Billion = 2
  MaxCpu = 3
  MaxNow = 2
  BatchSize = 2
  BufferLimit = 2
  Entries = 3
  IoData = 1
  IntMod = 16
  FileSizes = {0, 1, 5, 7, 8, 15, 16, 19}
  LastFrames = {1, 2, 3}
  PoolSize = 3
  Pointer = {p1, p2, p3}
  Null = Null
  User = {u1, u2, u3, u4}
  NoPage = NoPage
  PageBytes = 2
  UIntRange = 8
  PageCounts = {2, 3, 4}
  Key = {1, 2, 3}
  Value <- MCValue
  PageSize = 34
  HeaderSize = 4
  OffsetSize = 2
  KeySize = 1
  LengthSize = 1
  LengthMod = 2
  ArgsSize = 3
  MaxFillFactor = 76
SPECIFICATION Spec
INVARIANTS
  ServerStays LockStep TimesSound TotalAccounted ChainResumed PagesSafe
  PageWellFormed FindExact
PROPERTIES EveryMessageAnswered ReadReturns PoolContract
CHECK_DEADLOCK FALSE
