\* Three buffers, so that an eviction has a middle buffer to pass over; a
\* file of five units read through buffers of two.
CONSTANTS
    JOURNAL_BUF_CNT = 3
    JOURNAL_BUF_SIZE = 2
    MaxSize = 5
    MaxLen = 3
    NULL = NULL
SPECIFICATION FairSpec
INVARIANTS TypeOK LruWellLinked BuffersHoldFile ReadDelivers ReadsWrittenData LastReadStaysCached
PROPERTIES RefinesLruPool ReadCompletes
\* A run that has failed, or a chain that has nothing left to read, stops.
CHECK_DEADLOCK FALSE
