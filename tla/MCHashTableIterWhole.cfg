\* Four objects over three buckets: an empty bucket between others, and chains
\* of two that grow while they are followed.
CONSTANTS
    nbuckets = 3
    MaxObjects = 4
SPECIFICATION Spec
INVARIANTS IteratesWholeTable
\* The iteration is over and journald has no object left to append.
CHECK_DEADLOCK FALSE
