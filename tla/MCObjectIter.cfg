\* Two journals of up to four objects each, of a size that needs no padding
\* and of one that does.
CONSTANTS
    Journal = {j1, j2}
    header_size = 8
    MaxEnd = 72
    Type = {unused, data}
    OBJECT_UNUSED = unused
    Size = {16, 17}
SPECIFICATION FairSpec
INVARIANTS TypeOK ReadsObjects IterationComplete
PROPERTIES RefinesIterations IterationEnds
\* A run that has failed stops.
CHECK_DEADLOCK FALSE
