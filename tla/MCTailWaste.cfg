\* Two journals of up to three objects, of a size that needs no padding and of
\* one that does; the sums of two journals' waste do not fit UINT when one of
\* them is empty.
CONSTANTS
    Journal = {j1, j2}
    Command = {"report", "reclaim"}
    UINT = 128
    header_size = 8
    MaxEnd = 32
    Size = {8, 13}
    HeaderWord = 96
SPECIFICATION Spec
INVARIANTS TypeOK WasteFits ArchivedWasteExact TotalsAreSums KeepsObjects
SYMMETRY JournalSymmetry
\* The run is over when every journal is done or a callback has failed.
CHECK_DEADLOCK FALSE
