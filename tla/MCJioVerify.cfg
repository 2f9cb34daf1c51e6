\* Two journals of up to two objects, fields, data objects and ones without a
\* hash, below and above SmallSize: the two hashed types have their payloads at
\* different offsets.
CONSTANTS
    Journal = {j1, j2}
    header_size = 8
    MaxEnd = 64
    Type = {unused, data, field, array}
    OBJECT_UNUSED = unused
    OBJECT_DATA = data
    OBJECT_FIELD = field
    OBJECT_ENTRY_ARRAY = array
    Size = {24, 31}
    PAGE_SIZE = 16
    ItemsOffset = 20
    Item = {e1}
    Classes = 5
    FieldPayload = 16
    DataPayload = 20
    SmallSize = 24
    Inflated = {40}
    Command = {"verify"}
SPECIFICATION JioSpec
INVARIANTS WorkerOwnsObject LoadsFit HashedVerified
\* The program stops when it has exited.
CHECK_DEADLOCK FALSE
