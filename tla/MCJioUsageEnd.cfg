\* The instance of MCJio.cfg, with one command.
CONSTANTS
    Journal = {j1, j2}
    header_size = 8
    MaxEnd = 64
    Type = {unused, data, array}
    OBJECT_UNUSED = unused
    OBJECT_DATA = data
    OBJECT_FIELD = field
    OBJECT_ENTRY_ARRAY = array
    Size = {24, 31}
    PAGE_SIZE = 16
    ItemsOffset = 20
    Item = {e1}
    Classes = 5
    FieldPayload = 16
    DataPayload = 20
    SmallSize = 24
    Inflated = {}
    Command = {"usage"}
SPECIFICATION JioSpec
INVARIANTS UsageCountsObjects
\* The program stops when it has exited.
CHECK_DEADLOCK FALSE
