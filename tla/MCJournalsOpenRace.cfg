\* Three journals, so that the open completing last may be any but the first
\* or last of the list, and a dot file.
CONSTANTS
    Name = {f1, f2, f3, dot}
    DotFile = {dot}
    NoFd = NoFd
    Denied = Denied
SPECIFICATION Spec
INVARIANTS NeverAborts
\* journald never stops rotating.
