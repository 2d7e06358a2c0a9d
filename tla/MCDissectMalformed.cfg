SPECIFICATION Spec
CONSTANTS
    Ihls = {0, 4, 5, 6, 15}
    Doffs = {0, 5, 15}
    Lens = {13, 14, 33, 34, 41, 42, 53, 54, 73, 74, 94, 134}
    SizeSpace = 65536
INVARIANT MalformedRefused
