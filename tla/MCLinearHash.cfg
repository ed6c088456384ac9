CONSTANTS
    Keys = {1, 2, 3, 4}
    Hashes = {0, 1, 2, 3}
    Headers <- MCHeaders
    LeastEntries = 2
    Unit = 4
    WriteBuf = 2
    WordBits = 3
    HashFunctions <- MCHashFunctions
    MaxRekeyBuckets = 2
    MaxRekeys = 1
SPECIFICATION Spec
INVARIANTS
    AllFound
    SpillsReadable
    ToolsAgree
