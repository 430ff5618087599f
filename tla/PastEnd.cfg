\* Reads whose sizes do not divide the length of the file.
SPECIFICATION Spec
CONSTANTS
    Directory <- SmallDirectory
    NumInodes = 3
    Length <- SmallLength
    Blocks <- SmallBlocks
    DirEntries = 6
    BlockSize = 2
    INodeBlocks = 3
    Pids = {0, 3}
    Base = 0
    MaxFdLen = 4
    MaxNumFiles = 4
    MaxFreq = 8
    MinFreq = 2
    Frequencies = {8}
    Sizes = {1, 2, 3}
    MaxPos = 4
INVARIANT
    ReadsStayInFile
