\* Two terminals that read the RTC at two frequencies, under all interrupts.
SPECIFICATION FairSpec
CONSTANTS
    MaxTerminals = 2
    MaxFreq = 4
    MinFreq = 2
    Frequencies = {3, 4}
    Word = 4
    MaxKeys = 1
    MaxNest = 1
INVARIANTS
    TypeInv
    MachineInv
    HandlersReady
    OwnHandler
    NothingInServiceWhenOn
    MasksMirror
    CountsForReadersOnly
PROPERTIES
    TimersSpec
    EveryTerminalRuns
    ReadReturns
