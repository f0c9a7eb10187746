SPECIFICATION Spec
CONSTANTS
    SeqSpace = 512
    BadSequence = 192
    FakeSni <- OtherName
    MinInitial = 3
    MaxDatagram = 150
    MaxExtensions = 3
    OriginalTtl = 9
    MaxPrefixRecords = 2
    MaxRecordBody = 60
    MaxHeader = 40
    Window = 96
    Jobs <- TheJobs
CHECK_DEADLOCK FALSE
INVARIANT NameIsCut
