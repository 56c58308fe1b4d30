\* Snapshots and crash/restart under one leader: logs of one entry, two snapshots, one restart.
CONSTANTS
    s1 = s1  s2 = s2  s3 = s3  s4 = s4  s5 = s5  c1 = c1  c2 = c2
    Nil = Nil  NoData = NoData
    Server <- Server3
    Value <- Value1
    MaxElections = 1
    MaxLogLen = 1
    MaxRestarts = 1
    MaxSnapshots = 2
    MaxMsgs = 2
    MaxLogSlack = 1
    LossyRounds = FALSE
SPECIFICATION Spec
SYMMETRY Symmetry
VIEW View
CONSTRAINT LogBound
INVARIANT ApplierIndicesInLog
CHECK_DEADLOCK FALSE
