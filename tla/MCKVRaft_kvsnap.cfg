\* One clerk with one Op (retried) against 2 peers with snapshots and a restart.
CONSTANTS
    s1 = s1  s2 = s2  s3 = s3  c1 = c1  c2 = c2
    Nil = Nil  NoData = NoData
    Server <- Server2
    Client <- Client1
    Value <- KVValue
    MaxSeq = 1
    MaxCalls = 3
    MaxElections = 2
    MaxLogLen = 3
    MaxRestarts = 1
    MaxSnapshots = 1
    MaxMsgs = 1
    MaxLogSlack = 0
    LossyRounds = FALSE
SPECIFICATION KVRaftSpec
SYMMETRY Symmetry2
VIEW View
CONSTRAINT LogBound
INVARIANT AckedDurable
CHECK_DEADLOCK FALSE
