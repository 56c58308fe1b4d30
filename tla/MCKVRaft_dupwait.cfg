\* One clerk with two Ops against 2 peers, a snapshot and a restart: a retried Op whose first copy came back in a boot snapshot is waited on forever.
CONSTANTS
    s1 = s1  s2 = s2  s3 = s3  c1 = c1  c2 = c2
    Nil = Nil  NoData = NoData
    Server <- Server2
    Client <- Client1
    Value <- KVValue
    MaxSeq = 2
    MaxCalls = 3
    MaxElections = 2
    MaxLogLen = 3
    MaxRestarts = 1
    MaxSnapshots = 1
    MaxMsgs = 1
    MaxLogSlack = 0
    LossyRounds = FALSE
SPECIFICATION KVRaftSpec
SYMMETRY Symmetry2
VIEW View
CONSTRAINT LogBound
INVARIANT WaiterCanComplete
CHECK_DEADLOCK FALSE
