\* One clerk with two Ops against 2 peers and one snapshot, no restart: the goroutines of a peer waiting on each other through kv.mu, rf.mu and applyCh.
CONSTANTS
    s1 = s1  s2 = s2  s3 = s3  c1 = c1  c2 = c2
    Nil = Nil  NoData = NoData
    Server <- Server2
    Client <- Client1
    Value <- KVValue
    MaxSeq = 2
    MaxCalls = 3
    MaxElections = 2
    MaxLogLen = 3
    MaxRestarts = 0
    MaxSnapshots = 1
    MaxMsgs = 1
    MaxLogSlack = 0
    LossyRounds = FALSE
SPECIFICATION KVRaftSpec
SYMMETRY Symmetry2
VIEW View
CONSTRAINT LogBound
INVARIANT NoWaitCycle
CHECK_DEADLOCK FALSE
