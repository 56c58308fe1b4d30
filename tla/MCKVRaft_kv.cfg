\* One clerk with two Ops against 2 peers: leader changes, lost replies,
\* timeouts and retries at any peer; no snapshots, no restarts.
CONSTANTS
    s1 = s1  s2 = s2  s3 = s3  c1 = c1  c2 = c2
    Nil = Nil  NoData = NoData
    Server <- Server2
    Client <- Client1
    Value <- KVValue
    MaxSeq = 2
    MaxCalls = 4
    MaxElections = 2
    MaxLogLen = 4
    MaxRestarts = 0
    MaxSnapshots = 0
    MaxMsgs = 1
    MaxLogSlack = 0
    LossyRounds = FALSE
SPECIFICATION KVRaftSpec
SYMMETRY Symmetry2
VIEW View
CONSTRAINT MsgBound
PROPERTY KVSpecRefined
CHECK_DEADLOCK FALSE
