\* Liveness of replication and apply under a stable leader: 3 peers, no
\* symmetry or view reduction (unsound for liveness), lost messages.
CONSTANTS
    s1 = s1  s2 = s2  s3 = s3  s4 = s4  s5 = s5  c1 = c1  c2 = c2
    Nil = Nil  NoData = NoData
    Server <- Server3
    Value <- Value1
    MaxElections = 1
    MaxLogLen = 1
    MaxRestarts = 1
    MaxSnapshots = 0
    MaxMsgs = 2
    MaxLogSlack = 0
    LossyRounds = FALSE
SPECIFICATION FairSpec
CONSTRAINT MsgBound
PROPERTY CommitReachesAll
CHECK_DEADLOCK FALSE
