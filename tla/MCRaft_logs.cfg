\* Log replication among 3 peers: two election timeouts, logs of two entries; a leader's round may reach one peer, so replies and rounds overlap.
CONSTANTS
    s1 = s1  s2 = s2  s3 = s3  s4 = s4  s5 = s5  c1 = c1  c2 = c2
    Nil = Nil  NoData = NoData
    Server <- Server3
    Value <- Value1
    MaxElections = 2
    MaxLogLen = 2
    MaxRestarts = 0
    MaxSnapshots = 0
    MaxMsgs = 2
    MaxLogSlack = 0
    LossyRounds = TRUE
SPECIFICATION Spec
SYMMETRY Symmetry
VIEW RaftView
CONSTRAINT MsgBound
INVARIANT LogMatching CommittedOnMajority
CHECK_DEADLOCK FALSE
