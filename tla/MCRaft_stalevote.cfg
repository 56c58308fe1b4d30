\* Elections among 5 peers with delayed RequestVote replies: three election timeouts, no commands.
CONSTANTS
    s1 = s1  s2 = s2  s3 = s3  s4 = s4  s5 = s5  c1 = c1  c2 = c2
    Nil = Nil  NoData = NoData
    Server <- Server5
    Value <- Value1
    MaxElections = 3
    MaxLogLen = 0
    MaxRestarts = 0
    MaxSnapshots = 0
    MaxMsgs = 5
    MaxLogSlack = 0
    LossyRounds = FALSE
SPECIFICATION Spec
SYMMETRY Symmetry5
VIEW RaftView
CONSTRAINT MsgBound
INVARIANT ElectionSafety
CHECK_DEADLOCK FALSE
