\* Commit and apply among 3 peers: two election timeouts, two commands, logs of one entry.
CONSTANTS
    s1 = s1  s2 = s2  s3 = s3  s4 = s4  s5 = s5  c1 = c1  c2 = c2
    Nil = Nil  NoData = NoData
    Server <- Server3
    Value <- Value2
    MaxElections = 2
    MaxLogLen = 1
    MaxRestarts = 1
    MaxSnapshots = 0
    MaxMsgs = 2
    MaxLogSlack = 0
    LossyRounds = FALSE
SPECIFICATION Spec
SYMMETRY Symmetry
VIEW View
CONSTRAINT MsgBound
INVARIANT TypeOK StateMachineSafety ElectionSafety
CHECK_DEADLOCK FALSE
