\* Restart of a peer that has a snapshot, racing its applier: two commands, logs of two entries, one restart.
CONSTANTS
    s1 = s1  s2 = s2  s3 = s3  s4 = s4  s5 = s5  c1 = c1  c2 = c2
    Nil = Nil  NoData = NoData
    Server <- Server3
    Value <- Value2
    MaxElections = 1
    MaxLogLen = 2
    MaxRestarts = 1
    MaxSnapshots = 1
    MaxMsgs = 2
    MaxLogSlack = 1
    LossyRounds = FALSE
SPECIFICATION Spec
SYMMETRY Symmetry
VIEW View
CONSTRAINT LogBound
INVARIANT StateMachineSafety
CHECK_DEADLOCK FALSE
