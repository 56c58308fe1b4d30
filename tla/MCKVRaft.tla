------------------------------ MODULE MCKVRaft ------------------------------
(* Model-checking instance of KVRaft: three peers, one or two clerks.     *)
EXTENDS KVRaft

CONSTANTS s1, s2, s3, c1, c2

\* Bound on in-flight Raft messages (requests plus replies).
CONSTANT MaxMsgs

Server2 == {s1, s2}
Server3 == {s1, s2, s3}
Client1 == {c1}
Client2 == {c1, c2}
\* Every Op a clerk may issue.
KVValue == {[cid |-> c, seq |-> s] : c \in Client, s \in 1 .. MaxSeq}

Symmetry2 == Permutations(Server2)
Symmetry == Permutations(Server3)

MsgBound == Cardinality(msgs) <= MaxMsgs

\* As in MCRaft: an AppendEntries whose prevLogIndex lies in the follower's
\* snapshot appends its entries again each time it is handled.
CONSTANT MaxLogSlack
LogBound == /\ MsgBound
            /\ \A i \in Server : LastLogIndex(i) <= MaxLogLen + MaxLogSlack

\* As in MCRaft: hide matchIndex and votesReceived outside the roles that
\* read them.
LiveMatch == [i \in Server |-> IF state[i] = Leader THEN matchIndex[i] ELSE 0]
LiveVotes == [i \in Server |-> IF state[i] = Candidate THEN votesReceived[i] ELSE 0]
View == <<currTerm, state, votedFor, log, commitIndex, lastApplied, LiveMatch,
          LiveVotes, lastIncludedIndex, lastIncludedTerm, snapshot, msgs,
          svcVars, restarts, snapshots, elections, kvVars>>
=============================================================================
