------------------------------- MODULE MCRaft -------------------------------
(* Model-checking instance of Raft: small peer and command sets.          *)
EXTENDS Raft

CONSTANTS s1, s2, s3, s4, s5, c1, c2

\* Bound on in-flight messages (requests plus replies).
CONSTANT MaxMsgs

Server2 == {s1, s2}
Server3 == {s1, s2, s3}
Server5 == {s1, s2, s3, s4, s5}
\* The first Op of one or two clients (a client has one Op outstanding;
\* a retry re-submits the same Op).
Value1 == {[cid |-> c1, seq |-> 1]}
Value2 == {[cid |-> c1, seq |-> 1], [cid |-> c2, seq |-> 1]}

\* Peers are interchangeable: only equality and quorum sizes are used.
Symmetry == Permutations(Server3)
Symmetry5 == Permutations(Server5)

MsgBound == Cardinality(msgs) <= MaxMsgs

\* Bound on log lengths: an AppendEntries whose prevLogIndex lies in the
\* follower's snapshot appends its entries again each time it is handled.
CONSTANT MaxLogSlack
LogBound == /\ MsgBound
            /\ \A i \in Server : LastLogIndex(i) <= MaxLogLen + MaxLogSlack

(* matchIndex is read only while leader and reset on winning an election; *)
(* votesReceived is read only while candidate and reset by Timeout.  The  *)
(* view hides their stale values, which no later step can observe.        *)
LiveMatch == [i \in Server |-> IF state[i] = Leader THEN matchIndex[i] ELSE 0]
LiveVotes == [i \in Server |-> IF state[i] = Candidate THEN votesReceived[i] ELSE 0]
View == <<currTerm, state, votedFor, log, commitIndex, lastApplied, LiveMatch,
          LiveVotes, lastIncludedIndex, lastIncludedTerm, snapshot, msgs,
          svcVars, restarts, snapshots, elections>>

(* Without snapshots the apply pipeline (lastApplied, applyQ and the    *)
(* service) feeds nothing back into Raft (a restart reads only persisted *)
(* state); runs whose properties read only Raft state hide it.            *)
RaftView == <<currTerm, state, votedFor, log, commitIndex, LiveMatch, LiveVotes,
              msgs, elections>>
=============================================================================
