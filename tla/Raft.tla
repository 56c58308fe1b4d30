-------------------------------- MODULE Raft --------------------------------
(***************************************************************************)
(* One Raft peer per element of Server, as implemented in                 *)
(* src/src/raft/raft.go, together with the part of the k/v service        *)
(* (src/src/kvraft/server.go) that consumes the apply channel and asks    *)
(* Raft for snapshots.                                                      *)
(*                                                                         *)
(* Every RPC goroutine of the code is a message in msgs: a request         *)
(* carries the arguments captured when the goroutine was spawned, and its *)
(* reply carries the reply plus the captured values the reply handler      *)
(* reads (term, prevLogIndex, len(entries), lastIncludedIndex).            *)
(* Messages may be delayed, reordered and lost (labrpc); they are not     *)
(* duplicated.                                                              *)
(*                                                                         *)
(* Indices are the code's "phantom" indices: index 0 is a dummy entry     *)
(* (term 0, nil command) and lastIncludedIndex starts at -1.  log[i]      *)
(* holds the entries with index > lastIncludedIndex[i]; index k is at     *)
(* position k - lastIncludedIndex[i] of the TLA+ sequence.                *)
(***************************************************************************)
EXTENDS Integers, Sequences, FiniteSets, SequencesExt, TLC

CONSTANTS
    Server,        \* the peers
    Value,         \* client Ops [cid, seq] the service may propose
    Nil,           \* noVote, an absent pending message
    NoData,        \* an empty snapshot byte slice (nothing persisted yet)
    MaxElections,  \* bound on election timeouts, over all peers
    MaxLogLen,     \* bound on the leader's last log index for Start
    MaxRestarts,   \* bound on crash/restarts
    MaxSnapshots,  \* bound on snapshots taken by the service
    LossyRounds    \* whether a leader's round may reach only some peers

ASSUME /\ MaxElections \in Nat /\ MaxLogLen \in Nat
       /\ MaxRestarts \in Nat /\ MaxSnapshots \in Nat /\ LossyRounds \in BOOLEAN
       /\ Nil \notin Server /\ NoData # Nil

Follower == "Follower"
Candidate == "Candidate"
Leader == "Leader"

\* Service consumer phases (kvraft applyCommitted): waiting on applyCh, or
\* about to call rf.TakeSnapshot from snapshotCheck (holding kv.mu).
Idle == "Idle"
Snapshotting == "Snapshotting"

VARIABLES
    currTerm, state, votedFor, log,          \* Raft fields (persisted: all but state)
    commitIndex, lastApplied,
    matchIndex, votesReceived,
    lastIncludedIndex, lastIncludedTerm,
    snapshot,        \* the persister's snapshot blob
    msgs,            \* in-flight RPC requests and replies
    applyQ,          \* messages applyCommitted collected and has not yet sent
    blockedSend,     \* InstallSnapshot handler blocked on applyCh holding rf.mu
    bootSnap,        \* sendSnapshotToApp goroutine started by Make, not yet sent
    svcState,        \* the k/v store and clientSeqMap, as the Ops applied, in order
    kvIndex, kvTerm, \* kv.lastAppliedIndex, kv.lastAppliedTerm
    svcPhase,
    restarts, snapshots, elections

raftVars == <<currTerm, state, votedFor, log, commitIndex, lastApplied,
              matchIndex, votesReceived, lastIncludedIndex, lastIncludedTerm,
              snapshot>>
svcVars == <<applyQ, blockedSend, bootSnap, svcState, kvIndex, kvTerm, svcPhase>>
vars == <<raftVars, msgs, svcVars, restarts, snapshots, elections>>

Entry == [term : Nat, cmd : Value \cup {Nil}]
Dummy == [term |-> 0, cmd |-> Nil]
Majority == Cardinality(Server) \div 2 + 1

-----------------------------------------------------------------------------
(* Index helpers: getLastLogIndex, getLastLogTerm, getLogLen, p2a,        *)
(* index2term.                                                             *)

LastLogIndex(i) == lastIncludedIndex[i] + Len(log[i])
LastLogTerm(i) ==
    IF Len(log[i]) > 0 THEN log[i][Len(log[i])].term ELSE lastIncludedTerm[i]
LogLen(i) == LastLogIndex(i) + 1
\* p2a: the 0-based position of phantom index k in rf.log
P2A(i, k) == k - lastIncludedIndex[i] - 1
EntryAt(i, k) == log[i][P2A(i, k) + 1]
\* index2term over a log lg of peer i (lg is rf.log after a Start append)
Index2Term(i, lg, k) ==
    IF k > lastIncludedIndex[i] THEN lg[P2A(i, k) + 1].term ELSE lastIncludedTerm[i]

(* revertToFollowerIfOutOfTerm: the term, vote and role after peer i sees *)
(* term t.                                                                 *)
RTerm(i, t) == IF t > currTerm[i] THEN t ELSE currTerm[i]
RVote(i, t) == IF t > currTerm[i] THEN Nil ELSE votedFor[i]
RState(i, t) == IF t > currTerm[i] THEN Follower ELSE state[i]

\* rf.mu is free unless the InstallSnapshot handler is blocked on applyCh.
Free(i) == blockedSend[i] = Nil

-----------------------------------------------------------------------------
(* sendAppendEntriesToPeers: per peer, AppendEntries from matchIndex, or  *)
(* InstallSnapshot when that prefix is compacted.                          *)
AppendEntriesTo(i, j, lg, mi) ==
    IF mi[j] >= lastIncludedIndex[i]
    THEN [type |-> "AEReq", src |-> i, dst |-> j, term |-> currTerm[i],
          prevLogIndex |-> mi[j], prevLogTerm |-> Index2Term(i, lg, mi[j]),
          entries |-> SubSeq(lg, P2A(i, mi[j]) + 2, Len(lg)),
          leaderCommit |-> commitIndex[i]]
    ELSE [type |-> "ISReq", src |-> i, dst |-> j, term |-> currTerm[i],
          lastIncludedIndex |-> lastIncludedIndex[i],
          lastIncludedTerm |-> lastIncludedTerm[i], data |-> snapshot[i]]

AEMsgs(i, lg, mi) == {AppendEntriesTo(i, j, lg, mi) : j \in Server \ {i}}

(* One goroutine per peer sends each request of a round, and labrpc may  *)
(* lose any of them, so the requests of a leader's round that reach the  *)
(* network are any subset of it.  Losing some before any is handled is   *)
(* the same as sending all and dropping some, except that a round to one *)
(* peer counts once against the message bound: another round, a reply or *)
(* an election can then be in flight beside it.  Election rounds are     *)
(* sent whole, and Drop loses their requests.  With LossyRounds FALSE a   *)
(* round is sent whole too: fewer states, and Drop still loses any of it. *)
SendRound(ms) == \E S \in IF LossyRounds THEN SUBSET ms ELSE {ms} : msgs' = msgs \cup S

(* tryCommit: the highest N above lastIncludedIndex replicated on a       *)
(* majority (matchIndex of the others plus the leader) whose term is the  *)
(* current term; commitIndex unchanged if there is none.                   *)
Replicated(i, mi, N) ==
    1 + Cardinality({j \in Server \ {i} : mi[j] >= N}) >= Majority
TryCommit(i, mi) ==
    LET S == {N \in lastIncludedIndex[i] + 1 .. LastLogIndex(i) :
                 Replicated(i, mi, N) /\ EntryAt(i, N).term = currTerm[i]}
    IN IF S = {} THEN commitIndex[i] ELSE Max(S)

-----------------------------------------------------------------------------
Init ==
    /\ currTerm = [i \in Server |-> 0]
    /\ state = [i \in Server |-> Follower]
    /\ votedFor = [i \in Server |-> Nil]
    /\ log = [i \in Server |-> <<Dummy>>]
    /\ commitIndex = [i \in Server |-> 0]
    /\ lastApplied = [i \in Server |-> 0]
    /\ matchIndex = [i \in Server |-> [j \in Server |-> 0]]
    /\ votesReceived = [i \in Server |-> 0]
    /\ lastIncludedIndex = [i \in Server |-> -1]
    /\ lastIncludedTerm = [i \in Server |-> 0]
    /\ snapshot = [i \in Server |-> NoData]
    /\ msgs = {}
    /\ applyQ = [i \in Server |-> <<>>]
    /\ blockedSend = [i \in Server |-> Nil]
    \* Make's sendSnapshotToApp sends the empty persisted snapshot, which
    \* readSnapshot ignores: nothing pending
    /\ bootSnap = [i \in Server |-> Nil]
    /\ svcState = [i \in Server |-> <<>>]
    /\ kvIndex = [i \in Server |-> 0]
    /\ kvTerm = [i \in Server |-> 0]
    /\ svcPhase = [i \in Server |-> Idle]
    /\ restarts = 0
    /\ snapshots = 0
    /\ elections = 0

-----------------------------------------------------------------------------
(* periodicElection: the election timer of a non-leader fires; it becomes *)
(* candidate in the next term, votes for itself and sends RequestVote.    *)
Timeout(i) ==
    /\ Free(i)
    /\ state[i] # Leader
    /\ elections < MaxElections
    /\ elections' = elections + 1
    /\ state' = [state EXCEPT ![i] = Candidate]
    /\ currTerm' = [currTerm EXCEPT ![i] = @ + 1]
    /\ votedFor' = [votedFor EXCEPT ![i] = i]
    /\ votesReceived' = [votesReceived EXCEPT ![i] = 1]
    /\ msgs' = msgs \cup
         {[type |-> "RVReq", src |-> i, dst |-> j, term |-> currTerm[i] + 1,
           lastLogIndex |-> LastLogIndex(i), lastLogTerm |-> LastLogTerm(i)] :
            j \in Server \ {i}}
    /\ UNCHANGED <<log, commitIndex, lastApplied, matchIndex, lastIncludedIndex,
                   lastIncludedTerm, snapshot, svcVars, restarts, snapshots>>

(* RequestVote handler.  There is no check that args.Term >= currTerm:    *)
(* a request of an older term is granted when votedFor allows it.         *)
UpToDateAlways(i, m) == TRUE  \* mutant: the election restriction dropped

UpToDate(i, m) ==
    \/ m.lastLogTerm > LastLogTerm(i)
    \/ m.lastLogTerm = LastLogTerm(i) /\ m.lastLogIndex >= LastLogIndex(i)

\* Mutant of GrantVote: the votedFor check is dropped.
GrantVoteNoCheck(i, m) == UpToDate(i, m)

\* The vote is granted if votedFor (after the term update) is noVote or the
\* candidate, and the candidate's log is up to date.
GrantVote(i, m) == RVote(i, m.term) \in {Nil, m.src} /\ UpToDate(i, m)

HandleRequestVote(m) ==
    LET i == m.dst
        t == RTerm(i, m.term)
        vf == RVote(i, m.term)
        grant == GrantVote(i, m)
    IN /\ m.type = "RVReq"
       /\ Free(i)
       /\ currTerm' = [currTerm EXCEPT ![i] = t]
       /\ state' = [state EXCEPT ![i] = RState(i, m.term)]
       /\ votedFor' = [votedFor EXCEPT ![i] = IF grant THEN m.src ELSE vf]
       /\ msgs' = (msgs \ {m}) \cup
            {[type |-> "RVResp", src |-> i, dst |-> m.src, term |-> t,
              granted |-> grant, reqTerm |-> m.term]}
       /\ UNCHANGED <<log, commitIndex, lastApplied, matchIndex, votesReceived,
                      lastIncludedIndex, lastIncludedTerm, snapshot, svcVars,
                      restarts, snapshots, elections>>

(* RequestVote reply, in the goroutine that sent the request.  A granted  *)
(* vote is counted whatever term it was granted for; only the final       *)
(* promotion compares the goroutine's term with currTerm.                 *)
WinsElection(i, m, votes, t) == votes >= Majority /\ m.reqTerm = t

HandleRequestVoteReply(m) ==
    LET i == m.dst
        t == RTerm(i, m.term)
        st == RState(i, m.term)
        votes == votesReceived[i] + 1
        zero == [j \in Server |-> 0]
    IN /\ m.type = "RVResp"
       /\ Free(i)
       /\ currTerm' = [currTerm EXCEPT ![i] = t]
       /\ votedFor' = [votedFor EXCEPT ![i] = RVote(i, m.term)]
       /\ \/ \* no longer candidate, or vote refused
             /\ st # Candidate \/ ~m.granted
             /\ state' = [state EXCEPT ![i] = st]
             /\ msgs' = msgs \ {m}
             /\ UNCHANGED <<votesReceived, matchIndex>>
          \/ \* vote counted
             /\ st = Candidate /\ m.granted
             /\ ~WinsElection(i, m, votes, t)
             /\ votesReceived' = [votesReceived EXCEPT ![i] = votes]
             /\ msgs' = msgs \ {m}
             /\ UNCHANGED <<state, matchIndex>>
          \/ \* becomes leader and sends one round of AppendEntries at once
             /\ st = Candidate /\ m.granted
             /\ WinsElection(i, m, votes, t)
             /\ votesReceived' = [votesReceived EXCEPT ![i] = votes]
             /\ state' = [state EXCEPT ![i] = Leader]
             /\ matchIndex' = [matchIndex EXCEPT ![i] = zero]
             /\ msgs' = (msgs \ {m}) \cup AEMsgs(i, log[i], zero)
       /\ UNCHANGED <<log, commitIndex, lastApplied, lastIncludedIndex,
                      lastIncludedTerm, snapshot, svcVars, restarts, snapshots, elections>>

-----------------------------------------------------------------------------
(* AppendEntries handler.                                                  *)

\* The consistency check of the handler.  An index at or below
\* lastIncludedIndex (p2a < 0) is taken to match.
LogMismatch(i, m) ==
    \/ LogLen(i) <= m.prevLogIndex
    \/ P2A(i, m.prevLogIndex) >= 0 /\ EntryAt(i, m.prevLogIndex).term # m.prevLogTerm

\* Fast-rollback XIndex: the lowest index of the run of non-dummy entries
\* with term xt that ends at prevLogIndex; 0 (Go's zero value) if none.
XIndexOf(i, prev, xt) ==
    LET run == {k \in lastIncludedIndex[i] + 1 .. prev :
                  \A q \in k .. prev : EntryAt(i, q).term = xt /\ EntryAt(i, q).cmd # Nil}
    IN IF run = {} THEN 0 ELSE Min(run)

\* The entries loop: the 1-based position in m.entries where the walk stops,
\* because the log ran out (or the index is compacted), or at a conflict.
OutOfLog(i, m, k) ==
    P2A(i, m.prevLogIndex + k) < 0 \/ m.prevLogIndex + k >= LogLen(i)
Conflict(i, m, k) ==
    ~OutOfLog(i, m, k) /\ EntryAt(i, m.prevLogIndex + k).term # m.entries[k].term
StopAt(i, m) ==
    LET S == {k \in 1 .. Len(m.entries) : OutOfLog(i, m, k) \/ Conflict(i, m, k)}
    IN IF S = {} THEN Len(m.entries) + 1 ELSE Min(S)
MergedLogNoTruncate(i, m) ==  \* mutant: the conflicting suffix is kept
    log[i] \o SubSeq(m.entries, StopAt(i, m), Len(m.entries))

\* Truncate at the first conflict, then append the entries from the stop.
MergedLog(i, m) ==
    LET k == StopAt(i, m)
        kept == IF k <= Len(m.entries) /\ Conflict(i, m, k)
                THEN SubSeq(log[i], 1, P2A(i, m.prevLogIndex + k))
                ELSE log[i]
    IN kept \o SubSeq(m.entries, k, Len(m.entries))

AEReply(i, m, t, ok, xt, xi, xl) ==
    [type |-> "AEResp", src |-> i, dst |-> m.src, term |-> t, success |-> ok,
     xterm |-> xt, xindex |-> xi, xlen |-> xl, reqTerm |-> m.term,
     prevLogIndex |-> m.prevLogIndex, nEntries |-> Len(m.entries)]

\* The rejection of a mismatching log, with the fast-rollback hints.
MismatchReply(i, m, t) ==
    LET prev == m.prevLogIndex
        short == LogLen(i) <= prev
        xt == IF short THEN -1 ELSE EntryAt(i, prev).term
        xi == IF short THEN -1 ELSE XIndexOf(i, prev, xt)
    IN AEReply(i, m, t, FALSE, xt, xi, LogLen(i))

(* The follower's commitIndex after a successful AppendEntries:         *)
(* min(leaderCommit, last log index) when leaderCommit is ahead.          *)
FollowerCommitOnEntries(i, m, last) ==  \* mutant: heartbeats carry no commit
    IF m.leaderCommit > commitIndex[i] /\ m.entries # <<>>
    THEN IF m.leaderCommit < last THEN m.leaderCommit ELSE last
    ELSE commitIndex[i]

FollowerCommit(i, m, last) ==
    IF m.leaderCommit > commitIndex[i]
    THEN IF m.leaderCommit < last THEN m.leaderCommit ELSE last
    ELSE commitIndex[i]

HandleAppendEntries(m) ==
    LET i == m.dst
        t == RTerm(i, m.term)
    IN /\ m.type = "AEReq"
       /\ Free(i)
       /\ currTerm' = [currTerm EXCEPT ![i] = t]
       /\ state' = [state EXCEPT ![i] = RState(i, m.term)]
       /\ votedFor' = [votedFor EXCEPT ![i] = RVote(i, m.term)]
       /\ \/ \* obsolete leader
             /\ m.term < t
             /\ msgs' = (msgs \ {m}) \cup {AEReply(i, m, t, FALSE, 0, 0, 0)}
             /\ UNCHANGED <<log, commitIndex>>
          \/ \* current leader: reject with fast-rollback hints if the log does not
             \* match at prevLogIndex, else merge the entries, advance commitIndex
             /\ m.term >= t
             /\ IF LogMismatch(i, m)
                THEN /\ msgs' = (msgs \ {m}) \cup {MismatchReply(i, m, t)}
                     /\ UNCHANGED <<log, commitIndex>>
                ELSE LET nl == MergedLog(i, m)
                         last == lastIncludedIndex[i] + Len(nl)
                     IN /\ log' = [log EXCEPT ![i] = nl]
                        /\ commitIndex' = [commitIndex EXCEPT ![i] = FollowerCommit(i, m, last)]
                        /\ msgs' = (msgs \ {m}) \cup {AEReply(i, m, t, TRUE, 0, 0, 0)}
       /\ UNCHANGED <<lastApplied, matchIndex, votesReceived, lastIncludedIndex,
                      lastIncludedTerm, snapshot, svcVars, restarts, snapshots, elections>>

(* Leader's reaction to a rejection: nextIndex from the hints, and        *)
(* matchIndex = nextIndex - 1.  Found is the index the backward scan of   *)
(* the leader's log stops at with term XTerm (the scan gives up at the    *)
(* dummy entry or at a lower term).                                        *)
NextIndexAfterReject(i, m) ==
    LET last == LastLogIndex(i)
        found == {k \in lastIncludedIndex[i] + 1 .. last :
                    /\ EntryAt(i, k).term = m.xterm /\ EntryAt(i, k).cmd # Nil
                    /\ \A q \in k + 1 .. last :
                          EntryAt(i, q).cmd # Nil /\ EntryAt(i, q).term > m.xterm}
    IN IF m.xterm = -1 /\ m.xindex = -1 THEN m.xlen
       ELSE IF found = {} THEN m.xindex ELSE Max(found)


\* matchIndex after a successful reply: prevLogIndex + len(args.Entries).
MatchAfterSuccess(m) == m.prevLogIndex + m.nEntries

(* AppendEntries reply, in the sending goroutine.  Dropped unless the     *)
(* goroutine's term is still currTerm and the peer still leader.          *)
HandleAppendEntriesReply(m) ==
    LET i == m.dst
        j == m.src
        t == RTerm(i, m.term)
        st == RState(i, m.term)
    IN /\ m.type = "AEResp"
       /\ Free(i)
       /\ currTerm' = [currTerm EXCEPT ![i] = t]
       /\ state' = [state EXCEPT ![i] = st]
       /\ votedFor' = [votedFor EXCEPT ![i] = RVote(i, m.term)]
       /\ msgs' = msgs \ {m}
       /\ \/ /\ m.reqTerm # t \/ st # Leader
             /\ UNCHANGED <<matchIndex, commitIndex>>
          \/ /\ m.reqTerm = t /\ st = Leader
             /\ IF m.success
                THEN LET mi == [matchIndex[i] EXCEPT ![j] = MatchAfterSuccess(m)]
                     IN /\ matchIndex' = [matchIndex EXCEPT ![i] = mi]
                        /\ commitIndex' = [commitIndex EXCEPT ![i] = TryCommit(i, mi)]
                ELSE /\ matchIndex' = [matchIndex EXCEPT ![i][j] = NextIndexAfterReject(i, m) - 1]
                     /\ UNCHANGED commitIndex
       /\ UNCHANGED <<log, lastApplied, votesReceived, lastIncludedIndex,
                      lastIncludedTerm, snapshot, svcVars, restarts, snapshots, elections>>

-----------------------------------------------------------------------------
(* InstallSnapshot handler.  On install it keeps the entries after        *)
(* args.LastIncludedIndex whatever their terms, persists, and sends the   *)
(* snapshot on applyCh while still holding rf.mu: the handler (and its    *)
(* reply) completes only when the service receives it (blockedSend).      *)
HandleInstallSnapshot(m) ==
    LET i == m.dst
        t == RTerm(i, m.term)
        L == m.lastIncludedIndex
        reply == [type |-> "ISResp", src |-> i, dst |-> m.src, term |-> t,
                  lastIncludedIndex |-> L]
        from == IF P2A(i, L) + 1 < Len(log[i]) THEN P2A(i, L) + 1 ELSE Len(log[i])
    IN /\ m.type = "ISReq"
       /\ Free(i)
       /\ currTerm' = [currTerm EXCEPT ![i] = t]
       /\ state' = [state EXCEPT ![i] = RState(i, m.term)]
       /\ votedFor' = [votedFor EXCEPT ![i] = RVote(i, m.term)]
       /\ \/ \* obsolete leader, or a snapshot older than ours
             /\ m.term < t \/ L < lastIncludedIndex[i] + 1
             /\ msgs' = (msgs \ {m}) \cup {reply}
             /\ UNCHANGED <<log, commitIndex, lastApplied, lastIncludedIndex,
                            lastIncludedTerm, snapshot, blockedSend>>
          \/ /\ m.term >= t /\ L >= lastIncludedIndex[i] + 1
             /\ log' = [log EXCEPT ![i] = SubSeq(@, from + 1, Len(@))]
             /\ lastIncludedIndex' = [lastIncludedIndex EXCEPT ![i] = L]
             /\ lastIncludedTerm' = [lastIncludedTerm EXCEPT ![i] = m.lastIncludedTerm]
             /\ snapshot' = [snapshot EXCEPT ![i] = m.data]
             /\ lastApplied' = [lastApplied EXCEPT ![i] = IF @ < L THEN L ELSE @]
             /\ commitIndex' = [commitIndex EXCEPT ![i] = IF @ < L THEN L ELSE @]
             /\ blockedSend' = [blockedSend EXCEPT ![i] = [data |-> m.data, reply |-> reply]]
             /\ msgs' = msgs \ {m}
       /\ UNCHANGED <<matchIndex, votesReceived, applyQ, bootSnap, svcState,
                      kvIndex, kvTerm, svcPhase, restarts, snapshots, elections>>

(* InstallSnapshot reply: only the role is re-checked, not the term the   *)
(* request was sent in.                                                    *)
MatchAfterInstall(m) == m.lastIncludedIndex
HandleInstallSnapshotReply(m) ==
    LET i == m.dst
        st == RState(i, m.term)
        mi == [matchIndex[i] EXCEPT ![m.src] = MatchAfterInstall(m)]
    IN /\ m.type = "ISResp"
       /\ Free(i)
       /\ currTerm' = [currTerm EXCEPT ![i] = RTerm(i, m.term)]
       /\ state' = [state EXCEPT ![i] = st]
       /\ votedFor' = [votedFor EXCEPT ![i] = RVote(i, m.term)]
       /\ msgs' = msgs \ {m}
       /\ IF st = Leader
          THEN /\ matchIndex' = [matchIndex EXCEPT ![i] = mi]
               /\ commitIndex' = [commitIndex EXCEPT ![i] = TryCommit(i, mi)]
          ELSE UNCHANGED <<matchIndex, commitIndex>>
       /\ UNCHANGED <<log, lastApplied, votesReceived, lastIncludedIndex,
                      lastIncludedTerm, snapshot, svcVars, restarts, snapshots, elections>>

-----------------------------------------------------------------------------
(* Start(command) on a leader: append, persist, send to every peer.       *)
(* On a non-leader Start changes nothing.                                  *)
Start(i, v) ==
    LET lg == Append(log[i], [term |-> currTerm[i], cmd |-> v])
    IN /\ Free(i)
       /\ state[i] = Leader
       /\ LastLogIndex(i) < MaxLogLen
       /\ log' = [log EXCEPT ![i] = lg]
       /\ SendRound(AEMsgs(i, lg, matchIndex[i]))
       /\ UNCHANGED <<currTerm, state, votedFor, commitIndex, lastApplied,
                      matchIndex, votesReceived, lastIncludedIndex,
                      lastIncludedTerm, snapshot, svcVars, restarts, snapshots, elections>>

(* periodicAppendEntries: a heartbeat round of the leader.                *)
Heartbeat(i) ==
    /\ Free(i)
    /\ state[i] = Leader
    /\ SendRound(AEMsgs(i, log[i], matchIndex[i]))
    /\ UNCHANGED <<raftVars, svcVars, restarts, snapshots, elections>>

-----------------------------------------------------------------------------
(* applyCommitted (raft): under rf.mu collect the messages for            *)
(* lastApplied+1 .. commitIndex and advance lastApplied; the sends happen *)
(* afterwards, without the lock, one ApplierSend each.                     *)
ApplyBatchFromApplied(i) ==  \* mutant: reads log[lastApplied] before the increment
    [k \in 1 .. commitIndex[i] - lastApplied[i] |->
        [index |-> lastApplied[i] + k - 1,
         term |-> EntryAt(i, lastApplied[i] + k - 1).term,
         cmd |-> EntryAt(i, lastApplied[i] + k - 1).cmd]]

ApplyBatch(i) ==
    [k \in 1 .. commitIndex[i] - lastApplied[i] |->
        [index |-> lastApplied[i] + k,
         term |-> EntryAt(i, lastApplied[i] + k).term,
         cmd |-> EntryAt(i, lastApplied[i] + k).cmd]]

ApplierCollect(i) ==
    /\ Free(i)
    /\ applyQ[i] = <<>>
    /\ lastApplied[i] < commitIndex[i]
    /\ applyQ' = [applyQ EXCEPT ![i] = ApplyBatch(i)]
    /\ lastApplied' = [lastApplied EXCEPT ![i] = commitIndex[i]]
    /\ UNCHANGED <<currTerm, state, votedFor, log, commitIndex, matchIndex,
                   votesReceived, lastIncludedIndex, lastIncludedTerm, snapshot,
                   msgs, blockedSend, bootSnap, svcState, kvIndex, kvTerm,
                   svcPhase, restarts, snapshots, elections>>

(* kv.clientSeqMap[cid]: the highest Seq of cid's ops in the store.      *)
(* The map is updated together with the store and saved and restored with *)
(* it in snapshots, so it is a function of the applied ops.               *)
ClientSeq(ops, cid) ==
    LET seqs == {ops[k].seq : k \in {k \in 1 .. Len(ops) : ops[k].cid = cid}}
    IN IF seqs = {} THEN 0 ELSE Max(seqs)

(* applyCh <- msg, received by the service's applyCommitted, which under  *)
(* kv.mu applies the Op unless its Seq is not above clientSeqMap[Cid]     *)
(* (a duplicate), records lastAppliedIndex/Term for fresh ops only, and   *)
(* runs snapshotCheck after every command.  Whether RaftStateSize exceeds *)
(* 0.8 * maxraftstate is a nondeterministic choice (MaxSnapshots = 0      *)
(* models maxraftstate = -1); when it does the service goes on to call    *)
(* rf.TakeSnapshot.                                                        *)
(* An Op is executed only if its Seq is above the client's clientSeqMap   *)
(* entry; otherwise it is a duplicate of one already applied.            *)
FreshGeq(i, op) == op.seq >= ClientSeq(svcState[i], op.cid)  \* mutant: a retry passes

Fresh(i, op) == op.seq > ClientSeq(svcState[i], op.cid)

(* The service-side effect of one command message, under kv.mu.          *)
ServiceApply(i, msg) ==
    LET fresh == Fresh(i, msg.cmd)
    IN /\ svcState' = [svcState EXCEPT ![i] = IF fresh THEN Append(@, msg.cmd) ELSE @]
       /\ kvIndex' = [kvIndex EXCEPT ![i] = IF fresh THEN msg.index ELSE @]
       /\ kvTerm' = [kvTerm EXCEPT ![i] = IF fresh THEN msg.term ELSE @]
       /\ \E next \in IF snapshots < MaxSnapshots THEN {Idle, Snapshotting} ELSE {Idle} :
             svcPhase' = [svcPhase EXCEPT ![i] = next]

ApplierSend(i) ==
    /\ applyQ[i] # <<>>
    /\ svcPhase[i] = Idle
    /\ applyQ' = [applyQ EXCEPT ![i] = Tail(@)]
    /\ ServiceApply(i, Head(applyQ[i]))
    /\ UNCHANGED <<raftVars, msgs, blockedSend, bootSnap, restarts, snapshots, elections>>

\* kvraft readSnapshot: an empty snapshot leaves the state as it is.
Restored(i, data) == IF data = NoData THEN svcState[i] ELSE data

(* The InstallSnapshot handler's send completes: the service replaces its *)
(* state (lastAppliedIndex untouched), the handler releases rf.mu and     *)
(* its reply goes out.                                                     *)
DeliverInstalledSnapshot(i) ==
    /\ blockedSend[i] # Nil
    /\ svcPhase[i] = Idle
    /\ svcState' = [svcState EXCEPT ![i] = Restored(i, blockedSend[i].data)]
    /\ msgs' = msgs \cup {blockedSend[i].reply}
    /\ blockedSend' = [blockedSend EXCEPT ![i] = Nil]
    /\ UNCHANGED <<raftVars, applyQ, bootSnap, kvIndex, kvTerm, svcPhase,
                   restarts, snapshots, elections>>

(* sendSnapshotToApp's goroutine delivers the persisted snapshot.         *)
DeliverBootSnapshot(i) ==
    /\ bootSnap[i] # Nil
    /\ svcPhase[i] = Idle
    /\ svcState' = [svcState EXCEPT ![i] = Restored(i, bootSnap[i])]
    /\ bootSnap' = [bootSnap EXCEPT ![i] = Nil]
    /\ UNCHANGED <<raftVars, msgs, applyQ, blockedSend, kvIndex, kvTerm,
                   svcPhase, restarts, snapshots, elections>>

(* rf.TakeSnapshot(kv.lastAppliedIndex, kv.lastAppliedTerm, state),       *)
(* called by the service with kv.mu held; it needs rf.mu.                 *)
TakeSnapshot(i) ==
    LET idx == kvIndex[i]
    IN /\ svcPhase[i] = Snapshotting
       /\ Free(i)
       /\ svcPhase' = [svcPhase EXCEPT ![i] = Idle]
       /\ \/ /\ idx < lastIncludedIndex[i]
             /\ UNCHANGED <<log, lastIncludedIndex, lastIncludedTerm, snapshot, snapshots>>
          \/ /\ idx >= lastIncludedIndex[i]
             \* rf.log[p2a(idx)+1:] panics when idx is past the end of the log
             /\ Assert(P2A(i, idx) + 1 <= Len(log[i]), "TakeSnapshot: slice out of range")
             /\ log' = [log EXCEPT ![i] = SubSeq(@, P2A(i, idx) + 2, Len(@))]
             /\ lastIncludedIndex' = [lastIncludedIndex EXCEPT ![i] = idx]
             /\ lastIncludedTerm' = [lastIncludedTerm EXCEPT ![i] = kvTerm[i]]
             /\ snapshot' = [snapshot EXCEPT ![i] = svcState[i]]
             /\ snapshots' = snapshots + 1
       /\ UNCHANGED <<currTerm, state, votedFor, commitIndex, lastApplied,
                      matchIndex, votesReceived, msgs, applyQ, blockedSend,
                      bootSnap, svcState, kvIndex, kvTerm, restarts, elections>>

-----------------------------------------------------------------------------
(* Crash and restart of peer i with its k/v server: Make restores         *)
(* currTerm, votedFor, log, lastIncludedIndex/Term (readPersist sets       *)
(* lastApplied = max(0, lastIncludedIndex)), and starts                    *)
(* sendSnapshotToApp; StartKVServer begins with an empty store.  Replies  *)
(* owed to the old instance's goroutines are lost.                         *)
RestoredLastAppliedZero(i) == 0  \* mutant: lastApplied not raised to the snapshot

\* readPersist: lastApplied = max(lastApplied, lastIncludedIndex) with the
\* fresh lastApplied = 0.
RestoredLastApplied(i) == IF lastIncludedIndex[i] > 0 THEN lastIncludedIndex[i] ELSE 0

Restart(i) ==
    /\ restarts < MaxRestarts
    /\ restarts' = restarts + 1
    /\ state' = [state EXCEPT ![i] = Follower]
    /\ commitIndex' = [commitIndex EXCEPT ![i] = 0]
    /\ lastApplied' = [lastApplied EXCEPT ![i] = RestoredLastApplied(i)]
    /\ matchIndex' = [matchIndex EXCEPT ![i] = [j \in Server |-> 0]]
    /\ votesReceived' = [votesReceived EXCEPT ![i] = 0]
    /\ msgs' = {m \in msgs : ~(m.dst = i /\ m.type \in {"RVResp", "AEResp", "ISResp"})}
    /\ applyQ' = [applyQ EXCEPT ![i] = <<>>]
    /\ blockedSend' = [blockedSend EXCEPT ![i] = Nil]
    /\ bootSnap' = [bootSnap EXCEPT ![i] = IF snapshot[i] = NoData THEN Nil ELSE snapshot[i]]
    /\ svcState' = [svcState EXCEPT ![i] = <<>>]
    /\ kvIndex' = [kvIndex EXCEPT ![i] = 0]
    /\ kvTerm' = [kvTerm EXCEPT ![i] = 0]
    /\ svcPhase' = [svcPhase EXCEPT ![i] = Idle]
    /\ UNCHANGED <<currTerm, votedFor, log, lastIncludedIndex, lastIncludedTerm,
                   snapshot, snapshots, elections>>

(* labrpc loses a request or a reply (Call returns false).                *)
Drop(m) ==
    /\ msgs' = msgs \ {m}
    /\ UNCHANGED <<raftVars, svcVars, restarts, snapshots, elections>>

-----------------------------------------------------------------------------
Next ==
    \/ \E i \in Server :
          \/ Timeout(i) \/ Heartbeat(i) \/ \E v \in Value : Start(i, v)
          \/ ApplierCollect(i) \/ ApplierSend(i)
          \/ DeliverInstalledSnapshot(i) \/ DeliverBootSnapshot(i)
          \/ TakeSnapshot(i) \/ Restart(i)
    \/ \E m \in msgs :
          \/ HandleRequestVote(m) \/ HandleRequestVoteReply(m)
          \/ HandleAppendEntries(m) \/ HandleAppendEntriesReply(m)
          \/ HandleInstallSnapshot(m) \/ HandleInstallSnapshotReply(m)
          \/ Drop(m)

Spec == Init /\ [][Next]_vars

(* Fairness: the heartbeat ticker and the applier goroutine run whenever *)
(* they can (weak fairness; the whole heartbeat round reaches the network, *)
(* after which each request may still be lost); a message that keeps being sent is           *)
(* eventually delivered and handled, although labrpc may lose any single *)
(* one, independently of the others (strong fairness on handling, per   *)
(* receiving peer and per replying peer; none on Drop).  Timeouts,        *)
(* restarts and Start are not forced.                                      *)
FairSpec ==
    /\ Spec
    /\ \A i \in Server :
          /\ WF_vars(Heartbeat(i) /\ msgs' = msgs \cup AEMsgs(i, log[i], matchIndex[i]))
          /\ WF_vars(ApplierCollect(i))
          /\ WF_vars(ApplierSend(i))
          /\ SF_vars(\E m \in msgs : m.dst = i /\ HandleAppendEntries(m))
          /\ SF_vars(\E m \in msgs : m.src = i /\ HandleAppendEntriesReply(m))

-----------------------------------------------------------------------------
(* Properties                                                              *)

Msg ==
    [type : {"RVReq"}, src : Server, dst : Server, term : Nat,
     lastLogIndex : Int, lastLogTerm : Nat]
    \cup [type : {"RVResp"}, src : Server, dst : Server, term : Nat,
          granted : BOOLEAN, reqTerm : Nat]
    \cup [type : {"AEReq"}, src : Server, dst : Server, term : Nat,
          prevLogIndex : Int, prevLogTerm : Nat, entries : Seq(Entry),
          leaderCommit : Int]
    \cup [type : {"AEResp"}, src : Server, dst : Server, term : Nat,
          success : BOOLEAN, xterm : Int, xindex : Int, xlen : Int,
          reqTerm : Nat, prevLogIndex : Int, nEntries : Nat]
    \cup [type : {"ISReq"}, src : Server, dst : Server, term : Nat,
          lastIncludedIndex : Int, lastIncludedTerm : Nat,
          data : Seq(Value) \cup {NoData}]
    \cup [type : {"ISResp"}, src : Server, dst : Server, term : Nat,
          lastIncludedIndex : Int]

TypeOK ==
    /\ currTerm \in [Server -> 0 .. MaxElections]
    /\ state \in [Server -> {Follower, Candidate, Leader}]
    /\ votedFor \in [Server -> Server \cup {Nil}]
    /\ log \in [Server -> Seq(Entry)]
    /\ commitIndex \in [Server -> Int]
    /\ lastApplied \in [Server -> Int]
    /\ matchIndex \in [Server -> [Server -> Int]]
    /\ votesReceived \in [Server -> Nat]
    /\ lastIncludedIndex \in [Server -> Int]
    /\ lastIncludedTerm \in [Server -> Nat]
    /\ snapshot \in [Server -> Seq(Value) \cup {NoData}]
    /\ msgs \subseteq Msg
    /\ applyQ \in [Server -> Seq([index : Nat, term : Nat, cmd : Value])]
    /\ svcState \in [Server -> Seq(Value)]
    /\ kvIndex \in [Server -> Int] /\ kvTerm \in [Server -> Nat]
    /\ svcPhase \in [Server -> {Idle, Snapshotting}]

(* Election safety (spec 8.1): two peers that are both leader are leaders *)
(* of different terms.  Violated if the RequestVote reply handler counts  *)
(* one peer's vote twice or counts a vote granted for another term.      *)
ElectionSafety ==
    \A i, j \in Server :
        (state[i] = Leader /\ state[j] = Leader /\ currTerm[i] = currTerm[j]) => i = j

(* Log matching (spec 8.2): if two logs hold an entry of the same term at *)
(* the same index, they hold the same entries up to that index (as far as *)
(* both still have them).  Guards the AppendEntries consistency check, the *)
(* conflict truncation and the phantom-index arithmetic after snapshots.  *)
Present(i) == lastIncludedIndex[i] + 1 .. LastLogIndex(i)
LogMatching ==
    \A i, j \in Server : \A k \in Present(i) \cap Present(j) :
        EntryAt(i, k).term = EntryAt(j, k).term =>
            \A q \in Present(i) \cap Present(j) : q <= k => EntryAt(i, q) = EntryAt(j, q)

(* What a peer has committed stays on a majority: every entry at or below *)
(* its commitIndex is, with the same term and command, in the log of a     *)
(* majority (or inside their snapshots).  It is what lets a new leader     *)
(* keep it (the vote's up-to-date check needs it on a majority).  tryCommit *)
(* counts replicas by matchIndex, commits only entries of its own term   *)
(* (an older-term entry replicated on a majority can still be overwritten *)
(* by a leader that never had it), and may lower commitIndex after a late *)
(* reply; a follower takes min(leaderCommit, last log index), beyond the  *)
(* entries the request carried.                                            *)
HoldsEntry(j, k, e) ==
    \/ k \in Present(j) /\ EntryAt(j, k) = e
    \/ k <= lastIncludedIndex[j]
CommittedOnMajority ==
    \A i \in Server : \A k \in Present(i) :
        0 < k /\ k <= commitIndex[i] =>
            Cardinality({j \in Server : HoldsEntry(j, k, EntryAt(i, k))}) >= Majority

(* State machine safety (spec 8.4): the services of any two peers have    *)
(* applied the same commands in the same order, one a prefix of the other. *)
(* It fails if an uncommitted entry is applied, or if an apply message or *)
(* a snapshot reaches the service out of order.                            *)
StateMachineSafety ==
    \A i, j \in Server : IsPrefix(svcState[i], svcState[j]) \/ IsPrefix(svcState[j], svcState[i])

(* The applier and the snapshot path index rf.log only inside it: the    *)
(* next entry applyCommitted reads (lastApplied+1) is past the compacted  *)
(* prefix, commitIndex (the last one it reads) and the service's          *)
(* lastAppliedIndex (TakeSnapshot slices the log there) are at most the    *)
(* last log index.  readPersist ("Attention": lastApplied = max(...,       *)
(* lastIncludedIndex)) and InstallSnapshot's max updates are what keep it *)
(* across restarts and installed snapshots; otherwise rf.log is indexed    *)
(* out of range.                                                           *)
ApplierIndicesInLog ==
    \A i \in Server :
        /\ lastIncludedIndex[i] <= lastApplied[i]
        /\ commitIndex[i] <= LastLogIndex(i)
        /\ kvIndex[i] <= LastLogIndex(i)

(* The service's state only grows: apart from a restart, no step replaces *)
(* the state a peer's service has built by one that lacks some of it (an  *)
(* installed or restored snapshot older than what the service applied).   *)
ServiceMonotone ==
    [][restarts' = restarts => \A i \in Server : IsPrefix(svcState[i], svcState'[i])]_vars

(* A leader of the highest term, once no election or restart is left to *)
(* depose it, is stable.                                                   *)
StableLeader(i) ==
    /\ state[i] = Leader
    /\ elections = MaxElections /\ restarts = MaxRestarts
    /\ \A j \in Server : currTerm[j] <= currTerm[i]

(* Under a stable leader every peer eventually reaches the leader's      *)
(* commitIndex, and its service applies everything it committed.  The    *)
(* heartbeat carries leaderCommit, and the follower raises its            *)
(* commitIndex to min(leaderCommit, last index).  The applier then         *)
(* delivers the entries.  All of this happens over lost and reordered      *)
(* messages and after a restart, which resets commitIndex to 0.  It says   *)
(* nothing of what the leader commits: with no no-op (raft.go:585), a      *)
(* leader holding only entries of earlier terms commits none of them.     *)
CommitReachesAll ==
    \A i \in Server :
        StableLeader(i) ~>
            \A j \in Server : /\ commitIndex[j] >= commitIndex[i]
                               /\ lastApplied[j] = commitIndex[j]
                               /\ applyQ[j] = <<>>

(* The InstallSnapshot handler, blocked on applyCh with rf.mu held, and   *)
(* the service, blocked in rf.TakeSnapshot with kv.mu held, never wait on *)
(* each other.                                                             *)
NoLockCycle ==
    \A i \in Server : ~(blockedSend[i] # Nil /\ svcPhase[i] = Snapshotting)

=============================================================================
