------------------------------- MODULE KVRaft -------------------------------
(***************************************************************************)
(* The k/v server of src/src/kvraft/server.go composed with Raft: the Get *)
(* and PutAppend RPC handlers, their waiter goroutines, applyResMap, the  *)
(* lock kv.mu, and the clerks that call them.                              *)
(*                                                                         *)
(* Get and PutAppend have the same control flow (lock, duplicate check,    *)
(* rf.Start under kv.mu, wait for applyResMap[cid][seq] or time out); an *)
(* Op is a record [cid, seq] and a handler is modelled once for both.     *)
(*                                                                         *)
(* kv.mu is held by a handler between its duplicate check and the return  *)
(* of rf.Start (kvLock), and by the service's applyCommitted while it     *)
(* processes a message or is inside rf.TakeSnapshot (svcPhase).  The      *)
(* applier receives from applyCh before it locks kv.mu: a message it has   *)
(* received and not yet processed is in inbox.                            *)
(*                                                                         *)
(* The clerk (client.go) is not in this repository: it is modelled from   *)
(* spec.md ("Client request de-duplication", "Failure semantics"): one     *)
(* outstanding call at a time, to any server; on OK it moves to the next  *)
(* Seq, on ErrWrongLeader, a timeout or a lost reply it retries the same  *)
(* Seq.                                                                    *)
(***************************************************************************)
EXTENDS Raft

CONSTANTS
    Client,     \* the clerks
    MaxSeq,     \* each clerk issues the Ops 1 .. MaxSeq
    MaxCalls    \* bound on clerk calls, over all clerks

ASSUME MaxSeq \in Nat /\ MaxCalls \in Nat

VARIABLES
    kvLock,     \* kvLock[i]: the client whose handler holds kv.mu to call rf.Start, or Nil
    inbox,      \* inbox[i]: the message the applier received and has not processed, or Nil
    applyRes,   \* applyRes[i]: the (cid, seq) marked in kv.applyResMap
    clerkSeq,   \* clerkSeq[c]: the Seq of clerk c's current Op
    handler,    \* handler[c]: the server and phase of clerk c's outstanding call
    calls

kvVars == <<kvLock, inbox, applyRes, clerkSeq, handler, calls>>
allVars == <<vars, kvVars>>

ClerkOp(c) == [cid |-> c, seq |-> clerkSeq[c]]

\* kv.mu is free: no handler holds it and applyCommitted is not in snapshotCheck.
KVMuFree(i) == kvLock[i] = Nil /\ svcPhase[i] = Idle

-----------------------------------------------------------------------------
KVInit ==
    /\ Init
    /\ kvLock = [i \in Server |-> Nil]
    /\ inbox = [i \in Server |-> Nil]
    /\ applyRes = [i \in Server |-> {}]
    /\ clerkSeq = [c \in Client |-> 1]
    /\ handler = [c \in Client |-> [phase |-> "idle", srv |-> Nil]]
    /\ calls = 0

(* Get/PutAppend up to rf.Start: lock kv.mu; a Seq below clientSeqMap     *)
(* gets an empty reply (the clerk retries); otherwise the handler keeps   *)
(* kv.mu and calls rf.Start.                                                *)
KVCall(c, i) ==
    /\ handler[c].phase = "idle"
    /\ clerkSeq[c] <= MaxSeq
    /\ calls < MaxCalls
    /\ KVMuFree(i)
    /\ calls' = calls + 1
    /\ IF clerkSeq[c] < ClientSeq(svcState[i], c)
       THEN UNCHANGED <<kvLock, handler>>
       ELSE /\ kvLock' = [kvLock EXCEPT ![i] = c]
            /\ handler' = [handler EXCEPT ![c] = [phase |-> "starting", srv |-> i]]
    /\ UNCHANGED <<vars, inbox, applyRes, clerkSeq>>

(* rf.Start(op), which takes rf.mu, called with kv.mu held.  Not the      *)
(* leader: ErrWrongLeader.  Leader: the entry is appended and sent, a     *)
(* waiter goroutine is spawned, kv.mu is released.                        *)
KVStart(c) ==
    LET i == handler[c].srv
    IN /\ handler[c].phase = "starting"
       /\ Free(i)
       /\ kvLock' = [kvLock EXCEPT ![i] = Nil]
       /\ \/ /\ state[i] = Leader
             /\ Start(i, ClerkOp(c))
             /\ handler' = [handler EXCEPT ![c].phase = "waiting"]
          \/ /\ state[i] # Leader
             /\ handler' = [handler EXCEPT ![c] = [phase |-> "idle", srv |-> Nil]]
             /\ UNCHANGED vars
       /\ UNCHANGED <<inbox, applyRes, clerkSeq, calls>>

(* The waiter finds applyResMap[cid][seq] under kv.mu and wakes the      *)
(* handler, which replies OK (Get reads kv.store under kv.mu).  The       *)
(* reply may be lost, and then the clerk retries the same Seq.             *)
KVReplyNoWait(c) ==  \* mutant: the waiter does not wait for applyResMap
    LET i == handler[c].srv
    IN /\ handler[c].phase = "waiting"
       /\ KVMuFree(i)
       /\ handler' = [handler EXCEPT ![c] = [phase |-> "idle", srv |-> Nil]]
       /\ \E delivered \in BOOLEAN :
             clerkSeq' = [clerkSeq EXCEPT ![c] = IF delivered THEN @ + 1 ELSE @]
       /\ UNCHANGED <<vars, kvLock, inbox, applyRes, calls>>

KVReply(c) ==
    LET i == handler[c].srv
    IN /\ handler[c].phase = "waiting"
       /\ ClerkOp(c) \in applyRes[i]
       /\ KVMuFree(i)
       /\ handler' = [handler EXCEPT ![c] = [phase |-> "idle", srv |-> Nil]]
       /\ \E delivered \in BOOLEAN :
             clerkSeq' = [clerkSeq EXCEPT ![c] = IF delivered THEN @ + 1 ELSE @]
       /\ UNCHANGED <<vars, kvLock, inbox, applyRes, calls>>

(* time.After(waitApplyTime) fires first: ErrWrongLeader.  The waiter     *)
(* goroutine stays blocked on waitApplyCh.                                 *)
KVTimeout(c) ==
    /\ handler[c].phase = "waiting"
    /\ handler' = [handler EXCEPT ![c] = [phase |-> "idle", srv |-> Nil]]
    /\ UNCHANGED <<vars, kvLock, inbox, applyRes, clerkSeq, calls>>

-----------------------------------------------------------------------------
(* kv.applyResMap[cid][seq] = true for a fresh Op, then reduceState drops *)
(* the client's smaller Seqs; a duplicate marks nothing.                    *)
MarkApplied(i, op) ==
    IF Fresh(i, op)
    THEN {u \in applyRes[i] : u.cid # op.cid \/ u.seq >= op.seq} \cup {op}
    ELSE applyRes[i]

(* applyCommitted receives a command and processes it at once, kv.mu      *)
(* being free.                                                             *)
KVApplierSend(i) ==
    /\ KVMuFree(i)
    /\ inbox[i] = Nil
    /\ ApplierSend(i)
    /\ applyRes' = [applyRes EXCEPT ![i] = MarkApplied(i, Head(applyQ[i]).cmd)]
    /\ UNCHANGED <<kvLock, inbox, clerkSeq, handler, calls>>

(* applyCommitted receives from applyCh while a handler holds kv.mu, and  *)
(* blocks on kv.mu.  The sender is applyCommitted (raft), the             *)
(* InstallSnapshot handler (which then releases rf.mu and replies), or     *)
(* sendSnapshotToApp.                                                      *)
KVReceive(i) ==
    /\ kvLock[i] # Nil
    /\ inbox[i] = Nil
    /\ svcPhase[i] = Idle
    /\ \/ /\ applyQ[i] # <<>>
          /\ inbox' = [inbox EXCEPT ![i] = [cmd |-> Head(applyQ[i])]]
          /\ applyQ' = [applyQ EXCEPT ![i] = Tail(@)]
          /\ UNCHANGED <<msgs, blockedSend, bootSnap>>
       \/ /\ blockedSend[i] # Nil
          /\ inbox' = [inbox EXCEPT ![i] = [data |-> blockedSend[i].data]]
          /\ msgs' = msgs \cup {blockedSend[i].reply}
          /\ blockedSend' = [blockedSend EXCEPT ![i] = Nil]
          /\ UNCHANGED <<applyQ, bootSnap>>
       \/ /\ bootSnap[i] # Nil
          /\ inbox' = [inbox EXCEPT ![i] = [data |-> bootSnap[i]]]
          /\ bootSnap' = [bootSnap EXCEPT ![i] = Nil]
          /\ UNCHANGED <<applyQ, msgs, blockedSend>>
    /\ UNCHANGED <<raftVars, svcState, kvIndex, kvTerm, svcPhase, restarts,
                   snapshots, elections, kvLock, applyRes, clerkSeq, handler, calls>>

(* applyCommitted gets kv.mu and processes the message it received.       *)
KVProcess(i) ==
    /\ inbox[i] # Nil
    /\ KVMuFree(i)
    /\ inbox' = [inbox EXCEPT ![i] = Nil]
    /\ \/ /\ "cmd" \in DOMAIN inbox[i]
          /\ ServiceApply(i, inbox[i].cmd)
          /\ applyRes' = [applyRes EXCEPT ![i] = MarkApplied(i, inbox[i].cmd.cmd)]
       \/ /\ "data" \in DOMAIN inbox[i]
          /\ svcState' = [svcState EXCEPT ![i] = Restored(i, inbox[i].data)]
          /\ UNCHANGED <<kvIndex, kvTerm, svcPhase, applyRes>>
    /\ UNCHANGED <<raftVars, msgs, applyQ, blockedSend, bootSnap, restarts,
                   snapshots, elections, kvLock, clerkSeq, handler, calls>>

\* The snapshot deliveries of Raft, when the applier is free to take kv.mu.
KVDeliverSnapshot(i) ==
    /\ KVMuFree(i)
    /\ inbox[i] = Nil
    /\ DeliverInstalledSnapshot(i) \/ DeliverBootSnapshot(i)
    /\ UNCHANGED kvVars

(* Crash and restart of peer i: StartKVServer begins with an empty        *)
(* applyResMap; the handlers running at i die and their clerks' calls    *)
(* fail.                                                                   *)
KVRestart(i) ==
    /\ Restart(i)
    /\ kvLock' = [kvLock EXCEPT ![i] = Nil]
    /\ inbox' = [inbox EXCEPT ![i] = Nil]
    /\ applyRes' = [applyRes EXCEPT ![i] = {}]
    /\ handler' = [c \in Client |-> IF handler[c].srv = i
                                    THEN [phase |-> "idle", srv |-> Nil]
                                    ELSE handler[c]]
    /\ UNCHANGED <<clerkSeq, calls>>

-----------------------------------------------------------------------------
\* Raft steps that do not involve the k/v layer.
RaftStep ==
    /\ \/ \E i \in Server :
             Timeout(i) \/ Heartbeat(i) \/ ApplierCollect(i) \/ TakeSnapshot(i)
       \/ \E m \in msgs :
             \/ HandleRequestVote(m) \/ HandleRequestVoteReply(m)
             \/ HandleAppendEntries(m) \/ HandleAppendEntriesReply(m)
             \/ HandleInstallSnapshot(m) \/ HandleInstallSnapshotReply(m)
             \/ Drop(m)
    /\ UNCHANGED kvVars

KVNext ==
    \/ RaftStep
    \/ \E c \in Client :
          \/ KVStart(c) \/ KVReply(c) \/ KVTimeout(c)
          \/ \E i \in Server : KVCall(c, i)
    \/ \E i \in Server :
          \/ KVApplierSend(i) \/ KVReceive(i) \/ KVProcess(i)
          \/ KVDeliverSnapshot(i) \/ KVRestart(i)

KVRaftSpec == KVInit /\ [][KVNext]_allVars

-----------------------------------------------------------------------------
(* Properties                                                              *)

(* The service state of the most advanced peer: the history of executed  *)
(* Ops.  The peers' states are prefixes of one another (StateMachineSafety) *)
(* so it extends every peer's state.                                       *)
LongestState ==
    LET n == CHOOSE n \in {Len(svcState[i]) : i \in Server} :
                 \A j \in Server : Len(svcState[j]) <= n
    IN CHOOSE s \in {svcState[i] : i \in Server} : Len(s) = n

Abs == INSTANCE KVSpec WITH hist <- LongestState,
                            acked <- [c \in Client |-> clerkSeq[c] - 1]

(* The servers and clerks implement the abstract service: taken together, *)
(* the services execute each clerk's Op at most once, in Seq order, never *)
(* one the clerk has not issued, and a clerk hears OK only for an Op that *)
(* was executed.  This is what the Seq check of applyCommitted, the       *)
(* waiter on applyResMap and Raft's log agreement promise together, over *)
(* lost replies, timeouts, retries at other servers and leader changes.   *)
KVSpecRefined == Abs!Spec

(* A handler waiting for an Op that its server has already executed will *)
(* be woken: the Op is marked in applyResMap.  Spec 4.5 says a duplicate  *)
(* still marks the wait result; applyCommitted marks only fresh Ops, and  *)
(* readSnapshot restores clientSeqMap without applyResMap, so a retry of *)
(* an Op that reached a server through a snapshot waits for a mark that    *)
(* never comes, and times out every time it is retried there.             *)
WaiterCanComplete ==
    \A c \in Client :
        LET i == handler[c].srv
        IN handler[c].phase = "waiting" /\ ClerkOp(c).seq <= ClientSeq(svcState[i], c)
             => ClerkOp(c) \in applyRes[i]

(* An Op a clerk was told OK for is durable: it is in the persisted log  *)
(* or snapshot of a majority of peers, so no later leader can lose it.    *)
(* It depends on the waiter firing only for applied Ops, on tryCommit      *)
(* counting only replicated entries, on the commit rule's term check and  *)
(* on snapshots and log truncation keeping what was committed, across     *)
(* restarts and lost messages.                                             *)
Durable(op, i) ==
    \/ \E k \in 1 .. Len(log[i]) : log[i][k].cmd = op
    \/ snapshot[i] # NoData /\ \E k \in 1 .. Len(snapshot[i]) : snapshot[i][k] = op
AckedDurable ==
    \A c \in Client : \A s \in 1 .. clerkSeq[c] - 1 :
        Cardinality({i \in Server : Durable([cid |-> c, seq |-> s], i)}) >= Majority

(* The goroutines of one peer never wait on each other in a cycle.  The  *)
(* InstallSnapshot handler holds rf.mu while sending on applyCh (needs    *)
(* the applier to receive).  Whoever holds kv.mu and needs rf.mu closes   *)
(* the cycle: applyCommitted inside rf.TakeSnapshot (NoLockCycle), or a   *)
(* Get/PutAppend handler inside rf.Start while applyCommitted holds a    *)
(* received message and needs kv.mu.                                      *)
NoHandlerLockCycle ==
    \A i \in Server : ~(kvLock[i] # Nil /\ blockedSend[i] # Nil /\ inbox[i] # Nil)
NoWaitCycle == NoLockCycle /\ NoHandlerLockCycle

=============================================================================
