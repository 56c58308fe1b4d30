# TLA+ models of the 6.824 Raft and key/value service

This directory holds TLA+ models of two parts of the repository:
- `src/src/raft/raft.go`: Raft, with leader election, log replication, commit, snapshots, persistence and the apply loop;
- `src/src/kvraft/server.go`: the key/value server: its `Get`/`PutAppend` handlers and their waiters, and the consumer of `applyCh`;
- the clerk's retry loop, which is not in the repository (`client.go` is missing) and is modelled from `spec.md`.

The models are checked with TLC.

## The system

Each Raft peer holds all of its state under one mutex `rf.mu`. Goroutines drive the peer:
- `periodicElection` fires the election timer (`raft.go:234`).
- `periodicAppendEntries` sends heartbeats (`raft.go:433`).
- `applyCommitted` moves committed entries to `applyCh` (`raft.go:699`).
- `sendSnapshotToApp` delivers the boot snapshot (`raft.go:686`).
- One goroutine per outgoing RPC sends the request and handles its reply. Each reply handler re-checks the term it captured when sending (`reqTerm`).

The log keeps a dummy entry at index 0. Positions are shifted by `lastIncludedIndex`, which starts at -1 (`p2a`, `a2p`).

The key/value server reads `applyCh`. For each message it does one of two things:
- It installs a snapshot.
- It applies an `Op`. The Op is applied only if its `Seq` is greater than the client's last applied Seq (`clientSeqMap`); only then is it marked in `applyResMap` and the waiters woken. After every command it calls `snapshotCheck`, which calls back into `rf.TakeSnapshot`.

`Get` and `PutAppend` lock `kv.mu`, return at once for a Seq below `clientSeqMap`, and call `rf.Start` while still holding `kv.mu`. On a leader they start a waiter goroutine that waits on `applyCond` until `applyResMap[cid][seq]` is set, unlock, and `select` between the waiter and a 500 ms `time.After`; a timeout replies `ErrWrongLeader`. The clerk retries the same Seq at another server until it gets `OK`.

## Module `Raft` (component modules) and `MCRaft` (instantiation)

`Raft.tla` models a set of `Server`s. The state maps to the code like this:

| variable | code |
|---|---|
| `currTerm`, `state`, `votedFor`, `log`, `commitIndex`, `lastApplied`, `matchIndex`, `votesReceived`, `lastIncludedIndex/Term`, `snapshot` | the `Raft` struct fields of the same name |
| `msgs` | the set of in-flight RPCs and replies. A request carries the arguments the sender captured under the lock. A reply carries the `reqTerm` of its goroutine. |
| `applyQ` | the batch that `applyCommitted` collected under the lock and sends after unlocking |
| `blockedSend` | a server that is inside `InstallSnapshot` and is sending on `applyCh` while holding `rf.mu` |
| `bootSnap` | the snapshot goroutine started by `Make`, which has not yet sent |
| `svcState`, `kvIndex`, `kvTerm`, `svcPhase` | the kv store, abstracted as the sequence of Ops applied; `kv.lastAppliedIndex/Term`; and whether the consumer is in `snapshotCheck` |
| `restarts`, `snapshots`, `elections` | bounds on the counters (named constants) |

Each handler is one action and covers the whole handler. Examples:
- `HandleAppendEntries` covers the term check, the mismatch reply with fast-rollback hints, the merge loop with its early `break` and the commit update.
- `ApplierSend` covers the kv `applyCommitted` step together with its trailing `snapshotCheck`.
- `Restart` loses volatile state, keeps persisted state and re-runs `readPersist`.
- `Drop` loses an RPC. Reordering is implicit because `msgs` is a set. `SendRound` sends a leader's round, whole or, with `LossyRounds`, to any subset of the peers.

`PROJECT.json` → `map` gives the source lines of every definition.

`MCRaft.tla` fixes the following for TLC:
- the servers s1..s3, or s1..s5;
- the values, which are Ops `[cid, seq]`;
- symmetry over the servers;
- a message bound and a log bound;
- two views. `View` hides state that the service can no longer read. `RaftView` also hides the service, and is used only in runs without snapshots, where the service does not feed back into Raft.

## Module `KVSpec` (abstract service) and `KVRaft` (handlers composed with Raft)

`KVSpec.tla` states what the service promises its clerks (spec.md, de-duplication, per-client FIFO, linearizability): one history `hist` of executed Ops, into which each client's Op enters once and in Seq order (`Execute`), and `acked[c]`, raised only for an Op already in the history (`Ack`).

`KVRaft.tla` extends `Raft` with the handlers, the waiters and the clerks:

| variable | code |
|---|---|
| `kvLock` | the client whose handler holds `kv.mu` between its Seq check and the return of `rf.Start` |
| `inbox` | the message `applyCommitted` received from `applyCh` (`server.go:147`) and has not yet processed under `kv.mu` |
| `applyRes` | `kv.applyResMap`, as the set of `[cid, seq]` marked |
| `handler`, `clerkSeq` | the clerk's outstanding call (the server and whether it is in `Start` or waiting) and its current Seq |
| `calls` | bound on clerk calls |

Actions: `KVCall` (lock and Seq check), `KVStart` (`rf.Start` under `kv.mu`; not leader replies `ErrWrongLeader`), `KVReply` (the waiter sees its mark; the reply may be lost, and only a delivered `OK` moves the clerk on), `KVTimeout` (the `time.After` branch). The applier is `KVReceive` (take a command, the InstallSnapshot message, which releases the blocked `InstallSnapshot`, or the boot snapshot) then `KVProcess` (under `kv.mu`: the Seq check, `applyResMap` with `reduceState`, `snapshotCheck`, or `readSnapshot`); `KVApplierSend` and `KVDeliverSnapshot` are the receive and process in one step when nothing is waiting. `KVRestart` is a crash of the peer: Raft restarts and the new `KVServer` starts with an empty `applyResMap`.

The refinement mapping takes `hist` to the longest service state among the peers (the states are prefixes of one another by `StateMachineSafety`) and `acked[c]` to `clerkSeq[c] - 1`. `KVSpecRefined == Abs!Spec` is checked as a temporal property.

`MCKVRaft.tla` fixes servers, clients, the Ops `[cid, seq]`, symmetry, a message bound, a log bound and a view.

## Runs

| run | expect | what it shows |
|---|---|---|
| logs | pass | Log Matching holds, and every entry a peer has committed is held, with its term and command, by a majority (`CommittedOnMajority`). The run has 2 elections, no snapshots, and `LossyRounds` on, so a leader's round can reach just one peer. Under the bound of 2 messages, a second round, a reply and a late reply to one follower can therefore overlap. TLC reaches the leader's `commitIndex` falling from 2 to 1 after a late success reply (`raft.go:503`, `:592`). Together with the vote's up-to-date check, `CommittedOnMajority` is what lets a new leader keep committed entries. It covers `tryCommit`'s count over `matchIndex` (`:585`), that decrease, and the follower's commit up to its whole log (`:426`). |
| apply | pass | At most one leader per term (`ElectionSafety`), and applied service states stay prefix-related (`StateMachineSafety`), across two elections, a restart, lost and reordered RPCs and duplicate Ops. |
| snapshot | pass | Snapshots, InstallSnapshot, restarts and the kv snapshotCheck keep `lastIncludedIndex ≤ lastApplied` and the applied indices inside the log (`ApplierIndicesInLog`). |
| live | pass | Under the fairness below, once a leader is stable every peer eventually reaches its `commitIndex` and applies everything it committed (`CommitReachesAll`). This holds over lost messages and a follower's restart, which resets `commitIndex` to 0. The property says nothing of what the leader itself commits: see the missing no-op below. |
| kv | pass | Clerks retrying over timeouts, lost replies and leader changes get the abstract service (`KVSpecRefined`). |
| kvsnap | pass | With snapshots, InstallSnapshot and a restart, every Op a clerk heard `OK` for is in the log or snapshot of a majority (`AckedDurable`). |
| stalevote | violation | A `RequestVote` reply from an earlier election is counted in a later one (`raft.go:283`), so two leaders are elected in one term. |
| appendsnap | violation | The merge loop in `AppendEntries` breaks when an entry lies inside the snapshot (`raft.go:406`), then appends the rest after the end of the log (`:420`), which breaks Log Matching. |
| lockcycle | violation | `InstallSnapshot` sends on `applyCh` while holding `rf.mu` (`raft.go:649`). A `Get`/`PutAppend` handler holding `kv.mu` in `rf.Start` (`server.go:63`), and the applier holding a received message while it waits for `kv.mu`, close a cycle of three goroutines. With two snapshots the same invariant `NoWaitCycle` fails first through the applier inside `rf.TakeSnapshot` (`server.go:211`), a cycle of two. |
| regress | violation | An `InstallSnapshot` older than the service's state is installed (`raft.go:630` checks only against the log start), so the kv store goes back. |
| restartrace | violation | After a restart, the boot-snapshot goroutine (`raft.go:694`) races with `applyCommitted`. Entries delivered first are then overwritten by an older snapshot, and state machines diverge. |
| dupwait | violation | Spec 4.5 says a duplicate still marks the wait result; the code marks `applyResMap` only for fresh Ops and `readSnapshot` does not restore it. After a restart restores an Op from the snapshot, the clerk's retry of it waits forever, at every retry. |

Each violation run has an entry under `findings` in `PROJECT.json`. Each property of a passing run has a mutant, a plausible bug in the mapped code, that TLC detects.

## Bounds

The bounds are chosen so that every path of the handlers happens:
- 3 servers for the Raft runs, so a majority is 2 and a minority can be left behind;
- 1–3 election timeouts (one in the runs about snapshots and liveness);
- 1 restart;
- up to 2 snapshots;
- logs of 1–2 client entries;
- 1–5 messages in flight.

With 3 peers and a bound of 2 messages, an election round (two RequestVotes) can only start on an empty network. The same holds for a leader's round when it is sent whole (`LossyRounds = FALSE`). In the apply, snapshot and live runs, rounds therefore follow one another: no reply of an earlier round or term reaches a leader there. The logs run turns `LossyRounds` on. A leader's round then reaches any subset of the peers, which is the same as sending all of them and losing some. A single request counts once against the bound, so rounds and replies to one follower overlap, and late replies arrive. Turning it on elsewhere multiplies those runs' state spaces beyond the budget (the liveness run, without symmetry, by more than five times). Stale messages across terms are exercised by the stalevote run, with 5 peers and 5 messages in flight.

The Figure 8 scenario, in which an older-term entry on a majority is overwritten, needs 4 election timeouts. The logs run, with 2 elections and logs of 2 entries, does not reach it. With `MaxElections = 4` and `MaxLogLen = 1`, TLC finds `CommittedOnMajority` violated once `tryCommit`'s current-term check (`raft.go:591`) is dropped. That configuration is too slow to run together with the logs run's other properties.

The stale-vote race needs 5 servers: a stale vote must add to a count that is already below a majority in a new term.

The KV runs compose every goroutine of both layers, and use 2 servers (majority 2, so every commit needs both), one clerk with 1–2 Ops, 3–4 calls and one message in flight. With one message in flight the network is sequential; the races between RPCs and replies are covered by the Raft runs, and the KV runs cover the races between handlers, waiters, the applier and `InstallSnapshot` on one peer, which need no concurrent messages. Larger KV instances exceed the five-minute budget.

The fast-rollback path of the AppendEntries reply is reached only after a stale InstallSnapshot reply. The code sends from `matchIndex`, which a new leader sets to 0. None of the passing runs reaches that path.

## Fairness and deadlock

The safety runs assume no fairness. The bounded election, restart, snapshot and call counters stop the timers and the clerks. Every run therefore sets `CHECK_DEADLOCK FALSE`: a state in which no bounded action is left is the end of the bounded run, not a deadlock. The lock cycles are checked explicitly as the invariant `NoWaitCycle`.

`FairSpec` (run live) assumes what the code's goroutines guarantee:
- weak fairness of a whole `Heartbeat` round (the `periodicAppendEntries` ticker), `ApplierCollect` and `ApplierSend` (the `applyCommitted` goroutine) at every peer;
- strong fairness, per peer, of handling an AppendEntries request sent to it and a reply sent back to it: the network may lose any one message, but not every retransmission forever (the heartbeat resends).

Crashes, timeouts, message loss and client calls get no fairness. The liveness properties are conditioned on a stable leader: all elections and restarts have been used and the leader has the highest term. The liveness runs use neither symmetry nor a view, which are unsound for temporal properties.

## Observed while modelling, not kept as runs

Two further disagreements were found by TLC while modelling; the project keeps no violation run for them:
- `tryCommit` assigns `commitIndex = N` (`raft.go:592`) from a `matchIndex` that a late AppendEntries reply lowered (`:503`), so a leader's `commitIndex` can decrease. This is reached in the run logs. What was applied is not affected, and the run checks that nothing committed is lost (`CommittedOnMajority`).
- `tryCommit` commits only entries of the current term (`raft.go:585`) and a new leader appends no no-op. An entry an old leader committed and applied therefore stays uncommitted on the other peers under a stable new leader until a client writes again. Spec "Partition and heal" says the replicas converge; they do only after the next write. No property of a passing run claims this convergence. `CommitReachesAll` only says that followers reach the leader's `commitIndex`. Showing the stall needs a liveness run with two elections, which exceeds the five-minute budget without symmetry.

## Not modelled

- The racy read of the `entries` slice by the RPC goroutine (`raft.go:474`). The slice aliases `rf.log` and is read without `rf.mu`. The model captures the entries when the request is built. A racy read can only do harm when all of these hold:
  - the old leader is deposed, truncates its log at or below the request's `prevLogIndex`, and appends new entries before its goroutine encodes;
  - a receiver is still in the old leader's term, so it accepts the request.

  With 3 peers the new leader's majority includes every peer of the old term except the old leader itself. Such a receiver therefore needs 5 peers and logs of 2 or more entries, far beyond the bounds.
- The stale InstallSnapshot reply (`raft.go:563`) and the fast-rollback path it leads to. The reply handler is modelled, but the stale case is beyond the runs' bounds. It needs the snapshot configuration extended to 3 elections, 3 messages in flight, no restart and one snapshot:
  - leader s1 of term 1 snapshots index 1;
  - s2 starts an election in term 2, and s1 is re-elected in term 3;
  - the InstallSnapshot reply of term 1 then sets `matchIndex[s2] = 1`, although s2 holds no snapshot.

  TLC found this while modelling, after 4.5 million distinct states. The stale `matchIndex` never exceeds the leader's own `lastIncludedIndex`, and `tryCommit` counts only indices above it. The next AppendEntries to s2 then takes the fast-rollback path. In that configuration `CommittedOnMajority` held for 15.5 million distinct states (28 minutes, depth 31); that search did not finish.
- The waiter goroutine a timed-out handler leaks on the unbuffered `waitApplyCh`: a leaked goroutine changes no state the properties read.
- Key values and `Get` results: the store is the sequence of Ops applied, which determines every value.
- labrpc, labgob and the persister: the transport is a message set with loss and reordering, and `persist()` is atomic with each step.
