------------------------------- MODULE KVSpec -------------------------------
(***************************************************************************)
(* What the replicated k/v service promises its clerks (spec.md,          *)
(* "Client request de-duplication", "Per-client FIFO", "Linearizability  *)
(* across clients"): there is one history of executed Ops; every client's *)
(* Ops enter it at most once and in the order the client issued them; a   *)
(* clerk is told OK for an Op only after the Op is in the history, and    *)
(* only then issues its next Op.                                           *)
(*                                                                         *)
(* An Op is a record [cid, seq]; the store is abstracted as the history.  *)
(***************************************************************************)
EXTENDS Naturals, Sequences, FiniteSets

CONSTANTS Client, MaxSeq

VARIABLES
    hist,   \* the Ops executed, in execution order
    acked   \* acked[c]: the highest Seq client c was told OK for

Op(c, s) == [cid |-> c, seq |-> s]

\* The highest Seq of client c in history h, 0 if none.
LastSeq(h, c) ==
    LET seqs == {h[k].seq : k \in {k \in 1 .. Len(h) : h[k].cid = c}}
    IN IF seqs = {} THEN 0 ELSE CHOOSE s \in seqs : \A t \in seqs : t <= s

Init ==
    /\ hist = <<>>
    /\ acked = [c \in Client |-> 0]

\* The outstanding Op of client c is executed, once.
Execute(c) ==
    /\ acked[c] < MaxSeq
    /\ LastSeq(hist, c) = acked[c]
    /\ hist' = Append(hist, Op(c, acked[c] + 1))
    /\ UNCHANGED acked

\* Client c is told its outstanding Op succeeded; it moves to the next one.
Ack(c) ==
    /\ LastSeq(hist, c) = acked[c] + 1
    /\ acked' = [acked EXCEPT ![c] = @ + 1]
    /\ UNCHANGED hist

Next == \E c \in Client : Execute(c) \/ Ack(c)

Spec == Init /\ [][Next]_<<hist, acked>>

=============================================================================
