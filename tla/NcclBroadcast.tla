----------------------------- MODULE NcclBroadcast ----------------------------
(* verl's NCCL checkpoint engine over a few weight updates: the trainer packs  *)
(* the tensors into buckets, announces each bucket on a ZeroMQ PUB socket and  *)
(* broadcasts it; every rollout rank waits for the announcement, joins the     *)
(* broadcast and hands the tensors out while the next bucket arrives. The      *)
(* announcement and the broadcast of a bucket run in a thread of their own,    *)
(* concurrently with the coroutine that fills or empties the other buffer.     *)
(*                                                                             *)
(* PUB drops what it sends to a socket whose subscription has not arrived yet. *)
(* collective.broadcast returns when every rank has joined and holds the data, *)
(* which is what wait_for_complete is documented to wait for. The tensors of a *)
(* bucket are consecutive, so its metadata is an interval of them.             *)
EXTENDS Integers, Sequences

CONSTANTS
    R,            \* rollout ranks
    Tensors,      \* tensors of the model
    Size,         \* Size[i]: bytes of the i-th tensor
    BucketSize,
    Updates       \* bound on the weight updates

ASSUME NcclAssumption ==
    /\ R \in Nat \ {0} /\ BucketSize \in Nat \ {0} /\ Updates \in Nat \ {0}
    /\ Tensors \in Nat \ {0} /\ Size \in [1 .. Tensors -> 1 .. BucketSize]

Ranks == 0 .. R
Rollout == 1 .. R

VARIABLES
    pc,         \* pc[n]: where the coroutine of rank n is
    update,     \* weight updates started
    bucket,     \* bucket[n]: bucket_meta being filled or handed out
    used,       \* offset of the trainer in the bucket it fills
    cur,        \* cur[n]: which buffer is send_buf, the other is recv_buf
    buf,        \* buf[n][b]: the tensors whose bytes are in buffer b, with their update
    op,         \* op[n]: the thread of the broadcast operation of rank n
    subscribed, \* rollout ranks whose SUB socket the publisher knows of
    channel,    \* channel[n]: announcements under way to the socket of rank n
    lost,       \* history: an announcement was dropped for a late subscription
    handed,     \* handed[n]: tensors handed out in this update
    damaged     \* rollout ranks that handed out a tensor missing from the buffer
                \* or out of order

vars == <<pc, update, bucket, used, cur, buf, op, subscribed, channel, lost, handed, damaged>>

\* The tensors first .. next - 1, and whether the bucket is the last one.
Meta(first, next, last) == [first |-> first, next |-> next, last |-> last]
Empty(first) == Meta(first, first, FALSE)
NoOp == [at |-> "none", b |-> 1, meta |-> Empty(1)]
Operation(b, meta) == [at |-> "announce", b |-> b, meta |-> meta]

Other(n) == 3 - cur[n]

Init ==
    /\ pc = [n \in Ranks |-> "join"] /\ update = 1
    /\ bucket = [n \in Ranks |-> Empty(1)] /\ used = 0
    /\ cur = [n \in Ranks |-> 1]
    /\ buf = [n \in Ranks |-> [b \in 1 .. 2 |-> {}]]
    /\ op = [n \in Ranks |-> NoOp]
    /\ subscribed = {} /\ channel = [n \in Rollout |-> <<>>]
    /\ lost = FALSE /\ handed = [n \in Rollout |-> 0] /\ damaged = {}

(* ------------------------ prepare, init_process_group ---------------------- *)

\* A rank allocates its buffers; a rollout rank opens a new SUB socket, of
\* which the publisher does not know yet.
Join(n) ==
    /\ pc[n] = "join"
    /\ pc' = [pc EXCEPT ![n] = "barrier"]
    /\ buf' = [buf EXCEPT ![n] = [b \in 1 .. 2 |-> {}]]
    /\ cur' = [cur EXCEPT ![n] = 1]
    /\ bucket' = [bucket EXCEPT ![n] = Empty(1)]
    /\ IF n = 0
       THEN used' = 0 /\ UNCHANGED <<subscribed, channel, handed>>
       ELSE /\ subscribed' = subscribed \ {n}
            /\ channel' = [channel EXCEPT ![n] = <<>>]
            /\ handed' = [handed EXCEPT ![n] = 0]
            /\ UNCHANGED used
    /\ UNCHANGED <<update, op, lost, damaged>>

\* The subscription reaches the publisher at some time after connect returned,
\* which the barrier that follows does not wait for.
Subscribe(n) ==
    /\ pc[n] # "join" /\ n \notin subscribed
    /\ subscribed' = subscribed \cup {n}
    /\ UNCHANGED <<pc, update, bucket, used, cur, buf, op, channel, lost, handed, damaged>>

\* collective.barrier: everyone has connected.
Barrier ==
    /\ \A n \in Ranks : pc[n] = "barrier"
    /\ pc' = [n \in Ranks |-> IF n = 0 THEN "fill" ELSE "receive"]
    /\ UNCHANGED <<update, bucket, used, cur, buf, op, subscribed, channel, lost, handed, damaged>>

(* ---------------------------- BroadcastOperation --------------------------- *)

\* Mutant: the announcement is sent twice, for the sake of late subscribers.
AnnounceTwice ==
    /\ op[0].at = "announce"
    /\ channel' = [n \in Rollout |-> IF n \in subscribed
                                     THEN channel[n] \o <<op[0].meta, op[0].meta>> ELSE channel[n]]
    /\ lost' = (lost \/ subscribed # Rollout)
    /\ op' = [op EXCEPT ![0].at = "broadcast"]
    /\ UNCHANGED <<pc, update, bucket, used, cur, buf, subscribed, handed, damaged>>

\* The thread of rank 0 publishes the metadata and goes on to the broadcast.
Announce ==
    /\ op[0].at = "announce"
    /\ channel' = [n \in Rollout |-> IF n \in subscribed THEN Append(channel[n], op[0].meta)
                                                         ELSE channel[n]]
    /\ lost' = (lost \/ subscribed # Rollout)
    /\ op' = [op EXCEPT ![0].at = "broadcast"]
    /\ UNCHANGED <<pc, update, bucket, used, cur, buf, subscribed, handed, damaged>>

\* The thread of a rollout rank blocks until it receives the metadata.
Hear(n) ==
    /\ op[n].at = "announce" /\ channel[n] # <<>>
    /\ op' = [op EXCEPT ![n].at = "broadcast", ![n].meta = Head(channel[n])]
    /\ channel' = [channel EXCEPT ![n] = Tail(@)]
    /\ UNCHANGED <<pc, update, bucket, used, cur, buf, subscribed, lost, handed, damaged>>

Broadcast ==
    /\ \A n \in Ranks : op[n].at = "broadcast"
    /\ buf' = [n \in Ranks |-> [buf[n] EXCEPT ![op[n].b] = buf[0][op[0].b]]]
    /\ op' = [n \in Ranks |-> [op[n] EXCEPT !.at = "complete"]]
    /\ UNCHANGED <<pc, update, bucket, used, cur, subscribed, channel, lost, handed, damaged>>

\* Mutant: nothing is waited for.
AwaitedAlways(n) == TRUE

\* wait_for_complete does not block.
Awaited(n) == op[n].at \in {"none", "complete"}

(* ------------------------------- send_weights ------------------------------ *)

Cursor == bucket[0].next

\* Filling starts at the beginning of the buffer and destroys what it held.
Fill ==
    /\ pc[0] = "fill" /\ Cursor <= Tensors
    /\ used + Size[Cursor] <= BucketSize
    /\ buf' = [buf EXCEPT ![0][cur[0]] = (IF used = 0 THEN {} ELSE @) \cup {<<update, Cursor>>}]
    /\ bucket' = [bucket EXCEPT ![0].next = @ + 1]
    /\ used' = used + Size[Cursor]
    /\ UNCHANGED <<pc, update, cur, op, subscribed, channel, lost, handed, damaged>>

SendBucket ==
    /\ pc[0] = "fill" /\ Cursor <= Tensors
    /\ used + Size[Cursor] > BucketSize
    /\ Awaited(0)
    /\ op' = [op EXCEPT ![0] = Operation(cur[0], bucket[0])]
    /\ cur' = [cur EXCEPT ![0] = Other(0)]
    /\ bucket' = [bucket EXCEPT ![0] = Empty(Cursor)]
    /\ used' = 0
    /\ UNCHANGED <<pc, update, buf, subscribed, channel, lost, handed, damaged>>

\* Mutant: the last bucket is not marked.
SendLastUnmarked ==
    /\ pc[0] = "fill" /\ Cursor > Tensors
    /\ Awaited(0)
    /\ op' = [op EXCEPT ![0] = Operation(cur[0], bucket[0])]
    /\ pc' = [pc EXCEPT ![0] = "sent"]
    /\ UNCHANGED <<update, bucket, used, cur, buf, subscribed, channel, lost, handed, damaged>>

SendLast ==
    /\ pc[0] = "fill" /\ Cursor > Tensors
    /\ Awaited(0)
    /\ op' = [op EXCEPT ![0] = Operation(cur[0], Meta(bucket[0].first, Cursor, TRUE))]
    /\ pc' = [pc EXCEPT ![0] = "sent"]
    /\ UNCHANGED <<update, bucket, used, cur, buf, subscribed, channel, lost, handed, damaged>>

SendDone ==
    /\ pc[0] = "sent" /\ Awaited(0)
    /\ op' = [op EXCEPT ![0] = NoOp]
    /\ pc' = [pc EXCEPT ![0] = "done"]
    /\ UNCHANGED <<update, bucket, used, cur, buf, subscribed, channel, lost, handed, damaged>>

(* ------------------------------ receive_weights ---------------------------- *)

\* Start receiving into recv_buf: before the loop, or at its head while the
\* bucket in send_buf is not the last one.
Receive(n) ==
    /\ \/ pc[n] = "receive" /\ pc' = [pc EXCEPT ![n] = "waitFirst"]
       \/ pc[n] = "loop" /\ ~bucket[n].last /\ pc' = [pc EXCEPT ![n] = "yield"]
    /\ op' = [op EXCEPT ![n] = Operation(Other(n), Empty(1))]
    /\ UNCHANGED <<update, bucket, used, cur, buf, subscribed, channel, lost, handed, damaged>>

\* The bucket in send_buf continues what was handed out and its tensors are there.
Intact(n) ==
    /\ bucket[n].first = handed[n] + 1
    /\ \A i \in bucket[n].first .. bucket[n].next - 1 : <<update, i>> \in buf[n][cur[n]]

Yield(n) ==
    /\ \/ pc[n] = "yield" /\ pc' = [pc EXCEPT ![n] = "wait"]
       \/ pc[n] = "loop" /\ bucket[n].last /\ pc' = [pc EXCEPT ![n] = "done"]
    /\ handed' = [handed EXCEPT ![n] = bucket[n].next - 1]
    /\ damaged' = IF Intact(n) THEN damaged ELSE damaged \cup {n}
    /\ UNCHANGED <<update, bucket, used, cur, buf, op, subscribed, channel, lost>>

\* The next bucket has arrived: take its metadata and swap the buffers.
Arrived(n) ==
    /\ pc[n] \in {"waitFirst", "wait"} /\ Awaited(n)
    /\ bucket' = [bucket EXCEPT ![n] = op[n].meta]
    /\ op' = [op EXCEPT ![n] = NoOp]
    /\ cur' = [cur EXCEPT ![n] = Other(n)]
    /\ pc' = [pc EXCEPT ![n] = "loop"]
    /\ UNCHANGED <<update, used, buf, subscribed, channel, lost, handed, damaged>>

\* update_weights of the manager: both sides have returned, the workers are
\* finalised and the next update starts.
NextUpdate ==
    /\ \A n \in Ranks : pc[n] = "done"
    /\ update < Updates
    /\ update' = update + 1
    /\ pc' = [n \in Ranks |-> "join"]
    /\ UNCHANGED <<bucket, used, cur, buf, op, subscribed, channel, lost, handed, damaged>>

Trainer == Fill \/ SendBucket \/ SendLast \/ SendDone
Receiver(n) == Receive(n) \/ Yield(n) \/ Arrived(n)

Next ==
    \/ Barrier \/ Announce \/ Broadcast \/ Trainer \/ NextUpdate
    \/ \E n \in Ranks : Join(n)
    \/ \E n \in Rollout : Subscribe(n) \/ Hear(n) \/ Receiver(n)

Fairness ==
    /\ WF_vars(Barrier) /\ WF_vars(Announce) /\ WF_vars(Broadcast)
    /\ WF_vars(Trainer) /\ WF_vars(NextUpdate)
    /\ \A n \in Ranks : WF_vars(Join(n))
    /\ \A n \in Rollout : WF_vars(Subscribe(n)) /\ WF_vars(Hear(n)) /\ WF_vars(Receiver(n))

Spec == Init /\ [][Next]_vars
FairSpec == Spec /\ Fairness

(* -------------------------------- properties ------------------------------- *)

Locations == {"join", "barrier", "fill", "sent", "receive", "waitFirst", "loop", "yield",
              "wait", "done"}
Metadata == [first : 1 .. Tensors + 1, next : 1 .. Tensors + 1, last : BOOLEAN]
Operations == [at : {"none", "announce", "broadcast", "complete"}, b : 1 .. 2, meta : Metadata]

TypeOK ==
    /\ pc \in [Ranks -> Locations]
    /\ update \in 1 .. Updates /\ used \in 0 .. BucketSize
    /\ bucket \in [Ranks -> Metadata]
    /\ cur \in [Ranks -> 1 .. 2]
    /\ buf \in [Ranks -> [1 .. 2 -> SUBSET (Nat \X Nat)]]
    /\ op \in [Ranks -> Operations]
    /\ subscribed \subseteq Rollout
    /\ channel \in [Rollout -> Seq(Metadata)]
    /\ handed \in [Rollout -> 0 .. Tensors]
    /\ lost \in BOOLEAN /\ damaged \subseteq Rollout

\* A broadcast pairs every rank with the metadata of the very bucket that is
\* sent, also when announcements were lost: a rank that missed one never joins.
MetadataOfBucket == (\A n \in Ranks : op[n].at = "broadcast") =>
    \A n \in Rollout : op[n].meta = op[0].meta

\* Every tensor is handed out in its turn, from a buffer that holds its bytes of
\* this update, and a rank that returned was handed the whole model.
HandedIntact ==
    /\ damaged = {}
    /\ \A n \in Rollout : pc[n] = "done" => handed[n] = Tensors

\* Every update ends on every rank, or an announcement was lost.
EveryUpdateEnds == <>(lost \/ (update = Updates /\ \A n \in Ranks : pc[n] = "done"))

(* -------- the parts of the inductive invariant behind these properties ------ *)

Starting == {"join", "barrier"}
Receiving == {"waitFirst", "yield", "wait"}
Underway(n) == op[n].at \in {"announce", "broadcast"}

\* All ranks are in the same update, and an operation has a coroutine behind it.
Phases ==
    /\ pc[0] \in Starting \cup {"fill", "sent", "done"}
    /\ \A n \in Rollout : pc[n] \in Starting \cup Receiving \cup {"receive", "loop", "done"}
    /\ \A m, n \in Ranks : pc[m] \in Starting => pc[n] \in Starting
    /\ pc[0] \in Starting \cup {"done"} => op[0].at = "none"
    /\ \A n \in Rollout : op[n].at # "none" <=> pc[n] \in Receiving

\* An announcement is that of the present broadcast, and nobody has it twice.
Announced == \A n \in Rollout :
    /\ channel[n] # <<>> => /\ channel[n] = <<op[0].meta>>
                           /\ op[0].at = "broadcast" /\ op[n].at # "broadcast"
    /\ op[n].at = "broadcast" => op[0].at = "broadcast" /\ op[n].meta = op[0].meta

\* Buffer b of rank n holds the tensors of bucket m in this update.
Holds(n, b, m) == \A i \in m.first .. m.next - 1 : <<update, i>> \in buf[n][b]
LastIsLast(m) == m.last => m.next = Tensors + 1

\* The first tensor of which no broadcast is complete.
NextTensor ==
    IF Underway(0) THEN op[0].meta.first
    ELSE IF pc[0] \in {"sent", "done"} THEN Tensors + 1 ELSE bucket[0].first

\* The buffer that is filled is not the one that is sent.
TrainerBuffers ==
    /\ pc[0] = "barrier" => bucket[0] = Empty(1) /\ used = 0
    /\ pc[0] = "fill" => /\ Holds(0, cur[0], bucket[0]) /\ ~bucket[0].last
                         /\ used = 0 => bucket[0].first = bucket[0].next
    /\ Underway(0) =>
          /\ Holds(0, op[0].b, op[0].meta) /\ LastIsLast(op[0].meta)
          /\ pc[0] = "fill" => op[0].b = Other(0) /\ op[0].meta.next = bucket[0].first
          /\ pc[0] = "sent" => op[0].meta.next = Tensors + 1

\* The first tensor rank n does not have, its completed operation aside.
Missing(n) == IF pc[n] \in {"loop", "yield"} THEN bucket[n].next ELSE handed[n] + 1
Expected(n) == IF op[n].at = "complete" THEN op[n].meta.next ELSE Missing(n)

\* The buffer that is handed out is not the one that is received into, and what
\* arrives continues what there is.
RankBuffer(n) ==
    /\ pc[n] \in {"barrier", "receive", "waitFirst"} => handed[n] = 0
    /\ pc[n] \in {"loop", "yield"} => /\ bucket[n].first = handed[n] + 1
                                      /\ Holds(n, cur[n], bucket[n]) /\ LastIsLast(bucket[n])
    /\ op[n].at # "none" => op[n].b = Other(n)
    /\ op[n].at = "complete" => /\ op[n].meta.first = Missing(n)
                                /\ Holds(n, op[n].b, op[n].meta) /\ LastIsLast(op[n].meta)
    /\ pc[n] \notin Starting => Expected(n) = NextTensor
RankBuffers == \A n \in Rollout : RankBuffer(n)
===============================================================================
