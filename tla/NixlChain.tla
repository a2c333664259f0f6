------------------------------ MODULE NixlChain -------------------------------
(* verl's NIXL checkpoint engine: the trainer's rank 0 packs the tensors of    *)
(* the model into buckets and publishes them to rank 1, every rollout rank     *)
(* reads a bucket from the previous one by remote reads, republishes it to the *)
(* next one and hands its tensors out, all of it double buffered.              *)
(*                                                                             *)
(* A buffer is an array of bytes tagged with the tensor they belong to. Device *)
(* copies are asynchronous: they are issued in one step and happen in a later  *)
(* one, in the order of the stream. A remote read moves one byte per step.     *)
EXTENDS Integers, Sequences, SequencesExt

CONSTANTS
    TrainerRanks,   \* trainer_world_size
    R,              \* rollout_world_size
    Size,           \* Size[i]: bytes of the i-th tensor
    BucketSize

ASSUME ChainAssumption ==
    /\ TrainerRanks \in Nat \ {0} /\ R \in Nat \ {0} /\ BucketSize \in Nat \ {0}
    /\ Size \in Seq(Nat \ {0})

Tensors == Len(Size)
Ranks == 0 .. R
Rollout == 1 .. R
Bytes == 0 .. BucketSize - 1
None == -1

VARIABLES
    pc,        \* pc[n]: where rank n is in send_weights or receive_weights
    prev,      \* prev[n], next[n]: the neighbours init_process_group was given
    next,
    cursor,    \* the trainer's next tensor
    cur,       \* cur[n]: which buffer is send_buf, the other is recv_buf
    buf,       \* buf[n][b][k]: the tensor byte k of buffer b belongs to, 0 at first
    bucket,    \* bucket[n]: metadata of the bucket in send_buf
    coming,    \* coming[n]: metadata of the bucket being read
    inbox,     \* inbox[n]: messages of the previous agent
    notes,     \* notes[n]: keys of the reads the next agent has completed
    open,      \* open[n]: key of the readable operation not yet waited for, or 0
    published, \* published[n]: buckets published so far
    xfer,      \* xfer[n]: the remote read in progress
    yielded,   \* yielded[n]: tensors of the bucket handed out
    copies,    \* copies[n]: device copies issued and not done, in stream order
    got        \* got[n]: the tensors the inference engine of n has copied out

core == <<pc, prev, next, cursor, cur>>
data == <<buf, bucket, coming, copies, got, yielded>>
link == <<inbox, notes, open, published, xfer>>
vars == <<core, data, link>>

Empty == [items |-> <<>>, last |-> FALSE]
NoRead == [src |-> 1, key |-> 0, left |-> {}]

Init ==
    /\ pc = [n \in Ranks |-> "prepare"]
    /\ prev = [n \in Ranks |-> None] /\ next = [n \in Ranks |-> None]
    /\ cursor = 1
    /\ cur = [n \in Ranks |-> 1]
    /\ buf = [n \in Ranks |-> [b \in 1 .. 2 |-> [k \in Bytes |-> 0]]]
    /\ bucket = [n \in Ranks |-> Empty] /\ coming = [n \in Ranks |-> Empty]
    /\ inbox = [n \in Ranks |-> <<>>] /\ notes = [n \in Ranks |-> <<>>]
    /\ open = [n \in Ranks |-> 0] /\ published = [n \in Ranks |-> 0]
    /\ xfer = [n \in Ranks |-> NoRead]
    /\ yielded = [n \in Ranks |-> 0]
    /\ copies = [n \in Ranks |-> <<>>]
    /\ got = [n \in Ranks |-> <<>>]

(* ---------------------------- build_process_group -------------------------- *)

\* The agents' metadata, trainer ranks first: an agent is its position in it.
Metadata == [i \in 1 .. TrainerRanks + R |-> i]

\* Python's s[k:] and s[k:l] for negative k and l.
From(s, k) == IF k < 0 THEN SubSeq(s, Len(s) + k + 1, Len(s)) ELSE SubSeq(s, k + 1, Len(s))
Slice(s, k, l) == SubSeq(s, Len(s) + k + 1, Len(s) + l)

PrevAgents == <<Metadata[1]>> \o Slice(Metadata, -R, -1)
NextAgents == From(Metadata, -R + 1) \o <<None>>

RankOf(agent) == IF agent = None THEN None ELSE IF agent = 1 THEN 0 ELSE agent - TrainerRanks

\* The manager asserts one entry per rollout worker before it starts the group.
BuildGroup ==
    /\ pc[0] = "prepare"
    /\ IF Len(PrevAgents) = R /\ Len(NextAgents) = R
       THEN /\ prev' = [n \in Ranks |-> IF n = 0 THEN None ELSE RankOf(PrevAgents[n])]
            /\ next' = [n \in Ranks |->
                          RankOf(IF n = 0 THEN From(Metadata, -R)[1] ELSE NextAgents[n])]
            /\ pc' = [n \in Ranks |-> IF n = 0 THEN "fill" ELSE "first"]
       ELSE /\ pc' = [n \in Ranks |-> "rejected"]
            /\ UNCHANGED <<prev, next>>
    /\ UNCHANGED <<cursor, cur, data, link>>

(* ------------------------- operations on the buckets ----------------------- *)

Synchronized(n) == copies[n] = <<>>
\* Mutant: a rank that has published nothing waits all the same.
ReaderDoneAlways(n) == notes[n] # <<>>

ReaderDone(n) == open[n] # 0 => notes[n] # <<>>
\* Mutant: the buffers are not swapped.
SwapForgotten(n) == cur' = cur

Swap(n) == cur' = [cur EXCEPT ![n] = 3 - @]

\* wait_for_complete of the open operation, if any, then publish the bucket.
Republish(n, b) ==
    /\ notes' = IF open[n] # 0 THEN [notes EXCEPT ![n] = Tail(@)] ELSE notes
    /\ IF next[n] = None
       THEN UNCHANGED <<inbox, open, published>>
       ELSE /\ published' = [published EXCEPT ![n] = @ + 1]
            /\ open' = [open EXCEPT ![n] = published'[n]]
            /\ inbox' = [inbox EXCEPT ![next[n]] = Append(@,
                    [bucket |-> b, src |-> cur[n], key |-> published'[n]])]

\* wait_for_complete of the open operation and nothing else.
Await(n) ==
    /\ ReaderDone(n)
    /\ notes' = IF open[n] # 0 THEN [notes EXCEPT ![n] = Tail(@)] ELSE notes
    /\ open' = [open EXCEPT ![n] = 0]

Issue(n, name, offset) ==
    copies' = [copies EXCEPT ![n] = Append(@, [buf |-> cur[n], name |-> name, offset |-> offset])]

Span(c) == c.offset .. c.offset + Size[c.name] - 1

(* ------------------------------- send_weights ------------------------------ *)

\* Mutant: the offset counts tensors, not bytes.
OffsetInItems == Len(bucket[0].items)

Offset == LET items == bucket[0].items
          IN  IF items = <<>> THEN 0 ELSE Last(items).offset + Size[Last(items).name]

Fill ==
    /\ pc[0] = "fill" /\ cursor <= Tensors
    /\ Offset + Size[cursor] <= BucketSize
    /\ Issue(0, cursor, Offset)
    /\ bucket' = [bucket EXCEPT ![0].items = Append(@, [name |-> cursor, offset |-> Offset])]
    /\ cursor' = cursor + 1
    /\ UNCHANGED <<pc, prev, next, cur, buf, coming, got, yielded, link>>

\* A tensor that does not fit publishes the bucket; one that does not even fit
\* in an empty bucket fails the assertion after that.
SendBucket ==
    /\ pc[0] = "fill" /\ cursor <= Tensors
    /\ Offset + Size[cursor] > BucketSize
    /\ Synchronized(0) /\ ReaderDone(0)
    /\ Republish(0, bucket[0])
    /\ Swap(0)
    /\ bucket' = [bucket EXCEPT ![0] = Empty]
    /\ pc' = [pc EXCEPT ![0] = IF Size[cursor] > BucketSize THEN "failed" ELSE "fill"]
    /\ UNCHANGED <<prev, next, cursor, buf, coming, copies, got, yielded, xfer>>

SendLast ==
    /\ pc[0] = "fill" /\ cursor > Tensors
    /\ Synchronized(0) /\ ReaderDone(0)
    /\ Republish(0, [bucket[0] EXCEPT !.last = TRUE])
    /\ pc' = [pc EXCEPT ![0] = "sent"]
    /\ UNCHANGED <<prev, next, cursor, cur, data, xfer>>

SendDone ==
    /\ pc[0] = "sent"
    /\ Await(0)
    /\ pc' = [pc EXCEPT ![0] = "done"]
    /\ UNCHANGED <<prev, next, cursor, cur, data, inbox, published, xfer>>

(* ------------------------------ receive_weights ---------------------------- *)

\* read_metadata and begin_read, for the first bucket or for the one after the
\* bucket in send_buf.
BeginRead(n) ==
    /\ pc[n] \in {"first", "more"}
    /\ inbox[n] # <<>>
    /\ LET m == Head(inbox[n])
       IN  /\ coming' = [coming EXCEPT ![n] = m.bucket]
           /\ xfer' = [xfer EXCEPT ![n] = [src |-> m.src, key |-> m.key, left |-> Bytes]]
    /\ inbox' = [inbox EXCEPT ![n] = Tail(@)]
    /\ pc' = [pc EXCEPT ![n] = IF @ = "first" THEN "waitFirst" ELSE "yield"]
    /\ UNCHANGED <<prev, next, cursor, cur, buf, bucket, copies, got, yielded,
                   notes, open, published>>

ReadDone(n) == xfer[n].left = {}

FirstRead(n) ==
    /\ pc[n] = "waitFirst" /\ ReadDone(n)
    /\ bucket' = [bucket EXCEPT ![n] = coming[n]]
    /\ Swap(n)
    /\ pc' = [pc EXCEPT ![n] = "publish"]
    /\ UNCHANGED <<prev, next, cursor, buf, coming, copies, got, yielded, link>>

\* Steps 1 of the loop, or its counterpart after the loop for the last bucket.
Publish(n) ==
    /\ pc[n] = "publish"
    /\ Republish(n, bucket[n])
    /\ yielded' = [yielded EXCEPT ![n] = 0]
    /\ pc' = [pc EXCEPT ![n] = IF bucket[n].last THEN "yield" ELSE "more"]
    /\ UNCHANGED <<prev, next, cursor, cur, buf, bucket, coming, copies, got, xfer>>

Yield(n) ==
    /\ pc[n] = "yield" /\ yielded[n] < Len(bucket[n].items)
    /\ LET it == bucket[n].items[yielded[n] + 1] IN Issue(n, it.name, it.offset)
    /\ yielded' = [yielded EXCEPT ![n] = @ + 1]
    /\ UNCHANGED <<core, buf, bucket, coming, got, link>>

\* Steps 4 and 5: both operations complete, the device is synchronised.
EndBucket(n) ==
    /\ pc[n] = "yield" /\ yielded[n] = Len(bucket[n].items) /\ ~bucket[n].last
    /\ Await(n) /\ ReadDone(n) /\ Synchronized(n)
    /\ bucket' = [bucket EXCEPT ![n] = coming[n]]
    /\ Swap(n)
    /\ pc' = [pc EXCEPT ![n] = "publish"]
    /\ UNCHANGED <<prev, next, cursor, buf, coming, copies, got, yielded,
                   inbox, published, xfer>>

EndStream(n) ==
    /\ pc[n] = "yield" /\ yielded[n] = Len(bucket[n].items) /\ bucket[n].last
    /\ Await(n)
    /\ pc' = [pc EXCEPT ![n] = "done"]
    /\ UNCHANGED <<prev, next, cursor, cur, data, inbox, published, xfer>>

(* --------------------------- the devices and links ------------------------- *)

\* The transfer moves one byte; the last one completes the read and notifies
\* the owner of the bucket.
MoveByte(n) ==
    /\ ~ReadDone(n)
    /\ LET k == CHOOSE k \in xfer[n].left : \A j \in xfer[n].left : k <= j
       IN  /\ buf' = [buf EXCEPT ![n][3 - cur[n]][k] = buf[prev[n]][xfer[n].src][k]]
           /\ xfer' = [xfer EXCEPT ![n].left = @ \ {k}]
           /\ notes' = IF xfer[n].left = {k}
                       THEN [notes EXCEPT ![prev[n]] = Append(@, xfer[n].key)]
                       ELSE notes
    /\ UNCHANGED <<core, bucket, coming, copies, got, yielded, inbox, open, published>>

\* The next copy of the stream happens: into the bucket at the trainer, out of
\* it at a rollout rank.
Copy(n) ==
    /\ copies[n] # <<>>
    /\ LET c == Head(copies[n])
           intact == \A k \in Span(c) : buf[n][c.buf][k] = c.name
       IN  IF n = 0
           THEN /\ buf' = [buf EXCEPT ![0][c.buf] =
                             [k \in Bytes |-> IF k \in Span(c) THEN c.name ELSE @[k]]]
                /\ UNCHANGED got
           ELSE /\ got' = [got EXCEPT ![n] = Append(@, IF intact THEN c.name ELSE 0)]
                /\ UNCHANGED buf
    /\ copies' = [copies EXCEPT ![n] = Tail(@)]
    /\ UNCHANGED <<core, bucket, coming, yielded, link>>

Trainer == Fill \/ SendBucket \/ SendLast \/ SendDone
Receiver(n) ==
    \/ BeginRead(n) \/ FirstRead(n) \/ Publish(n)
    \/ Yield(n) \/ EndBucket(n) \/ EndStream(n)
Device(n) == MoveByte(n) \/ Copy(n)

Next ==
    \/ BuildGroup \/ Trainer
    \/ \E n \in Rollout : Receiver(n)
    \/ \E n \in Ranks : Device(n)

\* Every coroutine, transfer and stream is scheduled again while it can go on.
Fairness ==
    /\ WF_vars(BuildGroup) /\ WF_vars(Trainer)
    /\ \A n \in Rollout : WF_vars(Receiver(n))
    /\ \A n \in Ranks : WF_vars(MoveByte(n)) /\ WF_vars(Copy(n))

Spec == Init /\ [][Next]_vars
FairSpec == Spec /\ Fairness

(* -------------------------------- properties ------------------------------- *)

\* While the next rank reads a buffer, nothing writes to it: no copy of the
\* trainer is pending for it and it is not the buffer its owner reads into.
ReadBufferStable == \A n \in Rollout : ~ReadDone(n) =>
    LET owner == prev[n]
    IN  /\ owner = 0 => \A i \in DOMAIN copies[0] : copies[0][i].buf # xfer[n].src
        /\ owner # 0 /\ ~ReadDone(owner) => xfer[n].src = cur[owner]

\* A rollout rank never reads the next bucket into a buffer the inference engine
\* still has to copy tensors out of.
CopiedBeforeOverwritten == \A n \in Rollout : ~ReadDone(n) =>
    \A i \in DOMAIN copies[n] : copies[n][i].buf = cur[n]

\* The assertion of ReadableOperation.wait_for_complete holds: the notification
\* a rank waits for is the one of the bucket it published.
NotifyKeysMatch == \A n \in Ranks : notes[n] # <<>> => notes[n] = <<open[n]>>

\* send_weights returns after the first rank has read the last bucket, so that
\* finalize may release the trainer's buffers.
SenderOutlivesReader == pc[0] = "done" =>
    /\ inbox[1] = <<>> /\ ReadDone(1)
    /\ copies[0] = <<>>

\* Double buffering is safe on every rank: whatever is read, remotely or by the
\* engine, stays as it was until the read is over, and is released only then.
BuffersStable ==
    ReadBufferStable /\ CopiedBeforeOverwritten /\ NotifyKeysMatch /\ SenderOutlivesReader

\* The chain hands the tensors out as the abstract transfer does: intact, in
\* order, on every rank, and to the end.
Stream == INSTANCE WeightStream WITH
    Receivers <- Rollout,
    handed <- [n \in Rollout |-> got[n]]
ImplementsWeightStream == Stream!SSpec

\* Both sides return: no rank waits for a message, a notification or a read
\* that never comes.
EveryRankReturns == <>(\A n \in Ranks : pc[n] = "done")
===============================================================================
