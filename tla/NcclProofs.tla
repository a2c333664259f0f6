------------------------------ MODULE NcclProofs ------------------------------
(***************************************************************************)
(* What verl's NCCL weight broadcast guarantees for any ranks, tensors,    *)
(* bucket sizes and number of updates: ranks join a broadcast with the     *)
(* metadata of its bucket, and the tensors they hand out are intact, in    *)
(* order and complete.                                                     *)
(***************************************************************************)
EXTENDS NcclBroadcast, SequenceTheorems, TLAPS

LEMMA ConstantFacts ==
  /\ R \in Nat /\ R >= 1 /\ 0 \in Ranks /\ 0 \notin Rollout
  /\ \A n \in Rollout : n \in Ranks /\ n # 0
  /\ \A n \in Ranks : n = 0 \/ n \in Rollout
  /\ BucketSize \in Nat /\ BucketSize >= 1 /\ Updates \in Nat /\ Updates >= 1
  /\ Tensors \in Nat /\ Tensors >= 1 /\ Size \in [1 .. Tensors -> 1 .. BucketSize]
BY NcclAssumption DEF Ranks, Rollout

(* ------------------------------ type correctness --------------------------- *)

\* The records of the model, and the queue of announcements.
LEMMA MetaType ==
  ASSUME NEW first \in 1 .. Tensors + 1, NEW next \in 1 .. Tensors + 1, NEW last \in BOOLEAN
  PROVE  /\ Meta(first, next, last) \in Metadata /\ Empty(first) \in Metadata
         /\ Meta(first, next, last).first = first /\ Meta(first, next, last).next = next
         /\ Meta(first, next, last).last = last
         /\ Empty(first).first = first /\ Empty(first).next = first /\ Empty(first).last = FALSE
BY DEF Meta, Empty, Metadata

LEMMA MetaFields ==
  ASSUME NEW m \in Metadata
  PROVE  m.first \in 1 .. Tensors + 1 /\ m.next \in 1 .. Tensors + 1 /\ m.last \in BOOLEAN
BY DEF Metadata

LEMMA MetaGrows ==
  ASSUME NEW m \in Metadata, m.next <= Tensors
  PROVE  [m EXCEPT !.next = m.next + 1] \in Metadata
<1>1. m.next + 1 \in 1 .. Tensors + 1
  BY ConstantFacts, MetaFields
<1> QED BY <1>1 DEF Metadata

LEMMA OperationType ==
  ASSUME NEW b \in 1 .. 2, NEW m \in Metadata
  PROVE  /\ Operation(b, m) \in Operations
         /\ Operation(b, m).at = "announce" /\ Operation(b, m).b = b /\ Operation(b, m).meta = m
BY DEF Operation, Operations

LEMMA OperationFields ==
  ASSUME NEW o \in Operations
  PROVE  o.at \in {"none", "announce", "broadcast", "complete"} /\ o.b \in 1 .. 2
         /\ o.meta \in Metadata
BY DEF Operations

LEMMA NoOpType == NoOp \in Operations /\ NoOp.at = "none"
<1>1. 1 \in 1 .. Tensors + 1
  BY ConstantFacts
<1>2. Empty(1) \in Metadata
  BY <1>1, MetaType
<1> QED BY <1>2 DEF NoOp, Operations

LEMMA OperationSteps ==
  ASSUME NEW o \in Operations, NEW m \in Metadata
  PROVE  /\ [o EXCEPT !.at = "broadcast"] \in Operations
         /\ [o EXCEPT !.at = "complete"] \in Operations
         /\ [o EXCEPT !.at = "broadcast", !.meta = m] \in Operations
BY DEF Operations

LEMMA OtherType ==
  ASSUME TypeOK, NEW n \in Ranks
  PROVE  Other(n) \in 1 .. 2 /\ Other(n) # cur[n] /\ cur[n] \in 1 .. 2
<1>1. cur[n] \in 1 .. 2
  BY DEF TypeOK
<1> QED BY <1>1 DEF Other

\* The type of every variable, for a rank.
LEMMA TypeFacts ==
  ASSUME TypeOK, NEW n \in Ranks
  PROVE  /\ pc[n] \in Locations /\ bucket[n] \in Metadata /\ op[n] \in Operations
         /\ cur[n] \in 1 .. 2 /\ update \in Nat /\ used \in Nat
BY ConstantFacts DEF TypeOK

LEMMA InitType == Init => TypeOK
<1> SUFFICES ASSUME Init PROVE TypeOK
  OBVIOUS
<1>1. Empty(1) \in Metadata
  <2>1. 1 \in 1 .. Tensors + 1
    BY ConstantFacts
  <2> QED BY <2>1, MetaType
<1>2. op \in [Ranks -> Operations]
  BY NoOpType DEF Init
<1>3. channel \in [Rollout -> Seq(Metadata)]
  <2>1. <<>> \in Seq(Metadata)
    OBVIOUS
  <2> QED BY <2>1 DEF Init
<1>4. buf \in [Ranks -> [1 .. 2 -> SUBSET (Nat \X Nat)]]
  BY DEF Init
<1>5. pc \in [Ranks -> Locations]
  <2>1. "join" \in Locations
    BY DEF Locations
  <2> QED BY <2>1 DEF Init
<1>8. bucket \in [Ranks -> Metadata] /\ cur \in [Ranks -> 1 .. 2]
  BY <1>1 DEF Init
<1>6. update \in 1 .. Updates /\ used \in 0 .. BucketSize /\ handed \in [Rollout -> 0 .. Tensors]
  BY ConstantFacts DEF Init
<1>7. subscribed \subseteq Rollout /\ lost \in BOOLEAN /\ damaged \subseteq Rollout
  BY DEF Init
<1> QED BY <1>2, <1>3, <1>4, <1>5, <1>6, <1>7, <1>8 DEF TypeOK

LEMMA TypeInduction == TypeOK /\ [Next]_vars => TypeOK'
<1> SUFFICES ASSUME TypeOK, [Next]_vars PROVE TypeOK'
  OBVIOUS
<1>a. pc \in [Ranks -> Locations] /\ bucket \in [Ranks -> Metadata] /\ op \in [Ranks -> Operations]
  BY DEF TypeOK
<1>b. cur \in [Ranks -> 1 .. 2] /\ buf \in [Ranks -> [1 .. 2 -> SUBSET (Nat \X Nat)]]
  BY DEF TypeOK
<1>c. update \in 1 .. Updates /\ used \in 0 .. BucketSize /\ subscribed \subseteq Rollout
  BY DEF TypeOK
<1>d. channel \in [Rollout -> Seq(Metadata)] /\ handed \in [Rollout -> 0 .. Tensors]
  BY DEF TypeOK
<1>e. lost \in BOOLEAN /\ damaged \subseteq Rollout
  BY DEF TypeOK
<1>f. 1 \in 1 .. Tensors + 1 /\ Empty(1) \in Metadata
  <2>1. 1 \in 1 .. Tensors + 1
    BY ConstantFacts
  <2> QED BY <2>1, MetaType
<1>g. Locations = {"join", "barrier", "fill", "sent", "receive", "waitFirst", "loop", "yield",
                   "wait", "done"}
  BY DEF Locations
<1>h. 0 \in Ranks /\ \A n \in Rollout : n \in Ranks
  BY ConstantFacts
<1>1. ASSUME NEW n \in Ranks, Join(n) PROVE TypeOK'
  <2>1. buf' \in [Ranks -> [1 .. 2 -> SUBSET (Nat \X Nat)]]
    <3>1. [b \in 1 .. 2 |-> {}] \in [1 .. 2 -> SUBSET (Nat \X Nat)]
      OBVIOUS
    <3>2. buf' = [buf EXCEPT ![n] = [b \in 1 .. 2 |-> {}]]
      BY <1>1 DEF Join
    <3> QED BY <1>b, <3>1, <3>2
  <2>2. bucket' \in [Ranks -> Metadata]
    BY <1>1, <1>a, <1>f DEF Join
  <2>3. channel' \in [Rollout -> Seq(Metadata)]
    <3>1. <<>> \in Seq(Metadata)
      OBVIOUS
    <3>2. \/ channel' = channel
          \/ channel' = [channel EXCEPT ![n] = <<>>]
      BY <1>1 DEF Join
    <3> QED BY <1>d, <3>1, <3>2
  <2>4. handed' \in [Rollout -> 0 .. Tensors]
    <3>1. handed' = handed \/ handed' = [handed EXCEPT ![n] = 0]
      BY <1>1 DEF Join
    <3>2. handed \in [Rollout -> 0 .. Tensors]
      BY <1>d
    <3>3. 0 \in 0 .. Tensors
      BY ConstantFacts
    <3>4. [handed EXCEPT ![n] = 0] \in [Rollout -> 0 .. Tensors]
      BY <3>2, <3>3, Zenon
    <3> QED BY <3>1, <3>2, <3>4, Zenon
  <2>5. used' \in 0 .. BucketSize /\ subscribed' \subseteq Rollout
    BY <1>1, <1>c, ConstantFacts DEF Join
  <2>6. pc' \in [Ranks -> Locations]
    BY <1>1, <1>a, <1>g DEF Join
  <2>7. cur' \in [Ranks -> 1 .. 2] /\ UNCHANGED <<update, op, lost, damaged>>
    BY <1>1, <1>b DEF Join
  <2> QED BY <1>a, <1>c, <1>e, <2>1, <2>2, <2>3, <2>4, <2>5, <2>6, <2>7 DEF TypeOK
<1>2. ASSUME NEW n \in Rollout, Subscribe(n) PROVE TypeOK'
  BY <1>2, <1>a, <1>b, <1>c, <1>d, <1>e DEF Subscribe, TypeOK
<1>3. CASE Barrier
  <2>1. pc' \in [Ranks -> Locations]
    BY <1>3, <1>g DEF Barrier
  <2> QED BY <1>3, <1>a, <1>b, <1>c, <1>d, <1>e, <2>1 DEF Barrier, TypeOK
<1>4. CASE Announce
  <2>1. op[0] \in Operations /\ op[0].meta \in Metadata
    BY <1>a, <1>h, OperationFields
  <2>2. \A n \in Rollout : Append(channel[n], op[0].meta) \in Seq(Metadata)
    BY <2>1, <1>d, AppendProperties
  <2>3. channel' \in [Rollout -> Seq(Metadata)]
    BY <1>4, <1>d, <2>2 DEF Announce
  <2>4. op' \in [Ranks -> Operations]
    <3>1. op' = [op EXCEPT ![0] = [@ EXCEPT !.at = "broadcast"]]
      BY <1>4 DEF Announce
    <3>2. [op[0] EXCEPT !.at = "broadcast"] \in Operations
      BY <2>1, OperationSteps
    <3> QED BY <1>a, <3>1, <3>2
  <2>5. lost' \in BOOLEAN /\ UNCHANGED <<pc, update, bucket, used, cur, buf, subscribed, handed, damaged>>
    BY <1>4 DEF Announce
  <2> QED BY <1>a, <1>b, <1>c, <1>d, <1>e, <2>3, <2>4, <2>5 DEF TypeOK
<1>5. ASSUME NEW n \in Rollout, Hear(n) PROVE TypeOK'
  <2>1. channel[n] \in Seq(Metadata) /\ channel[n] # <<>>
    BY <1>5, <1>d DEF Hear
  <2>2. Head(channel[n]) \in Metadata /\ Tail(channel[n]) \in Seq(Metadata)
    BY <2>1, HeadTailProperties
  <2>3. channel' \in [Rollout -> Seq(Metadata)]
    BY <1>5, <1>d, <2>2 DEF Hear
  <2>4. op' \in [Ranks -> Operations]
    <3>1. op' = [op EXCEPT ![n] = [@ EXCEPT !.at = "broadcast", !.meta = Head(channel[n])]]
      BY <1>5 DEF Hear
    <3>2. op[n] \in Operations
      BY <1>a, <1>h
    <3>3. [op[n] EXCEPT !.at = "broadcast", !.meta = Head(channel[n])] \in Operations
      BY <2>2, <3>2, OperationSteps
    <3> QED BY <1>a, <3>1, <3>3
  <2>5. UNCHANGED <<pc, update, bucket, used, cur, buf, subscribed, lost, handed, damaged>>
    BY <1>5 DEF Hear
  <2> QED BY <1>a, <1>b, <1>c, <1>d, <1>e, <2>3, <2>4, <2>5 DEF TypeOK
<1>6. CASE Broadcast
  <2>1. \A n \in Ranks : op[n] \in Operations /\ op[n].b \in 1 .. 2
    BY <1>a, OperationFields
  <2>2. buf' \in [Ranks -> [1 .. 2 -> SUBSET (Nat \X Nat)]]
    <3>1. buf[0][op[0].b] \in SUBSET (Nat \X Nat)
      BY <1>b, <1>h, <2>1
    <3>2. \A n \in Ranks : [buf[n] EXCEPT ![op[n].b] = buf[0][op[0].b]]
                               \in [1 .. 2 -> SUBSET (Nat \X Nat)]
      BY <1>b, <2>1, <3>1
    <3> QED BY <1>6, <3>2 DEF Broadcast
  <2>3. op' \in [Ranks -> Operations]
    <3>1. \A n \in Ranks : [op[n] EXCEPT !.at = "complete"] \in Operations
      <4> TAKE n \in Ranks
      <4>1. op[n].meta \in Metadata
        BY <2>1, OperationFields
      <4> QED BY <2>1, <4>1, OperationSteps
    <3> QED BY <1>6, <3>1 DEF Broadcast
  <2>4. UNCHANGED <<pc, update, bucket, used, cur, subscribed, channel, lost, handed, damaged>>
    BY <1>6 DEF Broadcast
  <2> QED BY <1>a, <1>b, <1>c, <1>d, <1>e, <2>2, <2>3, <2>4 DEF TypeOK
<1>7. CASE Fill
  <2>1. bucket[0] \in Metadata /\ Cursor \in 1 .. Tensors /\ Size[Cursor] \in Nat
    <3>1. bucket[0] \in Metadata /\ bucket[0].next \in 1 .. Tensors + 1
      BY <1>a, <1>h, MetaFields
    <3>2. Cursor <= Tensors
      BY <1>7 DEF Fill
    <3>3. Cursor \in 1 .. Tensors
      BY <3>1, <3>2, ConstantFacts DEF Cursor
    <3> QED BY <3>1, <3>3, ConstantFacts
  <2>2. buf' \in [Ranks -> [1 .. 2 -> SUBSET (Nat \X Nat)]]
    <3>1. <<update, Cursor>> \in Nat \X Nat
      BY <1>c, <2>1, ConstantFacts
    <3>2. buf[0] \in [1 .. 2 -> SUBSET (Nat \X Nat)] /\ cur[0] \in 1 .. 2
      BY <1>b, <1>h
    <3> DEFINE content == (IF used = 0 THEN {} ELSE buf[0][cur[0]]) \cup {<<update, Cursor>>}
    <3>3. content \in SUBSET (Nat \X Nat)
      BY <3>1, <3>2
    <3>4. buf' = [buf EXCEPT ![0][cur[0]] = content]
      <4>1. buf' = [buf EXCEPT ![0][cur[0]] = (IF used = 0 THEN {} ELSE @) \cup {<<update, Cursor>>}]
        BY <1>7 DEF Fill
      <4> QED BY <4>1, Zenon
    <3> HIDE DEF content
    <3>5. [buf[0] EXCEPT ![cur[0]] = content] \in [1 .. 2 -> SUBSET (Nat \X Nat)]
      BY <3>2, <3>3
    <3> QED BY <1>b, <1>h, <3>4, <3>5
  <2>3. bucket' \in [Ranks -> Metadata]
    <3>1. bucket' = [bucket EXCEPT ![0] = [bucket[0] EXCEPT !.next = bucket[0].next + 1]]
      BY <1>7 DEF Fill
    <3>2. [bucket[0] EXCEPT !.next = bucket[0].next + 1] \in Metadata
      BY <2>1, MetaGrows DEF Cursor
    <3> QED BY <1>a, <3>1, <3>2
  <2>4. used' \in 0 .. BucketSize
    BY <1>7, <1>c, <2>1, ConstantFacts DEF Fill
  <2>5. UNCHANGED <<pc, update, cur, op, subscribed, channel, lost, handed, damaged>>
    BY <1>7 DEF Fill
  <2> QED BY <1>a, <1>b, <1>c, <1>d, <1>e, <2>2, <2>3, <2>4, <2>5 DEF TypeOK
<1>8. CASE SendBucket
  <2>1. Cursor \in 1 .. Tensors + 1 /\ bucket[0] \in Metadata /\ cur[0] \in 1 .. 2
    BY <1>a, <1>b, <1>h, MetaFields DEF Cursor
  <2>2. op' \in [Ranks -> Operations]
    <3>1. Operation(cur[0], bucket[0]) \in Operations
      BY <2>1, OperationType
    <3> QED BY <1>8, <1>a, <3>1 DEF SendBucket
  <2>3. bucket' \in [Ranks -> Metadata]
    <3>1. Empty(Cursor) \in Metadata
      BY <2>1, MetaType
    <3> QED BY <1>8, <1>a, <3>1 DEF SendBucket
  <2>4. cur' \in [Ranks -> 1 .. 2]
    <3>1. Other(0) \in 1 .. 2
      BY <1>h, OtherType
    <3> QED BY <1>8, <1>b, <3>1 DEF SendBucket
  <2>5. used' \in 0 .. BucketSize
    BY <1>8, ConstantFacts DEF SendBucket
  <2>6. UNCHANGED <<pc, update, buf, subscribed, channel, lost, handed, damaged>>
    BY <1>8 DEF SendBucket
  <2> QED BY <1>a, <1>b, <1>c, <1>d, <1>e, <2>2, <2>3, <2>4, <2>5, <2>6 DEF TypeOK
<1>9. CASE SendLast
  <2>1. op' \in [Ranks -> Operations]
    <3>1. Cursor \in 1 .. Tensors + 1 /\ bucket[0].first \in 1 .. Tensors + 1 /\ cur[0] \in 1 .. 2
      BY <1>a, <1>b, <1>h, MetaFields DEF Cursor
    <3>2. Meta(bucket[0].first, Cursor, TRUE) \in Metadata
      BY <3>1, MetaType
    <3>3. Operation(cur[0], Meta(bucket[0].first, Cursor, TRUE)) \in Operations
      BY <3>1, <3>2, OperationType
    <3> QED BY <1>9, <1>a, <3>3 DEF SendLast
  <2>2. pc' \in [Ranks -> Locations]
    BY <1>9, <1>a, <1>g DEF SendLast
  <2>3. UNCHANGED <<update, bucket, used, cur, buf, subscribed, channel, lost, handed, damaged>>
    BY <1>9 DEF SendLast
  <2> QED BY <1>a, <1>b, <1>c, <1>d, <1>e, <2>1, <2>2, <2>3 DEF TypeOK
<1>10. CASE SendDone
  <2>1. op' \in [Ranks -> Operations]
    BY <1>10, <1>a, NoOpType DEF SendDone
  <2>2. pc' \in [Ranks -> Locations]
    BY <1>10, <1>a, <1>g DEF SendDone
  <2>3. UNCHANGED <<update, bucket, used, cur, buf, subscribed, channel, lost, handed, damaged>>
    BY <1>10 DEF SendDone
  <2> QED BY <1>a, <1>b, <1>c, <1>d, <1>e, <2>1, <2>2, <2>3 DEF TypeOK
<1>11. ASSUME NEW n \in Rollout, Receive(n) PROVE TypeOK'
  <2>1. op' \in [Ranks -> Operations]
    <3>1. Other(n) \in 1 .. 2
      BY <1>h, OtherType
    <3>2. Operation(Other(n), Empty(1)) \in Operations
      BY <1>f, <3>1, OperationType
    <3> QED BY <1>11, <1>a, <3>2 DEF Receive
  <2>2. pc' \in [Ranks -> Locations]
    BY <1>11, <1>a, <1>g DEF Receive
  <2>3. UNCHANGED <<update, bucket, used, cur, buf, subscribed, channel, lost, handed, damaged>>
    BY <1>11 DEF Receive
  <2> QED BY <1>a, <1>b, <1>c, <1>d, <1>e, <2>1, <2>2, <2>3 DEF TypeOK
<1>12. ASSUME NEW n \in Rollout, Yield(n) PROVE TypeOK'
  <2>1. handed' \in [Rollout -> 0 .. Tensors]
    <3>1. bucket[n].next \in 1 .. Tensors + 1
      BY <1>a, <1>h, MetaFields
    <3>2. bucket[n].next - 1 \in 0 .. Tensors
      BY <3>1, ConstantFacts
    <3> QED BY <1>12, <1>d, <3>2 DEF Yield
  <2>2. pc' \in [Ranks -> Locations]
    BY <1>12, <1>a, <1>g DEF Yield
  <2>3. damaged' \subseteq Rollout
    BY <1>12, <1>e DEF Yield
  <2>4. UNCHANGED <<update, bucket, used, cur, buf, op, subscribed, channel, lost>>
    BY <1>12 DEF Yield
  <2> QED BY <1>a, <1>b, <1>c, <1>d, <1>e, <2>1, <2>2, <2>3, <2>4 DEF TypeOK
<1>13. ASSUME NEW n \in Rollout, Arrived(n) PROVE TypeOK'
  <2>1. op' \in [Ranks -> Operations]
    BY <1>13, <1>a, NoOpType DEF Arrived
  <2>2. cur' \in [Ranks -> 1 .. 2]
    <3>1. Other(n) \in 1 .. 2
      BY <1>h, OtherType
    <3> QED BY <1>13, <1>b, <3>1 DEF Arrived
  <2>3. bucket' \in [Ranks -> Metadata]
    <3>1. op[n].meta \in Metadata
      BY <1>a, <1>h, OperationFields
    <3> QED BY <1>13, <1>a, <3>1 DEF Arrived
  <2>4. pc' \in [Ranks -> Locations]
    BY <1>13, <1>a, <1>g DEF Arrived
  <2>5. UNCHANGED <<update, used, buf, subscribed, channel, lost, handed, damaged>>
    BY <1>13 DEF Arrived
  <2> QED BY <1>a, <1>b, <1>c, <1>d, <1>e, <2>1, <2>2, <2>3, <2>4, <2>5 DEF TypeOK
<1>14. CASE NextUpdate
  <2>1. update' \in 1 .. Updates
    BY <1>14, <1>c, ConstantFacts DEF NextUpdate
  <2>2. pc' \in [Ranks -> Locations]
    BY <1>14, <1>g DEF NextUpdate
  <2>3. UNCHANGED <<bucket, used, cur, buf, op, subscribed, channel, lost, handed, damaged>>
    BY <1>14 DEF NextUpdate
  <2> QED BY <1>a, <1>b, <1>c, <1>d, <1>e, <2>1, <2>2, <2>3 DEF TypeOK
<1>15. CASE UNCHANGED vars
  BY <1>15, <1>a, <1>b, <1>c, <1>d, <1>e DEF vars, TypeOK
<1> QED BY <1>1, <1>2, <1>3, <1>4, <1>5, <1>6, <1>7, <1>8, <1>9, <1>10, <1>11, <1>12, <1>13,
           <1>14, <1>15 DEF Next, Trainer, Receiver

\* Every variable keeps its type (NCCLCheckpointEngine and its broadcast threads).
THEOREM NcclTypeCorrect == Spec => []TypeOK
BY InitType, TypeInduction, PTL DEF Spec

(* ---------------------------- broadcasts match ----------------------------- *)

\* Every announcement is that of the present broadcast.
LEMMA AnnouncedStep ==
  ASSUME TypeOK, Announced, [Next]_vars
  PROVE  Announced'
<1>a. op \in [Ranks -> Operations] /\ channel \in [Rollout -> Seq(Metadata)]
  BY DEF TypeOK
<1>b. 0 \in Ranks /\ 0 \notin Rollout /\ \A n \in Rollout : n \in Ranks /\ n # 0
  BY ConstantFacts
<1>c. \A n \in Rollout : channel[n] # <<>> => /\ channel[n] = <<op[0].meta>>
                                             /\ op[0].at = "broadcast" /\ op[n].at # "broadcast"
  BY DEF Announced
<1>d. \A n \in Rollout : op[n].at = "broadcast" =>
        op[0].at = "broadcast" /\ op[n].meta = op[0].meta
  BY DEF Announced
<1>e. \A n \in Ranks : op[n] \in Operations
  BY <1>a
<1>1. ASSUME NEW m \in Ranks, Join(m) PROVE Announced'
  <2>1. op' = op /\ \A n \in Rollout : channel'[n] = channel[n] \/ channel'[n] = <<>>
    BY <1>1, <1>a DEF Join
  <2> QED BY <1>c, <1>d, <2>1 DEF Announced
<1>2. CASE Announce
  <2>1. \A n \in Rollout : channel[n] = <<>> /\ op[n].at # "broadcast"
    BY <1>2, <1>c, <1>d DEF Announce
  <2>2. op[0].meta \in Metadata
    BY <1>b, <1>e, OperationFields
  <2>3. Append(<<>>, op[0].meta) = <<op[0].meta>>
    OBVIOUS
  <2>4. \A n \in Rollout : channel'[n] \in {<<>>, <<op[0].meta>>}
    BY <1>2, <2>1, <2>3 DEF Announce
  <2>5. op'[0].at = "broadcast" /\ op'[0].meta = op[0].meta /\ \A n \in Rollout : op'[n] = op[n]
    <3>1. op' = [op EXCEPT ![0] = [op[0] EXCEPT !.at = "broadcast"]]
      BY <1>2 DEF Announce
    <3>2. [op[0] EXCEPT !.at = "broadcast"].at = "broadcast"
          /\ [op[0] EXCEPT !.at = "broadcast"].meta = op[0].meta
      BY <1>b, <1>e DEF Operations
    <3> QED BY <1>a, <1>b, <3>1, <3>2
  <2> QED BY <2>1, <2>4, <2>5 DEF Announced
<1>3. ASSUME NEW m \in Rollout, Hear(m) PROVE Announced'
  <2>1. channel[m] = <<op[0].meta>> /\ op[0].at = "broadcast"
    BY <1>3, <1>c DEF Hear
  <2>2. Head(channel[m]) = op[0].meta /\ Tail(channel[m]) = <<>>
    BY <2>1
  <2>3. channel'[m] = <<>> /\ \A n \in Rollout \ {m} : channel'[n] = channel[n]
    BY <1>3, <1>a, <2>2 DEF Hear
  <2>4. op'[m].at = "broadcast" /\ op'[m].meta = op[0].meta
        /\ \A n \in Ranks \ {m} : op'[n] = op[n]
    <3>1. op' = [op EXCEPT ![m] = [op[m] EXCEPT !.at = "broadcast", !.meta = op[0].meta]]
      BY <1>3, <2>2 DEF Hear
    <3>2. [op[m] EXCEPT !.at = "broadcast", !.meta = op[0].meta].at = "broadcast"
          /\ [op[m] EXCEPT !.at = "broadcast", !.meta = op[0].meta].meta = op[0].meta
      BY <1>b, <1>e DEF Operations
    <3> QED BY <1>a, <1>b, <3>1, <3>2
  <2> QED BY <1>b, <1>c, <1>d, <2>1, <2>3, <2>4 DEF Announced
<1>4. CASE Broadcast
  <2>1. \A n \in Rollout : channel[n] = <<>>
    BY <1>4, <1>b, <1>c DEF Broadcast
  <2>2. \A n \in Ranks : op'[n].at = "complete"
    <3>1. \A n \in Ranks : op'[n] = [op[n] EXCEPT !.at = "complete"]
      BY <1>4 DEF Broadcast
    <3> QED BY <1>e, <3>1 DEF Operations
  <2>3. channel' = channel
    BY <1>4 DEF Broadcast
  <2> QED BY <1>b, <2>1, <2>2, <2>3 DEF Announced
<1>5. CASE SendBucket \/ SendLast \/ SendDone
  <2>1. op[0].at # "broadcast" /\ channel' = channel /\ \A n \in Rollout : op'[n] = op[n]
    BY <1>5, <1>a, <1>b DEF SendBucket, SendLast, SendDone, Awaited
  <2> QED BY <1>c, <1>d, <2>1 DEF Announced
<1>6. ASSUME NEW m \in Rollout, Receive(m) \/ Arrived(m) PROVE Announced'
  <2>1. channel' = channel /\ \A n \in Ranks \ {m} : op'[n] = op[n]
    BY <1>6, <1>a DEF Receive, Arrived
  <2>2. op'[m].at # "broadcast"
    <3>1. op'[m] = NoOp \/ op'[m] = Operation(Other(m), Empty(1))
      BY <1>6, <1>a, <1>b DEF Receive, Arrived
    <3> QED BY <3>1 DEF NoOp, Operation
  <2> QED BY <1>b, <1>c, <1>d, <2>1, <2>2 DEF Announced
<1>7. CASE UNCHANGED <<op, channel>>
  BY <1>c, <1>d, <1>7 DEF Announced
<1>8. CASE Barrier \/ Fill \/ NextUpdate \/ UNCHANGED vars
  BY <1>7, <1>8 DEF Barrier, Fill, NextUpdate, vars
<1>9. ASSUME NEW m \in Rollout, Subscribe(m) \/ Yield(m) PROVE Announced'
  BY <1>7, <1>9 DEF Subscribe, Yield
<1> QED BY <1>1, <1>2, <1>3, <1>4, <1>5, <1>6, <1>8, <1>9 DEF Next, Trainer, Receiver

LEMMA AnnouncedInit == Init => Announced
BY ConstantFacts DEF Init, Announced, NoOp

\* Ranks join a broadcast with the metadata of the bucket that is sent, also
\* after a lost announcement (BroadcastOperation._run).
THEOREM BroadcastsMatch == Spec => []MetadataOfBucket
<1>1. TypeOK /\ Announced => MetadataOfBucket
  BY ConstantFacts DEF Announced, MetadataOfBucket
<1>2. TypeOK /\ Announced /\ [Next]_vars => Announced'
  BY AnnouncedStep
<1> QED BY <1>1, <1>2, AnnouncedInit, InitType, TypeInduction, PTL DEF Spec

(* ------------------------------ weights intact ----------------------------- *)

\* What the actions do to an operation, field by field.
LEMMA HearFields ==
  ASSUME TypeOK, NEW n \in Rollout, Hear(n)
  PROVE  /\ op'[n].at = "broadcast" /\ op'[n].b = op[n].b
         /\ \A k \in Ranks \ {n} : op'[k] = op[k]
<1>1. op \in [Ranks -> Operations] /\ n \in Ranks /\ op[n] \in Operations
  BY ConstantFacts DEF TypeOK
<1>2. op' = [op EXCEPT ![n] = [op[n] EXCEPT !.at = "broadcast", !.meta = Head(channel[n])]]
  BY DEF Hear
<1>3. [op[n] EXCEPT !.at = "broadcast", !.meta = Head(channel[n])].at = "broadcast"
      /\ [op[n] EXCEPT !.at = "broadcast", !.meta = Head(channel[n])].b = op[n].b
  BY <1>1 DEF Operations
<1> QED BY <1>1, <1>2, <1>3

LEMMA AnnounceFields ==
  ASSUME TypeOK, Announce
  PROVE  /\ op'[0].at = "broadcast" /\ op'[0].b = op[0].b /\ op'[0].meta = op[0].meta
         /\ \A k \in Rollout : op'[k] = op[k]
<1>1. op \in [Ranks -> Operations] /\ 0 \in Ranks /\ op[0] \in Operations
      /\ \A k \in Rollout : k \in Ranks /\ k # 0
  BY ConstantFacts DEF TypeOK
<1>2. op' = [op EXCEPT ![0] = [op[0] EXCEPT !.at = "broadcast"]]
  BY DEF Announce
<1>3. [op[0] EXCEPT !.at = "broadcast"].at = "broadcast"
      /\ [op[0] EXCEPT !.at = "broadcast"].b = op[0].b
      /\ [op[0] EXCEPT !.at = "broadcast"].meta = op[0].meta
  BY <1>1 DEF Operations
<1> QED BY <1>1, <1>2, <1>3

LEMMA BroadcastFields ==
  ASSUME TypeOK, Broadcast, NEW n \in Ranks
  PROVE  /\ op'[n].at = "complete" /\ op'[n].b = op[n].b /\ op'[n].meta = op[n].meta
         /\ buf'[n][op[n].b] = buf[0][op[0].b]
         /\ \A b \in 1 .. 2 : b # op[n].b => buf'[n][b] = buf[n][b]
<1>1. op[n] \in Operations /\ op[n].b \in 1 .. 2 /\ buf[n] \in [1 .. 2 -> SUBSET (Nat \X Nat)]
  BY OperationFields DEF TypeOK
<1>2. op'[n] = [op[n] EXCEPT !.at = "complete"]
  BY DEF Broadcast
<1>3. op'[n].at = "complete" /\ op'[n].b = op[n].b /\ op'[n].meta = op[n].meta
  BY <1>1, <1>2 DEF Operations
<1>4. buf'[n] = [buf[n] EXCEPT ![op[n].b] = buf[0][op[0].b]]
  BY DEF Broadcast
<1> QED BY <1>1, <1>3, <1>4

LEMMA PhasesStep ==
  ASSUME TypeOK, Phases, [Next]_vars
  PROVE  Phases'
<1>a. pc \in [Ranks -> Locations] /\ op \in [Ranks -> Operations]
  BY DEF TypeOK
<1>b. 0 \in Ranks /\ (\A n \in Rollout : n \in Ranks /\ n # 0)
      /\ \A n \in Ranks : n = 0 \/ n \in Rollout
  BY ConstantFacts
<1>c. pc[0] \in Starting \cup {"fill", "sent", "done"}
  BY DEF Phases
<1>d. \A n \in Rollout : pc[n] \in Starting \cup Receiving \cup {"receive", "loop", "done"}
  BY DEF Phases
<1>e. \A m, n \in Ranks : pc[m] \in Starting => pc[n] \in Starting
  BY DEF Phases
<1>f. pc[0] \in Starting \cup {"done"} => op[0].at = "none"
  BY DEF Phases
<1>g. \A n \in Rollout : op[n].at # "none" <=> pc[n] \in Receiving
  BY DEF Phases
<1>h. Starting = {"join", "barrier"} /\ Receiving = {"waitFirst", "yield", "wait"}
  BY DEF Starting, Receiving
\* A step of rank m that stays within the update.
<1>s. ASSUME NEW m \in Ranks, pc[m] \notin Starting, pc'[m] \notin Starting,
             \A n \in Ranks \ {m} : pc'[n] = pc[n]
      PROVE  \A i, n \in Ranks : pc'[i] \in Starting => pc'[n] \in Starting
  BY <1>s, <1>e
<1>1. ASSUME NEW m \in Ranks, Join(m) PROVE Phases'
  <2>1. op' = op /\ pc'[m] = "barrier" /\ pc[m] = "join" /\ \A n \in Ranks \ {m} : pc'[n] = pc[n]
    BY <1>1, <1>a DEF Join
  <2>2. \A n \in Ranks : pc[n] \in Starting /\ pc'[n] \in Starting
    BY <1>e, <1>h, <2>1
  <2>3. \A n \in Rollout : op[n].at = "none"
    BY <2>2, <1>b, <1>g, <1>h
  <2>4. \A n \in Rollout : pc'[n] \notin Receiving
    BY <2>2, <1>b, <1>h
  <2>5. op'[0].at = "none"
    BY <2>1, <2>2, <1>b, <1>f
  <2> QED BY <1>b, <2>1, <2>2, <2>3, <2>4, <2>5 DEF Phases, Starting, Receiving
<1>2. CASE Barrier
  <2>1. op' = op /\ pc'[0] = "fill" /\ \A n \in Rollout : pc'[n] = "receive" /\ pc[n] = "barrier"
    BY <1>2, <1>a, <1>b DEF Barrier
  <2>2. \A n \in Rollout : op'[n].at = "none"
    BY <2>1, <1>g, <1>h
  <2>3. \A n \in Ranks : pc'[n] \notin Starting
    BY <2>1, <1>b, <1>h
  <2> QED BY <1>b, <1>h, <2>1, <2>2, <2>3 DEF Phases
<1>3. CASE Announce
  <2>1. pc' = pc /\ op[0].at = "announce" /\ op'[0].at = "broadcast"
        /\ \A n \in Rollout : op'[n] = op[n]
    BY <1>3, AnnounceFields DEF Announce
  <2> QED BY <1>c, <1>d, <1>e, <1>f, <1>g, <2>1 DEF Phases
<1>4. ASSUME NEW m \in Rollout, Hear(m) PROVE Phases'
  <2>1. pc' = pc /\ op[m].at = "announce" /\ op'[m].at = "broadcast"
        /\ \A n \in Ranks \ {m} : op'[n] = op[n]
    BY <1>4, HearFields DEF Hear
  <2>2. op'[0] = op[0]
    BY <1>b, <2>1
  <2>3. \A n \in Rollout : op'[n].at # "none" <=> pc[n] \in Receiving
    BY <1>b, <1>g, <2>1
  <2> QED BY <1>c, <1>d, <1>e, <1>f, <2>1, <2>2, <2>3 DEF Phases
<1>5. CASE Broadcast
  <2>1. pc' = pc /\ \A n \in Ranks : op[n].at = "broadcast" /\ op'[n].at = "complete"
    BY <1>5, BroadcastFields DEF Broadcast
  <2> QED BY <1>b, <1>c, <1>d, <1>e, <1>f, <1>g, <2>1 DEF Phases
<1>6. CASE Fill
  BY <1>6, <1>c, <1>d, <1>e, <1>f, <1>g DEF Fill, Phases
<1>7. CASE SendBucket
  <2>1. pc' = pc /\ pc[0] = "fill" /\ \A n \in Rollout : op'[n] = op[n]
    BY <1>7, <1>a, <1>b DEF SendBucket
  <2> QED BY <1>c, <1>d, <1>e, <1>g, <1>h, <2>1 DEF Phases
<1>8. CASE SendLast \/ SendDone
  <2>1. /\ pc[0] \in {"fill", "sent"} /\ \A n \in Rollout : op'[n] = op[n] /\ pc'[n] = pc[n]
        /\ \/ pc'[0] = "sent"
           \/ pc'[0] = "done" /\ op'[0].at = "none"
    BY <1>8, <1>a, <1>b, NoOpType DEF SendLast, SendDone
  <2>2. \A i, n \in Ranks : pc'[i] \in Starting => pc'[n] \in Starting
    <3>1. \A n \in Ranks \ {0} : pc'[n] = pc[n]
      BY <1>b, <2>1
    <3> QED BY <1>b, <1>h, <1>s, <2>1, <3>1
  <2> QED BY <1>b, <1>d, <1>g, <1>h, <2>1, <2>2 DEF Phases
<1>9. ASSUME NEW m \in Rollout, Receive(m) \/ Yield(m) \/ Arrived(m) PROVE Phases'
  <2>1. /\ pc[m] \in {"receive", "loop", "yield", "waitFirst", "wait"}
        /\ pc'[m] \in Receiving \cup {"loop", "done"}
        /\ \A n \in Ranks \ {m} : op'[n] = op[n] /\ pc'[n] = pc[n]
    BY <1>9, <1>a, <1>b, <1>h DEF Receive, Yield, Arrived
  <2>2. op'[m].at # "none" <=> pc'[m] \in Receiving
    <3>1. CASE Receive(m)
      <4>1. op'[m] = Operation(Other(m), Empty(1)) /\ pc'[m] \in Receiving
        BY <3>1, <1>a, <1>b, <1>h DEF Receive
      <4> QED BY <4>1 DEF Operation
    <3>2. CASE Yield(m)
      <4>1. /\ op' = op
            /\ \/ pc[m] = "yield" /\ pc'[m] = "wait"
               \/ pc[m] = "loop" /\ pc'[m] = "done"
        BY <3>2, <1>a, <1>b DEF Yield
      <4> QED BY <4>1, <1>g, <1>h
    <3>3. CASE Arrived(m)
      <4>1. op'[m] = NoOp /\ pc'[m] = "loop"
        BY <3>3, <1>a, <1>b DEF Arrived
      <4> QED BY <4>1, <1>h, NoOpType
    <3> QED BY <1>9, <3>1, <3>2, <3>3
  <2>3. \A i, n \in Ranks : pc'[i] \in Starting => pc'[n] \in Starting
    BY <1>b, <1>h, <1>s, <2>1
  <2>4. op'[0] = op[0] /\ pc'[0] = pc[0]
    BY <1>b, <2>1
  <2>5. \A n \in Rollout : /\ op'[n].at # "none" <=> pc'[n] \in Receiving
                           /\ pc'[n] \in Starting \cup Receiving \cup {"receive", "loop", "done"}
    BY <1>b, <1>d, <1>g, <2>1, <2>2
  <2> QED BY <1>c, <1>f, <2>3, <2>4, <2>5 DEF Phases
<1>10. CASE NextUpdate
  <2>1. op' = op /\ \A n \in Ranks : pc[n] = "done" /\ pc'[n] = "join"
    BY <1>10 DEF NextUpdate
  <2>2. \A n \in Rollout : op[n].at = "none"
    BY <1>b, <1>g, <1>h, <2>1
  <2> QED BY <1>b, <1>f, <1>h, <2>1, <2>2 DEF Phases
<1>11. CASE UNCHANGED <<pc, op>>
  BY <1>c, <1>d, <1>e, <1>f, <1>g, <1>11 DEF Phases
<1>12. CASE UNCHANGED vars
  BY <1>11, <1>12 DEF vars
<1>13. ASSUME NEW m \in Rollout, Subscribe(m) PROVE Phases'
  BY <1>11, <1>13 DEF Subscribe
<1> QED BY <1>1, <1>2, <1>3, <1>4, <1>5, <1>6, <1>7, <1>8, <1>9, <1>10, <1>12, <1>13
        DEF Next, Trainer, Receiver

\* The trainer never fills the buffer it sends.
LEMMA TrainerStep ==
  ASSUME TypeOK, Phases, TrainerBuffers, [Next]_vars
  PROVE  TrainerBuffers'
<1>a. pc \in [Ranks -> Locations] /\ op \in [Ranks -> Operations] /\ bucket \in [Ranks -> Metadata]
  BY DEF TypeOK
<1>b. 0 \in Ranks /\ \A n \in Rollout : n \in Ranks /\ n # 0
  BY ConstantFacts
<1>c. /\ bucket[0] \in Metadata /\ op[0] \in Operations /\ cur[0] \in 1 .. 2
      /\ Other(0) \in 1 .. 2 /\ Other(0) # cur[0] /\ update \in Nat /\ used \in Nat
  BY <1>b, TypeFacts, OtherType
<1>d. /\ bucket[0].first \in Nat /\ bucket[0].next \in Nat /\ bucket[0].next <= Tensors + 1
      /\ bucket[0].last \in BOOLEAN
  BY <1>c, MetaFields, ConstantFacts
<1>e. buf \in [Ranks -> [1 .. 2 -> SUBSET (Nat \X Nat)]] /\ cur \in [Ranks -> 1 .. 2]
  BY DEF TypeOK
<1>1. ASSUME pc'[0] = pc[0], bucket'[0] = bucket[0], cur'[0] = cur[0], used' = used,
             update' = update, buf'[0] = buf[0], op'[0].b = op[0].b, op'[0].meta = op[0].meta,
             Underway(0)' => Underway(0)
      PROVE  TrainerBuffers'
  BY <1>1 DEF TrainerBuffers, Holds, LastIsLast, Other
<1>2. ASSUME NEW m \in Ranks, Join(m) PROVE TrainerBuffers'
  <2>1. op' = op /\ pc[m] \in Starting /\ update' = update
    BY <1>2 DEF Join, Starting
  <2>2. pc[0] \in Starting /\ op[0].at = "none"
    BY <1>b, <2>1 DEF Phases
  <2>3. ~Underway(0)'
    BY <2>1, <2>2 DEF Underway
  <2>4. CASE m = 0
    <3>1. pc'[0] = "barrier" /\ bucket'[0] = Empty(1) /\ used' = 0
      BY <1>2, <2>4, <1>a, <1>b DEF Join
    <3> QED BY <2>3, <3>1 DEF TrainerBuffers
  <2>5. CASE m # 0
    <3>1. pc'[0] = pc[0] /\ bucket'[0] = bucket[0] /\ used' = used
      BY <1>2, <2>5, <1>a, <1>b DEF Join
    <3>2. pc'[0] # "fill"
      BY <2>2, <3>1 DEF Starting
    <3> QED BY <2>3, <3>1, <3>2 DEF TrainerBuffers
  <2> QED BY <2>4, <2>5
<1>3. CASE Barrier
  <2>1. pc[0] = "barrier" /\ pc'[0] = "fill" /\ op[0].at = "none"
    BY <1>3, <1>b DEF Barrier, Phases, Starting
  <2>2. UNCHANGED <<op, bucket, used, cur, buf, update>> /\ bucket[0] = Empty(1) /\ used = 0
    BY <1>3, <2>1 DEF Barrier, TrainerBuffers
  <2>3. bucket[0].first = bucket[0].next /\ ~bucket[0].last
    BY <2>2 DEF Empty, Meta
  <2>4. Holds(0, cur[0], bucket[0])'
    BY <2>2, <2>3, <1>d DEF Holds
  <2>5. ~Underway(0)'
    BY <2>1, <2>2 DEF Underway
  <2> QED BY <2>1, <2>2, <2>3, <2>4, <2>5 DEF TrainerBuffers
<1>4. CASE Announce
  <2>1. op'[0].b = op[0].b /\ op'[0].meta = op[0].meta /\ Underway(0)
    BY <1>4, AnnounceFields DEF Announce, Underway
  <2> QED BY <1>1, <1>4, <2>1 DEF Announce
<1>5. CASE Broadcast
  <2>1. op'[0].at = "complete" /\ \A b \in 1 .. 2 : buf'[0][b] = buf[0][b]
    BY <1>5, <1>b, BroadcastFields
  <2>2. ~Underway(0)'
    BY <2>1 DEF Underway
  <2>3. UNCHANGED <<pc, update, bucket, used, cur>>
    BY <1>5 DEF Broadcast
  <2>4. Holds(0, cur[0], bucket[0]) => Holds(0, cur[0], bucket[0])'
    BY <2>1, <2>3, <1>c DEF Holds
  <2> QED BY <2>2, <2>3, <2>4 DEF TrainerBuffers
<1>6. CASE Fill
  <2>1. pc[0] = "fill" /\ UNCHANGED <<pc, update, cur, op>> /\ Cursor \in 1 .. Tensors
    BY <1>6, <1>b, <1>c, <1>d, MetaFields DEF Fill, Cursor
  <2>2. Size[Cursor] \in Nat \ {0} /\ used' = used + Size[Cursor]
    BY <1>6, <2>1, ConstantFacts DEF Fill
  <2>3. used' # 0
    BY <2>2, <1>c
  <2>4. /\ bucket'[0].first = bucket[0].first /\ bucket'[0].next = bucket[0].next + 1
        /\ bucket'[0].last = bucket[0].last
    <3>1. bucket' = [bucket EXCEPT ![0] = [bucket[0] EXCEPT !.next = bucket[0].next + 1]]
      BY <1>6 DEF Fill
    <3>2. bucket'[0] = [bucket[0] EXCEPT !.next = bucket[0].next + 1]
      BY <3>1, <1>a, <1>b
    <3> QED BY <3>2, <1>c DEF Metadata
  <2>5. /\ buf'[0][cur[0]] = (IF used = 0 THEN {} ELSE buf[0][cur[0]]) \cup {<<update, Cursor>>}
        /\ buf'[0][Other(0)] = buf[0][Other(0)]
    <3>1. buf' = [buf EXCEPT ![0][cur[0]] = (IF used = 0 THEN {} ELSE @) \cup {<<update, Cursor>>}]
      BY <1>6 DEF Fill
    <3> DEFINE content == (IF used = 0 THEN {} ELSE buf[0][cur[0]]) \cup {<<update, Cursor>>}
    <3>2. buf' = [buf EXCEPT ![0][cur[0]] = content]
      BY <3>1, Zenon
    <3> HIDE DEF content
    <3>3. buf'[0][cur[0]] = content /\ buf'[0][Other(0)] = buf[0][Other(0)]
      BY <3>2, <1>b, <1>c, <1>e
    <3> QED BY <3>3 DEF content
  <2>6. Holds(0, cur[0], bucket[0])'
    <3>1. Holds(0, cur[0], bucket[0]) /\ (used = 0 => bucket[0].first = bucket[0].next)
      BY <2>1 DEF TrainerBuffers
    <3> SUFFICES ASSUME NEW i \in bucket[0].first .. bucket[0].next
                 PROVE  <<update, i>> \in buf'[0][cur[0]]
      BY <2>1, <2>4, <1>d DEF Holds
    <3>2. CASE i = bucket[0].next
      BY <2>5, <3>2 DEF Cursor
    <3>3. CASE i # bucket[0].next
      <4>1. i \in bucket[0].first .. bucket[0].next - 1 /\ used # 0
        BY <3>1, <3>3, <1>d
      <4> QED BY <2>5, <3>1, <4>1 DEF Holds
    <3> QED BY <3>2, <3>3
  <2>7. Underway(0)' => /\ Underway(0) /\ op[0].b = Other(0) /\ op[0].meta.next = bucket[0].first
                        /\ Holds(0, op[0].b, op[0].meta) /\ LastIsLast(op[0].meta)
    BY <2>1 DEF TrainerBuffers, Underway
  <2>8. Underway(0)' => Holds(0, op[0].b, op[0].meta)'
    BY <2>1, <2>5, <2>7 DEF Holds
  <2> QED BY <2>1, <2>3, <2>4, <2>6, <2>7, <2>8 DEF TrainerBuffers, LastIsLast, Other
<1>7. CASE SendBucket
  <2>1. pc[0] = "fill" /\ UNCHANGED <<pc, update, buf>> /\ used' = 0
    BY <1>7 DEF SendBucket
  <2>2. bucket'[0] = Empty(bucket[0].next) /\ cur'[0] = Other(0)
        /\ op'[0] = Operation(cur[0], bucket[0])
    BY <1>7, <1>a, <1>b, <1>e DEF SendBucket, Cursor
  <2>3. Holds(0, cur[0], bucket[0]) /\ ~bucket[0].last
    BY <2>1 DEF TrainerBuffers
  <2>4. /\ bucket'[0].first = bucket[0].next /\ bucket'[0].next = bucket[0].next
        /\ bucket'[0].last = FALSE
    BY <2>2 DEF Empty, Meta
  <2>5. op'[0].b = cur[0] /\ op'[0].meta = bucket[0]
    BY <2>2 DEF Operation
  <2>6. Holds(0, op[0].b, op[0].meta)' /\ LastIsLast(op[0].meta)'
    BY <2>1, <2>3, <2>5 DEF Holds, LastIsLast
  <2>7. Holds(0, cur[0], bucket[0])'
    BY <2>4, <1>d DEF Holds
  <2>8. Other(0)' = cur[0]
    BY <2>2, <1>c DEF Other
  <2> QED BY <2>1, <2>4, <2>5, <2>6, <2>7, <2>8 DEF TrainerBuffers
<1>8. CASE SendLast
  <2>1. pc[0] = "fill" /\ pc'[0] = "sent" /\ UNCHANGED <<update, buf>> /\ bucket[0].next > Tensors
        /\ op'[0] = Operation(cur[0], Meta(bucket[0].first, bucket[0].next, TRUE))
    BY <1>8, <1>a, <1>b DEF SendLast, Cursor
  <2>2. op'[0].b = cur[0] /\ op'[0].meta.first = bucket[0].first
        /\ op'[0].meta.next = bucket[0].next
    BY <2>1 DEF Operation, Meta
  <2>3. op'[0].meta.next = Tensors + 1
    <3>1. Tensors \in Nat
      BY ConstantFacts
    <3>2. bucket[0].next > Tensors
      BY <2>1
    <3>3. bucket[0].next = Tensors + 1
      BY <1>d, <3>1, <3>2
    <3> QED BY <2>2, <3>3
  <2>4. Holds(0, cur[0], bucket[0])
    BY <2>1 DEF TrainerBuffers
  <2>5. Holds(0, op[0].b, op[0].meta)' /\ LastIsLast(op[0].meta)'
    BY <2>1, <2>2, <2>3, <2>4 DEF Holds, LastIsLast
  <2> QED BY <2>1, <2>3, <2>5 DEF TrainerBuffers
<1>9. CASE SendDone
  <2>1. pc'[0] = "done" /\ op'[0].at = "none"
    BY <1>9, <1>a, <1>b, NoOpType DEF SendDone
  <2> QED BY <2>1 DEF TrainerBuffers, Underway
<1>10. CASE NextUpdate
  <2>1. pc'[0] = "join" /\ op' = op /\ op[0].at = "none"
    BY <1>10, <1>b DEF NextUpdate, Phases
  <2> QED BY <2>1 DEF TrainerBuffers, Underway
<1>11. ASSUME NEW m \in Rollout, Hear(m) PROVE TrainerBuffers'
  <2>1. op'[0] = op[0]
    BY <1>11, <1>b, HearFields
  <2> QED BY <1>1, <1>11, <2>1 DEF Hear, Underway
<1>12. ASSUME NEW m \in Rollout, Receive(m) \/ Yield(m) \/ Arrived(m) \/ Subscribe(m)
       PROVE TrainerBuffers'
  <2>1. op'[0] = op[0] /\ pc'[0] = pc[0] /\ bucket'[0] = bucket[0] /\ cur'[0] = cur[0]
        /\ UNCHANGED <<update, used, buf>>
    BY <1>12, <1>a, <1>b, <1>e DEF Receive, Yield, Arrived, Subscribe
  <2> QED BY <1>1, <2>1 DEF Underway
<1>13. CASE UNCHANGED vars
  BY <1>1, <1>13 DEF vars, Underway
<1> QED BY <1>2, <1>3, <1>4, <1>5, <1>6, <1>7, <1>8, <1>9, <1>10, <1>11, <1>12, <1>13
        DEF Next, Trainer, Receiver

\* The first tensor still to be broadcast: only a broadcast advances it.
LEMMA NextTensorStep ==
  ASSUME TypeOK, Phases, [Next]_vars, pc[0] \notin Starting, ~Broadcast, ~NextUpdate
  PROVE  NextTensor' = NextTensor
<1>a. pc \in [Ranks -> Locations] /\ op \in [Ranks -> Operations] /\ bucket \in [Ranks -> Metadata]
  BY DEF TypeOK
<1>b. 0 \in Ranks /\ (\A n \in Rollout : n \in Ranks /\ n # 0) /\ bucket[0] \in Metadata
  BY <1>a, ConstantFacts
<1>c. pc[0] \in {"fill", "sent", "done"} /\ (pc[0] = "done" => op[0].at = "none")
  BY DEF Phases
<1>1. ASSUME pc'[0] = pc[0], bucket'[0].first = bucket[0].first, op'[0].meta = op[0].meta,
             Underway(0)' <=> Underway(0)
      PROVE  NextTensor' = NextTensor
  BY <1>1 DEF NextTensor
<1>2. ASSUME NEW m \in Ranks, Join(m) PROVE NextTensor' = NextTensor
  <2>1. pc[m] \in Starting
    BY <1>2 DEF Join, Starting
  <2> QED BY <1>b, <2>1 DEF Phases
<1>3. CASE Barrier
  BY <1>3, <1>b, <1>c DEF Barrier
<1>4. CASE Announce
  <2>1. op'[0].meta = op[0].meta /\ Underway(0)' /\ Underway(0)
    BY <1>4, AnnounceFields DEF Announce, Underway
  <2> QED BY <1>1, <1>4, <2>1 DEF Announce
<1>5. CASE Fill
  <2>1. bucket' = [bucket EXCEPT ![0] = [bucket[0] EXCEPT !.next = bucket[0].next + 1]]
    BY <1>5 DEF Fill
  <2>2. bucket'[0] = [bucket[0] EXCEPT !.next = bucket[0].next + 1]
    BY <2>1, <1>a, <1>b
  <2>3. bucket'[0].first = bucket[0].first
    BY <2>2, <1>b DEF Metadata
  <2> QED BY <1>1, <1>5, <2>3 DEF Fill, Underway
<1>6. CASE SendBucket \/ SendLast
  <2>1. /\ pc[0] = "fill" /\ op[0].at \in {"none", "complete"} /\ op'[0].at = "announce"
        /\ op'[0].meta.first = bucket[0].first
    <3>1. CASE SendBucket
      <4>1. pc[0] = "fill" /\ Awaited(0) /\ op'[0] = Operation(cur[0], bucket[0])
        BY <3>1, <1>a, <1>b DEF SendBucket
      <4> QED BY <4>1 DEF Awaited, Operation
    <3>2. CASE SendLast
      <4>1. /\ pc[0] = "fill" /\ Awaited(0)
            /\ op'[0] = Operation(cur[0], Meta(bucket[0].first, Cursor, TRUE))
        BY <3>2, <1>a, <1>b DEF SendLast
      <4> QED BY <4>1 DEF Awaited, Operation, Meta
    <3> QED BY <1>6, <3>1, <3>2
  <2> QED BY <2>1 DEF NextTensor, Underway
<1>7. CASE SendDone
  <2>1. pc[0] = "sent" /\ pc'[0] = "done" /\ op[0].at \in {"none", "complete"}
        /\ op'[0].at = "none"
    BY <1>7, <1>a, <1>b, NoOpType DEF SendDone, Awaited
  <2> QED BY <2>1 DEF NextTensor, Underway
<1>8. ASSUME NEW m \in Rollout, Hear(m) PROVE NextTensor' = NextTensor
  <2>1. op'[0] = op[0]
    BY <1>8, <1>b, HearFields
  <2> QED BY <1>1, <1>8, <2>1 DEF Hear, Underway
<1>9. ASSUME NEW m \in Rollout, Receive(m) \/ Yield(m) \/ Arrived(m) \/ Subscribe(m)
      PROVE NextTensor' = NextTensor
  <2>1. op'[0] = op[0] /\ pc'[0] = pc[0] /\ bucket'[0] = bucket[0]
    BY <1>9, <1>a, <1>b DEF Receive, Yield, Arrived, Subscribe
  <2> QED BY <1>1, <2>1 DEF Underway
<1>10. CASE UNCHANGED vars
  BY <1>1, <1>10 DEF vars, Underway
<1> QED BY <1>2, <1>3, <1>4, <1>5, <1>6, <1>7, <1>8, <1>9, <1>10 DEF Next, Trainer, Receiver

\* What a rank holds, after a step that does not touch it.
LEMMA RankFrame ==
  ASSUME NEW n \in Rollout, RankBuffer(n), NextTensor' = NextTensor, update' = update,
         pc'[n] = pc[n], bucket'[n] = bucket[n], cur'[n] = cur[n], buf'[n] = buf[n],
         op'[n] = op[n], handed'[n] = handed[n]
  PROVE  RankBuffer(n)'
BY DEF RankBuffer, Expected, Missing, Holds, LastIsLast, Other

LEMMA RankStep ==
  ASSUME TypeOK, Phases, Announced, TrainerBuffers, RankBuffers, [Next]_vars
  PROVE  RankBuffers'
<1>a. /\ pc \in [Ranks -> Locations] /\ op \in [Ranks -> Operations]
      /\ bucket \in [Ranks -> Metadata] /\ cur \in [Ranks -> 1 .. 2]
  BY DEF TypeOK
<1>a2. /\ buf \in [Ranks -> [1 .. 2 -> SUBSET (Nat \X Nat)]]
       /\ handed \in [Rollout -> 0 .. Tensors]
  BY DEF TypeOK
<1>b. 0 \in Ranks /\ \A n \in Rollout : n \in Ranks /\ n # 0
  BY ConstantFacts
<1>c. \A n \in Rollout : RankBuffer(n)
  BY DEF RankBuffers
<1>d. \A n \in Rollout : op[n].at # "none" <=> pc[n] \in Receiving
  BY DEF Phases
<1>e. ASSUME NEW n \in Rollout, pc[n] \in Starting PROVE pc[0] \in Starting
  BY <1>b, <1>e DEF Phases
<1>f. ASSUME NEW n \in Rollout, pc[0] \in Starting PROVE pc[n] \in Starting
  BY <1>b, <1>f DEF Phases
<1>g. ASSUME NEW n \in Rollout PROVE
        /\ bucket[n] \in Metadata /\ op[n] \in Operations /\ op[n].meta \in Metadata
        /\ cur[n] \in 1 .. 2 /\ Other(n) \in 1 .. 2 /\ Other(n) # cur[n]
        /\ handed[n] \in Nat /\ op[n].at \in {"none", "announce", "broadcast", "complete"}
  BY <1>a, <1>a2, <1>b, <1>g, OtherType, OperationFields, ConstantFacts
\* It is enough that the ranks that move, and their next tensor, agree.
<1>1. CASE NextUpdate
  <2> SUFFICES ASSUME NEW n \in Rollout PROVE RankBuffer(n)'
    BY DEF RankBuffers
  <2>1. pc[n] = "done" /\ pc'[n] = "join" /\ op' = op
    BY <1>1, <1>b DEF NextUpdate
  <2>2. op'[n].at = "none"
    BY <2>1, <1>d DEF Receiving
  <2> QED BY <2>1, <2>2 DEF RankBuffer, Starting
<1>2. CASE Barrier
  <2> SUFFICES ASSUME NEW n \in Rollout PROVE RankBuffer(n)'
    BY DEF RankBuffers
  <2>1. pc[n] = "barrier" /\ pc[0] = "barrier" /\ pc'[n] = "receive" /\ pc'[0] = "fill"
        /\ UNCHANGED <<op, handed, bucket>>
    BY <1>2, <1>b DEF Barrier
  <2>2. op[n].at = "none" /\ op[0].at = "none"
    BY <2>1, <1>d DEF Receiving, Phases, Starting
  <2>3. handed[n] = 0
    BY <2>1, <1>c DEF RankBuffer
  <2>4. bucket[0].first = 1
    BY <2>1 DEF TrainerBuffers, Empty, Meta
  <2>5. Expected(n)' = 1
    BY <2>1, <2>2, <2>3 DEF Expected, Missing
  <2>6. NextTensor' = 1
    BY <2>1, <2>2, <2>4 DEF NextTensor, Underway
  <2> QED BY <2>1, <2>2, <2>3, <2>5, <2>6 DEF RankBuffer, Starting
<1>3. CASE Broadcast
  <2> SUFFICES ASSUME NEW n \in Rollout PROVE RankBuffer(n)'
    BY DEF RankBuffers
  <2>1. op[n].at = "broadcast" /\ op[0].at = "broadcast"
        /\ UNCHANGED <<pc, update, bucket, cur, handed>>
    BY <1>3, <1>b DEF Broadcast
  <2>2. op[n].meta = op[0].meta
    BY <2>1 DEF Announced
  <2>3. pc[n] \in Receiving /\ pc[n] \notin Starting
    BY <2>1, <1>d DEF Receiving, Starting
  <2>4. pc[0] \in {"fill", "sent"}
    <3>1. pc[0] \notin Starting
      BY <2>3, <1>f
    <3> QED BY <2>1, <3>1 DEF Phases
  <2>5. /\ op'[n].at = "complete" /\ op'[n].b = op[n].b /\ op'[n].meta = op[n].meta
        /\ buf'[n][op[n].b] = buf[0][op[0].b]
        /\ \A b \in 1 .. 2 : b # op[n].b => buf'[n][b] = buf[n][b]
    BY <1>3, <1>b, BroadcastFields
  <2>6. op'[0].at = "complete" /\ op'[0].meta = op[0].meta
    BY <1>3, <1>b, BroadcastFields
  <2>7. Underway(0) /\ Holds(0, op[0].b, op[0].meta) /\ LastIsLast(op[0].meta)
    BY <2>1 DEF TrainerBuffers, Underway
  <2>8. Holds(n, op[n].b, op[n].meta)' /\ LastIsLast(op[n].meta)'
    BY <2>1, <2>2, <2>5, <2>7 DEF Holds, LastIsLast
  <2>9. op[n].b = Other(n) /\ Missing(n) = NextTensor
    BY <2>1, <2>3, <1>c DEF RankBuffer, Expected
  <2>10. Missing(n)' = Missing(n) /\ NextTensor = op[0].meta.first
    BY <2>1, <2>7 DEF Missing, NextTensor
  <2>11. NextTensor' = op[0].meta.next
    BY <2>1, <2>4, <2>6, <2>7 DEF NextTensor, Underway, TrainerBuffers
  <2>12. Expected(n)' = NextTensor'
    BY <2>2, <2>5, <2>11 DEF Expected
  <2>13. pc[n] \in {"loop", "yield"} => Holds(n, cur[n], bucket[n])' /\ LastIsLast(bucket[n])'
    BY <2>1, <2>5, <2>9, <1>c, <1>g DEF RankBuffer, Holds, LastIsLast
  <2>14. Other(n)' = Other(n)
    BY <2>1 DEF Other
  <2>15. pc'[n] \in {"loop", "yield"} => bucket'[n].first = handed'[n] + 1
    BY <2>1, <1>c DEF RankBuffer
  <2>16. pc'[n] \in {"barrier", "receive", "waitFirst"} => handed'[n] = 0
    BY <2>1, <1>c DEF RankBuffer
  <2>17. op'[n].b = Other(n)' /\ op'[n].meta.first = Missing(n)'
    BY <2>2, <2>5, <2>9, <2>10, <2>14
  <2> QED BY <2>1, <2>5, <2>8, <2>12, <2>13, <2>15, <2>16, <2>17 DEF RankBuffer
\* From here on the next tensor stays, unless an update is starting.
<1>n. ASSUME ~Broadcast, ~NextUpdate, NEW n \in Rollout, pc[n] \notin Starting
      PROVE  NextTensor' = NextTensor
  BY <1>n, <1>f, NextTensorStep
<1>4. ASSUME NEW m \in Ranks, Join(m) PROVE RankBuffers'
  <2> SUFFICES ASSUME NEW n \in Rollout PROVE RankBuffer(n)'
    BY DEF RankBuffers
  <2>1. pc[m] \in Starting
    BY <1>4 DEF Join, Starting
  <2>2. pc[n] \in Starting /\ op[n].at = "none"
    <3>1. pc[n] \in Starting
      BY <1>b, <2>1 DEF Phases
    <3> QED BY <3>1, <1>d DEF Starting, Receiving
  <2>3. op' = op
    BY <1>4 DEF Join
  <2>4. CASE n = m
    <3>1. pc'[n] = "barrier" /\ handed'[n] = 0
      BY <1>4, <2>4, <1>a, <1>a2, <1>b DEF Join
    <3> QED BY <2>2, <2>3, <3>1 DEF RankBuffer, Starting
  <2>5. CASE n # m
    <3>1. pc'[n] = pc[n] /\ handed'[n] = handed[n]
      BY <1>4, <2>5, <1>a, <1>a2, <1>b DEF Join
    <3>2. pc[n] = "barrier" => handed[n] = 0
      BY <1>c DEF RankBuffer
    <3> QED BY <2>2, <2>3, <3>1, <3>2 DEF RankBuffer, Starting
  <2> QED BY <2>4, <2>5
\* A rank that a step of others does not touch.
<1>u. ASSUME NEW n \in Rollout, ~Broadcast, ~NextUpdate, ~Barrier, update' = update,
             pc'[n] = pc[n], bucket'[n] = bucket[n], cur'[n] = cur[n], buf'[n] = buf[n],
             op'[n] = op[n], handed'[n] = handed[n]
      PROVE  RankBuffer(n)'
  <2>1. CASE pc[n] \notin Starting
    BY <1>u, <1>n, <1>c, <2>1, RankFrame
  <2>2. CASE pc[n] \in Starting
    <3>1. op[n].at = "none"
      BY <2>2, <1>d DEF Starting, Receiving
    <3> QED BY <1>u, <1>c, <2>2, <3>1 DEF RankBuffer, Starting
  <2> QED BY <2>1, <2>2
<1>5. ASSUME ~Broadcast, ~NextUpdate, ~Barrier, Announce \/ Trainer PROVE RankBuffers'
  <2> SUFFICES ASSUME NEW n \in Rollout PROVE RankBuffer(n)'
    BY DEF RankBuffers
  <2>1. op'[n] = op[n]
    <3>1. CASE Announce
      BY <3>1, AnnounceFields
    <3>2. CASE Trainer
      BY <3>2, <1>a, <1>b DEF Trainer, Fill, SendBucket, SendLast, SendDone
    <3> QED BY <1>5, <3>1, <3>2
  <2>2. UNCHANGED <<update, handed>> /\ pc'[n] = pc[n] /\ bucket'[n] = bucket[n]
        /\ cur'[n] = cur[n]
    BY <1>5, <1>a, <1>b DEF Announce, Trainer, Fill, SendBucket, SendLast, SendDone
  <2>3. buf'[n] = buf[n]
    BY <1>5, <1>a2, <1>b DEF Announce, Trainer, Fill, SendBucket, SendLast, SendDone
  <2> QED BY <1>5, <1>u, <2>1, <2>2, <2>3
<1>6. ASSUME ~Broadcast, ~NextUpdate, ~Barrier, NEW m \in Rollout,
             Hear(m) \/ Receive(m) \/ Yield(m) \/ Arrived(m) \/ Subscribe(m),
             RankBuffer(m)'
      PROVE  RankBuffers'
  <2> SUFFICES ASSUME NEW n \in Rollout, n # m PROVE RankBuffer(n)'
    BY <1>6 DEF RankBuffers
  <2>1. op'[n] = op[n]
    <3>1. CASE Hear(m)
      BY <3>1, <1>b, HearFields
    <3>2. CASE Receive(m) \/ Yield(m) \/ Arrived(m) \/ Subscribe(m)
      BY <3>2, <1>a, <1>b DEF Receive, Yield, Arrived, Subscribe
    <3> QED BY <1>6, <3>1, <3>2
  <2>2. UNCHANGED <<update, buf>> /\ pc'[n] = pc[n] /\ bucket'[n] = bucket[n]
        /\ cur'[n] = cur[n]
    BY <1>6, <1>a, <1>b DEF Hear, Receive, Yield, Arrived, Subscribe
  <2>3. handed'[n] = handed[n]
    BY <1>6, <1>a2 DEF Hear, Receive, Yield, Arrived, Subscribe
  <2> QED BY <1>6, <1>u, <2>1, <2>2, <2>3
<1>7. ASSUME ~Broadcast, ~NextUpdate, ~Barrier, NEW m \in Rollout, Hear(m) PROVE RankBuffers'
  <2>1. op[m].at = "announce" /\ UNCHANGED <<update, buf, pc, bucket, cur, handed>>
    BY <1>7 DEF Hear
  <2>2. op'[m].at = "broadcast" /\ op'[m].b = op[m].b
    BY <1>7, HearFields
  <2>3. pc[m] \notin Starting
    BY <2>1, <1>d DEF Starting, Receiving
  <2>4. NextTensor' = NextTensor
    BY <1>7, <1>n, <2>3
  <2>5. Expected(m)' = Expected(m)
    BY <2>1, <2>2 DEF Expected, Missing
  <2>6. op[m].b = Other(m) /\ Expected(m) = NextTensor /\ Other(m)' = Other(m)
    BY <2>1, <2>3, <1>c DEF RankBuffer, Other
  <2>7. pc[m] \in {"loop", "yield"} => /\ bucket[m].first = handed[m] + 1
                                      /\ Holds(m, cur[m], bucket[m])' /\ LastIsLast(bucket[m])'
    BY <2>1, <1>c DEF RankBuffer, Holds, LastIsLast
  <2>8. pc[m] \in {"barrier", "receive", "waitFirst"} => handed[m] = 0
    BY <1>c DEF RankBuffer
  <2>9. RankBuffer(m)'
    BY <2>1, <2>2, <2>4, <2>5, <2>6, <2>7, <2>8 DEF RankBuffer
  <2> QED BY <1>6, <1>7, <2>9
<1>8. ASSUME ~Broadcast, ~NextUpdate, ~Barrier, NEW m \in Rollout, Receive(m) PROVE RankBuffers'
  <2>1. /\ \/ pc[m] = "receive" /\ pc'[m] = "waitFirst"
           \/ pc[m] = "loop" /\ pc'[m] = "yield"
        /\ op'[m] = Operation(Other(m), Empty(1))
        /\ UNCHANGED <<update, bucket, cur, buf, handed>>
    BY <1>8, <1>a, <1>b DEF Receive
  <2>2. pc[m] \notin Starting /\ op[m].at = "none"
    BY <2>1, <1>d DEF Starting, Receiving
  <2>3. NextTensor' = NextTensor
    BY <1>8, <1>n, <2>2
  <2>4. op'[m].at = "announce" /\ op'[m].b = Other(m) /\ Other(m)' = Other(m)
    BY <2>1 DEF Operation, Other
  <2>5. Expected(m)' = Expected(m)
    BY <2>1, <2>2, <2>4 DEF Expected, Missing
  <2>6. pc[m] = "loop" => /\ bucket[m].first = handed[m] + 1
                          /\ Holds(m, cur[m], bucket[m])' /\ LastIsLast(bucket[m])'
    BY <2>1, <1>c DEF RankBuffer, Holds, LastIsLast
  <2>7. pc[m] = "receive" => handed[m] = 0
    BY <1>c DEF RankBuffer
  <2>8. Expected(m) = NextTensor
    BY <2>2, <1>c DEF RankBuffer
  <2>9. RankBuffer(m)'
    BY <2>1, <2>3, <2>4, <2>5, <2>6, <2>7, <2>8 DEF RankBuffer
  <2> QED BY <1>6, <1>8, <2>9
<1>9. ASSUME ~Broadcast, ~NextUpdate, ~Barrier, NEW m \in Rollout, Yield(m) PROVE RankBuffers'
  <2>1. /\ \/ pc[m] = "yield" /\ pc'[m] = "wait"
           \/ pc[m] = "loop" /\ pc'[m] = "done"
        /\ handed'[m] = bucket[m].next - 1
        /\ UNCHANGED <<update, bucket, cur, buf, op>>
    BY <1>9, <1>a, <1>a2, <1>b DEF Yield
  <2>2. pc[m] \notin Starting
    BY <2>1 DEF Starting
  <2>3. NextTensor' = NextTensor
    BY <1>9, <1>n, <2>2
  <2>4. Missing(m) = bucket[m].next
    BY <2>1 DEF Missing
  <2>5. Missing(m)' = bucket[m].next
    <3>1. bucket[m].next \in Nat
      BY <1>g, MetaFields, ConstantFacts
    <3> QED BY <2>1, <3>1 DEF Missing
  <2>6. Expected(m)' = Expected(m) /\ Other(m)' = Other(m)
    BY <2>1, <2>4, <2>5 DEF Expected, Other
  <2>7. op[m].at = "complete" => /\ op[m].meta.first = Missing(m)
                                 /\ Holds(m, op[m].b, op[m].meta)' /\ LastIsLast(op[m].meta)'
    BY <2>1, <1>c DEF RankBuffer, Holds, LastIsLast
  <2>8. (op[m].at # "none" => op[m].b = Other(m)) /\ Expected(m) = NextTensor
    BY <2>2, <1>c DEF RankBuffer
  <2>9. RankBuffer(m)'
    BY <2>1, <2>3, <2>4, <2>5, <2>6, <2>7, <2>8 DEF RankBuffer
  <2> QED BY <1>6, <1>9, <2>9
<1>10. ASSUME ~Broadcast, ~NextUpdate, ~Barrier, NEW m \in Rollout, Arrived(m) PROVE RankBuffers'
  <2>1. /\ pc[m] \in {"waitFirst", "wait"} /\ pc'[m] = "loop"
        /\ bucket'[m] = op[m].meta /\ op'[m] = NoOp /\ cur'[m] = Other(m)
        /\ UNCHANGED <<update, buf, handed>>
    BY <1>10, <1>a, <1>b DEF Arrived
  <2>2. op[m].at = "complete"
    <3>1. op[m].at # "none"
      BY <2>1, <1>d DEF Receiving
    <3> QED BY <1>10, <3>1 DEF Arrived, Awaited
  <2>3. /\ op[m].b = Other(m) /\ op[m].meta.first = Missing(m)
        /\ Holds(m, op[m].b, op[m].meta) /\ LastIsLast(op[m].meta)
    BY <2>2, <1>c DEF RankBuffer
  <2>4. Missing(m) = handed[m] + 1
    BY <2>1 DEF Missing
  <2>5. pc[m] \notin Starting
    BY <2>1 DEF Starting
  <2>6. NextTensor' = NextTensor
    BY <1>10, <1>n, <2>5
  <2>7. op'[m].at = "none"
    BY <2>1, NoOpType
  <2>8. Expected(m)' = Expected(m) /\ Expected(m) = NextTensor
    BY <2>1, <2>2, <2>5, <2>7, <1>c DEF Expected, Missing, RankBuffer
  <2>9. Holds(m, cur[m], bucket[m])' /\ LastIsLast(bucket[m])'
    BY <2>1, <2>3 DEF Holds, LastIsLast
  <2>10. RankBuffer(m)'
    BY <2>1, <2>3, <2>4, <2>6, <2>7, <2>8, <2>9 DEF RankBuffer
  <2> QED BY <1>6, <1>10, <2>10
<1>11. ASSUME ~Broadcast, ~NextUpdate, ~Barrier, NEW m \in Rollout, Subscribe(m) PROVE RankBuffers'
  <2>1. RankBuffer(m)'
    BY <1>11, <1>u DEF Subscribe
  <2> QED BY <1>6, <1>11, <2>1
<1>12. ASSUME ~Broadcast, ~NextUpdate, ~Barrier, UNCHANGED vars PROVE RankBuffers'
  <2> SUFFICES ASSUME NEW n \in Rollout PROVE RankBuffer(n)'
    BY DEF RankBuffers
  <2> QED BY <1>12, <1>u DEF vars
<1> QED BY <1>1, <1>2, <1>3, <1>4, <1>5, <1>7, <1>8, <1>9, <1>10, <1>11, <1>12
        DEF Next, Receiver

\* What has been handed out stays intact, and who is done has everything.
LEMMA HandedStep ==
  ASSUME TypeOK, RankBuffers, HandedIntact, [Next]_vars
  PROVE  HandedIntact'
<1>a. pc \in [Ranks -> Locations] /\ handed \in [Rollout -> 0 .. Tensors]
  BY DEF TypeOK
<1>b. \A n \in Rollout : n \in Ranks /\ n # 0
  BY ConstantFacts
<1>1. ASSUME damaged' = damaged, \A n \in Rollout : pc'[n] = "done" => pc[n] = "done",
             \A n \in Rollout : pc'[n] = "done" => handed'[n] = handed[n]
      PROVE  HandedIntact'
  BY <1>1 DEF HandedIntact
<1>2. ASSUME NEW m \in Rollout, Yield(m) PROVE HandedIntact'
  <2>1. pc[m] \in {"loop", "yield"}
    BY <1>2 DEF Yield
  <2>2. /\ bucket[m].first = handed[m] + 1 /\ Holds(m, cur[m], bucket[m])
        /\ LastIsLast(bucket[m])
    BY <2>1 DEF RankBuffers, RankBuffer
  <2>3. Intact(m)
    BY <2>2 DEF Intact, Holds
  <2>4. damaged' = {}
    BY <1>2, <2>3 DEF Yield, HandedIntact
  <2>5. pc'[m] = "done" => handed'[m] = Tensors
    <3>1. \/ pc'[m] = "wait"
          \/ bucket[m].last /\ handed'[m] = bucket[m].next - 1
      BY <1>2, <1>a, <1>b DEF Yield
    <3>2. Tensors \in Nat
      BY ConstantFacts
    <3> QED BY <2>2, <3>1, <3>2 DEF LastIsLast
  <2>6. \A n \in Rollout \ {m} : pc'[n] = pc[n] /\ handed'[n] = handed[n]
    BY <1>2, <1>a, <1>b DEF Yield
  <2> QED BY <2>4, <2>5, <2>6 DEF HandedIntact
<1>3. ASSUME NEW m \in Ranks, Join(m) PROVE HandedIntact'
  <2>1. pc'[m] = "barrier" /\ damaged' = damaged
        /\ \A n \in Rollout \ {m} : pc'[n] = pc[n] /\ handed'[n] = handed[n]
    BY <1>3, <1>a, <1>b DEF Join
  <2> QED BY <1>1, <2>1
<1>4. CASE Barrier \/ NextUpdate
  <2>1. damaged' = damaged /\ \A n \in Rollout : pc'[n] # "done"
    BY <1>4, <1>b DEF Barrier, NextUpdate
  <2> QED BY <1>1, <2>1
<1>5. ASSUME UNCHANGED <<handed, damaged>>, \A n \in Rollout : pc'[n] = pc[n] \/ pc'[n] # "done"
      PROVE  HandedIntact'
  BY <1>1, <1>5
<1>6. CASE Announce \/ Broadcast \/ Trainer \/ UNCHANGED vars
  BY <1>5, <1>6, <1>a, <1>b
     DEF Announce, Broadcast, Trainer, Fill, SendBucket, SendLast, SendDone, vars
<1>7. ASSUME NEW m \in Rollout, Subscribe(m) \/ Hear(m) \/ Receive(m) \/ Arrived(m)
      PROVE HandedIntact'
  BY <1>5, <1>7, <1>a, <1>b DEF Subscribe, Hear, Receive, Arrived
<1> QED BY <1>2, <1>3, <1>4, <1>6, <1>7 DEF Next, Receiver

\* The inductive invariant.
WeightsInv == TypeOK /\ Phases /\ Announced /\ TrainerBuffers /\ RankBuffers /\ HandedIntact

LEMMA WeightsInit == Init => WeightsInv
<1> SUFFICES ASSUME Init PROVE WeightsInv
  OBVIOUS
<1>1. TypeOK /\ Announced
  BY InitType, AnnouncedInit
<1>2. \A n \in Ranks : pc[n] = "join" /\ op[n] = NoOp
  BY DEF Init
<1>3. 0 \in Ranks /\ \A n \in Rollout : n \in Ranks /\ n # 0
  BY ConstantFacts
<1>4. Phases
  BY <1>2, <1>3, NoOpType DEF Phases, Starting, Receiving
<1>5. TrainerBuffers
  BY <1>2, <1>3, NoOpType DEF TrainerBuffers, Underway
<1>6. RankBuffers
  BY <1>2, <1>3, NoOpType DEF RankBuffers, RankBuffer, Starting
<1>7. HandedIntact
  BY <1>2, <1>3 DEF HandedIntact, Init
<1> QED BY <1>1, <1>4, <1>5, <1>6, <1>7 DEF WeightsInv

\* Every tensor is handed out in its turn from a buffer that holds its bytes of
\* this update, and a rank that returned was handed the whole model
\* (NCCLCheckpointEngine.receive_weights).
THEOREM WeightsIntact == Spec => []HandedIntact
<1>1. WeightsInv /\ [Next]_vars => WeightsInv'
  BY TypeInduction, PhasesStep, AnnouncedStep, TrainerStep, RankStep, HandedStep DEF WeightsInv
<1>2. WeightsInv => HandedIntact
  BY DEF WeightsInv
<1> QED BY <1>1, <1>2, WeightsInit, PTL DEF Spec

=============================================================================
