------------------------------ MODULE NixlProofs ------------------------------
(***************************************************************************)
(* What verl's NIXL chain guarantees for any number of ranks, any tensors  *)
(* and any bucket size: the two buffers of a rank are never written while  *)
(* they are read, and every engine is handed the tensors whole, in order   *)
(* and once, as WeightStream says.                                         *)
(***************************************************************************)
EXTENDS NixlChain, SequenceTheorems, WellFoundedInduction, TLAPS

-------------------------------------------------------------------------------
(* Constants and types.                                                       *)

\* The ranks 0 .. R, and the sizes of the tensors.
LEMMA ConstantFacts ==
  /\ R \in Nat /\ R >= 1 /\ TrainerRanks \in Nat /\ TrainerRanks >= 1 /\ BucketSize \in Nat
  /\ 0 \in Ranks /\ 0 \notin Rollout /\ R \in Rollout /\ 1 \in Rollout /\ None \notin Ranks
  /\ \A n \in Rollout : n \in Ranks /\ n # 0 /\ n - 1 \in Ranks /\ n - 1 \in 0 .. R - 1
  /\ \A n \in Ranks : n = 0 \/ n \in Rollout
  /\ \A n \in 0 .. R - 1 : n \in Ranks /\ n # R /\ n + 1 \in Rollout
  /\ Tensors \in Nat /\ \A i \in 1 .. Tensors : Size[i] \in Nat /\ Size[i] >= 1
<1>1. Size \in Seq(Nat \ {0})
  BY ChainAssumption
<1>2. Tensors \in Nat /\ \A i \in 1 .. Tensors : Size[i] \in Nat \ {0}
  BY <1>1, ElementOfSeq, LenProperties DEF Tensors
<1> QED BY <1>2, ChainAssumption DEF Ranks, Rollout, None

\* The records of the model: items of a bucket, messages with a bucket's metadata,
\* remote reads, device copies, and the two buffers of a rank.
Items == [name : 1 .. Tensors, offset : Nat]
Buckets == [items : Seq(Items), last : BOOLEAN]
Messages == [bucket : Buckets, src : 1 .. 2, key : Nat]
Reads == [src : 1 .. 2, key : Nat, left : SUBSET Bytes]
Copies == [buf : 1 .. 2, name : 1 .. Tensors, offset : Nat]
Buffers == [1 .. 2 -> [Bytes -> Nat]]

\* Type correctness: where the ranks are and who their neighbours are, ...
CoreType ==
  /\ pc \in [Ranks -> {"prepare", "rejected", "fill", "sent", "done", "failed", "first", "waitFirst",
                       "publish", "more", "yield"}]
  /\ prev \in [Ranks -> Int] /\ next \in [Ranks -> Int]
  /\ cursor \in 1 .. Tensors + 1
  /\ cur \in [Ranks -> 1 .. 2]

\* ... the buffers, their metadata and the device copies, ...
DataType ==
  /\ buf \in [Ranks -> Buffers]
  /\ bucket \in [Ranks -> Buckets] /\ coming \in [Ranks -> Buckets]
  /\ copies \in [Ranks -> Seq(Copies)]
  /\ got \in [Ranks -> Seq(Nat)]
  /\ yielded \in [Ranks -> Nat]

\* ... and what connects a rank to its neighbours.
LinkType ==
  /\ inbox \in [Ranks -> Seq(Messages)]
  /\ notes \in [Ranks -> Seq(Nat)]
  /\ open \in [Ranks -> Nat] /\ published \in [Ranks -> Nat]
  /\ xfer \in [Ranks -> Reads]
TypeOK == CoreType /\ DataType /\ LinkType

\* An agent's metadata is its position.
LEMMA Agents ==
  /\ \A i \in 1 .. TrainerRanks + R : Metadata[i] = i
  /\ Metadata \in Seq(Nat) /\ Len(Metadata) = TrainerRanks + R
BY ConstantFacts DEF Metadata

\* A contiguous part of the metadata.
LEMMA Cut ==
  ASSUME NEW a \in Nat, NEW b \in Nat, a >= 1, b <= TrainerRanks + R
  PROVE  LET s == SubSeq(Metadata, a, b) IN
         /\ s \in Seq(Nat) /\ Len(s) = IF a <= b THEN b - a + 1 ELSE 0
         /\ \A i \in 1 .. Len(s) : s[i] = a + i - 1
<1> DEFINE s == SubSeq(Metadata, a, b)
<1>1. /\ Metadata \in Seq(Nat) /\ Len(Metadata) = TrainerRanks + R /\ TrainerRanks + R \in Nat
      /\ \A i \in 1 .. TrainerRanks + R : Metadata[i] = i
  BY Agents, ConstantFacts
<1>2. CASE a <= b
  <2>1. s \in Seq(Nat) /\ Len(s) = b - a + 1 /\ \A i \in 1 .. b - a + 1 : s[i] = Metadata[a + i - 1]
    BY <1>1, <1>2, SubSeqProperties
  <2>2. \A i \in 1 .. b - a + 1 : a + i - 1 \in 1 .. TrainerRanks + R
    BY <1>1, <1>2
  <2> QED BY <1>1, <1>2, <2>1, <2>2
<1>3. CASE ~(a <= b)
  <2>1. s = << >>
    BY <1>1, <1>3, SubSeqProperties
  <2> QED BY <1>3, <2>1
<1> QED BY <1>2, <1>3

\* What build_process_group hands out: with one rollout rank the slices have the
\* wrong length, with more every rank gets the ranks before and after it.
LEMMA Neighbours ==
  /\ R = 1 => Len(NextAgents) # R
  /\ R >= 2 => /\ \A n \in Rollout : RankOf(PrevAgents[n]) = n - 1
               /\ \A n \in Rollout : RankOf(NextAgents[n]) = IF n = R THEN None ELSE n + 1
               /\ RankOf(From(Metadata, -R)[1]) = 1
<1> DEFINE T == TrainerRanks + R
           p == SubSeq(Metadata, T - R + 1, T - 1)
           q == SubSeq(Metadata, T - R + 2, T)
           f == SubSeq(Metadata, T - R + 1, T)
           w == SubSeq(Metadata, 1, T)
<1>1. /\ R \in Nat /\ R >= 1 /\ T \in Nat /\ T >= R + 1 /\ Len(Metadata) = T /\ TrainerRanks = T - R
      /\ TrainerRanks \in Nat
  BY ConstantFacts, Agents
<1>2. /\ p \in Seq(Nat) /\ Len(p) = R - 1 /\ \A i \in 1 .. R - 1 : p[i] = T - R + i
  <2>1. T - R + 1 \in Nat /\ T - R + 1 >= 1 /\ T - 1 \in Nat /\ T - 1 <= T
    BY <1>1
  <2>2. p \in Seq(Nat) /\ Len(p) = (IF T - R + 1 <= T - 1 THEN T - 1 - (T - R + 1) + 1 ELSE 0)
        /\ \A i \in 1 .. Len(p) : p[i] = T - R + 1 + i - 1
    BY <2>1, Cut
  <2>3. Len(p) = R - 1
    BY <1>1, <2>2
  <2> HIDE DEF p
  <2> QED BY <1>1, <2>2, <2>3
<1>3. /\ f \in Seq(Nat) /\ Len(f) = R /\ \A i \in 1 .. R : f[i] = T - R + i
  <2>1. T - R + 1 \in Nat /\ T - R + 1 >= 1 /\ T \in Nat /\ T <= T
    BY <1>1
  <2>2. f \in Seq(Nat) /\ Len(f) = (IF T - R + 1 <= T THEN T - (T - R + 1) + 1 ELSE 0)
        /\ \A i \in 1 .. Len(f) : f[i] = T - R + 1 + i - 1
    BY <2>1, Cut
  <2>3. Len(f) = R
    BY <1>1, <2>2
  <2> HIDE DEF f
  <2> QED BY <1>1, <2>2, <2>3
<1>4. R >= 2 => /\ q \in Seq(Nat) /\ Len(q) = R - 1 /\ \A i \in 1 .. R - 1 : q[i] = T - R + 1 + i
  <2> SUFFICES ASSUME R >= 2 PROVE q \in Seq(Nat) /\ Len(q) = R - 1 /\ \A i \in 1 .. R - 1 : q[i] = T - R + 1 + i
    OBVIOUS
  <2>1. T - R + 2 \in Nat /\ T - R + 2 >= 1 /\ T \in Nat /\ T <= T
    BY <1>1
  <2>2. q \in Seq(Nat) /\ Len(q) = (IF T - R + 2 <= T THEN T - (T - R + 2) + 1 ELSE 0)
        /\ \A i \in 1 .. Len(q) : q[i] = T - R + 2 + i - 1
    BY <2>1, Cut
  <2>3. Len(q) = R - 1
    BY <1>1, <2>2
  <2> HIDE DEF q
  <2> QED BY <1>1, <2>2, <2>3
<1>5. /\ w \in Seq(Nat) /\ Len(w) = T
  <2>1. 1 \in Nat /\ 1 >= 1 /\ T \in Nat /\ T <= T /\ 1 <= T
    BY <1>1
  <2>2. w \in Seq(Nat) /\ Len(w) = (IF 1 <= T THEN T - 1 + 1 ELSE 0)
    BY <2>1, Cut
  <2> HIDE DEF w
  <2> QED BY <2>1, <2>2
<1>6. PrevAgents = << Metadata[1] >> \o p /\ Metadata[1] = 1
  <2>1. Slice(Metadata, -R, -1) = SubSeq(Metadata, T + (-R) + 1, T + (-1))
    BY <1>1 DEF Slice
  <2>2. T + (-R) + 1 = T - R + 1 /\ T + (-1) = T - 1
    BY <1>1
  <2>3. Metadata[1] = 1
    BY <1>1, Agents
  <2> QED BY <2>1, <2>2, <2>3 DEF PrevAgents
<1>7. From(Metadata, -R) = f
  <2>1. -R < 0 /\ T + (-R) + 1 = T - R + 1
    BY <1>1
  <2> QED BY <1>1, <2>1 DEF From
<1>8. R >= 2 => NextAgents = q \o << None >>
  <2>1. R >= 2 => -R + 1 < 0 /\ T + (-R + 1) + 1 = T - R + 2
    BY <1>1
  <2> QED BY <1>1, <2>1 DEF From, NextAgents
<1>9. R = 1 => NextAgents = w \o << None >>
  <2>1. R = 1 => ~(-R + 1 < 0) /\ -R + 1 + 1 = 1
    BY <1>1
  <2> QED BY <1>1, <2>1 DEF From, NextAgents
<1> HIDE DEF p, q, f, w, T
<1>10. R = 1 => Len(NextAgents) # R
  <2> SUFFICES ASSUME R = 1 PROVE Len(NextAgents) # R
    OBVIOUS
  <2>1. Len(NextAgents) = Len(w) + 1
    BY <1>5, <1>9, ConcatProperties DEF None
  <2> QED BY <1>1, <1>5, <2>1
<1>11. ASSUME R >= 2, NEW n \in Rollout PROVE RankOf(PrevAgents[n]) = n - 1
  <2>1. PrevAgents[n] = IF n = 1 THEN 1 ELSE p[n - 1]
    <3>1. << 1 >> \in Seq(Nat) /\ Len(<< 1 >>) = 1 /\ << 1 >>[1] = 1
      OBVIOUS
    <3>2. n \in Nat /\ n >= 1 /\ n <= R
      BY <1>1 DEF Rollout
    <3>3. \A i \in 1 .. 1 + Len(p) : (<< 1 >> \o p)[i] = IF i <= 1 THEN << 1 >>[i] ELSE p[i - 1]
      BY <1>2, <3>1, ConcatProperties
    <3>4. n \in 1 .. 1 + Len(p)
      BY <1>1, <1>2, <3>2
    <3> QED BY <1>6, <3>1, <3>2, <3>3, <3>4
  <2>2. n \in Nat /\ n >= 1 /\ n <= R
    BY <1>1 DEF Rollout
  <2>3. CASE n = 1
    BY <2>1, <2>3 DEF RankOf, None
  <2>4. CASE n # 1
    <3>1. n - 1 \in 1 .. R - 1
      BY <1>1, <2>2, <2>4
    <3>2. PrevAgents[n] = T - R + (n - 1)
      BY <1>2, <2>1, <2>4, <3>1
    <3>3. PrevAgents[n] # None /\ PrevAgents[n] # 1
      BY <1>1, <2>2, <2>4, <3>2 DEF None
    <3>4. PrevAgents[n] - TrainerRanks = n - 1
      BY <1>1, <2>2, <3>2
    <3> QED BY <3>3, <3>4 DEF RankOf
  <2> QED BY <2>3, <2>4
<1>12. ASSUME R >= 2, NEW n \in Rollout PROVE RankOf(NextAgents[n]) = IF n = R THEN None ELSE n + 1
  <2>1. n \in Nat /\ n >= 1 /\ n <= R
    BY <1>1 DEF Rollout
  <2>2. NextAgents[n] = IF n <= R - 1 THEN q[n] ELSE None
    <3>1. << None >> \in Seq(Int) /\ Len(<< None >>) = 1 /\ << None >>[1] = None
      BY DEF None
    <3>2. q \in Seq(Int) /\ Len(q) = R - 1
      BY <1>4, <1>12
    <3>3. \A i \in 1 .. Len(q) + 1 : (q \o << None >>)[i] = IF i <= Len(q) THEN q[i] ELSE << None >>[i - Len(q)]
      BY <3>1, <3>2, ConcatProperties
    <3>4. n \in 1 .. Len(q) + 1 /\ (~(n <= R - 1) => n - Len(q) = 1)
      BY <1>1, <2>1, <3>2
    <3> QED BY <1>8, <1>12, <3>1, <3>2, <3>3, <3>4
  <2>3. CASE n = R
    BY <1>1, <2>2, <2>3 DEF RankOf
  <2>4. CASE n # R
    <3>1. n \in 1 .. R - 1
      BY <1>1, <2>1, <2>4
    <3>2. NextAgents[n] = T - R + 1 + n
      BY <1>4, <1>12, <2>2, <3>1
    <3>3. NextAgents[n] # None /\ NextAgents[n] # 1
      BY <1>1, <2>1, <3>2 DEF None
    <3>4. NextAgents[n] - TrainerRanks = n + 1
      BY <1>1, <2>1, <3>2
    <3> QED BY <2>4, <3>3, <3>4 DEF RankOf
  <2> QED BY <2>3, <2>4
<1>13. RankOf(From(Metadata, -R)[1]) = 1
  <2>1. f[1] = T - R + 1
    BY <1>1, <1>3
  <2>2. f[1] # None /\ f[1] # 1 /\ f[1] - TrainerRanks = 1
    BY <1>1, <2>1, ConstantFacts DEF None
  <2> QED BY <1>7, <2>2 DEF RankOf
<1> QED BY <1>10, <1>11, <1>12, <1>13

-------------------------------------------------------------------------------
(* The types are kept.                                                        *)

\* A remote read is in progress.
Reading(n) == xfer[n].left # {}

\* init_process_group has run.
Joined == pc[0] \notin {"prepare", "rejected"}

\* Where a rank may have a readable operation it has not waited for.
OpenAt == \A n \in Ranks : open[n] # 0 => pc[n] \in {"fill", "sent", "failed", "more", "yield"}

\* The ranks start with empty buffers.
LEMMA TypeInit == Init => TypeOK
<1> SUFFICES ASSUME Init PROVE TypeOK
  OBVIOUS
<1>1. Empty \in Buckets
  BY DEF Empty, Buckets
<1>2. NoRead \in Reads
  BY DEF NoRead, Reads
<1>3. [b \in 1 .. 2 |-> [k \in Bytes |-> 0]] \in Buffers
  BY DEF Buffers
<1>4. CoreType
  BY ConstantFacts DEF Init, CoreType, None
<1>5. DataType
  BY <1>1, <1>3 DEF Init, DataType
<1>6. LinkType
  BY <1>2 DEF Init, LinkType
<1> QED BY <1>4, <1>5, <1>6 DEF TypeOK

\* Waiting for a notification takes one.
LEMMA NotesType ==
  ASSUME TypeOK, NEW n \in Ranks, open[n] # 0 => notes[n] # << >>,
         notes' = IF open[n] # 0 THEN [notes EXCEPT ![n] = Tail(@)] ELSE notes
  PROVE  notes' \in [Ranks -> Seq(Nat)]
<1>1. notes[n] \in Seq(Nat)
  BY DEF TypeOK, LinkType
<1>2. open[n] # 0 => Tail(notes[n]) \in Seq(Nat)
  BY <1>1, HeadTailProperties
<1> DEFINE t == Tail(notes[n])
<1>3. open[n] # 0 => t \in Seq(Nat)
  BY <1>2
<1> HIDE DEF t
<1>4. notes' = IF open[n] # 0 THEN [notes EXCEPT ![n] = t] ELSE notes
  BY DEF t
<1> QED BY <1>3, <1>4 DEF TypeOK, LinkType

\* Publishing a bucket sends one message.
LEMMA RepublishType ==
  ASSUME TypeOK, NEW n \in Ranks, NEW b \in Buckets, open[n] # 0 => notes[n] # << >>, Republish(n, b)
  PROVE  /\ notes' \in [Ranks -> Seq(Nat)] /\ open' \in [Ranks -> Nat] /\ published' \in [Ranks -> Nat]
         /\ inbox' \in [Ranks -> Seq(Messages)]
<1>1. notes' \in [Ranks -> Seq(Nat)]
  BY NotesType DEF Republish
<1>2. CASE next[n] = None
  BY <1>1, <1>2 DEF Republish, TypeOK, LinkType
<1>3. CASE next[n] # None
  <2>1. published' = [published EXCEPT ![n] = published[n] + 1]
    BY <1>3 DEF Republish
  <2>2. published \in [Ranks -> Nat] /\ published[n] + 1 \in Nat
    BY DEF TypeOK, LinkType
  <2>3. published' \in [Ranks -> Nat]
    BY <2>1, <2>2
  <2>4. published'[n] \in Nat
    BY <2>3
  <2>5. open' \in [Ranks -> Nat]
    BY <1>3, <2>4 DEF Republish, TypeOK, LinkType
  <2> DEFINE m == [bucket |-> b, src |-> cur[n], key |-> published'[n]]
  <2>6. m \in Messages
    BY <2>4 DEF Messages, TypeOK, CoreType
  <2>7. inbox' = [inbox EXCEPT ![next[n]] = Append(@, m)]
    BY <1>3 DEF Republish
  <2> HIDE DEF m
  <2>8. \A k \in Ranks : Append(inbox[k], m) \in Seq(Messages)
    BY <2>6, AppendProperties DEF TypeOK, LinkType
  <2> DEFINE a(k) == Append(inbox[k], m)
  <2>9. inbox' = [inbox EXCEPT ![next[n]] = a(next[n])] /\ \A k \in Ranks : a(k) \in Seq(Messages)
    BY <2>7, <2>8
  <2> HIDE DEF a
  <2>10. inbox' \in [Ranks -> Seq(Messages)]
    BY <2>9 DEF TypeOK, LinkType
  <2> QED BY <1>1, <2>3, <2>5, <2>10
<1> QED BY <1>2, <1>3

\* Issuing a device copy.
LEMMA IssueType ==
  ASSUME TypeOK, NEW n \in Ranks, NEW i \in 1 .. Tensors, NEW o \in Nat, Issue(n, i, o)
  PROVE  copies' \in [Ranks -> Seq(Copies)]
<1> DEFINE c == [buf |-> cur[n], name |-> i, offset |-> o]
           a == Append(copies[n], c)
<1>1. c \in Copies
  BY DEF Copies, TypeOK, CoreType
<1> HIDE DEF c
<1>2. a \in Seq(Copies)
  BY <1>1, AppendProperties DEF TypeOK, DataType
<1>3. copies' = [copies EXCEPT ![n] = a]
  BY DEF Issue, c
<1> HIDE DEF a
<1> QED BY <1>2, <1>3 DEF TypeOK, DataType

\* There are two buffers.
LEMMA SwapType ==
  ASSUME TypeOK, NEW n \in Ranks, Swap(n)
  PROVE  cur' \in [Ranks -> 1 .. 2]
<1>1. 3 - cur[n] \in 1 .. 2
  BY DEF TypeOK, CoreType
<1> QED BY <1>1 DEF Swap, TypeOK, CoreType

\* The items of a bucket.
LEMMA ItemFacts ==
  ASSUME NEW b \in Buckets
  PROVE  /\ b.items \in Seq(Items) /\ b.last \in BOOLEAN /\ Len(b.items) \in Nat
         /\ \A i \in 1 .. Len(b.items) : /\ b.items[i] \in Items
                                         /\ b.items[i].name \in 1 .. Tensors /\ b.items[i].offset \in Nat
                                         /\ Size[b.items[i].name] \in Nat
<1>1. b.items \in Seq(Items) /\ b.last \in BOOLEAN
  BY DEF Buckets
<1>2. Len(b.items) \in Nat /\ \A i \in 1 .. Len(b.items) : b.items[i] \in Items
  BY <1>1, ElementOfSeq, LenProperties
<1> QED BY <1>1, <1>2, ConstantFacts DEF Items

\* The trainer's offset is where the last item of its bucket ends.
LEMMA OffsetType ==
  ASSUME TypeOK
  PROVE  /\ Offset \in Nat
         /\ bucket[0].items = << >> => Offset = 0
         /\ bucket[0].items # << >> =>
              LET it == bucket[0].items[Len(bucket[0].items)]
              IN  Offset = it.offset + Size[it.name] /\ Len(bucket[0].items) >= 1
<1> DEFINE s == bucket[0].items
<1>1. bucket[0] \in Buckets
  BY ConstantFacts DEF TypeOK, DataType
<1>2. CASE s = << >>
  BY <1>2 DEF Offset
<1>3. CASE s # << >>
  <2>1. s \in Seq(Items) /\ Len(s) >= 1 /\ Len(s) \in Nat
    BY <1>1, <1>3, ItemFacts, EmptySeq
  <2>2. Last(s) = s[Len(s)]
    BY DEF Last
  <2>3. s[Len(s)].offset \in Nat /\ Size[s[Len(s)].name] \in Nat
    <3>1. \A i \in 1 .. Len(s) : s[i].offset \in Nat /\ Size[s[i].name] \in Nat
      BY <1>1, ItemFacts
    <3> HIDE DEF s
    <3> QED BY <2>1, <3>1
  <2>4. Offset = s[Len(s)].offset + Size[s[Len(s)].name]
    BY <1>3, <2>2 DEF Offset
  <2>5. Offset \in Nat
    <3> HIDE DEF s
    <3> QED BY <2>3, <2>4
  <2> QED BY <1>3, <2>1, <2>4, <2>5
<1> QED BY <1>2, <1>3

\* A sequence is its head and its tail.
LEMMA TailType ==
  ASSUME NEW S, NEW s \in Seq(S), s # << >>
  PROVE  /\ Head(s) \in S /\ Tail(s) \in Seq(S) /\ Len(Tail(s)) = Len(s) - 1 /\ Head(s) = s[1]
         /\ Len(s) \in Nat /\ Len(s) >= 1
         /\ \A i \in 1 .. Len(Tail(s)) : Tail(s)[i] = s[i + 1]
BY HeadTailProperties, EmptySeq, LenProperties

\* The places a rank can be in.
PcSet == {"prepare", "rejected", "fill", "sent", "done", "failed", "first", "waitFirst", "publish", "more", "yield"}

\* Every step keeps the types.
LEMMA BuildGroupType == TypeOK /\ BuildGroup => TypeOK'
<1> SUFFICES ASSUME TypeOK, BuildGroup PROVE TypeOK'
  OBVIOUS
<1>1. DataType' /\ LinkType'
  BY DEF BuildGroup, data, link, TypeOK, DataType, LinkType
<1>2. CASE Len(PrevAgents) = R /\ Len(NextAgents) = R
  <2>1. R >= 2
    BY <1>2, Neighbours, ConstantFacts
  <2>2. /\ \A n \in Rollout : RankOf(PrevAgents[n]) = n - 1
        /\ \A n \in Rollout : RankOf(NextAgents[n]) = IF n = R THEN None ELSE n + 1
        /\ RankOf(From(Metadata, -R)[1]) = 1
    BY <2>1, Neighbours
  <2>3. prev' = [n \in Ranks |-> IF n = 0 THEN None ELSE RankOf(PrevAgents[n])]
    BY <1>2 DEF BuildGroup
  <2>4. \A n \in Ranks : n # 0 => RankOf(PrevAgents[n]) \in Int
    BY <2>2, ConstantFacts DEF Rollout
  <2>5. prev' \in [Ranks -> Int]
    BY <2>3, <2>4 DEF None
  <2>6. next' = [n \in Ranks |-> RankOf(IF n = 0 THEN From(Metadata, -R)[1] ELSE NextAgents[n])]
    BY <1>2 DEF BuildGroup
  <2>7. \A n \in Ranks : RankOf(IF n = 0 THEN From(Metadata, -R)[1] ELSE NextAgents[n]) \in Int
    BY <2>2, ConstantFacts DEF Rollout, None
  <2>8. next' \in [Ranks -> Int]
    BY <2>6, <2>7
  <2>9. pc' \in [Ranks -> PcSet] /\ cursor' = cursor /\ cur' = cur
    BY <1>2 DEF BuildGroup, PcSet
  <2> QED BY <1>1, <2>5, <2>8, <2>9 DEF TypeOK, CoreType, PcSet
<1>3. CASE ~(Len(PrevAgents) = R /\ Len(NextAgents) = R)
  <2>1. pc' = [n \in Ranks |-> "rejected"] /\ prev' = prev /\ next' = next /\ cursor' = cursor /\ cur' = cur
    BY <1>3 DEF BuildGroup
  <2> QED BY <1>1, <2>1 DEF TypeOK, CoreType
<1> QED BY <1>2, <1>3

LEMMA FillType == TypeOK /\ Fill => TypeOK'
<1> SUFFICES ASSUME TypeOK, Fill PROVE TypeOK'
  OBVIOUS
<1>1. 0 \in Ranks /\ cursor \in 1 .. Tensors /\ Offset \in Nat /\ Tensors \in Nat
  <2>1. Tensors \in Nat /\ 0 \in Ranks
    BY ConstantFacts
  <2>2. cursor \in 1 .. Tensors + 1 /\ cursor <= Tensors
    BY DEF Fill, TypeOK, CoreType
  <2>3. Offset \in Nat
    BY OffsetType
  <2> QED BY <2>1, <2>2, <2>3
<1>2. copies' \in [Ranks -> Seq(Copies)]
  BY <1>1, IssueType DEF Fill
<1> DEFINE it == [name |-> cursor, offset |-> Offset]
           a == Append(bucket[0].items, it)
<1>3. it \in Items
  BY <1>1 DEF Items
<1> HIDE DEF it
<1>4. bucket[0] \in Buckets
  BY <1>1 DEF TypeOK, DataType
<1>5. a \in Seq(Items)
  BY <1>3, <1>4, ItemFacts, AppendProperties
<1>6. bucket' = [bucket EXCEPT ![0].items = a]
  BY DEF Fill, it
<1> HIDE DEF a
<1>7. [bucket[0] EXCEPT !.items = a] \in Buckets
  BY <1>4, <1>5 DEF Buckets
<1>8. bucket' = [bucket EXCEPT ![0] = [bucket[0] EXCEPT !.items = a]]
  BY <1>6
<1>9. bucket' \in [Ranks -> Buckets]
  BY <1>7, <1>8 DEF TypeOK, DataType
<1>10. cursor' \in 1 .. Tensors + 1
  BY <1>1 DEF Fill
<1>11. CoreType'
  BY <1>10 DEF Fill, TypeOK, CoreType
<1>12. DataType'
  BY <1>2, <1>9 DEF Fill, TypeOK, DataType
<1>13. LinkType'
  BY DEF Fill, link, TypeOK, LinkType
<1> QED BY <1>11, <1>12, <1>13 DEF TypeOK

LEMMA SendType == TypeOK /\ (SendBucket \/ SendLast \/ SendDone) => TypeOK'
<1> SUFFICES ASSUME TypeOK, SendBucket \/ SendLast \/ SendDone PROVE TypeOK'
  OBVIOUS
<1>1. 0 \in Ranks /\ bucket[0] \in Buckets /\ Empty \in Buckets
  BY ConstantFacts DEF TypeOK, DataType, Empty, Buckets
<1>2. CASE SendBucket
  <2>1. open[0] # 0 => notes[0] # << >>
    BY <1>2 DEF SendBucket, ReaderDone
  <2>2. LinkType'
    BY <1>1, <1>2, <2>1, RepublishType DEF SendBucket, TypeOK, LinkType
  <2>3. cur' \in [Ranks -> 1 .. 2]
    BY <1>1, <1>2, SwapType DEF SendBucket
  <2>4. CoreType'
    BY <1>2, <2>3 DEF SendBucket, TypeOK, CoreType
  <2>5. DataType'
    BY <1>1, <1>2 DEF SendBucket, TypeOK, DataType
  <2> QED BY <2>2, <2>4, <2>5 DEF TypeOK
<1>3. CASE SendLast
  <2>1. open[0] # 0 => notes[0] # << >>
    BY <1>3 DEF SendLast, ReaderDone
  <2>2. [bucket[0] EXCEPT !.last = TRUE] \in Buckets
    BY <1>1 DEF Buckets
  <2>3. LinkType'
    BY <1>1, <1>3, <2>1, <2>2, RepublishType DEF SendLast, TypeOK, LinkType
  <2>4. CoreType'
    BY <1>3 DEF SendLast, TypeOK, CoreType
  <2>5. DataType'
    BY <1>3 DEF SendLast, data, TypeOK, DataType
  <2> QED BY <2>3, <2>4, <2>5 DEF TypeOK
<1>4. CASE SendDone
  <2>1. open[0] # 0 => notes[0] # << >>
    BY <1>4 DEF SendDone, Await, ReaderDone
  <2>2. notes' \in [Ranks -> Seq(Nat)]
    BY <1>1, <1>4, <2>1, NotesType DEF SendDone, Await
  <2>3. LinkType'
    BY <1>4, <2>2 DEF SendDone, Await, TypeOK, LinkType
  <2>4. CoreType'
    BY <1>4 DEF SendDone, TypeOK, CoreType
  <2>5. DataType'
    BY <1>4 DEF SendDone, data, TypeOK, DataType
  <2> QED BY <2>3, <2>4, <2>5 DEF TypeOK
<1> QED BY <1>2, <1>3, <1>4

LEMMA BeginReadType == ASSUME TypeOK, NEW n \in Rollout, BeginRead(n) PROVE TypeOK'
<1>1. n \in Ranks
  BY ConstantFacts
<1> DEFINE m == Head(inbox[n])
           t == Tail(inbox[n])
           x == [src |-> m.src, key |-> m.key, left |-> Bytes]
<1>2. m \in Messages /\ t \in Seq(Messages)
  BY <1>1, TailType DEF BeginRead, TypeOK, LinkType
<1>3. coming' = [coming EXCEPT ![n] = m.bucket] /\ xfer' = [xfer EXCEPT ![n] = x] /\ inbox' = [inbox EXCEPT ![n] = t]
  BY DEF BeginRead
<1> HIDE DEF m, t
<1>4. m.bucket \in Buckets /\ x \in Reads
  BY <1>2 DEF Messages, Reads
<1> HIDE DEF x
<1>5. CoreType'
  BY DEF BeginRead, TypeOK, CoreType
<1>6. DataType'
  BY <1>3, <1>4 DEF BeginRead, TypeOK, DataType
<1>7. LinkType'
  <2>1. notes' = notes /\ open' = open /\ published' = published
    BY DEF BeginRead
  <2>2. inbox' \in [Ranks -> Seq(Messages)] /\ xfer' \in [Ranks -> Reads]
    BY <1>2, <1>3, <1>4 DEF TypeOK, LinkType
  <2> QED BY <2>1, <2>2 DEF TypeOK, LinkType
<1> QED BY <1>5, <1>6, <1>7 DEF TypeOK

LEMMA FirstReadType == ASSUME TypeOK, NEW n \in Rollout, FirstRead(n) PROVE TypeOK'
<1>1. n \in Ranks /\ coming[n] \in Buckets
  BY ConstantFacts DEF TypeOK, DataType
<1>2. cur' \in [Ranks -> 1 .. 2]
  BY <1>1, SwapType DEF FirstRead
<1>3. CoreType'
  BY <1>2 DEF FirstRead, TypeOK, CoreType
<1>4. DataType'
  BY <1>1 DEF FirstRead, TypeOK, DataType
<1>5. LinkType'
  BY DEF FirstRead, link, TypeOK, LinkType
<1> QED BY <1>3, <1>4, <1>5 DEF TypeOK

LEMMA PublishType == ASSUME TypeOK, OpenAt, NEW n \in Rollout, Publish(n) PROVE TypeOK'
<1>1. n \in Ranks /\ bucket[n] \in Buckets
  BY ConstantFacts DEF TypeOK, DataType
<1>2. open[n] = 0
  BY <1>1 DEF OpenAt, Publish
<1>3. LinkType'
  BY <1>1, <1>2, RepublishType DEF Publish, TypeOK, LinkType
<1>4. CoreType'
  BY DEF Publish, TypeOK, CoreType
<1>5. DataType'
  BY <1>1 DEF Publish, TypeOK, DataType
<1> QED BY <1>3, <1>4, <1>5 DEF TypeOK

LEMMA YieldType == ASSUME TypeOK, NEW n \in Rollout, Yield(n) PROVE TypeOK'
<1> DEFINE i == yielded[n] + 1
           it == bucket[n].items[i]
<1>1. n \in Ranks /\ bucket[n] \in Buckets /\ yielded[n] \in Nat
  BY ConstantFacts DEF TypeOK, DataType
<1>2. i \in 1 .. Len(bucket[n].items)
  BY <1>1, ItemFacts DEF Yield
<1>3. Issue(n, it.name, it.offset)
  BY DEF Yield
<1>4. i \in Nat
  BY <1>1
<1>5. yielded' = [yielded EXCEPT ![n] = i]
  BY DEF Yield
<1> HIDE DEF i
<1>6. it.name \in 1 .. Tensors /\ it.offset \in Nat
  BY <1>1, <1>2, ItemFacts
<1> HIDE DEF it
<1>7. copies' \in [Ranks -> Seq(Copies)]
  BY <1>1, <1>3, <1>6, IssueType
<1>8. CoreType'
  BY DEF Yield, core, TypeOK, CoreType
<1>9. yielded' \in [Ranks -> Nat]
  BY <1>4, <1>5 DEF TypeOK, DataType
<1>10. DataType'
  BY <1>7, <1>9 DEF Yield, TypeOK, DataType
<1>11. LinkType'
  BY DEF Yield, link, TypeOK, LinkType
<1> QED BY <1>8, <1>10, <1>11 DEF TypeOK

LEMMA EndType == ASSUME TypeOK, NEW n \in Rollout, EndBucket(n) \/ EndStream(n) PROVE TypeOK'
<1>1. n \in Ranks /\ coming[n] \in Buckets
  BY ConstantFacts DEF TypeOK, DataType
<1>2. open[n] # 0 => notes[n] # << >>
  BY DEF EndBucket, EndStream, Await, ReaderDone
<1>3. notes' \in [Ranks -> Seq(Nat)]
  BY <1>1, <1>2, NotesType DEF EndBucket, EndStream, Await
<1>4. LinkType'
  <2>1. inbox' = inbox /\ published' = published /\ xfer' = xfer
    BY DEF EndBucket, EndStream
  <2>2. open' = [open EXCEPT ![n] = 0]
    BY DEF EndBucket, EndStream, Await
  <2> QED BY <1>3, <2>1, <2>2 DEF TypeOK, LinkType
<1>5. CASE EndBucket(n)
  <2>1. cur' \in [Ranks -> 1 .. 2]
    BY <1>1, <1>5, SwapType DEF EndBucket
  <2>2. CoreType'
    BY <1>5, <2>1 DEF EndBucket, TypeOK, CoreType
  <2>3. DataType'
    BY <1>1, <1>5 DEF EndBucket, TypeOK, DataType
  <2> QED BY <1>4, <2>2, <2>3 DEF TypeOK
<1>6. CASE EndStream(n)
  <2>1. CoreType'
    BY <1>6 DEF EndStream, TypeOK, CoreType
  <2>2. DataType'
    BY <1>6 DEF EndStream, data, TypeOK, DataType
  <2> QED BY <1>4, <2>1, <2>2 DEF TypeOK
<1> QED BY <1>5, <1>6

\* A set of natural numbers has a least one.
LEMMA LeastNatural ==
  ASSUME NEW S, S \subseteq Nat, S # {}
  PROVE  \E k \in S : \A j \in S : k <= j
<1> DEFINE Less == OpToRel(<, Nat)
<1>1. IsWellFoundedOn(Less, Nat)
  BY NatLessThanWellFounded
<1>2. \A i, j \in Nat : << i, j >> \in Less <=> i < j
  BY DEF OpToRel
<1> HIDE DEF Less
<1>3. PICK k \in S : \A j \in S : ~(<< j, k >> \in Less)
  BY <1>1, WFMin
<1>4. ASSUME NEW j \in S PROVE k <= j
  <2>1. j \in Nat /\ k \in Nat
    OBVIOUS
  <2>2. ~(j < k)
    BY <1>2, <1>3, <2>1
  <2> QED BY <2>1, <2>2
<1> QED BY <1>4

\* The byte the transfer moves next.
LEMMA NextByte ==
  ASSUME TypeOK, NEW n \in Ranks, Reading(n)
  PROVE  LET k == CHOOSE k \in xfer[n].left : \A j \in xfer[n].left : k <= j
         IN  k \in xfer[n].left /\ k \in Bytes
<1> DEFINE S == xfer[n].left
<1>1. S \subseteq Bytes /\ S # {}
  BY DEF TypeOK, LinkType, Reads, Reading
<1>2. S \subseteq Nat
  BY <1>1, ConstantFacts DEF Bytes
<1>3. \E k \in S : \A j \in S : k <= j
  BY <1>1, <1>2, LeastNatural
<1> QED BY <1>1, <1>3

\* The bytes of the buffers.
LEMMA ByteType ==
  ASSUME TypeOK, NEW n \in Ranks, NEW b \in 1 .. 2
  PROVE  /\ buf[n] \in Buffers /\ buf[n][b] \in [Bytes -> Nat]
         /\ \A k \in Bytes : buf[n][b][k] \in Nat
<1>1. buf[n] \in Buffers
  BY DEF TypeOK, DataType
<1>2. buf[n][b] \in [Bytes -> Nat]
  BY <1>1 DEF Buffers
<1> QED BY <1>1, <1>2

\* A byte moves between the buffers of neighbours.
LEMMA MoveByteType ==
  ASSUME TypeOK, NEW n \in Ranks, prev[n] \in Ranks, MoveByte(n)
  PROVE  TypeOK'
<1> DEFINE k == CHOOSE k \in xfer[n].left : \A j \in xfer[n].left : k <= j
           d == 3 - cur[n]
           y == buf[prev[n]][xfer[n].src][k]
           l == xfer[n].left \ {k}
<1>1. Reading(n)
  BY DEF MoveByte, ReadDone, Reading
<1>2. k \in Bytes
  BY <1>1, NextByte
<1>3. /\ buf' = [buf EXCEPT ![n][d][k] = y]
      /\ xfer' = [xfer EXCEPT ![n].left = l]
      /\ notes' = IF xfer[n].left = {k} THEN [notes EXCEPT ![prev[n]] = Append(@, xfer[n].key)] ELSE notes
  BY DEF MoveByte
<1>4. xfer[n] \in Reads /\ l \in SUBSET Bytes /\ xfer[n].key \in Nat /\ xfer[n].src \in 1 .. 2
  BY DEF TypeOK, LinkType, Reads
<1>5. y \in Nat
  BY <1>2, <1>4, ByteType
<1>6. d \in 1 .. 2
  BY DEF TypeOK, CoreType
<1> HIDE DEF k, d, y, l
<1>7. buf' \in [Ranks -> Buffers]
  <2>1. buf[n] \in Buffers /\ buf[n][d] \in [Bytes -> Nat]
    BY <1>6 DEF TypeOK, DataType, Buffers
  <2>2. [buf[n][d] EXCEPT ![k] = y] \in [Bytes -> Nat]
    BY <1>5, <2>1
  <2>3. [buf[n] EXCEPT ![d] = [buf[n][d] EXCEPT ![k] = y]] \in Buffers
    BY <1>6, <2>1, <2>2 DEF Buffers
  <2>4. buf' = [buf EXCEPT ![n] = [buf[n] EXCEPT ![d] = [buf[n][d] EXCEPT ![k] = y]]]
    BY <1>3
  <2> QED BY <2>3, <2>4 DEF TypeOK, DataType
<1>8. xfer' \in [Ranks -> Reads]
  <2>1. [xfer[n] EXCEPT !.left = l] \in Reads
    BY <1>4 DEF Reads
  <2>2. xfer' = [xfer EXCEPT ![n] = [xfer[n] EXCEPT !.left = l]]
    BY <1>3
  <2> QED BY <2>1, <2>2 DEF TypeOK, LinkType
<1>9. notes' \in [Ranks -> Seq(Nat)]
  <2> DEFINE a == Append(notes[prev[n]], xfer[n].key)
  <2>1. a \in Seq(Nat)
    BY <1>4, AppendProperties DEF TypeOK, LinkType
  <2>2. notes' = IF xfer[n].left = {k} THEN [notes EXCEPT ![prev[n]] = a] ELSE notes
    BY <1>3
  <2> HIDE DEF a
  <2> QED BY <2>1, <2>2 DEF TypeOK, LinkType
<1>10. CoreType'
  BY DEF MoveByte, core, TypeOK, CoreType
<1>11. DataType'
  BY <1>7 DEF MoveByte, TypeOK, DataType
<1>12. LinkType'
  BY <1>8, <1>9 DEF MoveByte, TypeOK, LinkType
<1> QED BY <1>10, <1>11, <1>12 DEF TypeOK

\* A device copy writes the trainer's buffer, or hands a tensor to an engine.
LEMMA CopyType == ASSUME TypeOK, NEW n \in Ranks, Copy(n) PROVE TypeOK'
<1> DEFINE c == Head(copies[n])
           t == Tail(copies[n])
           w == [k \in Bytes |-> IF k \in Span(c) THEN c.name ELSE buf[0][c.buf][k]]
           g == IF \A k \in Span(c) : buf[n][c.buf][k] = c.name THEN c.name ELSE 0
<1>1. c \in Copies /\ t \in Seq(Copies)
  BY TailType DEF Copy, TypeOK, DataType
<1>2. c.buf \in 1 .. 2 /\ c.name \in Nat
  BY <1>1, ConstantFacts DEF Copies
<1>3. /\ n = 0 => buf' = [buf EXCEPT ![0][c.buf] = w] /\ got' = got
      /\ n # 0 => got' = [got EXCEPT ![n] = Append(@, g)] /\ buf' = buf
      /\ copies' = [copies EXCEPT ![n] = t]
  BY DEF Copy
<1>4. w \in [Bytes -> Nat]
  <2>1. \A k \in Bytes : buf[0][c.buf][k] \in Nat
    BY <1>2, ConstantFacts, ByteType
  <2> HIDE DEF c
  <2> QED BY <1>2, <2>1
<1>5. g \in Nat
  BY <1>2
<1> HIDE DEF c, t, w, g
<1>6. copies' \in [Ranks -> Seq(Copies)]
  BY <1>1, <1>3 DEF TypeOK, DataType
<1>7. buf' \in [Ranks -> Buffers]
  <2>1. buf[0] \in Buffers /\ 0 \in Ranks
    BY ConstantFacts DEF TypeOK, DataType
  <2>2. [buf[0] EXCEPT ![c.buf] = w] \in Buffers
    BY <1>2, <1>4, <2>1 DEF Buffers
  <2>3. n = 0 => buf' = [buf EXCEPT ![0] = [buf[0] EXCEPT ![c.buf] = w]]
    BY <1>3
  <2>4. buf \in [Ranks -> Buffers]
    BY DEF TypeOK, DataType
  <2> QED BY <1>3, <2>2, <2>3, <2>4
<1>8. got' \in [Ranks -> Seq(Nat)]
  <2> DEFINE a == Append(got[n], g)
  <2>1. a \in Seq(Nat) /\ got \in [Ranks -> Seq(Nat)]
    BY <1>5, AppendProperties DEF TypeOK, DataType
  <2>2. n # 0 => got' = [got EXCEPT ![n] = a]
    BY <1>3
  <2> HIDE DEF a
  <2> QED BY <1>3, <2>1, <2>2
<1>9. CoreType'
  BY DEF Copy, core, TypeOK, CoreType
<1>10. DataType'
  BY <1>6, <1>7, <1>8 DEF Copy, TypeOK, DataType
<1>11. LinkType'
  BY DEF Copy, link, TypeOK, LinkType
<1> QED BY <1>9, <1>10, <1>11 DEF TypeOK

-------------------------------------------------------------------------------
(* The states of the links.                                                   *)

\* The buffer rank n has published and the next rank may read: the trainer swaps its
\* buffers as it publishes, a rollout rank only when it takes the next bucket.
Source(n) == IF n = 0 /\ pc[0] # "sent" THEN 3 - cur[0] ELSE cur[n]

\* Rank n reads from n - 1 and publishes to n + 1.
Shape ==
  /\ pc[0] \in {"prepare", "rejected", "fill", "sent", "done", "failed"}
  /\ ~Joined => \A n \in Ranks : pc[n] = pc[0]
  /\ Joined => /\ \A n \in Rollout : /\ prev[n] = n - 1
                                     /\ pc[n] \in {"first", "waitFirst", "publish", "more", "yield", "done"}
               /\ \A n \in Ranks : next[n] = IF n = R THEN None ELSE n + 1

\* The link from n to n + 1: nothing is published, ...
Free(n) == /\ open[n] = 0 /\ notes[n] = << >>
           /\ inbox[n + 1] = << >> /\ ~Reading(n + 1)

\* ... a bucket is published and its message waits, ...
Waiting(n) == /\ open[n] # 0 /\ notes[n] = << >>
              /\ Len(inbox[n + 1]) = 1 /\ ~Reading(n + 1)
              /\ inbox[n + 1][1].src = Source(n) /\ inbox[n + 1][1].key = open[n]

\* ... the next rank reads the bucket, ...
BeingRead(n) == /\ open[n] # 0 /\ notes[n] = << >>
                /\ inbox[n + 1] = << >> /\ Reading(n + 1)
                /\ xfer[n + 1].src = Source(n) /\ xfer[n + 1].key = open[n]

\* ... or it has read the bucket, and the notification waits.
Read(n) == /\ open[n] # 0 /\ notes[n] = << open[n] >>
           /\ inbox[n + 1] = << >> /\ ~Reading(n + 1)

\* A link is in one of these states.
Link(n) == Free(n) \/ Waiting(n) \/ BeingRead(n) \/ Read(n)

\* All links are; the last rank publishes to nobody and nobody publishes to the first.
Links == /\ \A n \in 0 .. R - 1 : Link(n)
         /\ open[R] = 0 /\ notes[R] = << >> /\ ~Reading(0)

\* A rank reads the first bucket, or the next one while it hands out the one it has.
ReadAt == \A n \in Rollout : Reading(n) => pc[n] = "waitFirst" \/ (pc[n] = "yield" /\ ~bucket[n].last)

\* Only a rank that has not had the last bucket asks for more.
MoreAt == \A n \in Rollout : pc[n] = "more" => ~bucket[n].last

\* Device copies concern the current send buffer, and the trainer's are over before it
\* returns.
CopyAt == \A n \in Ranks :
  /\ \A i \in 1 .. Len(copies[n]) : copies[n][i].buf = cur[n]
  /\ copies[n] # << >> => pc[n] \in {"fill", "yield", "done"} /\ ~(n = 0 /\ pc[n] = "done")

\* The inductive invariant behind BuffersStable.
ChainInv == Shape /\ Links /\ OpenAt /\ ReadAt /\ MoreAt /\ CopyAt

\* At the start every link is free.
LEMMA ChainInit == Init => ChainInv
<1> SUFFICES ASSUME Init PROVE ChainInv
  OBVIOUS
<1>1. \A n \in Ranks : /\ pc[n] = "prepare" /\ inbox[n] = << >> /\ notes[n] = << >> /\ open[n] = 0
                       /\ ~Reading(n) /\ copies[n] = << >>
  BY DEF Init, Reading, NoRead
<1>2. Shape
  BY <1>1, ConstantFacts DEF Shape, Joined
<1>3. Links
  BY <1>1, ConstantFacts DEF Links, Link, Free
<1>4. OpenAt /\ ReadAt /\ MoreAt
  BY <1>1, ConstantFacts DEF OpenAt, ReadAt, MoreAt
<1>5. CopyAt
  BY <1>1 DEF CopyAt
<1> QED BY <1>2, <1>3, <1>4, <1>5 DEF ChainInv

\* A link whose two ends do nothing stays as it is.
LEMMA LinkKept ==
  ASSUME NEW n \in 0 .. R - 1, Link(n), open'[n] = open[n], inbox'[n + 1] = inbox[n + 1],
         notes'[n] = notes[n], xfer'[n + 1] = xfer[n + 1], Source(n)' = Source(n)
  PROVE  Link(n)'
<1>1. Reading(n + 1)' <=> Reading(n + 1)
  BY DEF Reading
<1>2. CASE Free(n)
  BY <1>1, <1>2 DEF Link, Free
<1>3. CASE Waiting(n)
  <2>1. Waiting(n)'
    BY <1>1, <1>3 DEF Waiting
  <2> QED BY <2>1 DEF Link
<1>4. CASE BeingRead(n)
  <2>1. BeingRead(n)'
    BY <1>1, <1>4 DEF BeingRead
  <2> QED BY <2>1 DEF Link
<1>5. CASE Read(n)
  <2>1. Read(n)'
    BY <1>1, <1>5 DEF Read
  <2> QED BY <2>1 DEF Link
<1> QED BY <1>2, <1>3, <1>4, <1>5 DEF Link

\* A rank that is past init_process_group has its neighbours.
LEMMA RankJoined ==
  ASSUME TypeOK, Shape, NEW n \in Ranks, pc[n] \notin {"prepare", "rejected"}
  PROVE  Joined
BY DEF Shape, Joined

\* One rank moves, the neighbours stay.
LEMMA ShapeStep ==
  ASSUME TypeOK, Shape, Joined, NEW m \in Ranks, NEW v, pc' = [pc EXCEPT ![m] = v], prev' = prev, next' = next,
         m = 0 => v \in {"fill", "sent", "done", "failed"},
         m # 0 => v \in {"first", "waitFirst", "publish", "more", "yield", "done"}
  PROVE  Shape' /\ Joined'
<1>1. pc \in [Ranks -> PcSet]
  BY DEF TypeOK, CoreType, PcSet
<1>2. pc'[0] \in {"fill", "sent", "done", "failed"}
  BY <1>1, ConstantFacts DEF Shape, Joined
<1>3. \A n \in Rollout : pc'[n] \in {"first", "waitFirst", "publish", "more", "yield", "done"}
  BY <1>1, ConstantFacts DEF Shape, Joined
<1>4. Joined'
  BY <1>2 DEF Joined
<1> QED BY <1>2, <1>3, <1>4 DEF Shape

\* The neighbours of a rank at work.
LEMMA Owner ==
  ASSUME TypeOK, Shape, NEW n \in Rollout, pc[n] \notin {"prepare", "rejected"}
  PROVE  Joined /\ prev[n] = n - 1 /\ next[n] = (IF n = R THEN None ELSE n + 1)
         /\ pc[n] \in {"first", "waitFirst", "publish", "more", "yield", "done"}
<1>1. Joined
  BY RankJoined, ConstantFacts
<1> QED BY <1>1, ConstantFacts DEF Shape

\* When wait_for_complete returns, the next rank has read what was published.
LEMMA Drained ==
  ASSUME Links, NEW n \in 0 .. R - 1, ReaderDone(n)
  PROVE  inbox[n + 1] = << >> /\ ~Reading(n + 1) /\ notes[n] = IF open[n] = 0 THEN << >> ELSE << open[n] >>
<1>1. Link(n)
  BY DEF Links
<1> QED BY <1>1 DEF Link, Free, Waiting, BeingRead, Read, ReaderDone

\* A sequence of one member.
LEMMA TailOne == \A x : Tail(<< x >>) = << >> /\ Head(<< x >>) = x /\ Len(<< x >>) = 1 /\ << x >>[1] = x
OBVIOUS

\* The notification that was waited for is gone.
LEMMA NotesAfter ==
  ASSUME TypeOK, Links, NEW m \in Ranks, ReaderDone(m),
         notes' = IF open[m] # 0 THEN [notes EXCEPT ![m] = Tail(@)] ELSE notes
  PROVE  notes'[m] = << >> /\ \A n \in Ranks : n # m => notes'[n] = notes[n]
<1>1. CASE m = R
  BY <1>1 DEF Links
<1>2. CASE m # R
  <2>1. m \in 0 .. R - 1
    BY <1>2, ConstantFacts DEF Ranks
  <2>2. notes[m] = IF open[m] = 0 THEN << >> ELSE << open[m] >>
    BY <2>1, Drained
  <2>3. open[m] # 0 => Tail(notes[m]) = << >>
    BY <2>2, TailOne
  <2> DEFINE t == Tail(notes[m])
  <2>4. notes' = IF open[m] # 0 THEN [notes EXCEPT ![m] = t] ELSE notes
    OBVIOUS
  <2>5. open[m] # 0 => t = << >>
    BY <2>3
  <2> HIDE DEF t
  <2>6. notes \in [Ranks -> Seq(Nat)]
    BY DEF TypeOK, LinkType
  <2>7. notes'[m] = << >>
    BY <2>2, <2>4, <2>5, <2>6
  <2>8. \A n \in Ranks : n # m => notes'[n] = notes[n]
    BY <2>4, <2>6
  <2> QED BY <2>7, <2>8
<1> QED BY <1>1, <1>2

\* Publishing over a drained link makes its message wait.
LEMMA RepublishLink ==
  ASSUME TypeOK, Links, Shape, Joined, NEW m \in 0 .. R - 1, NEW b \in Buckets, ReaderDone(m),
         Republish(m, b), xfer' = xfer, Source(m)' = cur[m]
  PROVE  /\ Waiting(m)' /\ inbox'[m + 1][1].bucket = b
         /\ \A n \in Ranks : n # m => open'[n] = open[n] /\ notes'[n] = notes[n]
         /\ \A n \in Ranks : n # m + 1 => inbox'[n] = inbox[n]
<1>1. m \in Ranks /\ m # R /\ m + 1 \in Rollout /\ m + 1 \in Ranks /\ m \in Nat
  BY ConstantFacts DEF Ranks, Rollout
<1>2. next[m] = m + 1 /\ next[m] # None
  BY <1>1 DEF Shape, None
<1>3. inbox[m + 1] = << >> /\ ~Reading(m + 1)
  BY Drained
<1>4. notes'[m] = << >> /\ \A n \in Ranks : n # m => notes'[n] = notes[n]
  BY <1>1, NotesAfter DEF Republish
<1> DEFINE p == published[m] + 1
           msg == [bucket |-> b, src |-> cur[m], key |-> p]
<1>5. p \in Nat /\ p # 0
  BY <1>1 DEF TypeOK, LinkType
<1>6. published' = [published EXCEPT ![m] = p] /\ published \in [Ranks -> Nat]
  BY <1>2 DEF Republish, TypeOK, LinkType
<1>7. published'[m] = p
  BY <1>1, <1>6
<1>8. open' = [open EXCEPT ![m] = p] /\ open \in [Ranks -> Nat]
  BY <1>2, <1>7 DEF Republish, TypeOK, LinkType
<1>9. inbox' = [inbox EXCEPT ![m + 1] = Append(@, msg)]
  BY <1>2, <1>7 DEF Republish
<1>10. inbox'[m + 1] = << msg >> /\ \A k \in Ranks : k # m + 1 => inbox'[k] = inbox[k]
  <2>1. Append(inbox[m + 1], msg) = << msg >>
    BY <1>3
  <2> DEFINE a == Append(inbox[m + 1], msg)
  <2>2. inbox' = [inbox EXCEPT ![m + 1] = a] /\ a = << msg >>
    BY <1>9, <2>1
  <2> HIDE DEF a, msg
  <2>3. inbox \in [Ranks -> Seq(Messages)] /\ inbox' \in [Ranks -> Seq(Messages)]
    BY <1>1, RepublishType DEF TypeOK, LinkType, ReaderDone
  <2>4. inbox'[m + 1] = << msg >>
    BY <1>1, <2>2, <2>3
  <2> QED BY <1>1, <2>2, <2>3, <2>4
<1>11. msg.bucket = b /\ msg.src = cur[m] /\ msg.key = p
  OBVIOUS
<1> HIDE DEF p, msg
<1>12. Waiting(m)'
  <2>1. open'[m] = p /\ open'[m] # 0
    BY <1>1, <1>5, <1>8
  <2>2. Len(inbox'[m + 1]) = 1 /\ inbox'[m + 1][1] = msg
    BY <1>10, TailOne
  <2>3. ~Reading(m + 1)'
    BY <1>3 DEF Reading
  <2> QED BY <1>4, <1>11, <2>1, <2>2, <2>3 DEF Waiting
<1>13. inbox'[m + 1][1].bucket = b
  BY <1>10, <1>11, TailOne
<1>14. \A n \in Ranks : n # m => open'[n] = open[n]
  BY <1>8
<1> QED BY <1>4, <1>10, <1>12, <1>13, <1>14

\* Waiting frees the link.
LEMMA AwaitLink ==
  ASSUME TypeOK, Links, NEW m \in Ranks, Await(m), xfer' = xfer, inbox' = inbox
  PROVE  /\ m # R => Free(m)'
         /\ open'[m] = 0 /\ notes'[m] = << >>
         /\ \A n \in Ranks : n # m => open'[n] = open[n] /\ notes'[n] = notes[n]
<1>1. notes'[m] = << >> /\ \A n \in Ranks : n # m => notes'[n] = notes[n]
  BY NotesAfter DEF Await
<1>2. open'[m] = 0 /\ \A n \in Ranks : n # m => open'[n] = open[n]
  BY DEF Await, TypeOK, LinkType
<1>3. m # R => Free(m)'
  <2> SUFFICES ASSUME m # R PROVE Free(m)'
    OBVIOUS
  <2>1. m \in 0 .. R - 1
    BY ConstantFacts DEF Ranks
  <2>2. inbox[m + 1] = << >> /\ ~Reading(m + 1)
    BY <2>1, Drained DEF Await
  <2> QED BY <1>1, <1>2, <2>2 DEF Free, Reading
<1> QED BY <1>1, <1>2, <1>3

-------------------------------------------------------------------------------
(* What a step does to the links.                                             *)

\* The chain is built free of messages, or not at all.
LEMMA BuildGroupChain == TypeOK /\ ChainInv /\ BuildGroup => ChainInv'
<1> SUFFICES ASSUME TypeOK, ChainInv, BuildGroup PROVE ChainInv'
  OBVIOUS
<1>1. pc[0] = "prepare" /\ 0 \in Ranks
  BY ConstantFacts DEF BuildGroup
<1>2. \A n \in Ranks : pc[n] = "prepare"
  BY <1>1 DEF ChainInv, Shape, Joined
<1>3. UNCHANGED << cursor, cur, data, link >>
  BY DEF BuildGroup
<1>4. \A n \in Ranks : open[n] = 0 /\ ~Reading(n) /\ copies[n] = << >>
  <2>1. \A n \in Ranks : open[n] = 0 /\ copies[n] = << >>
    BY <1>2 DEF ChainInv, OpenAt, CopyAt
  <2>2. \A n \in Rollout : ~Reading(n)
    BY <1>2, ConstantFacts DEF ChainInv, ReadAt
  <2> QED BY <2>1, <2>2, ConstantFacts DEF ChainInv, Links
<1>5. \A n \in Ranks : open'[n] = 0 /\ ~Reading(n)' /\ copies'[n] = << >>
  BY <1>3, <1>4 DEF data, link, Reading
<1>6. Links'
  <2>1. \A n \in 0 .. R - 1 : Free(n)
    BY <1>4, ConstantFacts DEF ChainInv, Links, Link, Free, Waiting, BeingRead, Read
  <2>2. \A n \in 0 .. R - 1 : Free(n)'
    BY <1>3, <1>5, <2>1, ConstantFacts DEF Free, link, Reading
  <2> QED BY <1>3, <1>5, <2>2, ConstantFacts DEF Links, Link, link, ChainInv
<1>7. OpenAt' /\ ReadAt' /\ CopyAt'
  BY <1>5, ConstantFacts DEF OpenAt, ReadAt, CopyAt
<1>8. CASE Len(PrevAgents) = R /\ Len(NextAgents) = R
  <2>1. R >= 2
    BY <1>8, Neighbours, ConstantFacts
  <2>2. /\ \A n \in Rollout : RankOf(PrevAgents[n]) = n - 1
        /\ \A n \in Rollout : RankOf(NextAgents[n]) = IF n = R THEN None ELSE n + 1
        /\ RankOf(From(Metadata, -R)[1]) = 1
    BY <2>1, Neighbours
  <2>3. prev' = [n \in Ranks |-> IF n = 0 THEN None ELSE RankOf(PrevAgents[n])]
    BY <1>8 DEF BuildGroup
  <2>4. \A n \in Rollout : prev'[n] = n - 1
    BY <2>2, <2>3, ConstantFacts
  <2>5. next' = [n \in Ranks |-> RankOf(IF n = 0 THEN From(Metadata, -R)[1] ELSE NextAgents[n])]
    BY <1>8 DEF BuildGroup
  <2>6. ASSUME NEW n \in Ranks PROVE next'[n] = IF n = R THEN None ELSE n + 1
    <3>1. CASE n = 0
      BY <2>1, <2>2, <2>5, <3>1, ConstantFacts
    <3>2. CASE n # 0
      <4>1. n \in Rollout
        BY <3>2, ConstantFacts
      <4> QED BY <2>2, <2>5, <3>2, <4>1
    <3> QED BY <3>1, <3>2
  <2>7. pc' = [n \in Ranks |-> IF n = 0 THEN "fill" ELSE "first"]
    BY <1>8 DEF BuildGroup
  <2>8. MoreAt' /\ Shape'
    BY <2>4, <2>6, <2>7, ConstantFacts DEF MoreAt, Shape, Joined
  <2> QED BY <1>6, <1>7, <2>8 DEF ChainInv
<1>9. CASE ~(Len(PrevAgents) = R /\ Len(NextAgents) = R)
  <2>1. pc' = [n \in Ranks |-> "rejected"]
    BY <1>9 DEF BuildGroup
  <2>2. MoreAt' /\ Shape'
    BY <1>1, <2>1, ConstantFacts DEF MoreAt, Shape, Joined
  <2> QED BY <1>6, <1>7, <2>2 DEF ChainInv
<1> QED BY <1>8, <1>9

\* Steps of one rank that send and receive nothing keep every link.
LEMMA QuietLinks ==
  ASSUME TypeOK, Links, UNCHANGED link, \A n \in 0 .. R - 1 : open[n] # 0 => Source(n)' = Source(n)
  PROVE  Links'
<1>1. ASSUME NEW n \in 0 .. R - 1 PROVE Link(n)'
  <2>1. Link(n)
    BY DEF Links
  <2>2. open' = open /\ inbox' = inbox /\ notes' = notes /\ xfer' = xfer
    BY DEF link
  <2>3. CASE open[n] # 0
    BY <1>1, <2>1, <2>2, <2>3, LinkKept
  <2>4. CASE open[n] = 0
    <3>1. Free(n)
      BY <2>1, <2>4 DEF Link, Free, Waiting, BeingRead, Read
    <3>2. Free(n)'
      BY <2>2, <3>1 DEF Free, Reading
    <3> QED BY <3>2 DEF Link
  <2> QED BY <2>3, <2>4
<1> QED BY <1>1 DEF Links, link, Reading

\* The trainer fills the buffer that is not published.
LEMMA FillChain == TypeOK /\ ChainInv /\ Fill => ChainInv'
<1> SUFFICES ASSUME TypeOK, ChainInv, Fill PROVE ChainInv'
  OBVIOUS
<1>1. pc[0] = "fill" /\ 0 \in Ranks /\ 0 \notin Rollout
  BY ConstantFacts DEF Fill
<1>2. UNCHANGED << pc, prev, next, cur, link >>
  BY DEF Fill
<1>3. \A n \in Rollout : bucket'[n] = bucket[n]
  BY <1>1 DEF Fill, TypeOK, DataType
<1>4. Shape' /\ OpenAt'
  BY <1>2 DEF ChainInv, Shape, Joined, OpenAt, link
<1>5. Links'
  BY <1>2, QuietLinks DEF ChainInv, Source
<1>6. ReadAt' /\ MoreAt'
  BY <1>2, <1>3 DEF ChainInv, ReadAt, MoreAt, Reading, link
<1>7. CopyAt'
  <2> DEFINE c == [buf |-> cur[0], name |-> cursor, offset |-> Offset]
             a == Append(copies[0], c)
  <2>1. copies' = [copies EXCEPT ![0] = a] /\ copies \in [Ranks -> Seq(Copies)] /\ c.buf = cur[0]
    BY DEF Fill, Issue, TypeOK, DataType
  <2> HIDE DEF c
  <2>2. /\ copies[0] \in Seq(Copies) /\ Len(a) = Len(copies[0]) + 1 /\ Len(copies[0]) \in Nat
        /\ \A i \in 1 .. Len(a) : a[i] = IF i <= Len(copies[0]) THEN copies[0][i] ELSE c
    <3>1. copies[0] \in Seq(Copies) /\ Len(copies[0]) \in Nat
      BY <1>1, <2>1, LenProperties
    <3>2. Len(a) = Len(copies[0]) + 1
      BY <3>1
    <3> QED BY <3>1, <3>2
  <2> HIDE DEF a
  <2>3. \A i \in 1 .. Len(a) : a[i].buf = cur[0]
    <3>1. \A i \in 1 .. Len(copies[0]) : copies[0][i].buf = cur[0]
      BY <1>1 DEF ChainInv, CopyAt
    <3> QED BY <2>1, <2>2, <3>1
  <2>4. copies'[0] = a /\ \A n \in Ranks : n # 0 => copies'[n] = copies[n]
    BY <1>1, <2>1
  <2> QED BY <1>1, <1>2, <2>3, <2>4 DEF ChainInv, CopyAt
<1> QED BY <1>4, <1>5, <1>6, <1>7 DEF ChainInv

\* A rank hands out tensors of its current buffer.
LEMMA YieldChain == ASSUME TypeOK, ChainInv, NEW n \in Rollout, Yield(n) PROVE ChainInv'
<1>1. pc[n] = "yield" /\ n \in Ranks /\ n # 0
  BY ConstantFacts DEF Yield
<1>2. UNCHANGED << core, bucket, link >>
  BY DEF Yield
<1>3. Shape' /\ OpenAt'
  BY <1>2 DEF ChainInv, Shape, Joined, OpenAt, link, core
<1>4. Links'
  BY <1>2, QuietLinks DEF ChainInv, Source, core
<1>5. ReadAt' /\ MoreAt'
  BY <1>2 DEF ChainInv, ReadAt, MoreAt, Reading, link, core
<1>6. CopyAt'
  <2> DEFINE it == bucket[n].items[yielded[n] + 1]
             c == [buf |-> cur[n], name |-> it.name, offset |-> it.offset]
             a == Append(copies[n], c)
  <2>1. copies' = [copies EXCEPT ![n] = a] /\ copies \in [Ranks -> Seq(Copies)] /\ c.buf = cur[n]
    BY DEF Yield, Issue, TypeOK, DataType
  <2> HIDE DEF c
  <2>2. /\ copies[n] \in Seq(Copies) /\ Len(a) = Len(copies[n]) + 1 /\ Len(copies[n]) \in Nat
        /\ \A i \in 1 .. Len(a) : a[i] = IF i <= Len(copies[n]) THEN copies[n][i] ELSE c
    <3>1. copies[n] \in Seq(Copies) /\ Len(copies[n]) \in Nat
      BY <1>1, <2>1, LenProperties
    <3>2. Len(a) = Len(copies[n]) + 1
      BY <3>1
    <3> QED BY <3>1, <3>2
  <2> HIDE DEF a
  <2>3. \A i \in 1 .. Len(a) : a[i].buf = cur[n]
    <3>1. \A i \in 1 .. Len(copies[n]) : copies[n][i].buf = cur[n]
      BY <1>1 DEF ChainInv, CopyAt
    <3> QED BY <2>1, <2>2, <3>1
  <2>4. copies'[n] = a /\ \A m \in Ranks : m # n => copies'[m] = copies[m]
    BY <1>1, <2>1
  <2> QED BY <1>1, <1>2, <2>3, <2>4 DEF ChainInv, CopyAt, core
<1> QED BY <1>3, <1>4, <1>5, <1>6 DEF ChainInv

\* The trainer is rank 0, the first link is its own.
LEMMA TrainerPlace == 0 \in Ranks /\ 0 \in 0 .. R - 1 /\ 0 # R /\ 0 \notin Rollout /\ 0 + 1 = 1 /\ 1 \in Ranks
BY ConstantFacts DEF Ranks

\* The trainer publishes a bucket and turns to the other buffer.
LEMMA SendBucketChain == TypeOK /\ ChainInv /\ SendBucket => ChainInv'
<1> SUFFICES ASSUME TypeOK, ChainInv, SendBucket PROVE ChainInv'
  OBVIOUS
<1> DEFINE v == IF Size[cursor] > BucketSize THEN "failed" ELSE "fill"
<1>1. /\ pc[0] = "fill" /\ copies[0] = << >> /\ ReaderDone(0) /\ Republish(0, bucket[0]) /\ Swap(0)
      /\ pc' = [pc EXCEPT ![0] = v] /\ v \in {"fill", "failed"}
      /\ UNCHANGED << prev, next, copies, xfer >> /\ bucket' = [bucket EXCEPT ![0] = Empty]
  BY DEF SendBucket, Synchronized
<1> HIDE DEF v
<1>2. Joined
  BY <1>1, TrainerPlace DEF Joined
<1>3. Shape' /\ Joined'
  BY <1>1, <1>2, TrainerPlace, ShapeStep DEF ChainInv
<1>4. pc'[0] = v /\ \A n \in Ranks : n # 0 => pc'[n] = pc[n]
  BY <1>1, TrainerPlace DEF TypeOK, CoreType
<1>5. cur'[0] = 3 - cur[0] /\ (\A n \in Ranks : n # 0 => cur'[n] = cur[n]) /\ cur[0] \in 1 .. 2
  BY <1>1, TrainerPlace DEF TypeOK, CoreType, Swap
<1>6. Source(0)' = cur[0]
  BY <1>1, <1>4, <1>5 DEF Source
<1>7. bucket[0] \in Buckets
  BY TrainerPlace DEF TypeOK, DataType
<1>8. /\ Waiting(0)'
      /\ \A n \in Ranks : n # 0 => open'[n] = open[n] /\ notes'[n] = notes[n]
      /\ \A n \in Ranks : n # 1 => inbox'[n] = inbox[n]
  BY <1>1, <1>2, <1>6, <1>7, TrainerPlace, RepublishLink DEF ChainInv
<1>9. Links'
  <2>1. ASSUME NEW n \in 0 .. R - 1, n # 0 PROVE Link(n)'
    <3>1. n \in Ranks /\ n + 1 \in Ranks /\ n + 1 # 1
      BY <2>1, ConstantFacts
    <3>2. Source(n)' = Source(n)
      BY <1>5, <2>1, <3>1 DEF Source
    <3>3. Link(n)
      BY DEF ChainInv, Links
    <3> QED BY <1>1, <1>8, <2>1, <3>1, <3>2, <3>3, LinkKept
  <2> QED BY <1>1, <1>8, <2>1, ConstantFacts, TrainerPlace DEF Links, Link, ChainInv, Reading
<1>10. OpenAt'
  BY <1>1, <1>4, <1>8 DEF ChainInv, OpenAt
<1>11. ReadAt' /\ MoreAt'
  <2>1. \A n \in Rollout : pc'[n] = pc[n] /\ bucket'[n] = bucket[n] /\ (Reading(n)' <=> Reading(n))
    BY <1>1, <1>4, ConstantFacts DEF Reading, TypeOK, DataType
  <2> QED BY <2>1 DEF ChainInv, ReadAt, MoreAt
<1>12. CopyAt'
  <2>1. copies'[0] = << >> /\ Len(copies'[0]) = 0
    BY <1>1
  <2> QED BY <1>1, <1>4, <1>5, <2>1 DEF ChainInv, CopyAt
<1> QED BY <1>3, <1>9, <1>10, <1>11, <1>12 DEF ChainInv

\* The trainer publishes the last bucket.
LEMMA SendLastChain == TypeOK /\ ChainInv /\ SendLast => ChainInv'
<1> SUFFICES ASSUME TypeOK, ChainInv, SendLast PROVE ChainInv'
  OBVIOUS
<1> DEFINE b == [bucket[0] EXCEPT !.last = TRUE]
<1>1. /\ pc[0] = "fill" /\ copies[0] = << >> /\ ReaderDone(0) /\ Republish(0, b)
      /\ pc' = [pc EXCEPT ![0] = "sent"]
      /\ UNCHANGED << prev, next, cur, bucket, copies, xfer >>
  BY DEF SendLast, Synchronized, data
<1>2. b \in Buckets
  BY TrainerPlace DEF TypeOK, DataType, Buckets
<1> HIDE DEF b
<1>3. Joined
  BY <1>1, TrainerPlace DEF Joined
<1>4. Shape' /\ Joined'
  BY <1>1, <1>3, TrainerPlace, ShapeStep DEF ChainInv
<1>5. pc'[0] = "sent" /\ \A n \in Ranks : n # 0 => pc'[n] = pc[n]
  BY <1>1, TrainerPlace DEF TypeOK, CoreType
<1>6. Source(0)' = cur[0]
  BY <1>1, <1>5 DEF Source
<1>7. /\ Waiting(0)'
      /\ \A n \in Ranks : n # 0 => open'[n] = open[n] /\ notes'[n] = notes[n]
      /\ \A n \in Ranks : n # 1 => inbox'[n] = inbox[n]
  BY <1>1, <1>2, <1>3, <1>6, TrainerPlace, RepublishLink DEF ChainInv
<1>8. Links'
  <2>1. ASSUME NEW n \in 0 .. R - 1, n # 0 PROVE Link(n)'
    <3>1. n \in Ranks /\ n + 1 \in Ranks /\ n + 1 # 1
      BY <2>1, ConstantFacts
    <3>2. Source(n)' = Source(n)
      BY <1>1, <2>1 DEF Source
    <3>3. Link(n)
      BY DEF ChainInv, Links
    <3> QED BY <1>1, <1>7, <2>1, <3>1, <3>2, <3>3, LinkKept
  <2> QED BY <1>1, <1>7, <2>1, ConstantFacts, TrainerPlace DEF Links, Link, ChainInv, Reading
<1>9. OpenAt'
  BY <1>5, <1>7 DEF ChainInv, OpenAt
<1>10. ReadAt' /\ MoreAt'
  <2>1. \A n \in Rollout : pc'[n] = pc[n] /\ (Reading(n)' <=> Reading(n))
    BY <1>1, <1>5, ConstantFacts DEF Reading
  <2> QED BY <1>1, <2>1 DEF ChainInv, ReadAt, MoreAt
<1>11. CopyAt'
  <2>1. copies'[0] = << >> /\ Len(copies'[0]) = 0
    BY <1>1
  <2> QED BY <1>1, <1>5, <2>1 DEF ChainInv, CopyAt
<1> QED BY <1>4, <1>8, <1>9, <1>10, <1>11 DEF ChainInv

\* The trainer returns when the last bucket has been read.
LEMMA SendDoneChain == TypeOK /\ ChainInv /\ SendDone => ChainInv'
<1> SUFFICES ASSUME TypeOK, ChainInv, SendDone PROVE ChainInv'
  OBVIOUS
<1>1. /\ pc[0] = "sent" /\ Await(0) /\ pc' = [pc EXCEPT ![0] = "done"]
      /\ UNCHANGED << prev, next, cur, bucket, copies, inbox, xfer >>
  BY DEF SendDone, data
<1>2. Joined
  BY <1>1, TrainerPlace DEF Joined
<1>3. Shape' /\ Joined'
  BY <1>1, <1>2, TrainerPlace, ShapeStep DEF ChainInv
<1>4. pc'[0] = "done" /\ \A n \in Ranks : n # 0 => pc'[n] = pc[n]
  BY <1>1, TrainerPlace DEF TypeOK, CoreType
<1>5. /\ Free(0)' /\ open'[0] = 0
      /\ \A n \in Ranks : n # 0 => open'[n] = open[n] /\ notes'[n] = notes[n]
  BY <1>1, TrainerPlace, AwaitLink DEF ChainInv
<1>6. Links'
  <2>1. ASSUME NEW n \in 0 .. R - 1, n # 0 PROVE Link(n)'
    <3>1. n \in Ranks
      BY ConstantFacts
    <3>2. Source(n)' = Source(n)
      BY <1>1, <2>1 DEF Source
    <3>3. Link(n)
      BY DEF ChainInv, Links
    <3> QED BY <1>1, <1>5, <2>1, <3>1, <3>2, <3>3, LinkKept
  <2> QED BY <1>1, <1>5, <2>1, ConstantFacts, TrainerPlace DEF Links, Link, ChainInv, Reading
<1>7. OpenAt'
  BY <1>4, <1>5 DEF ChainInv, OpenAt
<1>8. ReadAt' /\ MoreAt'
  <2>1. \A n \in Rollout : pc'[n] = pc[n] /\ (Reading(n)' <=> Reading(n))
    BY <1>1, <1>4, ConstantFacts DEF Reading
  <2> QED BY <1>1, <2>1 DEF ChainInv, ReadAt, MoreAt
<1>9. CopyAt'
  <2>1. copies[0] = << >> /\ Len(copies[0]) = 0
    BY <1>1, TrainerPlace DEF ChainInv, CopyAt
  <2> QED BY <1>1, <1>4, <2>1 DEF ChainInv, CopyAt
<1> QED BY <1>3, <1>6, <1>7, <1>8, <1>9 DEF ChainInv

\* A rank takes the message and starts to read.
LEMMA BeginReadChain == ASSUME TypeOK, ChainInv, NEW n \in Rollout, BeginRead(n) PROVE ChainInv'
<1> DEFINE v == IF pc[n] = "first" THEN "waitFirst" ELSE "yield"
           h == Head(inbox[n])
           t == Tail(inbox[n])
<1>1. /\ pc[n] \in {"first", "more"} /\ inbox[n] # << >>
      /\ xfer' = [xfer EXCEPT ![n] = [src |-> h.src, key |-> h.key, left |-> Bytes]]
      /\ inbox' = [inbox EXCEPT ![n] = t]
      /\ pc' = [pc EXCEPT ![n] = v]
      /\ UNCHANGED << prev, next, cur, bucket, copies, notes, open >>
  BY DEF BeginRead
<1>2. n \in Ranks /\ n # 0 /\ n - 1 \in 0 .. R - 1 /\ n - 1 \in Ranks /\ n - 1 # R /\ (n - 1) + 1 = n
  BY ConstantFacts DEF Rollout
<1>3. Joined /\ v \in {"waitFirst", "yield"} /\ (v = "yield" <=> pc[n] = "more")
  BY <1>1, Owner DEF ChainInv
<1> DEFINE m == n - 1
<1>4. Waiting(m)
  <2>1. Link(m)
    BY <1>2 DEF ChainInv, Links
  <2> QED BY <1>1, <1>2, <2>1 DEF Link, Free, BeingRead, Read
<1>5. inbox \in [Ranks -> Seq(Messages)] /\ xfer \in [Ranks -> Reads] /\ pc \in [Ranks -> PcSet]
  BY DEF TypeOK, LinkType, CoreType, PcSet
<1>6. h = inbox[n][1] /\ t = << >>
  <2>1. Len(inbox[n]) = 1
    BY <1>2, <1>4 DEF Waiting
  <2>2. Head(inbox[n]) = inbox[n][1] /\ Tail(inbox[n]) \in Seq(Messages) /\ Len(Tail(inbox[n])) = Len(inbox[n]) - 1
    BY <1>1, <1>2, <1>5, TailType
  <2> DEFINE s == Tail(inbox[n])
  <2>3. s \in Seq(Messages) /\ Len(s) = 0
    BY <2>1, <2>2
  <2> HIDE DEF s
  <2>4. s = << >>
    BY <2>3, EmptySeq
  <2> QED BY <2>2, <2>4 DEF s
<1> HIDE DEF v, h, t
<1>7. /\ pc'[n] = v /\ (\A k \in Ranks : k # n => pc'[k] = pc[k])
      /\ inbox'[n] = << >> /\ (\A k \in Ranks : k # n => inbox'[k] = inbox[k])
      /\ \A k \in Ranks : k # n => xfer'[k] = xfer[k]
  BY <1>1, <1>2, <1>5, <1>6
<1>8. xfer'[n].src = h.src /\ xfer'[n].key = h.key /\ xfer'[n].left = Bytes
  BY <1>1, <1>2, <1>5
<1>9. Bytes # {}
  <2>1. BucketSize \in Nat /\ BucketSize >= 1
    BY ChainAssumption
  <2>2. 0 \in Bytes
    BY <2>1 DEF Bytes
  <2> QED BY <2>2
<1>10. Shape' /\ Joined'
  BY <1>1, <1>2, <1>3, ShapeStep DEF ChainInv
<1>11. \A k \in 0 .. R - 1 : Source(k)' = Source(k)
  <2>1. pc'[0] = pc[0]
    BY <1>2, <1>7, TrainerPlace
  <2> QED BY <1>1, <2>1 DEF Source
<1>12. Links'
  <2>1. ASSUME NEW k \in 0 .. R - 1, k # m PROVE Link(k)'
    <3>1. k + 1 \in Ranks /\ k + 1 # n
      BY <1>2, <2>1, ConstantFacts DEF Rollout
    <3>2. Link(k)
      BY DEF ChainInv, Links
    <3> QED BY <1>1, <1>7, <1>11, <3>1, <3>2, LinkKept
  <2>2. BeingRead(m)'
    <3>1. /\ open[m] # 0 /\ notes[m] = << >> /\ inbox[m + 1][1].src = Source(m) /\ inbox[m + 1][1].key = open[m]
      BY <1>4 DEF Waiting
    <3>2. Source(m)' = Source(m)
      BY <1>2, <1>11
    <3>3. m + 1 = n
      BY <1>2
    <3> HIDE DEF m
    <3> QED BY <1>1, <1>6, <1>7, <1>8, <1>9, <3>1, <3>2, <3>3 DEF BeingRead, Reading
  <2>3. ~Reading(0)'
    BY <1>2, <1>7, TrainerPlace DEF Reading, ChainInv, Links
  <2> QED BY <1>1, <1>2, <2>1, <2>2, <2>3 DEF Links, Link, ChainInv
<1>13. OpenAt'
  BY <1>1, <1>2, <1>3, <1>7 DEF ChainInv, OpenAt
<1>14. ReadAt' /\ MoreAt'
  <2>1. pc'[n] = "waitFirst" \/ (pc'[n] = "yield" /\ ~bucket[n].last)
    BY <1>3, <1>7 DEF ChainInv, MoreAt
  <2>2. \A k \in Rollout : k # n => pc'[k] = pc[k] /\ (Reading(k)' <=> Reading(k))
    BY <1>7, ConstantFacts DEF Reading
  <2> QED BY <1>1, <2>1, <2>2 DEF ChainInv, ReadAt, MoreAt
<1>15. CopyAt'
  <2>1. copies[n] = << >>
    BY <1>1, <1>2 DEF ChainInv, CopyAt
  <2> QED BY <1>1, <1>2, <1>7, <2>1 DEF ChainInv, CopyAt
<1> QED BY <1>10, <1>12, <1>13, <1>14, <1>15 DEF ChainInv

\* The first bucket has arrived; it becomes the current one.
LEMMA FirstReadChain == ASSUME TypeOK, ChainInv, NEW n \in Rollout, FirstRead(n) PROVE ChainInv'
<1>1. /\ pc[n] = "waitFirst" /\ ~Reading(n) /\ Swap(n) /\ pc' = [pc EXCEPT ![n] = "publish"]
      /\ bucket' = [bucket EXCEPT ![n] = coming[n]]
      /\ UNCHANGED << prev, next, copies, link >>
  BY DEF FirstRead, ReadDone, Reading
<1>2. n \in Ranks /\ n # 0
  BY ConstantFacts
<1>3. Joined
  BY <1>1, Owner DEF ChainInv
<1>4. Shape' /\ Joined'
  BY <1>1, <1>2, <1>3, ShapeStep DEF ChainInv
<1>5. /\ pc'[n] = "publish" /\ (\A k \in Ranks : k # n => pc'[k] = pc[k])
      /\ (\A k \in Ranks : k # n => cur'[k] = cur[k]) /\ (\A k \in Ranks : k # n => bucket'[k] = bucket[k])
  BY <1>1, <1>2 DEF TypeOK, CoreType, DataType, Swap
<1>6. open[n] = 0 /\ copies[n] = << >>
  BY <1>1, <1>2 DEF ChainInv, OpenAt, CopyAt
<1>7. Links'
  <2>1. \A k \in 0 .. R - 1 : open[k] # 0 => Source(k)' = Source(k)
    BY <1>2, <1>5, <1>6, ConstantFacts DEF Source
  <2> QED BY <1>1, <2>1, QuietLinks DEF ChainInv
<1>8. OpenAt'
  BY <1>1, <1>5, <1>6 DEF ChainInv, OpenAt, link
<1>9. ReadAt' /\ MoreAt'
  <2>1. \A k \in Rollout : (Reading(k)' <=> Reading(k)) /\ (k # n => pc'[k] = pc[k] /\ bucket'[k] = bucket[k])
    BY <1>1, <1>5, ConstantFacts DEF Reading, link
  <2> QED BY <1>1, <1>5, <2>1 DEF ChainInv, ReadAt, MoreAt
<1>10. CopyAt'
  <2>1. Len(copies[n]) = 0
    BY <1>6
  <2> QED BY <1>1, <1>5, <1>6, <2>1 DEF ChainInv, CopyAt
<1> QED BY <1>4, <1>7, <1>8, <1>9, <1>10 DEF ChainInv

\* A rank republishes the bucket it has received.
LEMMA PublishChain == ASSUME TypeOK, ChainInv, NEW n \in Rollout, Publish(n) PROVE ChainInv'
<1> DEFINE v == IF bucket[n].last THEN "yield" ELSE "more"
<1>1. /\ pc[n] = "publish" /\ Republish(n, bucket[n]) /\ pc' = [pc EXCEPT ![n] = v]
      /\ UNCHANGED << prev, next, cur, bucket, copies, xfer >>
  BY DEF Publish
<1>2. n \in Ranks /\ n # 0 /\ n \in Nat
  BY ConstantFacts DEF Rollout
<1>3. v \in {"yield", "more"} /\ (v = "more" => ~bucket[n].last) /\ bucket[n] \in Buckets
  BY <1>2 DEF TypeOK, DataType
<1> HIDE DEF v
<1>4. Joined /\ next[n] = IF n = R THEN None ELSE n + 1
  BY <1>1, Owner DEF ChainInv
<1>5. Shape' /\ Joined'
  BY <1>1, <1>2, <1>3, <1>4, ShapeStep DEF ChainInv
<1>6. /\ pc'[n] = v /\ (\A k \in Ranks : k # n => pc'[k] = pc[k])
  BY <1>1, <1>2 DEF TypeOK, CoreType
<1>7. open[n] = 0 /\ copies[n] = << >> /\ ReaderDone(n) /\ ~Reading(n)
  BY <1>1, <1>2 DEF ChainInv, OpenAt, CopyAt, ReadAt, ReaderDone
<1>8. \A k \in 0 .. R - 1 : Source(k)' = Source(k)
  BY <1>1, <1>2, <1>6, TrainerPlace DEF Source
<1>9. \A k \in Ranks : k # n => open'[k] = open[k] /\ notes'[k] = notes[k]
  <2>1. notes' = notes
    BY <1>1, <1>7 DEF Republish
  <2>2. open' = open \/ \E x : open' = [open EXCEPT ![n] = x]
    BY <1>1 DEF Republish
  <2> QED BY <2>1, <2>2 DEF TypeOK, LinkType
<1>10. Links'
  <2>1. CASE n = R
    <3>1. UNCHANGED link
      BY <1>1, <1>4, <1>7, <2>1 DEF Republish, link
    <3> QED BY <1>8, <3>1, QuietLinks DEF ChainInv
  <2>2. CASE n # R
    <3>1. n \in 0 .. R - 1 /\ n + 1 \in Ranks
      BY <1>2, <2>2, ConstantFacts DEF Ranks
    <3>2. Source(n)' = cur[n]
      BY <1>1, <1>2 DEF Source
    <3>3. Waiting(n)' /\ \A k \in Ranks : k # n + 1 => inbox'[k] = inbox[k]
      BY <1>1, <1>3, <1>4, <1>7, <3>1, <3>2, RepublishLink DEF ChainInv
    <3>4. ASSUME NEW k \in 0 .. R - 1, k # n PROVE Link(k)'
      <4>1. k \in Ranks /\ k + 1 \in Ranks /\ k + 1 # n + 1
        BY <1>2, <3>4, ConstantFacts
      <4>2. Link(k)
        BY DEF ChainInv, Links
      <4> QED BY <1>1, <1>8, <1>9, <3>3, <3>4, <4>1, <4>2, LinkKept
    <3> QED BY <1>1, <1>9, <2>2, <3>1, <3>3, <3>4, ConstantFacts DEF Links, Link, ChainInv, Reading
  <2> QED BY <2>1, <2>2
<1>11. OpenAt'
  BY <1>3, <1>6, <1>9 DEF ChainInv, OpenAt
<1>12. ReadAt' /\ MoreAt'
  <2>1. \A k \in Rollout : (Reading(k)' <=> Reading(k)) /\ (k # n => pc'[k] = pc[k])
    BY <1>1, <1>6, ConstantFacts DEF Reading
  <2> QED BY <1>1, <1>3, <1>6, <1>7, <2>1 DEF ChainInv, ReadAt, MoreAt
<1>13. CopyAt'
  BY <1>1, <1>6, <1>7 DEF ChainInv, CopyAt
<1> QED BY <1>5, <1>10, <1>11, <1>12, <1>13 DEF ChainInv

\* With the next bucket arrived, the current one read and copied, the buffers swap.
LEMMA EndBucketChain == ASSUME TypeOK, ChainInv, NEW n \in Rollout, EndBucket(n) PROVE ChainInv'
<1>1. /\ pc[n] = "yield" /\ ~Reading(n) /\ copies[n] = << >> /\ Await(n) /\ Swap(n)
      /\ pc' = [pc EXCEPT ![n] = "publish"]
      /\ bucket' = [bucket EXCEPT ![n] = coming[n]]
      /\ UNCHANGED << prev, next, copies, inbox, xfer >>
  BY DEF EndBucket, ReadDone, Reading, Synchronized
<1>2. n \in Ranks /\ n # 0 /\ (n # R => n \in 0 .. R - 1)
  BY ConstantFacts DEF Rollout
<1>3. Joined
  BY <1>1, Owner DEF ChainInv
<1>4. Shape' /\ Joined'
  BY <1>1, <1>2, <1>3, ShapeStep DEF ChainInv
<1>5. /\ pc'[n] = "publish" /\ (\A k \in Ranks : k # n => pc'[k] = pc[k])
      /\ (\A k \in Ranks : k # n => cur'[k] = cur[k]) /\ (\A k \in Ranks : k # n => bucket'[k] = bucket[k])
  BY <1>1, <1>2 DEF TypeOK, CoreType, DataType, Swap
<1>6. /\ n # R => Free(n)'
      /\ open'[n] = 0 /\ notes'[n] = << >>
      /\ \A k \in Ranks : k # n => open'[k] = open[k] /\ notes'[k] = notes[k]
  BY <1>1, <1>2, AwaitLink DEF ChainInv
<1>7. Links'
  <2>1. ASSUME NEW k \in 0 .. R - 1, k # n PROVE Link(k)'
    <3>1. k \in Ranks
      BY ConstantFacts
    <3>2. Source(k)' = Source(k)
      BY <1>2, <1>5, <2>1, <3>1, TrainerPlace DEF Source
    <3>3. Link(k)
      BY DEF ChainInv, Links
    <3> QED BY <1>1, <1>6, <2>1, <3>1, <3>2, <3>3, LinkKept
  <2>2. open'[R] = 0 /\ notes'[R] = << >> /\ ~Reading(0)'
    BY <1>1, <1>6, ConstantFacts DEF ChainInv, Links, Reading
  <2> QED BY <1>2, <1>6, <2>1, <2>2, ConstantFacts DEF Links, Link
<1>8. OpenAt'
  BY <1>5, <1>6 DEF ChainInv, OpenAt
<1>9. ReadAt' /\ MoreAt'
  <2>1. \A k \in Rollout : (Reading(k)' <=> Reading(k)) /\ (k # n => pc'[k] = pc[k] /\ bucket'[k] = bucket[k])
    BY <1>1, <1>5, ConstantFacts DEF Reading
  <2> QED BY <1>1, <1>5, <2>1 DEF ChainInv, ReadAt, MoreAt
<1>10. CopyAt'
  <2>1. Len(copies[n]) = 0
    BY <1>1
  <2> QED BY <1>1, <1>5, <2>1 DEF ChainInv, CopyAt
<1> QED BY <1>4, <1>7, <1>8, <1>9, <1>10 DEF ChainInv

\* After the last bucket a rank waits for its reader.
LEMMA EndStreamChain == ASSUME TypeOK, ChainInv, NEW n \in Rollout, EndStream(n) PROVE ChainInv'
<1>1. /\ pc[n] = "yield" /\ bucket[n].last /\ Await(n)
      /\ pc' = [pc EXCEPT ![n] = "done"]
      /\ UNCHANGED << prev, next, cur, bucket, copies, inbox, xfer >>
  BY DEF EndStream, data
<1>2. n \in Ranks /\ n # 0 /\ (n # R => n \in 0 .. R - 1)
  BY ConstantFacts DEF Rollout
<1>3. Joined
  BY <1>1, Owner DEF ChainInv
<1>4. Shape' /\ Joined'
  BY <1>1, <1>2, <1>3, ShapeStep DEF ChainInv
<1>5. pc'[n] = "done" /\ \A k \in Ranks : k # n => pc'[k] = pc[k]
  BY <1>1, <1>2 DEF TypeOK, CoreType
<1>6. /\ n # R => Free(n)'
      /\ open'[n] = 0 /\ notes'[n] = << >>
      /\ \A k \in Ranks : k # n => open'[k] = open[k] /\ notes'[k] = notes[k]
  BY <1>1, <1>2, AwaitLink DEF ChainInv
<1>7. Links'
  <2>1. ASSUME NEW k \in 0 .. R - 1, k # n PROVE Link(k)'
    <3>1. k \in Ranks
      BY ConstantFacts
    <3>2. Source(k)' = Source(k)
      BY <1>1, <1>2, <1>5, TrainerPlace DEF Source
    <3>3. Link(k)
      BY DEF ChainInv, Links
    <3> QED BY <1>1, <1>6, <2>1, <3>1, <3>2, <3>3, LinkKept
  <2>2. open'[R] = 0 /\ notes'[R] = << >> /\ ~Reading(0)'
    BY <1>1, <1>6, ConstantFacts DEF ChainInv, Links, Reading
  <2> QED BY <1>2, <1>6, <2>1, <2>2, ConstantFacts DEF Links, Link
<1>8. OpenAt'
  BY <1>5, <1>6 DEF ChainInv, OpenAt
<1>9. ReadAt' /\ MoreAt'
  <2>1. \A k \in Rollout : (Reading(k)' <=> Reading(k)) /\ (k # n => pc'[k] = pc[k])
    BY <1>1, <1>5, ConstantFacts DEF Reading
  <2>2. ~Reading(n)
    BY <1>1 DEF ChainInv, ReadAt
  <2> QED BY <1>1, <1>5, <2>1, <2>2 DEF ChainInv, ReadAt, MoreAt
<1>10. CopyAt'
  BY <1>1, <1>2, <1>5 DEF ChainInv, CopyAt
<1> QED BY <1>4, <1>7, <1>8, <1>9, <1>10 DEF ChainInv

\* A device copy happens.
LEMMA CopyChain == ASSUME TypeOK, ChainInv, NEW n \in Ranks, Copy(n) PROVE ChainInv'
<1> DEFINE t == Tail(copies[n])
<1>1. copies[n] # << >> /\ copies' = [copies EXCEPT ![n] = t] /\ UNCHANGED << core, bucket, link >>
  BY DEF Copy
<1>2. copies \in [Ranks -> Seq(Copies)]
  BY DEF TypeOK, DataType
<1>3. Len(t) = Len(copies[n]) - 1 /\ Len(copies[n]) \in Nat /\ Len(copies[n]) >= 1
      /\ \A i \in 1 .. Len(t) : t[i] = copies[n][i + 1]
  BY <1>1, <1>2, TailType
<1> HIDE DEF t
<1>4. Shape' /\ OpenAt' /\ ReadAt' /\ MoreAt'
  BY <1>1 DEF ChainInv, Shape, Joined, OpenAt, ReadAt, MoreAt, Reading, link, core
<1>5. Links'
  BY <1>1, QuietLinks DEF ChainInv, Source, core
<1>6. CopyAt'
  <2>1. copies'[n] = t /\ \A k \in Ranks : k # n => copies'[k] = copies[k]
    BY <1>1, <1>2
  <2>2. \A i \in 1 .. Len(t) : t[i].buf = cur[n]
    <3>1. \A i \in 1 .. Len(copies[n]) : copies[n][i].buf = cur[n]
      BY DEF ChainInv, CopyAt
    <3>2. \A i \in 1 .. Len(t) : i + 1 \in 1 .. Len(copies[n])
      BY <1>3
    <3> QED BY <1>3, <3>1, <3>2
  <2> QED BY <1>1, <2>1, <2>2 DEF ChainInv, CopyAt, core
<1> QED BY <1>4, <1>5, <1>6 DEF ChainInv

\* A byte arrives; with the last one the owner is notified.
LEMMA MoveByteChain == ASSUME TypeOK, ChainInv, NEW n \in Ranks, MoveByte(n) PROVE ChainInv'
<1> DEFINE k == CHOOSE k \in xfer[n].left : \A j \in xfer[n].left : k <= j
           l == xfer[n].left \ {k}
           m == n - 1
<1>1. Reading(n) /\ n # 0
  BY DEF MoveByte, ReadDone, Reading, ChainInv, Links
<1>2. n \in Rollout /\ m \in 0 .. R - 1 /\ m \in Ranks /\ m # R /\ m + 1 = n /\ n \in Nat
  BY <1>1, ConstantFacts DEF Rollout
<1>3. prev[n] = m
  <2>1. pc[n] \notin {"prepare", "rejected"}
    BY <1>1, <1>2 DEF ChainInv, ReadAt
  <2> QED BY <1>2, <2>1, Owner DEF ChainInv
<1> HIDE DEF m
<1>4. BeingRead(m)
  <2>1. Link(m)
    BY <1>2 DEF ChainInv, Links
  <2> QED BY <1>1, <1>2, <2>1 DEF Link, Free, Waiting, Read
<1>5. /\ xfer' = [xfer EXCEPT ![n].left = l]
      /\ notes' = IF xfer[n].left = {k} THEN [notes EXCEPT ![m] = Append(@, xfer[n].key)] ELSE notes
      /\ UNCHANGED << core, bucket, copies, inbox, open >>
  BY <1>3 DEF MoveByte
<1>6. k \in xfer[n].left
  BY <1>1, NextByte
<1>7. l = {} <=> xfer[n].left = {k}
  BY <1>6
<1> HIDE DEF k, l
<1>8. xfer \in [Ranks -> Reads] /\ notes \in [Ranks -> Seq(Nat)]
  BY DEF TypeOK, LinkType
<1>9. /\ xfer'[n].left = l /\ xfer'[n].src = xfer[n].src /\ xfer'[n].key = xfer[n].key
      /\ \A i \in Ranks : i # n => xfer'[i] = xfer[i]
  <2>1. xfer[n] \in Reads
    BY <1>8
  <2> QED BY <1>5, <1>8, <2>1 DEF Reads
<1>10. \A i \in Ranks : i # m => notes'[i] = notes[i]
  BY <1>5, <1>8
<1>11. notes'[m] = IF l = {} THEN << open[m] >> ELSE << >>
  <2>1. notes[m] = << >> /\ xfer[n].key = open[m]
    BY <1>2, <1>4 DEF BeingRead
  <2>2. Append(notes[m], xfer[n].key) = << open[m] >>
    BY <2>1
  <2> DEFINE a == Append(notes[m], xfer[n].key)
  <2>3. a = << open[m] >> /\ notes' = IF xfer[n].left = {k} THEN [notes EXCEPT ![m] = a] ELSE notes
    BY <1>5, <2>2
  <2> HIDE DEF a
  <2> QED BY <1>2, <1>7, <1>8, <2>1, <2>3
<1>12. Link(m)'
  <2>1. open[m] # 0 /\ inbox[n] = << >> /\ xfer[n].src = Source(m) /\ xfer[n].key = open[m]
    BY <1>2, <1>4 DEF BeingRead
  <2>2. Source(m)' = Source(m)
    BY <1>5 DEF Source, core
  <2>3. CASE l = {}
    <3>1. Read(m)'
      BY <1>2, <1>5, <1>9, <1>11, <2>1, <2>3 DEF Read, Reading
    <3> QED BY <3>1 DEF Link
  <2>4. CASE l # {}
    <3>1. BeingRead(m)'
      BY <1>2, <1>5, <1>9, <1>11, <2>1, <2>2, <2>4 DEF BeingRead, Reading
    <3> QED BY <3>1 DEF Link
  <2> QED BY <2>3, <2>4
<1>13. Links'
  <2>1. ASSUME NEW i \in 0 .. R - 1, i # m PROVE Link(i)'
    <3>1. i \in Ranks /\ i + 1 \in Ranks /\ i + 1 # n
      BY <1>2, <2>1, ConstantFacts
    <3>2. Link(i)
      BY DEF ChainInv, Links
    <3>3. Source(i)' = Source(i)
      BY <1>5 DEF Source, core
    <3> QED BY <1>5, <1>9, <1>10, <2>1, <3>1, <3>2, <3>3, LinkKept
  <2>2. open'[R] = 0 /\ notes'[R] = << >> /\ ~Reading(0)'
    BY <1>1, <1>2, <1>5, <1>9, <1>10, ConstantFacts DEF ChainInv, Links, Reading
  <2> QED BY <1>12, <2>1, <2>2 DEF Links
<1>14. Shape' /\ OpenAt' /\ MoreAt' /\ CopyAt'
  BY <1>5 DEF ChainInv, Shape, Joined, OpenAt, MoreAt, CopyAt, core
<1>15. ReadAt'
  <2>1. \A i \in Rollout : Reading(i)' => Reading(i)
    BY <1>1, <1>9, ConstantFacts DEF Reading
  <2> QED BY <1>5, <2>1 DEF ChainInv, ReadAt, core
<1> QED BY <1>13, <1>14, <1>15 DEF ChainInv

-------------------------------------------------------------------------------
(* Double buffering.                                                          *)

\* A stuttering step.
LEMMA Unchanged == TypeOK /\ ChainInv /\ UNCHANGED vars => TypeOK' /\ ChainInv'
<1> SUFFICES ASSUME TypeOK, ChainInv, UNCHANGED vars PROVE TypeOK' /\ ChainInv'
  OBVIOUS
<1>1. UNCHANGED << core, data, link >>
  BY DEF vars
<1>2. TypeOK'
  BY <1>1 DEF core, data, link, TypeOK, CoreType, DataType, LinkType
<1>3. Shape' /\ OpenAt' /\ ReadAt' /\ MoreAt' /\ CopyAt'
  BY <1>1 DEF core, data, link, ChainInv, Shape, Joined, OpenAt, ReadAt, MoreAt, CopyAt, Reading
<1>4. Links'
  BY <1>1, QuietLinks DEF ChainInv, core, Source
<1> QED BY <1>2, <1>3, <1>4 DEF ChainInv

\* Every step keeps the types and the chain.
LEMMA ChainStep == TypeOK /\ ChainInv /\ [Next]_vars => TypeOK' /\ ChainInv'
<1> SUFFICES ASSUME TypeOK, ChainInv, [Next]_vars PROVE TypeOK' /\ ChainInv'
  OBVIOUS
<1>1. CASE BuildGroup
  BY <1>1, BuildGroupType, BuildGroupChain
<1>2. CASE Trainer
  BY <1>2, FillType, FillChain, SendType, SendBucketChain, SendLastChain, SendDoneChain DEF Trainer
<1>3. CASE \E n \in Rollout : Receiver(n)
  <2> SUFFICES ASSUME NEW n \in Rollout, Receiver(n) PROVE TypeOK' /\ ChainInv'
    BY <1>3
  <2>1. CASE BeginRead(n)
    BY <2>1, BeginReadType, BeginReadChain
  <2>2. CASE FirstRead(n)
    BY <2>2, FirstReadType, FirstReadChain
  <2>3. CASE Publish(n)
    BY <2>3, PublishType, PublishChain DEF ChainInv
  <2>4. CASE Yield(n)
    BY <2>4, YieldType, YieldChain
  <2>5. CASE EndBucket(n)
    BY <2>5, EndType, EndBucketChain
  <2>6. CASE EndStream(n)
    BY <2>6, EndType, EndStreamChain
  <2> QED BY <2>1, <2>2, <2>3, <2>4, <2>5, <2>6 DEF Receiver
<1>4. CASE \E n \in Ranks : Device(n)
  <2> SUFFICES ASSUME NEW n \in Ranks, Device(n) PROVE TypeOK' /\ ChainInv'
    BY <1>4
  <2>1. CASE MoveByte(n)
    <3>1. prev[n] \in Ranks
      <4>1. Reading(n) /\ n # 0
        BY <2>1 DEF MoveByte, ReadDone, Reading, ChainInv, Links
      <4>2. n \in Rollout
        BY <4>1, ConstantFacts
      <4>3. pc[n] \notin {"prepare", "rejected"}
        BY <4>1, <4>2 DEF ChainInv, ReadAt
      <4>4. prev[n] = n - 1
        BY <4>2, <4>3, Owner DEF ChainInv
      <4> QED BY <4>2, <4>4, ConstantFacts
    <3> QED BY <2>1, <3>1, MoveByteType, MoveByteChain
  <2>2. CASE Copy(n)
    BY <2>2, CopyType, CopyChain
  <2> QED BY <2>1, <2>2 DEF Device
<1>5. CASE UNCHANGED vars
  BY <1>5, Unchanged
<1> QED BY <1>1, <1>2, <1>3, <1>4, <1>5 DEF Next

\* The states of the links say that what is read is not written.
LEMMA ChainIsStable == TypeOK /\ ChainInv => BuffersStable
<1> SUFFICES ASSUME TypeOK, ChainInv PROVE BuffersStable
  OBVIOUS
<1>1. ASSUME NEW n \in Rollout, Reading(n)
      PROVE  prev[n] = n - 1 /\ n - 1 \in Ranks /\ xfer[n].src = Source(n - 1)
  <2> DEFINE m == n - 1
  <2>1. m \in 0 .. R - 1 /\ m \in Ranks /\ m + 1 = n /\ n \in Ranks
    BY ConstantFacts DEF Rollout
  <2>2. Link(m)
    BY <2>1 DEF ChainInv, Links
  <2>3. BeingRead(m)
    BY <1>1, <2>1, <2>2 DEF Link, Free, Waiting, Read
  <2>4. pc[n] \notin {"prepare", "rejected"}
    BY <1>1 DEF ChainInv, ReadAt
  <2>5. prev[n] = m
    BY <2>4, Owner DEF ChainInv
  <2> QED BY <2>1, <2>3, <2>5 DEF BeingRead
<1>2. ReadBufferStable
  <2> SUFFICES ASSUME NEW n \in Rollout, Reading(n)
               PROVE  /\ prev[n] = 0 => \A i \in DOMAIN copies[0] : copies[0][i].buf # xfer[n].src
                      /\ prev[n] # 0 /\ Reading(prev[n]) => xfer[n].src = cur[prev[n]]
    BY DEF ReadBufferStable, ReadDone, Reading
  <2>1. prev[n] # 0 => xfer[n].src = cur[prev[n]]
    BY <1>1 DEF Source
  <2>2. ASSUME prev[n] = 0, NEW i \in DOMAIN copies[0] PROVE copies[0][i].buf # xfer[n].src
    <3>1. copies[0] \in Seq(Copies) /\ cur[0] \in 1 .. 2
      BY TrainerPlace DEF TypeOK, CoreType, DataType
    <3>2. i \in 1 .. Len(copies[0]) /\ copies[0] # << >>
      BY <2>2, <3>1
    <3>3. copies[0][i].buf = cur[0] /\ pc[0] # "sent"
      BY <3>2, TrainerPlace DEF ChainInv, CopyAt
    <3>4. xfer[n].src = 3 - cur[0]
      BY <1>1, <2>2, <3>3 DEF Source
    <3> QED BY <3>1, <3>3, <3>4
  <2> QED BY <2>1, <2>2
<1>3. CopiedBeforeOverwritten
  <2>1. ASSUME NEW n \in Rollout PROVE DOMAIN copies[n] = 1 .. Len(copies[n])
    <3>1. copies[n] \in Seq(Copies)
      BY ConstantFacts DEF TypeOK, DataType
    <3> QED BY <3>1
  <2> QED BY <2>1, ConstantFacts DEF CopiedBeforeOverwritten, ChainInv, CopyAt
<1>4. NotifyKeysMatch
  <2> SUFFICES ASSUME NEW n \in Ranks, notes[n] # << >> PROVE notes[n] = << open[n] >>
    BY DEF NotifyKeysMatch
  <2>1. n # R
    BY DEF ChainInv, Links
  <2>2. Link(n)
    BY <2>1, ConstantFacts DEF ChainInv, Links, Ranks
  <2> QED BY <2>2 DEF Link, Free, Waiting, BeingRead, Read
<1>5. SenderOutlivesReader
  <2> SUFFICES ASSUME pc[0] = "done" PROVE inbox[1] = << >> /\ ~Reading(1) /\ copies[0] = << >>
    BY DEF SenderOutlivesReader, ReadDone, Reading
  <2>1. open[0] = 0 /\ copies[0] = << >>
    BY TrainerPlace DEF ChainInv, OpenAt, CopyAt
  <2>2. Link(0)
    BY TrainerPlace DEF ChainInv, Links
  <2> QED BY <2>1, <2>2, TrainerPlace DEF Link, Free, Waiting, BeingRead, Read
<1> QED BY <1>2, <1>3, <1>4, <1>5 DEF BuffersStable

\* Double buffering is safe for any number of ranks, tensors and bucket sizes: while the
\* next rank reads a published buffer, neither the trainer's copies nor its owner's next
\* read write to it, a rank never reads into the buffer its engine still copies tensors
\* out of, wait_for_complete gets the notification of its own bucket, and send_weights
\* returns only when its last bucket has been read.
THEOREM BuffersSafe == Spec => []BuffersStable
<1>1. Init => TypeOK /\ ChainInv
  BY TypeInit, ChainInit
<1>2. TypeOK /\ ChainInv /\ [Next]_vars => (TypeOK /\ ChainInv)'
  BY ChainStep
<1>3. TypeOK /\ ChainInv => BuffersStable
  BY ChainIsStable
<1> HIDE DEF TypeOK, ChainInv
<1> QED BY <1>1, <1>2, <1>3, PTL DEF Spec

-------------------------------------------------------------------------------
(* The data in the buffers.                                                   *)

\* Consecutive tensors, the first after base, inside the buffer.
Placed(s, base) == \A i \in 1 .. Len(s) : s[i].name = base + i /\ Span(s[i]) \subseteq Bytes

\* The bytes of the items are in buffer b of rank n.
Holds(n, b, s) == \A i \in 1 .. Len(s) : \A k \in Span(s[i]) : buf[n][b][k] = s[i].name

\* The copies are those of the last of the first d items.
Match(c, s, d) ==
  /\ Len(c) <= d /\ d <= Len(s)
  /\ \A j \in 1 .. Len(c) : /\ c[j].name = s[d - Len(c) + j].name
                            /\ c[j].offset = s[d - Len(c) + j].offset

\* The items do not overlap.
Apart(s) == \A i, j \in 1 .. Len(s) : i < j => s[i].offset + Size[s[i].name] <= s[j].offset

\* The trainer's bucket: the tensors up to the cursor, one after the other, those
\* whose copies are done with their bytes in the buffer.
Packed == LET s == bucket[0].items IN
  /\ Placed(s, cursor - 1 - Len(s)) /\ Apart(s)
  /\ Match(copies[0], s, Len(s))
  /\ \A i \in 1 .. Len(s) - Len(copies[0]) : \A k \in Span(s[i]) : buf[0][cur[0]][k] = s[i].name

\* Handing out the tensors of the current bucket.
Handing(n) == pc[n] \in {"more", "yield", "done"}

\* The send buffer of n holds a bucket.
Holding(n) == pc[n] = "publish" \/ Handing(n)

\* The tensors handed to the engine of n, copied out or still to be.
Given(n) == Len(got[n]) + Len(copies[n])

\* The tensors handed out before those of the current bucket.
Base(n) == IF Handing(n) THEN Given(n) - yielded[n] ELSE Given(n)

\* The tensors n has received.
Expect(n) == IF Holding(n) THEN Base(n) + Len(bucket[n].items) ELSE 0

\* A rank has its bucket whole, and hands it out in order.
RankData(n) ==
  /\ ~Holding(n) => got[n] = << >> /\ copies[n] = << >>
  /\ Holding(n) => Placed(bucket[n].items, Base(n)) /\ Holds(n, cur[n], bucket[n].items)
  /\ Handing(n) => Match(copies[n], bucket[n].items, yielded[n])

\* The tensors n has published.
Sent(n) ==
  IF n = 0 THEN IF pc[0] \in {"sent", "done"} THEN cursor - 1 ELSE cursor - 1 - Len(bucket[0].items)
  ELSE IF pc[n] = "publish" THEN Base(n) ELSE Expect(n)

\* n reads a bucket, or has read it and not taken it.
Coming(n) == pc[n] = "waitFirst" \/ (pc[n] = "yield" /\ ~bucket[n].last)

\* The tensors of which n has the metadata.
Avail(n) == IF Coming(n) THEN Expect(n) + Len(coming[n].items) ELSE Expect(n)

\* What is published is what comes next, and it stays whole until it is read; what
\* has been read of it is where it is collected.
LinkData(n) ==
  /\ inbox[n + 1] = << >> => Sent(n) = Avail(n + 1)
  /\ inbox[n + 1] # << >> => LET s == inbox[n + 1][1].bucket.items IN
       Sent(n) = Avail(n + 1) + Len(s) /\ Placed(s, Avail(n + 1)) /\ Holds(n, Source(n), s)
  /\ Coming(n + 1) => Placed(coming[n + 1].items, Expect(n + 1))
  /\ Coming(n + 1) /\ ~Reading(n + 1) => Holds(n + 1, 3 - cur[n + 1], coming[n + 1].items)
  /\ Reading(n + 1) => /\ Holds(n, Source(n), coming[n + 1].items)
                       /\ \A k \in Bytes \ xfer[n + 1].left :
                            buf[n + 1][3 - cur[n + 1]][k] = buf[n][Source(n)][k]

\* The inductive invariant behind ChainHandsOver.
DataInv == Packed /\ (\A n \in Rollout : RankData(n)) /\ \A n \in 0 .. R - 1 : LinkData(n)

\* Sums of natural numbers.
LEMMA NatSum == \A a, b \in Nat : a + b \in Nat
OBVIOUS

\* The numbers of tensors.
LEMMA Counts ==
  ASSUME TypeOK, NEW n \in Ranks
  PROVE  /\ Len(got[n]) \in Nat /\ Len(copies[n]) \in Nat /\ yielded[n] \in Nat /\ Given(n) \in Nat
         /\ Len(bucket[n].items) \in Nat /\ Len(coming[n].items) \in Nat /\ cursor \in Int
         /\ Base(n) \in Int /\ Expect(n) \in Int /\ Sent(n) \in Int /\ Avail(n) \in Int
         /\ copies[n] = << >> => Len(copies[n]) = 0
         /\ got[n] = << >> => Len(got[n]) = 0
<1>1. got[n] \in Seq(Nat) /\ copies[n] \in Seq(Copies) /\ yielded[n] \in Nat /\ bucket[n] \in Buckets /\ coming[n] \in Buckets
  BY DEF TypeOK, DataType
<1>2. Len(got[n]) \in Nat /\ Len(copies[n]) \in Nat /\ Len(bucket[n].items) \in Nat /\ Len(coming[n].items) \in Nat
  BY <1>1, LenProperties, ItemFacts
<1>3. Given(n) \in Nat
  BY <1>2, NatSum DEF Given
<1>4. Base(n) \in Int
  BY <1>1, <1>3 DEF Base
<1>5. Expect(n) \in Int
  BY <1>2, <1>4 DEF Expect
<1>6. cursor \in Int /\ Len(bucket[0].items) \in Nat
  <2>1. bucket[0] \in Buckets
    BY TrainerPlace DEF TypeOK, DataType
  <2> QED BY <2>1, ItemFacts, ConstantFacts DEF TypeOK, CoreType
<1>7. Sent(n) \in Int
  BY <1>4, <1>5, <1>6 DEF Sent
<1>8. Avail(n) \in Int
  BY <1>2, <1>5 DEF Avail
<1> QED BY <1>1, <1>2, <1>3, <1>4, <1>5, <1>6, <1>7, <1>8, EmptySeq

\* The copy made next is that of the item that is due.
LEMMA MatchTail ==
  ASSUME NEW c \in Seq(Copies), NEW s, NEW d \in Nat, Len(s) \in Nat, c # << >>, Match(c, s, d)
  PROVE  /\ Match(Tail(c), s, d) /\ d - Len(c) + 1 \in 1 .. Len(s)
         /\ c[1].name = s[d - Len(c) + 1].name /\ c[1].offset = s[d - Len(c) + 1].offset
<1> DEFINE t == Tail(c)
           L == Len(c)
<1>1. L \in Nat /\ L >= 1 /\ Len(t) = L - 1 /\ \A i \in 1 .. Len(t) : t[i] = c[i + 1]
  BY TailType
<1>2. /\ L <= d /\ d <= Len(s)
      /\ \A j \in 1 .. L : c[j].name = s[d - L + j].name /\ c[j].offset = s[d - L + j].offset
  BY DEF Match
<1> HIDE DEF t, L
<1>3. ASSUME NEW j \in 1 .. Len(t)
      PROVE  t[j].name = s[d - Len(t) + j].name /\ t[j].offset = s[d - Len(t) + j].offset
  <2>1. j + 1 \in 1 .. L /\ d - L + (j + 1) = d - Len(t) + j
    BY <1>1
  <2>2. t[j] = c[j + 1]
    BY <1>1
  <2> QED BY <1>2, <2>1, <2>2
<1>4. Len(t) <= d
  BY <1>1, <1>2
<1>5. Match(t, s, d)
  BY <1>2, <1>3, <1>4 DEF Match
<1>6. 1 \in 1 .. L /\ d - L + 1 \in 1 .. Len(s)
  BY <1>1, <1>2
<1> QED BY <1>2, <1>5, <1>6 DEF t, L

\* One more item is handed out, its copy is issued.
LEMMA MatchAppend ==
  ASSUME NEW c \in Seq(Copies), NEW x, NEW s, NEW u, NEW d \in Nat, Len(s) \in Nat, Len(u) \in Nat,
         d < Len(u), d <= Len(s), \A i \in 1 .. Len(s) : u[i] = s[i],
         Match(c, s, d), x \in Copies, x.name = u[d + 1].name, x.offset = u[d + 1].offset
  PROVE  Match(Append(c, x), u, d + 1)
<1> DEFINE a == Append(c, x)
           L == Len(c)
<1>1. L \in Nat /\ Len(a) = L + 1 /\ \A i \in 1 .. L + 1 : a[i] = IF i <= L THEN c[i] ELSE x
  <2>1. Len(c) \in Nat /\ Len(a) = Len(c) + 1
    BY LenProperties
  <2> QED BY <2>1
<1>2. /\ L <= d
      /\ \A j \in 1 .. L : c[j].name = s[d - L + j].name /\ c[j].offset = s[d - L + j].offset
  BY DEF Match
<1> HIDE DEF a, L
<1>3. ASSUME NEW j \in 1 .. Len(a)
      PROVE  a[j].name = u[d + 1 - Len(a) + j].name /\ a[j].offset = u[d + 1 - Len(a) + j].offset
  <2>1. CASE j <= L
    <3>1. j \in 1 .. L /\ j \in 1 .. L + 1 /\ d + 1 - Len(a) + j = d - L + j /\ d - L + j \in 1 .. Len(s)
      BY <1>1, <1>2, <2>1
    <3>2. a[j] = c[j]
      BY <1>1, <2>1, <3>1
    <3> QED BY <1>2, <3>1, <3>2
  <2>2. CASE ~(j <= L)
    <3>1. j \in 1 .. L + 1 /\ d + 1 - Len(a) + j = d + 1
      BY <1>1, <2>2
    <3>2. a[j] = x
      BY <1>1, <2>2, <3>1
    <3> QED BY <3>1, <3>2
  <2> QED BY <2>1, <2>2
<1>4. Len(a) <= d + 1 /\ d + 1 <= Len(u)
  BY <1>1, <1>2
<1>5. Match(a, u, d + 1)
  BY <1>3, <1>4 DEF Match
<1> QED BY <1>5 DEF a

\* One more item in the bucket.
LEMMA AppendItem ==
  ASSUME NEW s \in Seq(Items), NEW x \in Items
  PROVE  LET a == Append(s, x) IN
         /\ a \in Seq(Items) /\ Len(a) = Len(s) + 1 /\ Len(s) \in Nat /\ a[Len(s) + 1] = x
         /\ \A i \in 1 .. Len(s) : a[i] = s[i] /\ i \in 1 .. Len(s) + 1
         /\ \A i \in 1 .. Len(s) + 1 : i \in 1 .. Len(s) \/ i = Len(s) + 1
<1> DEFINE a == Append(s, x)
<1>1. a \in Seq(Items) /\ Len(a) = Len(s) + 1 /\ Len(s) \in Nat
  BY LenProperties
<1>2. \A i \in 1 .. Len(s) + 1 : a[i] = IF i <= Len(s) THEN s[i] ELSE x
  BY <1>1
<1> HIDE DEF a
<1>3. /\ \A i \in 1 .. Len(s) : i \in 1 .. Len(s) + 1 /\ i <= Len(s)
      /\ \A i \in 1 .. Len(s) + 1 : i \in 1 .. Len(s) \/ i = Len(s) + 1
      /\ Len(s) + 1 \in 1 .. Len(s) + 1 /\ ~(Len(s) + 1 <= Len(s))
  BY <1>1
<1> QED BY <1>1, <1>2, <1>3 DEF a

\* The next tensor follows the others.
LEMMA PlacedAppend ==
  ASSUME NEW s \in Seq(Items), NEW x \in Items, NEW base \in Int,
         Placed(s, base), x.name = base + (Len(s) + 1), Span(x) \subseteq Bytes
  PROVE  Placed(Append(s, x), base)
<1> DEFINE a == Append(s, x)
<1>1. /\ Len(a) = Len(s) + 1 /\ a[Len(s) + 1] = x /\ \A i \in 1 .. Len(s) : a[i] = s[i]
      /\ \A i \in 1 .. Len(s) + 1 : i \in 1 .. Len(s) \/ i = Len(s) + 1
  BY AppendItem
<1> HIDE DEF a
<1>2. Placed(a, base)
  BY <1>1 DEF Placed
<1> QED BY <1>2 DEF a

\* An item after the end of the others overlaps none.
LEMMA ApartAppend ==
  ASSUME NEW s \in Seq(Items), NEW x \in Items, Apart(s),
         \A i \in 1 .. Len(s) : s[i].offset + Size[s[i].name] <= x.offset
  PROVE  Apart(Append(s, x))
<1> DEFINE a == Append(s, x)
<1>1. /\ Len(a) = Len(s) + 1 /\ Len(s) \in Nat /\ a[Len(s) + 1] = x /\ \A i \in 1 .. Len(s) : a[i] = s[i]
      /\ \A i \in 1 .. Len(s) + 1 : i \in 1 .. Len(s) \/ i = Len(s) + 1
  BY AppendItem
<1> HIDE DEF a
<1>2. ASSUME NEW i \in 1 .. Len(a), NEW j \in 1 .. Len(a), i < j
      PROVE  a[i].offset + Size[a[i].name] <= a[j].offset
  <2>1. i \in 1 .. Len(s)
    BY <1>1, <1>2
  <2>2. CASE j \in 1 .. Len(s)
    BY <1>1, <1>2, <2>1, <2>2 DEF Apart
  <2>3. CASE j = Len(s) + 1
    BY <1>1, <2>1, <2>3
  <2> QED BY <1>1, <2>2, <2>3
<1>3. Apart(a)
  BY <1>2 DEF Apart
<1> QED BY <1>3 DEF a

\* The trainer's offset is after all items.
LEMMA OffsetAfter ==
  ASSUME TypeOK, Apart(bucket[0].items)
  PROVE  \A i \in 1 .. Len(bucket[0].items) :
           bucket[0].items[i].offset + Size[bucket[0].items[i].name] <= Offset
<1> DEFINE s == bucket[0].items
           L == Len(s)
<1>1. bucket[0] \in Buckets
  BY TrainerPlace DEF TypeOK, DataType
<1>2. /\ s \in Seq(Items) /\ L \in Nat
      /\ \A i \in 1 .. L : s[i].offset \in Nat /\ Size[s[i].name] \in Nat
  BY <1>1, ItemFacts
<1> SUFFICES ASSUME NEW i \in 1 .. L PROVE s[i].offset + Size[s[i].name] <= Offset
  OBVIOUS
<1>3. L \in 1 .. L /\ L >= 1 /\ s # << >>
  BY <1>2
<1>4. Offset = s[L].offset + Size[s[L].name]
  BY <1>3, OffsetType
<1>5. CASE i = L
  BY <1>2, <1>3, <1>4, <1>5
<1>6. CASE i # L
  <2>1. i < L
    BY <1>2, <1>6
  <2>2. s[i].offset + Size[s[i].name] <= s[L].offset
    BY <1>3, <2>1 DEF Apart
  <2>3. s[L].offset \in Nat /\ Size[s[L].name] \in Nat /\ s[i].offset + Size[s[i].name] \in Nat
    BY <1>2, <1>3
  <2> QED BY <1>4, <2>2, <2>3
<1> QED BY <1>5, <1>6

-------------------------------------------------------------------------------
(* Ranks and links a step leaves alone.                                       *)

\* A step leaves what rank n has and does as it is.
Own(n) ==
  /\ pc'[n] = pc[n] /\ cur'[n] = cur[n] /\ buf'[n] = buf[n]
  /\ bucket'[n] = bucket[n] /\ coming'[n] = coming[n]
  /\ copies'[n] = copies[n] /\ got'[n] = got[n] /\ yielded'[n] = yielded[n]
  /\ n = 0 => cursor' = cursor

\* Then the numbers of its tensors stay, ...
LEMMA OwnKept ==
  ASSUME NEW n \in Ranks, Own(n)
  PROVE  /\ Base(n)' = Base(n) /\ Expect(n)' = Expect(n) /\ Avail(n)' = Avail(n) /\ Sent(n)' = Sent(n)
         /\ Coming(n)' <=> Coming(n)
         /\ Source(n)' = Source(n)
<1>1. (Handing(n)' <=> Handing(n)) /\ (Holding(n)' <=> Holding(n)) /\ (Coming(n)' <=> Coming(n)) /\ Given(n)' = Given(n)
  BY DEF Own, Handing, Holding, Coming, Given
<1>2. Base(n)' = Base(n)
  BY <1>1 DEF Own, Base
<1>3. Expect(n)' = Expect(n)
  BY <1>1, <1>2 DEF Own, Expect
<1>4. Avail(n)' = Avail(n)
  BY <1>1, <1>3 DEF Own, Avail
<1>5. Sent(n)' = Sent(n)
  <2>1. CASE n = 0
    BY <2>1 DEF Own, Sent
  <2>2. CASE n # 0
    BY <1>2, <1>3, <2>2 DEF Own, Sent
  <2> QED BY <2>1, <2>2
<1>6. Source(n)' = Source(n)
  <2>1. CASE n = 0
    BY <2>1 DEF Own, Source
  <2>2. CASE n # 0
    BY <2>2 DEF Own, Source
  <2> QED BY <2>1, <2>2
<1> QED BY <1>1, <1>2, <1>3, <1>4, <1>5, <1>6

\* ... what it has stays whole, ...
LEMMA RankKept ==
  ASSUME NEW n \in Ranks, Own(n), RankData(n)
  PROVE  RankData(n)'
<1>1. (Handing(n)' <=> Handing(n)) /\ (Holding(n)' <=> Holding(n)) /\ Base(n)' = Base(n)
  BY OwnKept DEF Own, Handing, Holding
<1>2. Holds(n, cur[n], bucket[n].items) => Holds(n, cur[n], bucket[n].items)'
  BY DEF Own, Holds
<1> QED BY <1>1, <1>2 DEF Own, RankData

\* ... and so does the trainer's bucket.
LEMMA PackedKept == Own(0) /\ Packed => Packed'
BY DEF Own, Packed

\* What the reader of a link needs from the sender.
LEMMA SenderSide ==
  ASSUME NEW n \in 0 .. R - 1, LinkData(n), Own(n + 1), xfer'[n + 1] = xfer[n + 1], inbox'[n + 1] = inbox[n + 1],
         Sent(n)' = Sent(n),
         inbox[n + 1] # << >> \/ Reading(n + 1) =>
           Source(n)' = Source(n) /\ buf'[n][Source(n)] = buf[n][Source(n)]
  PROVE  LinkData(n)'
<1>1. n + 1 \in Ranks
  BY ConstantFacts
<1>2. /\ Expect(n + 1)' = Expect(n + 1) /\ Avail(n + 1)' = Avail(n + 1) /\ (Coming(n + 1)' <=> Coming(n + 1))
      /\ Reading(n + 1)' <=> Reading(n + 1)
      /\ coming'[n + 1] = coming[n + 1] /\ buf'[n + 1] = buf[n + 1] /\ cur'[n + 1] = cur[n + 1]
  BY <1>1, OwnKept DEF Own, Reading
<1> DEFINE m == n + 1
           S == Source(n)
<1>3. ASSUME NEW s, inbox[m] # << >> \/ Reading(m), Holds(n, S, s) PROVE Holds(n, S, s)'
  BY <1>3 DEF Holds
<1>4. (inbox[m] = << >> => Sent(n) = Avail(m))'
  BY <1>2 DEF LinkData
<1>5. (inbox[m] # << >> => LET s == inbox[m][1].bucket.items IN
         Sent(n) = Avail(m) + Len(s) /\ Placed(s, Avail(m)) /\ Holds(n, S, s))'
  <2> SUFFICES ASSUME inbox'[m] # << >>
               PROVE  LET s == inbox[m][1].bucket.items IN
                      (Sent(n) = Avail(m) + Len(s) /\ Placed(s, Avail(m)) /\ Holds(n, S, s))'
    OBVIOUS
  <2>1. LET s == inbox[m][1].bucket.items IN
        Sent(n) = Avail(m) + Len(s) /\ Placed(s, Avail(m)) /\ Holds(n, S, s)
    BY DEF LinkData
  <2>2. LET s == inbox[m][1].bucket.items IN Holds(n, S, s)'
    BY <2>1 DEF Holds
  <2> QED BY <1>2, <2>1, <2>2
<1>6. (Coming(m) => Placed(coming[m].items, Expect(m)))'
  BY <1>2 DEF LinkData
<1>7. (Coming(m) /\ ~Reading(m) => Holds(m, 3 - cur[m], coming[m].items))'
  BY <1>2 DEF LinkData, Holds
<1>8. (Reading(m) => /\ Holds(n, S, coming[m].items)
                     /\ \A k \in Bytes \ xfer[m].left : buf[m][3 - cur[m]][k] = buf[n][S][k])'
  BY <1>2 DEF LinkData, Holds
<1> HIDE DEF m, S
<1>9. m = n + 1 /\ S = Source(n) /\ S' = Source(n)'
  BY DEF m, S
<1> QED BY <1>4, <1>5, <1>6, <1>7, <1>8 DEF LinkData, m, S

\* What the sender of a link needs from the reader.
LEMMA ReaderSide ==
  ASSUME NEW n \in 0 .. R - 1, LinkData(n), Own(n), xfer'[n + 1] = xfer[n + 1], inbox'[n + 1] = inbox[n + 1],
         Avail(n + 1)' = Avail(n + 1), coming'[n + 1] = coming[n + 1], Coming(n + 1)' <=> Coming(n + 1),
         Reading(n + 1) => Coming(n + 1),
         Coming(n + 1) => /\ Expect(n + 1)' = Expect(n + 1)
                          /\ buf'[n + 1][3 - cur'[n + 1]] = buf[n + 1][3 - cur[n + 1]]
  PROVE  LinkData(n)'
<1> DEFINE m == n + 1
           S == Source(n)
<1>1. n \in Ranks
  BY ConstantFacts
<1>2. Sent(n)' = Sent(n) /\ S' = S /\ buf'[n] = buf[n]
  BY <1>1, OwnKept DEF Own
<1>3. Reading(m)' <=> Reading(m)
  BY DEF Reading
<1>4. (inbox[m] = << >> => Sent(n) = Avail(m))'
  BY <1>2 DEF LinkData
<1>5. (inbox[m] # << >> => LET s == inbox[m][1].bucket.items IN
         Sent(n) = Avail(m) + Len(s) /\ Placed(s, Avail(m)) /\ Holds(n, S, s))'
  <2> SUFFICES ASSUME inbox'[m] # << >>
               PROVE  LET s == inbox[m][1].bucket.items IN
                      (Sent(n) = Avail(m) + Len(s) /\ Placed(s, Avail(m)) /\ Holds(n, S, s))'
    OBVIOUS
  <2>1. LET s == inbox[m][1].bucket.items IN
        Sent(n) = Avail(m) + Len(s) /\ Placed(s, Avail(m)) /\ Holds(n, S, s)
    BY DEF LinkData
  <2>2. LET s == inbox[m][1].bucket.items IN Holds(n, S, s)'
    BY <1>2, <2>1 DEF Holds
  <2> QED BY <1>2, <2>1, <2>2
<1>6. (Coming(m) => Placed(coming[m].items, Expect(m)))'
  BY DEF LinkData
<1>7. (Coming(m) /\ ~Reading(m) => Holds(m, 3 - cur[m], coming[m].items))'
  <2> SUFFICES ASSUME Coming(m), ~Reading(m) PROVE Holds(m, 3 - cur[m], coming[m].items)'
    BY <1>3
  <2>1. Holds(m, 3 - cur[m], coming[m].items)
    BY DEF LinkData
  <2> QED BY <2>1 DEF Holds
<1>8. (Reading(m) => /\ Holds(n, S, coming[m].items)
                     /\ \A k \in Bytes \ xfer[m].left : buf[m][3 - cur[m]][k] = buf[n][S][k])'
  <2> SUFFICES ASSUME Reading(m)
               PROVE  (/\ Holds(n, S, coming[m].items)
                       /\ \A k \in Bytes \ xfer[m].left : buf[m][3 - cur[m]][k] = buf[n][S][k])'
    BY <1>3
  <2>1. /\ Holds(n, S, coming[m].items)
        /\ \A k \in Bytes \ xfer[m].left : buf[m][3 - cur[m]][k] = buf[n][S][k]
    BY DEF LinkData
  <2>2. Holds(n, S, coming[m].items)'
    BY <1>2, <2>1 DEF Holds
  <2>3. Coming(m)
    OBVIOUS
  <2> QED BY <1>2, <2>1, <2>2, <2>3
<1> QED BY <1>4, <1>5, <1>6, <1>7, <1>8 DEF LinkData

\* A rank publishes the bucket it has filled or received.
LEMMA RepublishData ==
  ASSUME NEW n \in 0 .. R - 1, LinkData(n), Own(n + 1), inbox[n + 1] = << >>, ~Reading(n + 1),
         ~Reading(n + 1)', inbox'[n + 1] # << >>, NEW s, inbox'[n + 1][1].bucket.items = s,
         Sent(n)' = Sent(n) + Len(s), Placed(s, Sent(n)),
         \A i \in 1 .. Len(s) : \A k \in Span(s[i]) : buf'[n][Source(n)'][k] = s[i].name
  PROVE  LinkData(n)'
<1> DEFINE m == n + 1
<1>1. m \in Ranks
  BY ConstantFacts
<1>2. /\ Expect(m)' = Expect(m) /\ Avail(m)' = Avail(m) /\ (Coming(m)' <=> Coming(m))
      /\ coming'[m] = coming[m] /\ buf'[m] = buf[m] /\ cur'[m] = cur[m]
  BY <1>1, OwnKept DEF Own
<1>3. Sent(n) = Avail(m)
  BY DEF LinkData
<1>4. (Coming(m) => Placed(coming[m].items, Expect(m)))'
  BY <1>2 DEF LinkData
<1>5. (Coming(m) /\ ~Reading(m) => Holds(m, 3 - cur[m], coming[m].items))'
  BY <1>2 DEF LinkData, Holds
<1>6. Holds(n, Source(n), inbox[m][1].bucket.items)'
  BY DEF Holds
<1> QED BY <1>2, <1>3, <1>4, <1>5, <1>6 DEF LinkData

-------------------------------------------------------------------------------
(* What a step does to the data.                                              *)

\* At the start nothing is packed and nothing sent.
LEMMA DataInit == Init => DataInv
<1> SUFFICES ASSUME Init PROVE DataInv
  OBVIOUS
<1>1. \A n \in Ranks : /\ pc[n] = "prepare" /\ inbox[n] = << >> /\ copies[n] = << >> /\ got[n] = << >>
                       /\ bucket[n].items = << >> /\ ~Reading(n)
  BY DEF Init, Reading, NoRead, Empty
<1>2. cursor = 1 /\ 0 \in Ranks
  BY TrainerPlace DEF Init
<1>3. Packed
  <2>1. bucket[0].items = << >> /\ copies[0] = << >> /\ Len(<< >>) = 0
    BY <1>1, <1>2
  <2> QED BY <2>1 DEF Packed, Placed, Apart, Match
<1>4. \A n \in Rollout : RankData(n)
  BY <1>1, ConstantFacts DEF RankData, Holding, Handing
<1>5. ASSUME NEW n \in 0 .. R - 1 PROVE LinkData(n)
  <2>1. n \in Ranks /\ n + 1 \in Ranks
    BY ConstantFacts
  <2>2. Sent(n) = 0
    <3>1. CASE n = 0
      <4>1. Len(bucket[0].items) = 0
        BY <1>1, <1>2
      <4> QED BY <1>1, <1>2, <3>1, <4>1 DEF Sent
    <3>2. CASE n # 0
      BY <1>1, <2>1, <3>2 DEF Sent, Expect, Holding, Handing
    <3> QED BY <3>1, <3>2
  <2>3. Avail(n + 1) = 0 /\ ~Coming(n + 1)
    BY <1>1, <2>1 DEF Avail, Coming, Expect, Holding, Handing
  <2> QED BY <1>1, <2>1, <2>2, <2>3 DEF LinkData
<1> QED BY <1>3, <1>4, <1>5 DEF DataInv

\* A step of rank m concerns its own data and the links on its two sides.
LEMMA OneRank ==
  ASSUME DataInv, NEW m \in Ranks,
         \A k \in Ranks : k # m => Own(k),
         \A k \in Ranks : k # m /\ k # m + 1 => inbox'[k] = inbox[k] /\ xfer'[k] = xfer[k],
         m = 0 => Packed',
         m # 0 => RankData(m)' /\ LinkData(m - 1)',
         m # R => LinkData(m)'
  PROVE  DataInv'
<1>1. Packed'
  BY PackedKept, TrainerPlace DEF DataInv
<1>2. ASSUME NEW n \in Rollout PROVE RankData(n)'
  BY RankKept, ConstantFacts DEF DataInv
<1>3. ASSUME NEW n \in 0 .. R - 1 PROVE LinkData(n)'
  <2>1. n \in Ranks /\ n + 1 \in Ranks /\ n # R
    BY ConstantFacts
  <2>2. CASE n = m
    BY <2>1, <2>2
  <2>3. CASE n + 1 = m
    <3>1. m # 0 /\ m - 1 = n
      BY <2>3
    <3> QED BY <3>1
  <2>4. CASE n # m /\ n + 1 # m
    <3>1. Own(n) /\ Own(n + 1)
      BY <2>1, <2>4
    <3>2. n + 1 # m + 1
      BY <2>1, <2>4 DEF Ranks
    <3>3. inbox'[n + 1] = inbox[n + 1] /\ xfer'[n + 1] = xfer[n + 1]
      BY <2>1, <2>4, <3>2
    <3>4. LinkData(n)
      BY DEF DataInv
    <3>5. Sent(n)' = Sent(n) /\ Source(n)' = Source(n) /\ buf'[n] = buf[n]
      BY <2>1, <3>1, OwnKept DEF Own
    <3> QED BY <3>1, <3>3, <3>4, <3>5, SenderSide
  <2> QED BY <2>2, <2>3, <2>4
<1> QED BY <1>1, <1>2, <1>3 DEF DataInv

\* What the trainer has sent is before its bucket.
LEMMA SentTrainer ==
  /\ pc[0] \notin {"sent", "done"} => Sent(0) = cursor - 1 - Len(bucket[0].items)
  /\ pc[0] \in {"sent", "done"} => Sent(0) = cursor - 1
BY DEF Sent

\* The trainer packs the next tensor.
LEMMA FillData == TypeOK /\ ChainInv /\ DataInv /\ Fill => DataInv'
<1> SUFFICES ASSUME TypeOK, ChainInv, DataInv, Fill PROVE DataInv'
  OBVIOUS
<1> DEFINE s == bucket[0].items
           c == copies[0]
           it == [name |-> cursor, offset |-> Offset]
           x == [buf |-> cur[0], name |-> cursor, offset |-> Offset]
           u == Append(s, it)
           a == Append(c, x)
<1>1. /\ pc[0] = "fill" /\ UNCHANGED << pc, prev, next, cur, buf, coming, got, yielded, link >>
      /\ cursor' = cursor + 1 /\ cursor <= Tensors /\ Offset + Size[cursor] <= BucketSize
      /\ bucket' = [bucket EXCEPT ![0].items = u] /\ copies' = [copies EXCEPT ![0] = a]
  BY DEF Fill, Issue
<1>2. /\ 0 \in Ranks /\ bucket[0] \in Buckets /\ s \in Seq(Items) /\ c \in Seq(Copies) /\ Len(s) \in Nat
      /\ bucket \in [Ranks -> Buckets] /\ copies \in [Ranks -> Seq(Copies)] /\ Len(c) \in Nat
  BY TrainerPlace, ItemFacts, LenProperties DEF TypeOK, DataType
<1>3. cursor \in 1 .. Tensors /\ cursor \in Int /\ Offset \in Nat /\ Size[cursor] \in Nat
  <2>1. Tensors \in Nat /\ cursor \in 1 .. Tensors + 1
    BY ConstantFacts DEF TypeOK, CoreType
  <2>2. cursor \in 1 .. Tensors
    BY <1>1, <2>1
  <2> QED BY <2>2, OffsetType, ConstantFacts
<1>4. it \in Items /\ x \in Copies /\ it.name = cursor /\ it.offset = Offset /\ x.name = it.name /\ x.offset = it.offset
  BY <1>3, TrainerPlace DEF Items, Copies, TypeOK, CoreType
<1>5. Span(it) \subseteq Bytes
  <2>1. Span(it) = Offset .. Offset + Size[cursor] - 1
    BY <1>4 DEF Span
  <2>2. BucketSize \in Nat
    BY ConstantFacts
  <2> QED BY <1>1, <1>3, <2>1, <2>2 DEF Bytes
<1> HIDE DEF it, x
<1>6. /\ bucket'[0].items = u /\ copies'[0] = a
      /\ \A k \in Ranks : k # 0 => bucket'[k] = bucket[k] /\ copies'[k] = copies[k]
  BY <1>1, <1>2 DEF Buckets
<1>7. /\ Len(u) = Len(s) + 1 /\ u[Len(s) + 1] = it /\ \A i \in 1 .. Len(s) : u[i] = s[i]
  BY <1>2, <1>4, AppendItem
<1>8. Len(a) = Len(c) + 1
  BY <1>2, LenProperties
<1>9. /\ Placed(s, cursor - 1 - Len(s)) /\ Apart(s) /\ Match(c, s, Len(s))
      /\ \A i \in 1 .. Len(s) - Len(c) : \A k \in Span(s[i]) : buf[0][cur[0]][k] = s[i].name
  BY DEF DataInv, Packed
<1>10. Packed'
  <2>1. Placed(u, cursor - 1 - Len(s))
    <3>1. cursor - 1 - Len(s) \in Int /\ it.name = cursor - 1 - Len(s) + (Len(s) + 1)
      BY <1>2, <1>3, <1>4
    <3> QED BY <1>2, <1>4, <1>5, <1>9, <3>1, PlacedAppend
  <2>2. Apart(u)
    <3>1. \A i \in 1 .. Len(s) : s[i].offset + Size[s[i].name] <= it.offset
      BY <1>4, <1>9, OffsetAfter
    <3> QED BY <1>2, <1>4, <1>9, <3>1, ApartAppend
  <2>3. Match(a, u, Len(s) + 1)
    <3>1. Len(u) \in Nat /\ Len(s) < Len(u) /\ Len(s) <= Len(s)
      BY <1>2, <1>7
    <3>2. x.name = u[Len(s) + 1].name /\ x.offset = u[Len(s) + 1].offset
      BY <1>4, <1>7
    <3> HIDE DEF u
    <3> QED BY <1>2, <1>4, <1>7, <1>9, <3>1, <3>2, MatchAppend
  <2> HIDE DEF u, a, s, c
  <2>4. cursor' - 1 - Len(u) = cursor - 1 - Len(s) /\ Len(u) - Len(a) = Len(s) - Len(c)
    BY <1>1, <1>2, <1>3, <1>7, <1>8
  <2>5. \A i \in 1 .. Len(u) - Len(a) : \A k \in Span(u[i]) : buf[0][cur[0]][k] = u[i].name
    <3>1. \A i \in 1 .. Len(s) - Len(c) : i \in 1 .. Len(s)
      BY <1>2
    <3> QED BY <1>7, <1>9, <2>4, <3>1
  <2>6. Match(a, u, Len(u))
    BY <1>7, <2>3
  <2>7. Placed(u, cursor' - 1 - Len(u))
    BY <2>1, <2>4
  <2>8. \A i \in 1 .. Len(u) - Len(a) : \A k \in Span(u[i]) : buf'[0][cur'[0]][k] = u[i].name
    BY <1>1, <2>5
  <2> QED BY <1>6, <2>2, <2>6, <2>7, <2>8 DEF Packed
<1>11. \A k \in Ranks : k # 0 => Own(k)
  BY <1>1, <1>6 DEF Own
<1>12. LinkData(0)'
  <2>1. Sent(0) = cursor - 1 - Len(s)
    BY <1>1, SentTrainer
  <2>2. Sent(0)' = cursor' - 1 - Len(u)
    BY <1>1, <1>6 DEF Sent
  <2>3. cursor' - 1 - Len(u) = cursor - 1 - Len(s)
    <3>1. cursor' = cursor + 1
      BY <1>1
    <3>2. Len(u) = Len(s) + 1
      BY <1>7
    <3> HIDE DEF u, s
    <3> QED BY <1>2, <1>3, <3>1, <3>2
  <2>4. Source(0)' = Source(0) /\ buf' = buf /\ Own(0 + 1) /\ inbox' = inbox /\ xfer' = xfer
    BY <1>1, <1>11, TrainerPlace DEF Source, link
  <2>5. LinkData(0)
    BY TrainerPlace DEF DataInv
  <2> QED BY <2>1, <2>2, <2>3, <2>4, <2>5, TrainerPlace, SenderSide
<1>13. inbox' = inbox /\ xfer' = xfer
  BY <1>1 DEF link
<1> HIDE DEF Fill
<1> QED BY <1>10, <1>11, <1>12, <1>13, TrainerPlace, OneRank

\* The empty bucket.
LEMMA EmptyPacked == Empty.items = << >> /\ Empty.last = FALSE /\ Len(<< >>) = 0
BY DEF Empty

\* Arithmetic of an empty bucket.
LEMMA Emptied ==
  ASSUME NEW c \in Int, NEW l \in Nat, NEW a, NEW b, a = c - 1 - l, b = c - 1 - 0
  PROVE  b = a + l
OBVIOUS

\* What is published is what the trainer has packed, all its copies done.
LEMMA SendBucketData == TypeOK /\ ChainInv /\ DataInv /\ SendBucket => DataInv'
<1> SUFFICES ASSUME TypeOK, ChainInv, DataInv, SendBucket PROVE DataInv'
  OBVIOUS
<1> DEFINE s == bucket[0].items
           v == IF Size[cursor] > BucketSize THEN "failed" ELSE "fill"
<1>1. /\ pc[0] = "fill" /\ copies[0] = << >> /\ ReaderDone(0) /\ Republish(0, bucket[0]) /\ Swap(0)
      /\ pc' = [pc EXCEPT ![0] = v] /\ v \in {"fill", "failed"}
      /\ bucket' = [bucket EXCEPT ![0] = Empty]
      /\ UNCHANGED << prev, next, cursor, buf, coming, copies, got, yielded, xfer >>
  BY DEF SendBucket, Synchronized
<1> HIDE DEF v
<1>2. /\ pc'[0] = v /\ cur'[0] = 3 - cur[0] /\ bucket'[0] = Empty
      /\ \A k \in Ranks : k # 0 => pc'[k] = pc[k] /\ cur'[k] = cur[k] /\ bucket'[k] = bucket[k]
      /\ cur[0] \in 1 .. 2
  BY <1>1, TrainerPlace DEF TypeOK, CoreType, DataType, Swap
<1>3. Source(0)' = cur[0]
  BY <1>1, <1>2 DEF Source
<1>4. bucket[0] \in Buckets /\ Len(s) \in Nat /\ cursor \in Int
  BY TrainerPlace, Counts DEF TypeOK, DataType
<1>5. Joined
  BY <1>1, TrainerPlace DEF Joined
<1>6. /\ Waiting(0)' /\ inbox'[1][1].bucket = bucket[0]
      /\ \A n \in Ranks : n # 1 => inbox'[n] = inbox[n]
  BY <1>1, <1>3, <1>4, <1>5, TrainerPlace, RepublishLink DEF ChainInv
<1>7. inbox[1] = << >> /\ ~Reading(1)
  BY <1>1, TrainerPlace, Drained DEF ChainInv
<1>8. Holds(0, cur[0], s) /\ Placed(s, cursor - 1 - Len(s))
  <2>1. Len(s) - Len(copies[0]) = Len(s)
    BY <1>1, <1>4, EmptyPacked
  <2> QED BY <2>1 DEF DataInv, Packed, Holds
<1>9. Packed'
  <2>1. bucket'[0].items = << >> /\ copies'[0] = << >>
    BY <1>1, <1>2, EmptyPacked
  <2> QED BY <2>1, EmptyPacked DEF Packed, Placed, Apart, Match
<1>10. \A k \in Ranks : k # 0 => Own(k)
  BY <1>1, <1>2 DEF Own
<1>11. LinkData(0)'
  <2>1. Sent(0) = cursor - 1 - Len(s)
    BY <1>1, SentTrainer
  <2>2. Sent(0)' = cursor - 1 - 0
    BY <1>1, <1>2, EmptyPacked DEF Sent
  <2>3. Sent(0)' = Sent(0) + Len(s)
    BY <1>4, <2>1, <2>2, Emptied
  <2>4. \A i \in 1 .. Len(s) : \A k \in Span(s[i]) : buf'[0][Source(0)'][k] = s[i].name
    BY <1>1, <1>3, <1>8 DEF Holds
  <2>5. inbox'[1] # << >> /\ ~Reading(1)'
    BY <1>6, EmptyPacked, TrainerPlace DEF Waiting
  <2>6. Own(0 + 1) /\ LinkData(0)
    BY <1>10, TrainerPlace DEF DataInv
  <2>7. /\ inbox[0 + 1] = << >> /\ ~Reading(0 + 1) /\ inbox'[0 + 1] # << >> /\ ~Reading(0 + 1)'
        /\ inbox'[0 + 1][1].bucket.items = s /\ Placed(s, Sent(0)) /\ 0 \in 0 .. R - 1
    BY <1>6, <1>7, <1>8, <2>1, <2>5, TrainerPlace
  <2> QED BY <2>3, <2>4, <2>6, <2>7, RepublishData
<1> QED BY <1>1, <1>6, <1>9, <1>10, <1>11, TrainerPlace, OneRank

\* The last bucket completes the tensors.
LEMMA SendLastData == TypeOK /\ ChainInv /\ DataInv /\ SendLast => DataInv'
<1> SUFFICES ASSUME TypeOK, ChainInv, DataInv, SendLast PROVE DataInv'
  OBVIOUS
<1> DEFINE s == bucket[0].items
           b == [bucket[0] EXCEPT !.last = TRUE]
<1>1. /\ pc[0] = "fill" /\ copies[0] = << >> /\ ReaderDone(0) /\ Republish(0, b)
      /\ pc' = [pc EXCEPT ![0] = "sent"]
      /\ UNCHANGED << prev, next, cursor, cur, buf, bucket, coming, copies, got, yielded, xfer >>
  BY DEF SendLast, Synchronized, data
<1>2. pc'[0] = "sent" /\ \A k \in Ranks : k # 0 => pc'[k] = pc[k]
  BY <1>1, TrainerPlace DEF TypeOK, CoreType
<1>3. Source(0)' = cur[0]
  BY <1>1, <1>2 DEF Source
<1>4. bucket[0] \in Buckets /\ Len(s) \in Nat /\ cursor \in Int
  BY TrainerPlace, Counts DEF TypeOK, DataType
<1>5. b \in Buckets /\ b.items = s
  BY <1>4 DEF Buckets
<1> HIDE DEF b
<1>6. Joined
  BY <1>1, TrainerPlace DEF Joined
<1>7. /\ Waiting(0)' /\ inbox'[1][1].bucket = b
      /\ \A n \in Ranks : n # 1 => inbox'[n] = inbox[n]
  BY <1>1, <1>3, <1>5, <1>6, TrainerPlace, RepublishLink DEF ChainInv
<1>8. inbox[1] = << >> /\ ~Reading(1)
  BY <1>1, TrainerPlace, Drained DEF ChainInv
<1>9. Holds(0, cur[0], s) /\ Placed(s, cursor - 1 - Len(s))
  <2>1. Len(s) - Len(copies[0]) = Len(s)
    BY <1>1, <1>4, EmptyPacked
  <2> QED BY <2>1 DEF DataInv, Packed, Holds
<1>10. Packed'
  BY <1>1 DEF DataInv, Packed
<1>11. \A k \in Ranks : k # 0 => Own(k)
  BY <1>1, <1>2 DEF Own
<1>12. LinkData(0)'
  <2>1. Sent(0) = cursor - 1 - Len(s)
    BY <1>1, SentTrainer
  <2>2. Sent(0)' = cursor - 1
    BY <1>1, <1>2 DEF Sent
  <2>3. Sent(0)' = Sent(0) + Len(s)
    <3>1. cursor - 1 = cursor - 1 - 0
      BY <1>4
    <3> QED BY <1>4, <2>1, <2>2, <3>1, Emptied
  <2>4. \A i \in 1 .. Len(s) : \A k \in Span(s[i]) : buf'[0][Source(0)'][k] = s[i].name
    BY <1>1, <1>3, <1>9 DEF Holds
  <2>5. inbox'[1] # << >> /\ ~Reading(1)'
    BY <1>7, EmptyPacked, TrainerPlace DEF Waiting
  <2>6. Own(0 + 1) /\ LinkData(0)
    BY <1>11, TrainerPlace DEF DataInv
  <2>7. /\ inbox[0 + 1] = << >> /\ ~Reading(0 + 1) /\ inbox'[0 + 1] # << >> /\ ~Reading(0 + 1)'
        /\ inbox'[0 + 1][1].bucket.items = s /\ Placed(s, Sent(0)) /\ 0 \in 0 .. R - 1
    BY <1>5, <1>7, <1>8, <1>9, <2>1, <2>5, TrainerPlace
  <2> QED BY <2>3, <2>4, <2>6, <2>7, RepublishData
<1> QED BY <1>1, <1>7, <1>10, <1>11, <1>12, TrainerPlace, OneRank

\* The trainer returns.
LEMMA SendDoneData == TypeOK /\ ChainInv /\ DataInv /\ SendDone => DataInv'
<1> SUFFICES ASSUME TypeOK, ChainInv, DataInv, SendDone PROVE DataInv'
  OBVIOUS
<1>1. /\ pc[0] = "sent" /\ ReaderDone(0) /\ pc' = [pc EXCEPT ![0] = "done"]
      /\ UNCHANGED << cursor, cur, buf, bucket, coming, copies, got, yielded, inbox, xfer >>
  BY DEF SendDone, Await, data
<1>2. pc'[0] = "done" /\ \A k \in Ranks : k # 0 => pc'[k] = pc[k]
  BY <1>1, TrainerPlace DEF TypeOK, CoreType
<1>3. Packed'
  BY <1>1 DEF DataInv, Packed
<1>4. \A k \in Ranks : k # 0 => Own(k)
  BY <1>1, <1>2 DEF Own
<1>5. LinkData(0)'
  <2>1. Sent(0)' = Sent(0)
    BY <1>1, <1>2 DEF Sent
  <2>2. inbox[0 + 1] = << >> /\ ~Reading(0 + 1)
    BY <1>1, TrainerPlace, Drained DEF ChainInv
  <2>3. Own(0 + 1) /\ LinkData(0)
    BY <1>4, TrainerPlace DEF DataInv
  <2> QED BY <1>1, <2>1, <2>2, <2>3, TrainerPlace, SenderSide
<1> QED BY <1>1, <1>3, <1>4, <1>5, TrainerPlace, OneRank

\* Before the group is built nothing has moved.
LEMMA BuildGroupData == TypeOK /\ ChainInv /\ DataInv /\ BuildGroup => DataInv'
<1> SUFFICES ASSUME TypeOK, ChainInv, DataInv, BuildGroup PROVE DataInv'
  OBVIOUS
<1>1. pc[0] = "prepare" /\ UNCHANGED << cursor, cur, buf, bucket, coming, copies, got, yielded, inbox, xfer >>
  BY DEF BuildGroup, data, link
<1>2. \A n \in Ranks : pc[n] = "prepare"
  BY <1>1 DEF ChainInv, Shape, Joined
<1>3. \A n \in Ranks : pc'[n] \in {"fill", "first", "rejected"}
  BY DEF BuildGroup
<1>4. Packed'
  BY <1>1 DEF DataInv, Packed
<1>5. ASSUME NEW n \in Rollout PROVE RankData(n)'
  <2>1. n \in Ranks
    BY ConstantFacts
  <2>2. ~Holding(n) /\ ~Holding(n)' /\ ~Handing(n)'
    BY <1>2, <1>3, <2>1 DEF Holding, Handing
  <2> QED BY <1>1, <2>2 DEF DataInv, RankData
<1>6. ASSUME NEW n \in 0 .. R - 1 PROVE LinkData(n)'
  <2>1. n \in Ranks /\ n + 1 \in Ranks
    BY ConstantFacts
  <2>2. inbox[n + 1] = << >> /\ ~Reading(n + 1)
    <3>1. open[n] = 0
      BY <1>2, <2>1 DEF ChainInv, OpenAt
    <3>2. Link(n)
      BY DEF ChainInv, Links
    <3> QED BY <3>1, <3>2 DEF Link, Free, Waiting, BeingRead, Read
  <2>3. Sent(n)' = Sent(n)
    <3>1. CASE n = 0
      BY <1>1, <1>3, <2>1, <3>1 DEF Sent
    <3>2. CASE n # 0
      BY <1>2, <1>3, <2>1, <3>2 DEF Sent, Expect, Holding, Handing
    <3> QED BY <3>1, <3>2
  <2>4. Avail(n + 1)' = Avail(n + 1) /\ ~Coming(n + 1)'
    BY <1>2, <1>3, <2>1 DEF Avail, Coming, Expect, Holding, Handing
  <2>5. inbox'[n + 1] = << >> /\ ~Reading(n + 1)'
    BY <1>1, <2>2 DEF Reading
  <2>6. Sent(n) = Avail(n + 1)
    BY <2>2 DEF DataInv, LinkData
  <2> QED BY <2>3, <2>4, <2>5, <2>6 DEF LinkData
<1> QED BY <1>4, <1>5, <1>6 DEF DataInv

\* The bytes of different items are different.
LEMMA SpansApart ==
  ASSUME NEW a \in Nat, NEW b \in Nat, NEW c \in Nat, NEW d \in Nat, a + b <= c, NEW k, k \in a .. a + b - 1
  PROVE  k \notin c .. c + d - 1
OBVIOUS

\* The device fills the next tensor of the trainer's bucket.
LEMMA CopyInData == TypeOK /\ ChainInv /\ DataInv /\ Copy(0) => DataInv'
<1> SUFFICES ASSUME TypeOK, ChainInv, DataInv, Copy(0) PROVE DataInv'
  OBVIOUS
<1> DEFINE s == bucket[0].items
           c == Head(copies[0])
           t == Tail(copies[0])
           w == [k \in Bytes |-> IF k \in Span(c) THEN c.name ELSE buf[0][c.buf][k]]
           L == Len(copies[0])
           j == Len(s) - L + 1
<1>1. /\ copies[0] # << >> /\ copies' = [copies EXCEPT ![0] = t]
      /\ buf' = [buf EXCEPT ![0][c.buf] = w]
      /\ UNCHANGED << pc, cursor, cur, bucket, coming, got, yielded, inbox, xfer >>
  BY DEF Copy, core, link
<1>2. /\ copies[0] \in Seq(Copies) /\ copies \in [Ranks -> Seq(Copies)] /\ Len(s) \in Nat /\ L \in Nat /\ L >= 1
      /\ bucket[0] \in Buckets /\ buf \in [Ranks -> Buffers]
  BY <1>1, TrainerPlace, Counts, TailType DEF TypeOK, DataType
<1>3. /\ c = copies[0][1] /\ Len(t) = L - 1
  BY <1>1, <1>2, TailType
<1>4. /\ Placed(s, cursor - 1 - Len(s)) /\ Apart(s) /\ Match(copies[0], s, Len(s))
      /\ \A i \in 1 .. Len(s) - L : \A k \in Span(s[i]) : buf[0][cur[0]][k] = s[i].name
  BY DEF DataInv, Packed
<1>5. Match(t, s, Len(s)) /\ j \in 1 .. Len(s) /\ c.name = s[j].name /\ c.offset = s[j].offset
  <2>1. copies[0] \in Seq(Copies) /\ Len(s) \in Nat /\ copies[0] # << >> /\ Match(copies[0], s, Len(s))
    BY <1>1, <1>2, <1>4
  <2>2. /\ Match(Tail(copies[0]), s, Len(s)) /\ Len(s) - Len(copies[0]) + 1 \in 1 .. Len(s)
        /\ copies[0][1].name = s[Len(s) - Len(copies[0]) + 1].name
        /\ copies[0][1].offset = s[Len(s) - Len(copies[0]) + 1].offset
    BY <2>1, MatchTail
  <2> QED BY <1>3, <2>2
<1>6. Span(c) = Span(s[j])
  BY <1>5 DEF Span
<1>7. c.buf = cur[0] /\ pc[0] = "fill" /\ cur[0] \in 1 .. 2
  <2>1. 1 \in 1 .. Len(copies[0])
    BY <1>2
  <2>2. pc[0] \in {"fill", "yield"}
    BY <1>1, TrainerPlace DEF ChainInv, CopyAt
  <2>3. pc[0] # "yield"
    BY DEF ChainInv, Shape
  <2> QED BY <1>3, <2>1, <2>2, <2>3, TrainerPlace DEF ChainInv, CopyAt, TypeOK, CoreType
<1>8. \A k \in Bytes : w[k] = IF k \in Span(s[j]) THEN s[j].name ELSE buf[0][cur[0]][k]
  BY <1>5, <1>6, <1>7
<1> HIDE DEF c, t, w, L, s
<1>9. /\ buf'[0][cur[0]] = w /\ buf'[0][3 - cur[0]] = buf[0][3 - cur[0]]
      /\ \A k \in Ranks : k # 0 => buf'[k] = buf[k]
  <2>1. buf[0] \in Buffers /\ 3 - cur[0] \in 1 .. 2 /\ 3 - cur[0] # cur[0]
    BY <1>2, <1>7, TrainerPlace
  <2>2. buf[0] \in [1 .. 2 -> [Bytes -> Nat]]
    BY <2>1 DEF Buffers
  <2>3. buf' = [buf EXCEPT ![0] = [buf[0] EXCEPT ![cur[0]] = w]]
    BY <1>1, <1>7
  <2> QED BY <1>2, <1>7, <2>1, <2>2, <2>3, TrainerPlace
<1>10. copies'[0] = t /\ \A k \in Ranks : k # 0 => copies'[k] = copies[k]
  BY <1>1, <1>2, TrainerPlace
<1>11. ASSUME NEW i \in 1 .. Len(s) - Len(t), NEW k \in Span(s[i]) PROVE w[k] = s[i].name
  <2>1. i \in 1 .. Len(s) /\ (i # j => i \in 1 .. Len(s) - L /\ i < j)
    BY <1>2, <1>3, <1>5
  <2>2. k \in Bytes
    BY <1>4, <2>1 DEF Placed
  <2>3. CASE i = j
    BY <1>8, <2>2, <2>3
  <2>4. CASE i # j
    <3>1. buf[0][cur[0]][k] = s[i].name
      BY <1>4, <2>1, <2>4
    <3>2. k \notin Span(s[j])
      <4>1. s[i].offset + Size[s[i].name] <= s[j].offset
        BY <1>4, <1>5, <2>1, <2>4 DEF Apart
      <4>2. /\ s[i].offset \in Nat /\ Size[s[i].name] \in Nat /\ s[j].offset \in Nat /\ Size[s[j].name] \in Nat
        BY <1>2, <1>5, <2>1, ItemFacts DEF s
      <4>3. k \in s[i].offset .. s[i].offset + Size[s[i].name] - 1
        BY DEF Span
      <4>4. k \notin s[j].offset .. s[j].offset + Size[s[j].name] - 1
        BY <4>1, <4>2, <4>3, SpansApart
      <4> QED BY <4>4 DEF Span
    <3> QED BY <1>8, <2>2, <3>1, <3>2
  <2> QED BY <2>3, <2>4
<1>12. Packed'
  <2>1. bucket'[0].items = s
    BY <1>1 DEF s
  <2> QED BY <1>1, <1>4, <1>5, <1>9, <1>10, <1>11, <2>1 DEF Packed
<1>13. \A k \in Ranks : k # 0 => Own(k)
  BY <1>1, <1>9, <1>10 DEF Own
<1>14. LinkData(0)'
  <2>1. Sent(0)' = Sent(0) /\ Source(0)' = Source(0) /\ Source(0) = 3 - cur[0]
    BY <1>1, <1>7 DEF Sent, Source
  <2>2. Own(0 + 1) /\ LinkData(0)
    BY <1>13, TrainerPlace DEF DataInv
  <2> QED BY <1>1, <1>9, <2>1, <2>2, TrainerPlace, SenderSide
<1> QED BY <1>1, <1>12, <1>13, <1>14, TrainerPlace, OneRank

\* The links on the two sides of a rollout rank.
LEMMA RolloutPlace ==
  ASSUME NEW m \in Rollout
  PROVE  /\ m \in Ranks /\ m # 0 /\ m - 1 \in 0 .. R - 1 /\ m - 1 \in Ranks /\ (m - 1) + 1 = m /\ m - 1 # m
         /\ m # R => m \in 0 .. R - 1 /\ m + 1 \in Ranks /\ m + 1 # m
BY ConstantFacts DEF Rollout, Ranks

\* The bucket the next rank gets is the one that is read next.
LEMMA BeginReadData == ASSUME TypeOK, ChainInv, DataInv, NEW m \in Rollout, BeginRead(m) PROVE DataInv'
<1> DEFINE h == Head(inbox[m])
           t == Tail(inbox[m])
           v == IF pc[m] = "first" THEN "waitFirst" ELSE "yield"
           n == m - 1
<1>1. /\ pc[m] \in {"first", "more"} /\ inbox[m] # << >>
      /\ coming' = [coming EXCEPT ![m] = h.bucket]
      /\ xfer' = [xfer EXCEPT ![m] = [src |-> h.src, key |-> h.key, left |-> Bytes]]
      /\ inbox' = [inbox EXCEPT ![m] = t]
      /\ pc' = [pc EXCEPT ![m] = v]
      /\ UNCHANGED << cursor, cur, buf, bucket, copies, got, yielded >>
  BY DEF BeginRead
<1>2. /\ m \in Ranks /\ m # 0 /\ n \in 0 .. R - 1 /\ n \in Ranks /\ n + 1 = m /\ n # m
      /\ m # R => m \in 0 .. R - 1 /\ m + 1 \in Ranks /\ m + 1 # m
  BY RolloutPlace
<1>3. /\ inbox \in [Ranks -> Seq(Messages)] /\ xfer \in [Ranks -> Reads] /\ coming \in [Ranks -> Buckets]
      /\ pc \in [Ranks -> PcSet]
  BY DEF TypeOK, LinkType, CoreType, DataType, PcSet
<1>4. Waiting(n) /\ ~Reading(m)
  <2>1. Link(n)
    BY <1>2 DEF ChainInv, Links
  <2> QED BY <1>1, <1>2, <2>1 DEF Link, Free, Waiting, BeingRead, Read
<1> HIDE DEF n
<1>5. h = inbox[m][1] /\ t = << >>
  <2>1. Len(inbox[m]) = 1
    BY <1>2, <1>4 DEF Waiting
  <2>2. Head(inbox[m]) = inbox[m][1] /\ Tail(inbox[m]) \in Seq(Messages) /\ Len(Tail(inbox[m])) = Len(inbox[m]) - 1
    BY <1>1, <1>2, <1>3, TailType
  <2> DEFINE s == Tail(inbox[m])
  <2>3. s \in Seq(Messages) /\ Len(s) = 0
    BY <2>1, <2>2
  <2> HIDE DEF s
  <2>4. s = << >>
    BY <2>3, EmptySeq
  <2> QED BY <2>2, <2>4 DEF s
<1> HIDE DEF h, t
<1>6. /\ pc'[m] = v /\ coming'[m] = h.bucket /\ inbox'[m] = << >> /\ xfer'[m].left = Bytes
      /\ \A k \in Ranks : k # m => pc'[k] = pc[k] /\ coming'[k] = coming[k] /\ inbox'[k] = inbox[k] /\ xfer'[k] = xfer[k]
  BY <1>1, <1>2, <1>3, <1>5
<1>7. \A k \in Ranks : k # m => Own(k)
  BY <1>1, <1>6 DEF Own
<1>8. /\ (Handing(m)' <=> Handing(m)) /\ (Holding(m)' <=> Holding(m)) /\ Given(m)' = Given(m)
      /\ pc[m] # "publish" /\ pc'[m] # "publish"
  BY <1>1, <1>6 DEF Handing, Holding, Given
<1>9. Base(m)' = Base(m) /\ Expect(m)' = Expect(m)
  BY <1>1, <1>8 DEF Base, Expect
<1>10. RankData(m)'
  <2>1. RankData(m)
    BY DEF DataInv
  <2> QED BY <1>1, <1>8, <1>9, <2>1 DEF RankData, Holds
<1>11. m # R => LinkData(m)'
  <2> SUFFICES ASSUME m # R PROVE LinkData(m)'
    OBVIOUS
  <2>1. Sent(m)' = Sent(m) /\ Source(m)' = Source(m)
    BY <1>1, <1>2, <1>8, <1>9 DEF Sent, Source
  <2>2. LinkData(m)
    BY <1>2 DEF DataInv
  <2> QED BY <1>1, <1>2, <1>6, <1>7, <2>1, <2>2, SenderSide
<1>12. LinkData(n)'
  <2> DEFINE s == inbox[m][1].bucket.items
  <2>1. Sent(n) = Avail(m) + Len(s) /\ Placed(s, Avail(m)) /\ Holds(n, Source(n), s)
    BY <1>1, <1>2 DEF DataInv, LinkData
  <2>2. ~Coming(m)
    BY <1>1 DEF Coming
  <2>3. Avail(m) = Expect(m)
    BY <2>2 DEF Avail
  <2>4. Coming(m)'
    BY <1>1, <1>6 DEF ChainInv, MoreAt, Coming
  <2>5. coming'[m].items = s
    BY <1>5, <1>6
  <2> HIDE DEF s
  <2>6. Avail(m)' = Expect(m) + Len(s)
    BY <1>9, <2>4, <2>5 DEF Avail
  <2>7. Own(n)
    BY <1>2, <1>7
  <2>8. Sent(n)' = Sent(n) /\ Source(n)' = Source(n) /\ buf'[n] = buf[n]
    BY <1>2, <2>7, OwnKept DEF Own
  <2>9. Holds(n, Source(n), coming[m].items)'
    BY <2>1, <2>5, <2>8 DEF Holds
  <2>10. Reading(m)'
    <3>1. BucketSize \in Nat /\ BucketSize >= 1
      BY ChainAssumption
    <3>2. 0 \in Bytes
      BY <3>1 DEF Bytes
    <3> QED BY <1>6, <3>2 DEF Reading
  <2>11. Placed(coming[m].items, Expect(m))'
    BY <1>9, <2>1, <2>3, <2>5
  <2> QED BY <1>2, <1>6, <2>1, <2>3, <2>4, <2>6, <2>8, <2>9, <2>10, <2>11 DEF LinkData
<1> QED BY <1>2, <1>6, <1>7, <1>10, <1>11, <1>12, OneRank DEF n

\* The first bucket, or the next one, becomes the rank's own.
LEMMA TakeData ==
  ASSUME TypeOK, ChainInv, DataInv, NEW m \in Rollout, FirstRead(m) \/ EndBucket(m)
  PROVE  DataInv'
<1> DEFINE n == m - 1
           s == coming[m].items
<1>1. /\ pc[m] \in {"waitFirst", "yield"} /\ Coming(m) /\ ~Reading(m) /\ copies[m] = << >>
      /\ pc' = [pc EXCEPT ![m] = "publish"] /\ cur' = [cur EXCEPT ![m] = 3 - @]
      /\ bucket' = [bucket EXCEPT ![m] = coming[m]]
      /\ UNCHANGED << cursor, buf, coming, copies, got, yielded, inbox, xfer >>
      /\ pc[m] = "yield" => yielded[m] = Len(bucket[m].items) /\ ReaderDone(m)
      /\ pc[m] = "waitFirst" => open[m] = 0
  <2>1. CASE FirstRead(m)
    <3>1. pc[m] = "waitFirst"
      BY <2>1 DEF FirstRead
    <3>2. copies[m] = << >> /\ open[m] = 0
      BY <3>1, RolloutPlace DEF ChainInv, CopyAt, OpenAt
    <3> QED BY <2>1, <3>1, <3>2 DEF FirstRead, Swap, link, ReadDone, Reading, Coming
  <2>2. CASE EndBucket(m)
    BY <2>2 DEF EndBucket, Await, Swap, ReadDone, Reading, Synchronized, Coming
  <2> QED BY <2>1, <2>2
<1>2. /\ m \in Ranks /\ m # 0 /\ n \in 0 .. R - 1 /\ n \in Ranks /\ n + 1 = m /\ n # m
      /\ m # R => m \in 0 .. R - 1 /\ m + 1 \in Ranks /\ m + 1 # m
  BY RolloutPlace
<1> HIDE DEF n
<1>3. /\ pc'[m] = "publish" /\ cur'[m] = 3 - cur[m] /\ bucket'[m] = coming[m]
      /\ \A k \in Ranks : k # m => pc'[k] = pc[k] /\ cur'[k] = cur[k] /\ bucket'[k] = bucket[k]
  BY <1>1, <1>2 DEF TypeOK, CoreType, DataType
<1>4. \A k \in Ranks : k # m => Own(k)
  BY <1>1, <1>3 DEF Own
<1>5. /\ Len(got[m]) \in Nat /\ Len(copies[m]) = 0 /\ Len(bucket[m].items) \in Nat /\ Given(m) \in Nat
      /\ (got[m] = << >> => Len(got[m]) = 0)
  BY <1>1, <1>2, Counts
<1>6. Given(m)' = Given(m) /\ Holding(m)' /\ ~Handing(m)'
  BY <1>1, <1>3 DEF Given, Holding, Handing
<1>7. Base(m)' = Given(m)
  BY <1>6 DEF Base
<1>8. Expect(m) = Given(m)
  <2>1. CASE pc[m] = "waitFirst"
    <3>1. ~Holding(m)
      BY <2>1 DEF Holding, Handing
    <3>2. got[m] = << >> /\ Expect(m) = 0
      BY <3>1 DEF DataInv, RankData, Expect
    <3> QED BY <1>5, <3>2 DEF Given
  <2>2. CASE pc[m] = "yield"
    <3>1. Handing(m) /\ Holding(m)
      BY <2>2 DEF Holding, Handing
    <3>2. Expect(m) = Given(m) - Len(bucket[m].items) + Len(bucket[m].items)
      BY <1>1, <2>2, <3>1 DEF Expect, Base
    <3> QED BY <1>5, <3>2
  <2> QED BY <1>1, <2>1, <2>2
<1>9. LinkData(n) /\ Placed(s, Expect(m)) /\ Holds(m, 3 - cur[m], s)
  BY <1>1, <1>2 DEF DataInv, LinkData
<1>10. RankData(m)'
  <2>1. bucket'[m].items = s
    BY <1>3
  <2>2. Placed(bucket[m].items, Base(m))'
    BY <1>7, <1>8, <1>9, <2>1
  <2>3. Holds(m, cur[m], bucket[m].items)'
    <3>1. \A i \in 1 .. Len(s) : \A k \in Span(s[i]) : buf[m][3 - cur[m]][k] = s[i].name
      BY <1>9 DEF Holds
    <3>2. buf' = buf /\ cur'[m] = 3 - cur[m]
      BY <1>1, <1>3
    <3> HIDE DEF s
    <3> QED BY <2>1, <3>1, <3>2 DEF Holds
  <2> QED BY <1>6, <2>2, <2>3 DEF RankData
<1>11. Expect(m)' = Expect(m) + Len(s) /\ Avail(m) = Expect(m) + Len(s) /\ Avail(m)' = Avail(m) /\ ~Coming(m)'
  <2>1. Expect(m)' = Given(m) + Len(s)
    BY <1>3, <1>6, <1>7 DEF Expect
  <2>2. Avail(m) = Expect(m) + Len(s)
    BY <1>1 DEF Avail
  <2>3. ~Coming(m)'
    BY <1>3 DEF Coming
  <2>4. Avail(m)' = Expect(m)'
    BY <2>3 DEF Avail
  <2> QED BY <1>8, <2>1, <2>2, <2>3, <2>4
<1>12. LinkData(n)'
  <2>1. Own(n)
    BY <1>2, <1>4
  <2>2. Sent(n)' = Sent(n) /\ Source(n)' = Source(n) /\ buf'[n] = buf[n]
    BY <1>2, <2>1, OwnKept DEF Own
  <2>3. ~Reading(m)' /\ inbox'[m] = inbox[m]
    BY <1>1 DEF Reading
  <2>4. inbox[m] = << >> => Sent(n)' = Avail(m)'
    BY <1>2, <1>9, <1>11, <2>2 DEF LinkData
  <2>5. ASSUME inbox[m] # << >>
        PROVE  (LET z == inbox[m][1].bucket.items IN
                  Sent(n) = Avail(m) + Len(z) /\ Placed(z, Avail(m)) /\ Holds(n, Source(n), z))'
    <3>1. LET z == inbox[m][1].bucket.items IN
            Sent(n) = Avail(m) + Len(z) /\ Placed(z, Avail(m)) /\ Holds(n, Source(n), z)
      BY <1>2, <1>9, <2>5 DEF LinkData
    <3>2. Holds(n, Source(n), inbox[m][1].bucket.items)'
      BY <2>2, <2>3, <3>1 DEF Holds
    <3> QED BY <1>11, <2>2, <2>3, <3>1, <3>2
  <2> QED BY <1>2, <1>11, <2>3, <2>4, <2>5 DEF LinkData
<1>13. m # R => LinkData(m)'
  <2> SUFFICES ASSUME m # R PROVE LinkData(m)'
    OBVIOUS
  <2>1. Sent(m)' = Given(m)
    BY <1>2, <1>3, <1>7 DEF Sent
  <2>2. Sent(m) = Expect(m)
    BY <1>1, <1>2 DEF Sent
  <2>3. inbox[m + 1] = << >> /\ ~Reading(m + 1)
    <3>1. ReaderDone(m)
      BY <1>1 DEF ReaderDone
    <3> QED BY <1>2, <3>1, Drained DEF ChainInv
  <2>4. LinkData(m)
    BY <1>2 DEF DataInv
  <2> QED BY <1>1, <1>2, <1>4, <1>8, <2>1, <2>2, <2>3, <2>4, SenderSide
<1> QED BY <1>1, <1>2, <1>4, <1>10, <1>12, <1>13, OneRank DEF n

\* Nothing handed out of the new bucket yet.
LEMMA SameSum == \A g \in Nat : g - 0 = g
OBVIOUS

\* A rank publishes the bucket it holds and starts to hand it out.
LEMMA PublishData == ASSUME TypeOK, ChainInv, DataInv, NEW m \in Rollout, Publish(m) PROVE DataInv'
<1> DEFINE n == m - 1
           s == bucket[m].items
           v == IF bucket[m].last THEN "yield" ELSE "more"
<1>1. /\ pc[m] = "publish" /\ Republish(m, bucket[m]) /\ pc' = [pc EXCEPT ![m] = v]
      /\ yielded' = [yielded EXCEPT ![m] = 0]
      /\ UNCHANGED << prev, next, cursor, cur, buf, bucket, coming, copies, got, xfer >>
  BY DEF Publish
<1>2. /\ m \in Ranks /\ m # 0 /\ n \in 0 .. R - 1 /\ n \in Ranks /\ n + 1 = m /\ n # m
      /\ m # R => m \in 0 .. R - 1 /\ m + 1 \in Ranks /\ m + 1 # m
  BY RolloutPlace
<1>3. v \in {"yield", "more"} /\ (v = "yield" => bucket[m].last) /\ bucket[m] \in Buckets /\ Len(s) \in Nat
  BY <1>2, ItemFacts DEF TypeOK, DataType
<1> HIDE DEF n, v
<1>4. /\ open[m] = 0 /\ copies[m] = << >> /\ ReaderDone(m) /\ ~Reading(m)
      /\ Joined /\ next[m] = IF m = R THEN None ELSE m + 1
  BY <1>1, <1>2, Owner DEF ChainInv, OpenAt, CopyAt, ReadAt, ReaderDone
<1>5. /\ pc'[m] = v /\ yielded'[m] = 0
      /\ \A k \in Ranks : k # m => pc'[k] = pc[k] /\ yielded'[k] = yielded[k]
  BY <1>1, <1>2 DEF TypeOK, CoreType, DataType
<1>6. \A k \in Ranks : k # m => Own(k)
  BY <1>1, <1>5 DEF Own
<1>7. /\ Handing(m)' /\ Holding(m)' /\ ~Handing(m) /\ Holding(m) /\ ~Coming(m) /\ ~Coming(m)' /\ Given(m)' = Given(m)
  BY <1>1, <1>3, <1>5 DEF Handing, Holding, Coming, Given
<1>8. Base(m)' = Base(m) /\ Base(m) = Given(m)
  <2>1. Given(m) \in Nat
    BY <1>2, Counts
  <2>2. Base(m)' = Given(m) - 0 /\ Base(m) = Given(m)
    BY <1>5, <1>7 DEF Base
  <2> QED BY <2>1, <2>2, SameSum
<1>9. Expect(m)' = Expect(m) /\ Expect(m) = Base(m) + Len(s) /\ Avail(m)' = Avail(m)
  BY <1>1, <1>7, <1>8 DEF Expect, Avail
<1>10. Placed(s, Base(m)) /\ Holds(m, cur[m], s)
  BY <1>7 DEF DataInv, RankData
<1>11. RankData(m)'
  <2>1. Match(copies[m], s, yielded[m])'
    <3>1. Len(copies[m]) = 0
      BY <1>4, EmptyPacked
    <3> QED BY <1>1, <1>3, <1>5, <3>1 DEF Match
  <2> QED BY <1>1, <1>7, <1>8, <1>10, <2>1 DEF RankData, Holds
<1>12. \A k \in Ranks : k # m + 1 => inbox'[k] = inbox[k]
  <2>1. CASE m = R
    BY <1>1, <1>4, <2>1 DEF Republish
  <2>2. CASE m # R
    <3>1. inbox' = [inbox EXCEPT ![m + 1] = inbox'[m + 1]] \/ \E x : inbox' = [inbox EXCEPT ![m + 1] = x]
      BY <1>1, <1>2, <1>4, <2>2 DEF Republish, None, Rollout
    <3> QED BY <3>1 DEF TypeOK, LinkType
  <2> QED BY <2>1, <2>2
<1>13. LinkData(n)'
  <2>1. LinkData(n) /\ Own(n) /\ inbox'[n + 1] = inbox[n + 1] /\ n + 1 # m + 1
    BY <1>2, <1>6, <1>12 DEF DataInv, Rollout
  <2> QED BY <1>1, <1>2, <1>4, <1>7, <1>9, <2>1, ReaderSide
<1>14. m # R => LinkData(m)'
  <2> SUFFICES ASSUME m # R PROVE LinkData(m)'
    OBVIOUS
  <2>1. Source(m)' = cur[m] /\ Source(m) = cur[m]
    BY <1>1, <1>2 DEF Source
  <2>2. Waiting(m)' /\ inbox'[m + 1][1].bucket = bucket[m]
    BY <1>1, <1>2, <1>3, <1>4, <2>1, RepublishLink DEF ChainInv
  <2>3. inbox[m + 1] = << >> /\ ~Reading(m + 1)
    BY <1>2, <1>4, Drained DEF ChainInv
  <2>4. Sent(m) = Base(m) /\ Sent(m)' = Base(m) + Len(s)
    BY <1>1, <1>2, <1>3, <1>5, <1>8, <1>9 DEF Sent
  <2>5. inbox'[m + 1] # << >> /\ ~Reading(m + 1)'
    BY <2>2, EmptyPacked DEF Waiting
  <2>6. \A i \in 1 .. Len(s) : \A k \in Span(s[i]) : buf'[m][Source(m)'][k] = s[i].name
    BY <1>1, <1>10, <2>1 DEF Holds
  <2>7. Own(m + 1) /\ LinkData(m) /\ m \in 0 .. R - 1
    BY <1>2, <1>6 DEF DataInv
  <2>8. inbox'[m + 1][1].bucket.items = s /\ Sent(m)' = Sent(m) + Len(s) /\ Placed(s, Sent(m))
    BY <1>10, <2>2, <2>4
  <2> HIDE DEF s
  <2> QED BY <2>3, <2>5, <2>6, <2>7, <2>8, RepublishData
<1> QED BY <1>1, <1>2, <1>6, <1>11, <1>12, <1>13, <1>14, OneRank DEF n

\* A step of a rank's own that keeps what it has taken and sent.
LEMMA OwnStep ==
  ASSUME TypeOK, ChainInv, DataInv, NEW m \in Rollout,
         \A k \in Ranks : k # m => Own(k),
         \A k \in Ranks : inbox'[k] = inbox[k] /\ xfer'[k] = xfer[k],
         cur'[m] = cur[m], buf'[m] = buf[m], bucket'[m] = bucket[m], coming'[m] = coming[m],
         Handing(m), Handing(m)', Base(m)' = Base(m), Coming(m)' <=> Coming(m),
         Match(copies[m], bucket[m].items, yielded[m])'
  PROVE  DataInv'
<1> DEFINE n == m - 1
<1>1. /\ m \in Ranks /\ m # 0 /\ n \in 0 .. R - 1 /\ n \in Ranks /\ n + 1 = m /\ n # m
      /\ m # R => m \in 0 .. R - 1 /\ m + 1 \in Ranks /\ m + 1 # m
  BY RolloutPlace
<1> HIDE DEF n
<1>2. Holding(m) /\ Holding(m)' /\ pc[m] # "publish" /\ pc'[m] # "publish"
  BY DEF Holding, Handing
<1>3. Expect(m)' = Expect(m)
  BY <1>2 DEF Expect
<1>4. Avail(m)' = Avail(m)
  BY <1>3 DEF Avail
<1>5. Sent(m)' = Sent(m) /\ Source(m)' = Source(m)
  BY <1>1, <1>2, <1>3 DEF Sent, Source
<1>6. RankData(m)'
  <2>1. Placed(bucket[m].items, Base(m)) /\ Holds(m, cur[m], bucket[m].items)
    BY <1>2 DEF DataInv, RankData
  <2> QED BY <1>2, <2>1 DEF RankData, Holds
<1>7. LinkData(n)'
  <2>1. LinkData(n) /\ Own(n)
    BY <1>1 DEF DataInv
  <2>2. Reading(m) => Coming(m)
    BY DEF ChainInv, ReadAt, Coming
  <2> QED BY <1>1, <1>3, <1>4, <2>1, <2>2, ReaderSide
<1>8. m # R => LinkData(m)'
  BY <1>1, <1>5, SenderSide DEF DataInv
<1> QED BY <1>1, <1>6, <1>7, <1>8, OneRank DEF n

\* Arithmetic of a tensor that is handed out.
LEMMA OneMore == \A a, b, y \in Nat : (a + (b + 1)) - (y + 1) = (a + b) - y
OBVIOUS

\* A tensor is handed out of the bucket.
LEMMA YieldData == ASSUME TypeOK, ChainInv, DataInv, NEW m \in Rollout, Yield(m) PROVE DataInv'
<1> DEFINE it == bucket[m].items[yielded[m] + 1]
           x == [buf |-> cur[m], name |-> it.name, offset |-> it.offset]
           a == Append(copies[m], x)
           s == bucket[m].items
           y == yielded[m]
<1>1. /\ pc[m] = "yield" /\ y < Len(s) /\ copies' = [copies EXCEPT ![m] = a]
      /\ yielded' = [yielded EXCEPT ![m] = y + 1]
      /\ UNCHANGED << core, buf, bucket, coming, got, link >>
  BY DEF Yield, Issue
<1>2. /\ m \in Ranks /\ copies[m] \in Seq(Copies) /\ y \in Nat /\ bucket[m] \in Buckets /\ Len(s) \in Nat
      /\ copies \in [Ranks -> Seq(Copies)] /\ yielded \in [Ranks -> Nat] /\ cur[m] \in 1 .. 2
  BY RolloutPlace, ItemFacts DEF TypeOK, DataType, CoreType
<1>3. it = s[y + 1] /\ y + 1 \in 1 .. Len(s)
  BY <1>1, <1>2
<1>4. it.name \in 1 .. Tensors /\ it.offset \in Nat
  BY <1>2, <1>3, ItemFacts
<1> HIDE DEF it
<1>5. x \in Copies /\ x.name = it.name /\ x.offset = it.offset
  BY <1>2, <1>4 DEF Copies
<1> HIDE DEF x
<1>6. copies'[m] = a /\ yielded'[m] = y + 1
      /\ \A k \in Ranks : k # m => copies'[k] = copies[k] /\ yielded'[k] = yielded[k]
  <2> HIDE DEF a, y
  <2> QED BY <1>1, <1>2
<1>7. Match(a, s, y + 1)
  <2>1. Match(copies[m], s, y)
    BY <1>1 DEF DataInv, RankData, Handing
  <2>2. y <= Len(s)
    BY <2>1 DEF Match
  <2> HIDE DEF s, y
  <2> QED BY <1>1, <1>2, <1>3, <1>5, <2>1, <2>2, MatchAppend
<1>8. Len(a) = Len(copies[m]) + 1 /\ Len(copies[m]) \in Nat /\ Len(got[m]) \in Nat
  BY <1>2, Counts
<1>9. Handing(m) /\ Handing(m)' /\ (Coming(m)' <=> Coming(m))
  BY <1>1 DEF Handing, Coming, core
<1>10. Base(m)' = Base(m)
  <2>1. Base(m) = (Len(got[m]) + Len(copies[m])) - y
    BY <1>9 DEF Base, Given
  <2>2. Base(m)' = (Len(got[m]) + Len(a)) - (y + 1)
    BY <1>1, <1>6, <1>9 DEF Base, Given
  <2> DEFINE g == Len(got[m])
             c == Len(copies[m])
  <2>3. g \in Nat /\ c \in Nat /\ y \in Nat /\ Base(m) = (g + c) - y /\ Base(m)' = (g + (c + 1)) - (y + 1)
    BY <1>2, <1>8, <2>1, <2>2
  <2> HIDE DEF g, c, y
  <2> QED BY <2>3, OneMore
<1>11. \A k \in Ranks : k # m => Own(k)
  BY <1>1, <1>6 DEF Own, core
<1>12. Match(copies[m], bucket[m].items, yielded[m])'
  <2>1. bucket'[m].items = s
    BY <1>1
  <2> QED BY <1>6, <1>7, <2>1
<1> QED BY <1>1, <1>9, <1>10, <1>11, <1>12, OwnStep DEF core, link

\* After the last bucket a rank keeps what it has.
LEMMA EndStreamData == ASSUME TypeOK, ChainInv, DataInv, NEW m \in Rollout, EndStream(m) PROVE DataInv'
<1>1. /\ pc[m] = "yield" /\ bucket[m].last /\ pc' = [pc EXCEPT ![m] = "done"]
      /\ UNCHANGED << cursor, cur, buf, bucket, coming, copies, got, yielded, inbox, xfer >>
  BY DEF EndStream, Await, data
<1>2. m \in Ranks
  BY ConstantFacts
<1>3. pc'[m] = "done" /\ \A k \in Ranks : k # m => pc'[k] = pc[k]
  BY <1>1, <1>2 DEF TypeOK, CoreType
<1>4. \A k \in Ranks : k # m => Own(k)
  BY <1>1, <1>3 DEF Own
<1>5. Handing(m) /\ Handing(m)' /\ (Coming(m)' <=> Coming(m))
  BY <1>1, <1>3 DEF Handing, Coming
<1>6. Base(m)' = Base(m)
  BY <1>1, <1>5 DEF Base, Given
<1>7. Match(copies[m], bucket[m].items, yielded[m])'
  <2>1. Match(copies[m], bucket[m].items, yielded[m])
    BY <1>5 DEF DataInv, RankData
  <2> QED BY <1>1, <2>1
<1> QED BY <1>1, <1>4, <1>5, <1>6, <1>7, OwnStep

\* Arithmetic of a copy that is made.
LEMMA Moved == \A a, b \in Nat : b >= 1 => (a + 1) + (b - 1) = a + b
OBVIOUS

\* Arithmetic of the tensor that is copied out.
LEMMA Numbered == \A g, c, y \in Nat : (g + c) - y + (y - c + 1) = g + 1
OBVIOUS

\* The copy the engine makes is the next tensor, whole.
LEMMA CopyOut ==
  ASSUME TypeOK, ChainInv, DataInv, NEW m \in Rollout, Copy(m)
  PROVE  /\ got' = [got EXCEPT ![m] = Append(@, Len(@) + 1)] /\ Len(got[m]) < Tensors
         /\ DataInv'
<1> DEFINE c == Head(copies[m])
           t == Tail(copies[m])
           s == bucket[m].items
           y == yielded[m]
           L == Len(copies[m])
           G == Len(got[m])
           j == y - L + 1
           intact == \A k \in Span(c) : buf[m][c.buf][k] = c.name
           a == Append(got[m], IF intact THEN c.name ELSE 0)
<1>1. /\ copies[m] # << >> /\ copies' = [copies EXCEPT ![m] = t]
      /\ got' = [got EXCEPT ![m] = a]
      /\ UNCHANGED << core, buf, bucket, coming, yielded, link >>
  BY ConstantFacts DEF Copy
<1>2. /\ m \in Ranks /\ copies \in [Ranks -> Seq(Copies)] /\ got \in [Ranks -> Seq(Nat)]
      /\ bucket[m] \in Buckets /\ y \in Nat
  BY ConstantFacts DEF TypeOK, DataType
<1>3. copies[m] \in Seq(Copies) /\ got[m] \in Seq(Nat) /\ Len(s) \in Nat
  BY <1>2, ItemFacts
<1>4. c = copies[m][1] /\ c \in Copies /\ Len(t) = L - 1 /\ L \in Nat /\ L >= 1 /\ G \in Nat
  BY <1>1, <1>3, TailType, LenProperties
<1>5. Handing(m) /\ Holding(m) /\ pc[m] \in {"yield", "done"}
  <2>1. pc[m] \in {"fill", "yield", "done"} /\ pc[m] \notin {"prepare", "rejected"}
    BY <1>1, <1>2 DEF ChainInv, CopyAt
  <2>2. pc[m] # "fill"
    BY <2>1, Owner DEF ChainInv
  <2> QED BY <2>1, <2>2 DEF Handing, Holding
<1>6. /\ Placed(s, Base(m)) /\ Holds(m, cur[m], s) /\ Match(copies[m], s, y)
  BY <1>5 DEF DataInv, RankData
<1>7. Match(t, s, y) /\ j \in 1 .. Len(s) /\ c.name = s[j].name /\ c.offset = s[j].offset
  <2>1. copies[m] \in Seq(Copies) /\ y \in Nat /\ Len(s) \in Nat /\ copies[m] # << >> /\ Match(copies[m], s, y)
    BY <1>1, <1>2, <1>3, <1>6
  <2>2. /\ Match(Tail(copies[m]), s, y) /\ y - Len(copies[m]) + 1 \in 1 .. Len(s)
        /\ copies[m][1].name = s[y - Len(copies[m]) + 1].name
        /\ copies[m][1].offset = s[y - Len(copies[m]) + 1].offset
    BY <2>1, MatchTail
  <2> QED BY <1>4, <2>2
<1>8. c.buf = cur[m]
  <2>1. 1 \in 1 .. Len(copies[m])
    BY <1>4
  <2> QED BY <1>2, <1>4, <2>1 DEF ChainInv, CopyAt
<1>9. intact
  <2>1. Span(c) = Span(s[j])
    BY <1>7 DEF Span
  <2>2. \A k \in Span(s[j]) : buf[m][cur[m]][k] = s[j].name
    BY <1>6, <1>7 DEF Holds
  <2> QED BY <1>7, <1>8, <2>1, <2>2
<1>10. Base(m) = (G + L) - y
  BY <1>5 DEF Base, Given
<1>11. c.name = G + 1
  <2>1. c.name = Base(m) + j
    BY <1>6, <1>7 DEF Placed
  <2> HIDE DEF G, L, y, c
  <2> QED BY <1>2, <1>4, <1>10, <2>1, Numbered
<1>12. G < Tensors
  <2>1. c.name \in 1 .. Tensors
    BY <1>4 DEF Copies
  <2> HIDE DEF G, c
  <2> QED BY <1>4, <1>11, <2>1, ConstantFacts
<1>13. a = Append(got[m], G + 1)
  BY <1>9, <1>11
<1>14. got' = [got EXCEPT ![m] = Append(@, Len(@) + 1)]
  BY <1>1, <1>13
<1>15. /\ copies'[m] = t /\ got'[m] = a
       /\ \A k \in Ranks : k # m => copies'[k] = copies[k] /\ got'[k] = got[k]
  <2> HIDE DEF t, a
  <2> QED BY <1>1, <1>2
<1>16. Len(a) = G + 1
  BY <1>3, <1>13, LenProperties
<1>17. \A k \in Ranks : k # m => Own(k)
  BY <1>1, <1>15 DEF Own, core
<1>18. Handing(m)' /\ (Coming(m)' <=> Coming(m))
  BY <1>1, <1>5 DEF Handing, Coming, core
<1>19. Base(m)' = Base(m)
  <2>1. Base(m)' = (Len(a) + Len(t)) - y
    BY <1>1, <1>15, <1>18 DEF Base, Given
  <2>2. Len(a) + Len(t) = G + L
    <3>1. Len(a) + Len(t) = (G + 1) + (L - 1)
      BY <1>4, <1>16
    <3> HIDE DEF G, L
    <3> QED BY <1>4, <3>1, Moved
  <2> QED BY <1>10, <2>1, <2>2
<1>20. Match(copies[m], bucket[m].items, yielded[m])'
  <2>1. bucket'[m].items = s /\ yielded'[m] = y
    BY <1>1
  <2> QED BY <1>7, <1>15, <2>1
<1>21. DataInv'
  BY <1>1, <1>5, <1>17, <1>18, <1>19, <1>20, OwnStep DEF core, link
<1> QED BY <1>12, <1>14, <1>21

\* A byte arrives where the rank collects the next bucket.
LEMMA MoveByteData == ASSUME TypeOK, ChainInv, DataInv, NEW m \in Ranks, MoveByte(m) PROVE DataInv'
<1> DEFINE k == CHOOSE k \in xfer[m].left : \A j \in xfer[m].left : k <= j
           l == xfer[m].left \ {k}
           n == m - 1
           d == 3 - cur[m]
           S == xfer[m].src
           z == buf[n][S][k]
<1>1. Reading(m) /\ m \in Rollout
  <2>1. Reading(m) /\ m # 0
    BY DEF MoveByte, ReadDone, Reading, ChainInv, Links
  <2> QED BY <2>1, ConstantFacts
<1>2. /\ m # 0 /\ n \in 0 .. R - 1 /\ n \in Ranks /\ n + 1 = m /\ n # m
      /\ m # R => m \in 0 .. R - 1 /\ m + 1 \in Ranks /\ m + 1 # m
  BY <1>1, RolloutPlace
<1>3. prev[m] = n
  <2>1. pc[m] \notin {"prepare", "rejected"}
    BY <1>1 DEF ChainInv, ReadAt
  <2> QED BY <1>1, <2>1, Owner DEF ChainInv
<1> HIDE DEF n
<1>4. S = Source(n)
  <2>1. Link(n)
    BY <1>2 DEF ChainInv, Links
  <2> QED BY <1>1, <1>2, <2>1 DEF Link, Free, Waiting, BeingRead, Read
<1>5. k \in xfer[m].left /\ k \in Bytes
  BY <1>1, NextByte
<1>6. /\ buf' = [buf EXCEPT ![m][d][k] = z]
      /\ xfer' = [xfer EXCEPT ![m].left = l]
      /\ UNCHANGED << core, bucket, coming, copies, got, yielded, inbox >>
  BY <1>3 DEF MoveByte
<1>7. buf \in [Ranks -> Buffers] /\ xfer \in [Ranks -> Reads] /\ cur[m] \in 1 .. 2
  BY DEF TypeOK, DataType, LinkType, CoreType
<1>8. d \in 1 .. 2 /\ d # cur[m]
  BY <1>7
<1> HIDE DEF k, l, d, z
<1>9. xfer'[m].left = l /\ \A i \in Ranks : i # m => xfer'[i] = xfer[i]
  <2>1. xfer[m] \in Reads
    BY <1>7
  <2> QED BY <1>6, <1>7, <2>1 DEF Reads
<1>10. /\ buf'[m][cur[m]] = buf[m][cur[m]] /\ buf'[m][d][k] = z
       /\ \A i \in Bytes : i # k => buf'[m][d][i] = buf[m][d][i]
       /\ \A i \in Ranks : i # m => buf'[i] = buf[i]
  <2>1. buf[m] \in Buffers /\ buf[m][d] \in [Bytes -> Nat]
    BY <1>8, ByteType
  <2>2. buf[m] \in [1 .. 2 -> [Bytes -> Nat]]
    BY <2>1 DEF Buffers
  <2> DEFINE w == [buf[m][d] EXCEPT ![k] = z]
  <2>3. buf' = [buf EXCEPT ![m] = [buf[m] EXCEPT ![d] = w]]
    BY <1>6
  <2>4. w[k] = z /\ \A i \in Bytes : i # k => w[i] = buf[m][d][i]
    BY <1>5, <2>1
  <2> HIDE DEF w
  <2>5. buf'[m] = [buf[m] EXCEPT ![d] = w] /\ \A i \in Ranks : i # m => buf'[i] = buf[i]
    BY <1>7, <2>3
  <2>6. buf'[m][cur[m]] = buf[m][cur[m]] /\ buf'[m][d] = w
    BY <1>7, <1>8, <2>2, <2>5
  <2> QED BY <2>4, <2>5, <2>6
<1>11. \A i \in Ranks : i # m => Own(i)
  BY <1>6, <1>10 DEF Own, core
<1>12. /\ (Handing(m)' <=> Handing(m)) /\ (Holding(m)' <=> Holding(m)) /\ (Coming(m)' <=> Coming(m))
       /\ Base(m)' = Base(m) /\ Expect(m)' = Expect(m) /\ Avail(m)' = Avail(m) /\ Sent(m)' = Sent(m)
       /\ Source(m)' = Source(m) /\ Source(m) = cur[m]
  <2>1. (Handing(m)' <=> Handing(m)) /\ (Holding(m)' <=> Holding(m)) /\ (Coming(m)' <=> Coming(m)) /\ Given(m)' = Given(m)
    BY <1>6 DEF Handing, Holding, Coming, Given, core
  <2>2. Base(m)' = Base(m)
    BY <1>6, <2>1 DEF Base
  <2>3. Expect(m)' = Expect(m)
    BY <1>6, <2>1, <2>2 DEF Expect
  <2>4. Avail(m)' = Avail(m)
    BY <1>6, <2>1, <2>3 DEF Avail
  <2>5. Sent(m)' = Sent(m) /\ Source(m)' = Source(m) /\ Source(m) = cur[m]
    BY <1>2, <1>6, <2>2, <2>3 DEF Sent, Source, core
  <2> QED BY <2>1, <2>2, <2>3, <2>4, <2>5
<1>13. RankData(m)'
  <2>1. RankData(m)
    BY <1>1 DEF DataInv
  <2>2. Holds(m, cur[m], bucket[m].items) => Holds(m, cur[m], bucket[m].items)'
    <3>1. cur' = cur /\ bucket' = bucket /\ buf'[m][cur[m]] = buf[m][cur[m]]
      BY <1>6, <1>10 DEF core
    <3> QED BY <3>1 DEF Holds
  <2> QED BY <1>6, <1>12, <2>1, <2>2 DEF RankData
<1>14. m # R => LinkData(m)'
  <2> SUFFICES ASSUME m # R PROVE LinkData(m)'
    OBVIOUS
  <2>1. LinkData(m) /\ Own(m + 1) /\ xfer'[m + 1] = xfer[m + 1] /\ inbox'[m + 1] = inbox[m + 1]
    BY <1>2, <1>6, <1>9, <1>11 DEF DataInv
  <2> QED BY <1>2, <1>10, <1>12, <2>1, SenderSide
<1>15. LinkData(n)'
  <2>1. LinkData(n) /\ Own(n) /\ buf'[n] = buf[n]
    BY <1>2, <1>10, <1>11 DEF DataInv
  <2>2. Sent(n)' = Sent(n) /\ Source(n)' = Source(n)
    BY <1>2, <2>1, OwnKept
  <2>3. /\ Holds(n, S, coming[m].items)
        /\ \A i \in Bytes \ xfer[m].left : buf[m][d][i] = buf[n][S][i]
    BY <1>1, <1>2, <1>4, <2>1 DEF LinkData, d
  <2>4. \A i \in Bytes \ l : buf'[m][d][i] = buf[n][S][i]
    <3> SUFFICES ASSUME NEW i \in Bytes \ l PROVE buf'[m][d][i] = buf[n][S][i]
      OBVIOUS
    <3>1. CASE i = k
      BY <1>10, <3>1 DEF z
    <3>2. CASE i # k
      <4>1. i \in Bytes \ xfer[m].left
        BY <3>2 DEF l
      <4> QED BY <1>10, <2>3, <3>2, <4>1
    <3> QED BY <3>1, <3>2
  <2>5. cur' = cur /\ coming' = coming /\ inbox' = inbox /\ d = 3 - cur[m] /\ d' = 3 - cur'[m]
    BY <1>6 DEF core, d
  <2>6. Coming(m)
    BY <1>1 DEF ChainInv, ReadAt, Coming
  <2>7. Placed(coming[m].items, Expect(m))
    BY <1>2, <2>1, <2>6 DEF LinkData
  <2>8. (Coming(m) /\ ~Reading(m) => Holds(m, 3 - cur[m], coming[m].items))'
    <3> SUFFICES ASSUME ~Reading(m)' PROVE Holds(m, 3 - cur[m], coming[m].items)'
      OBVIOUS
    <3>1. l = {}
      BY <1>9 DEF Reading
    <3> DEFINE c == coming[m].items
    <3>2. \A i \in 1 .. Len(c) : \A b \in Span(c[i]) : b \in Bytes \ l /\ buf[n][S][b] = c[i].name
      BY <2>3, <2>7, <3>1 DEF Holds, Placed
    <3>3. \A i \in 1 .. Len(c) : \A b \in Span(c[i]) : buf'[m][d][b] = c[i].name
      BY <2>4, <3>2
    <3>4. coming'[m].items = c /\ 3 - cur'[m] = d
      BY <2>5
    <3> HIDE DEF c
    <3> QED BY <3>3, <3>4 DEF Holds
  <2>9. (Reading(m) => /\ Holds(n, Source(n), coming[m].items)
                       /\ \A i \in Bytes \ xfer[m].left : buf[m][3 - cur[m]][i] = buf[n][Source(n)][i])'
    <3>1. Holds(n, Source(n), coming[m].items)'
      BY <1>4, <2>1, <2>2, <2>3, <2>5 DEF Holds
    <3>2. \A i \in Bytes \ xfer'[m].left : buf'[m][3 - cur'[m]][i] = buf'[n][Source(n)'][i]
      BY <1>4, <1>9, <2>1, <2>2, <2>4, <2>5
    <3> QED BY <3>1, <3>2
  <2>10. (inbox[m] # << >> => LET s == inbox[m][1].bucket.items IN
            Sent(n) = Avail(m) + Len(s) /\ Placed(s, Avail(m)) /\ Holds(n, Source(n), s))'
    <3> SUFFICES ASSUME inbox[m] # << >>
                 PROVE  (LET s == inbox[m][1].bucket.items IN
                           Sent(n) = Avail(m) + Len(s) /\ Placed(s, Avail(m)) /\ Holds(n, Source(n), s))'
      BY <2>5
    <3>1. LET s == inbox[m][1].bucket.items IN
            Sent(n) = Avail(m) + Len(s) /\ Placed(s, Avail(m)) /\ Holds(n, Source(n), s)
      BY <1>2, <2>1 DEF LinkData
    <3>2. Holds(n, Source(n), inbox[m][1].bucket.items)'
      BY <2>1, <2>2, <2>5, <3>1 DEF Holds
    <3> QED BY <1>12, <2>2, <2>5, <3>1, <3>2
  <2>11. (inbox[m] = << >> => Sent(n) = Avail(m))'
    BY <1>2, <1>12, <2>1, <2>2, <2>5 DEF LinkData
  <2> QED BY <1>2, <1>12, <2>5, <2>7, <2>8, <2>9, <2>10, <2>11 DEF LinkData
<1>16. \A i \in Ranks : i # m => inbox'[i] = inbox[i] /\ xfer'[i] = xfer[i]
  BY <1>6, <1>9
<1> QED BY <1>2, <1>11, <1>13, <1>14, <1>15, <1>16, OneRank DEF n

-------------------------------------------------------------------------------
(* The refinement of WeightStream.                                            *)

\* A stuttering step.
LEMMA DataKept == ASSUME DataInv, UNCHANGED vars PROVE DataInv'
<1>1. UNCHANGED << core, data, link >>
  BY DEF vars
<1>2. \A k \in Ranks : Own(k)
  BY <1>1 DEF core, data, Own
<1>3. \A k \in Ranks : inbox'[k] = inbox[k] /\ xfer'[k] = xfer[k]
  BY <1>1 DEF link
<1>4. Packed'
  BY <1>2, PackedKept, TrainerPlace DEF DataInv
<1>5. LinkData(0)'
  <2>1. Own(0) /\ Own(0 + 1) /\ LinkData(0)
    BY <1>2, TrainerPlace DEF DataInv
  <2>2. Sent(0)' = Sent(0) /\ Source(0)' = Source(0) /\ buf'[0] = buf[0]
    BY <2>1, TrainerPlace, OwnKept DEF Own
  <2> QED BY <1>3, <2>1, <2>2, TrainerPlace, SenderSide
<1> QED BY <1>2, <1>3, <1>4, <1>5, TrainerPlace, OneRank

\* The steps of the rollout ranks' engines, and all others.
Engines == \E m \in Rollout : Copy(m)

\* Only the engines copy tensors out.
LEMMA GotKept ==
  ASSUME Next \/ UNCHANGED vars, ~Engines
  PROVE  got' = got
<1>1. CASE BuildGroup
  BY <1>1 DEF BuildGroup, data
<1>2. CASE Trainer
  BY <1>2 DEF Trainer, Fill, SendBucket, SendLast, SendDone, data
<1>3. CASE \E n \in Rollout : Receiver(n)
  BY <1>3 DEF Receiver, BeginRead, FirstRead, Publish, Yield, EndBucket, EndStream, data
<1>4. CASE \E n \in Ranks : Device(n)
  <2> PICK n \in Ranks : Device(n)
    BY <1>4
  <2>1. CASE MoveByte(n)
    BY <2>1 DEF MoveByte
  <2>2. CASE Copy(n)
    <3>1. n = 0
      BY <2>2, ConstantFacts DEF Engines
    <3> QED BY <2>2, <3>1 DEF Copy
  <2> QED BY <2>1, <2>2 DEF Device
<1>5. CASE UNCHANGED vars
  BY <1>5 DEF vars, data
<1> QED BY <1>1, <1>2, <1>3, <1>4, <1>5 DEF Next

\* Every step keeps the data whole and in order.
LEMMA DataStep == TypeOK /\ ChainInv /\ DataInv /\ [Next]_vars => DataInv'
<1> SUFFICES ASSUME TypeOK, ChainInv, DataInv, [Next]_vars PROVE DataInv'
  OBVIOUS
<1>1. CASE BuildGroup
  BY <1>1, BuildGroupData
<1>2. CASE Trainer
  BY <1>2, FillData, SendBucketData, SendLastData, SendDoneData DEF Trainer
<1>3. CASE \E n \in Rollout : Receiver(n)
  BY <1>3, BeginReadData, TakeData, PublishData, YieldData, EndStreamData DEF Receiver
<1>4. CASE \E n \in Ranks : Device(n)
  BY <1>4, MoveByteData, CopyInData, CopyOut, ConstantFacts DEF Device
<1>5. CASE UNCHANGED vars
  BY <1>5, DataKept
<1> QED BY <1>1, <1>2, <1>3, <1>4, <1>5 DEF Next

\* At the start no tensor is handed over.
LEMMA HandedInit == Init => Stream!SInit
<1> SUFFICES ASSUME Init PROVE Stream!SInit
  OBVIOUS
<1>1. \A n \in Rollout : got[n] = << >>
  BY ConstantFacts DEF Init
<1> QED BY <1>1 DEF Stream!SInit

\* A copy of an engine is a step of WeightStream, every other step a stutter.
LEMMA HandedStep ==
  TypeOK /\ ChainInv /\ DataInv /\ [Next]_vars => [Stream!SNext]_([n \in Rollout |-> got[n]])
<1> SUFFICES ASSUME TypeOK, ChainInv, DataInv, [Next]_vars
             PROVE  [Stream!SNext]_([n \in Rollout |-> got[n]])
  OBVIOUS
<1>1. CASE Engines
  <2> PICK m \in Rollout : Copy(m)
    BY <1>1 DEF Engines
  <2> DEFINE h == [n \in Rollout |-> got[n]]
             a == Append(got[m], Len(got[m]) + 1)
  <2>1. got' = [got EXCEPT ![m] = a] /\ Len(got[m]) < Tensors /\ got \in [Ranks -> Seq(Nat)]
    BY CopyOut DEF TypeOK, DataType
  <2>2. h[m] = got[m]
    OBVIOUS
  <2>3. [n \in Rollout |-> got'[n]] = [h EXCEPT ![m] = a]
    <3> HIDE DEF a
    <3>1. \A n \in Rollout : got'[n] = IF n = m THEN a ELSE got[n]
      BY <2>1, ConstantFacts
    <3> QED BY <3>1
  <2>4. Stream!Hand(m)
    BY <2>1, <2>2, <2>3 DEF Stream!Hand
  <2> QED BY <2>4 DEF Stream!SNext
<1>2. CASE ~Engines
  BY <1>2, GotKept
<1> QED BY <1>1, <1>2

\* The chain of remote reads implements the abstract transfer, but for its liveness: for
\* any number of rollout ranks, tensors and bucket sizes, every inference engine copies
\* out the tensors of the model whole, in the order of the trainer, each once.
THEOREM ChainHandsOver == Spec => Stream!SInit /\ [][Stream!SNext]_([n \in Rollout |-> got[n]])
<1>1. Init => TypeOK /\ ChainInv /\ DataInv
  BY TypeInit, ChainInit, DataInit
<1>2. TypeOK /\ ChainInv /\ DataInv /\ [Next]_vars => (TypeOK /\ ChainInv /\ DataInv)'
  BY ChainStep, DataStep
<1>3. TypeOK /\ ChainInv /\ DataInv /\ [Next]_vars => [Stream!SNext]_([n \in Rollout |-> got[n]])
  BY HandedStep
<1>4. Init => Stream!SInit
  BY HandedInit
<1> HIDE DEF TypeOK, ChainInv, DataInv
<1> QED BY <1>1, <1>2, <1>3, <1>4, PTL DEF Spec
===============================================================================
