----------------------------- MODULE RewardProofs -----------------------------
(***************************************************************************)
(* What the reward service guarantees for any batch, any number of workers *)
(* and any limits: the router's counts never fall below what is under way, *)
(* the losses to one failing worker are bounded by the semaphores of all   *)
(* reward loops together, and the causes for which a step raises.          *)
(***************************************************************************)
EXTENDS RewardService, FiniteSetTheorems, WellFoundedInduction, TLAPS

LEMMA AsksFinite == IsFiniteSet(Asks) /\ IsFiniteSet(Items)
<1>1. N \in Int /\ 1 \in Int /\ 0 \in Int /\ MaxPrmRetries - 1 \in Int
  BY RewardAssumption
<1>2. IsFiniteSet(1 .. N) /\ IsFiniteSet(0 .. MaxPrmRetries - 1)
  BY <1>1, FS_Interval
<1> QED BY <1>2, FS_Product DEF Asks, Items

\* Sets of requests and of items have a size.
LEMMA Sizes ==
  /\ \A S \in SUBSET Asks : IsFiniteSet(S) /\ Cardinality(S) \in Nat
  /\ \A S \in SUBSET Items : IsFiniteSet(S) /\ Cardinality(S) \in Nat
BY AsksFinite, FS_Subset, FS_CardinalityType

LEMMA AtFinite ==
  ASSUME NEW w, NEW where
  PROVE  At(w, where) \in SUBSET Asks /\ IsFiniteSet(At(w, where)) /\ Cardinality(At(w, where)) \in Nat
<1>1. At(w, where) \in SUBSET Asks
  BY DEF At
<1> QED BY <1>1, Sizes

\* A set of numbers that is not empty has a least one.
LEMMA LeastNumber ==
  ASSUME NEW S \in SUBSET Nat, S # {}
  PROVE  \E m \in S : \A k \in S : m <= k
<1>1. \E m \in S : \A k \in S : <<k, m>> \notin OpToRel(<, Nat)
  BY NatLessThanWellFounded, WFMin
<1>2. PICK m \in S : \A k \in S : <<k, m>> \notin OpToRel(<, Nat)
  BY <1>1
<1>3. \A k \in S : ~(k < m)
  BY <1>2 DEF OpToRel
<1> QED BY <1>3

\* _select_worker returns a worker, and one that counts no more than any other.
LEMMA LeastLoadedIsLeast ==
  ASSUME TypeOK
  PROVE  /\ LeastLoaded \in Workers
         /\ \A v \in Workers : counts[LeastLoaded] <= counts[v]
<1> DEFINE Loads == {counts[v] : v \in Workers}
<1>0. W \in Nat /\ W >= 1 /\ 1 \in Workers
  BY RewardAssumption DEF Workers
<1>1. Loads \in SUBSET Nat /\ Loads # {}
  BY <1>0 DEF TypeOK
<1>2. PICK m \in Loads : \A k \in Loads : m <= k
  BY <1>1, LeastNumber
<1> DEFINE Least == {v \in Workers : counts[v] = m}
<1>3. Least \in SUBSET Nat /\ Least # {}
  BY <1>2 DEF Workers
<1>4. PICK w \in Least : \A v \in Least : w <= v
  BY <1>3, LeastNumber
<1>5. /\ w \in Workers
      /\ \A v \in Workers : counts[w] <= counts[v]
      /\ \A v \in Workers : counts[v] = counts[w] => w <= v
  BY <1>2, <1>4
<1>6. \E x \in Workers :
        /\ \A v \in Workers : counts[x] <= counts[v]
        /\ \A v \in Workers : counts[v] = counts[x] => x <= v
  BY <1>5
<1> QED BY <1>6 DEF LeastLoaded

-----------------------------------------------------------------------------
Base == TypeOK /\ RequestsInOrder /\ ScoredOnce

LEMMA InitBase == Init => Base
<1> SUFFICES ASSUME Init PROVE Base
  OBVIOUS
<1>1. MaxPrmRetries \in Nat /\ MaxPrmRetries >= 1 /\ W \in Nat /\ W >= 1
  BY RewardAssumption
<1>2. None \in [at : {"none", "arriving", "forwarded", "ok", "failed"},
                worker : Workers, attempt : Nat]
  BY <1>1 DEF None, Workers
<1>3. \A a \in Asks : request[a].at = "none"
  BY DEF Init, None
<1>4. TypeOK
  BY <1>1, <1>2 DEF Init, TypeOK, Workers
<1> QED BY <1>3, <1>4 DEF Init, Base, RequestsInOrder, ScoredOnce

\* The request of an item that is about to be posted has never been used.
LEMMA PostedIsNew ==
  ASSUME Base, NEW i \in Items
  PROVE  /\ Ask(i) \in Asks
         /\ place[i] = "queued" => request[Ask(i)].at = "none"
         /\ place[i] = "sleeping" => <<i, tries[i] + 1>> \in Asks
                                     /\ request[<<i, tries[i] + 1>>].at = "none"
<1>1. MaxPrmRetries \in Nat
  BY RewardAssumption
<1>2. tries[i] \in 0 .. MaxPrmRetries - 1
  BY DEF Base, TypeOK
<1>3. Ask(i) \in Asks /\ Ask(i)[1] = i
  BY <1>2 DEF Ask, Asks
<1>4. ASSUME place[i] = "queued" PROVE request[Ask(i)].at = "none"
  BY <1>3, <1>4 DEF Base, RequestsInOrder
<1>5. ASSUME place[i] = "sleeping"
      PROVE  <<i, tries[i] + 1>> \in Asks /\ request[<<i, tries[i] + 1>>].at = "none"
  <2>1. tries[i] < MaxPrmRetries - 1
    BY <1>5 DEF Base, RequestsInOrder
  <2>2. tries[i] + 1 \in 0 .. MaxPrmRetries - 1
    BY <1>1, <1>2, <2>1
  <2>3. <<i, tries[i] + 1>> \in Asks
    BY <2>2 DEF Asks
  <2>4. ~(tries[i] + 1 <= tries[i])
    BY <1>2
  <2> QED BY <2>3, <2>4 DEF Base, RequestsInOrder
<1> QED BY <1>3, <1>4, <1>5

LEMMA BaseInduction == Base /\ [Next]_vars => Base'
<1> SUFFICES ASSUME Base, [Next]_vars PROVE Base'
  OBVIOUS
<1> USE DEF Base, TypeOK
<1>1. ASSUME NEW i \in Items, Enter(i) PROVE Base'
  <2>1. Ask(i) \in Asks /\ request[Ask(i)].at = "none" /\ tries[i] = 0 /\ result[i] = "none"
    BY <1>1, PostedIsNew DEF Enter, RequestsInOrder, ScoredOnce
  <2>2. Ask(i)[1] = i /\ Ask(i)[2] = 0
    BY <2>1 DEF Ask
  <2>3. CASE place' = [place EXCEPT ![i] = "asking"]
             /\ request' = [request EXCEPT ![Ask(i)].at = "arriving"] /\ UNCHANGED result
    <3>1. TypeOK'
      BY <1>1, <2>1, <2>3 DEF Enter
    <3>2. RequestsInOrder' /\ ScoredOnce'
      BY <1>1, <2>1, <2>2, <2>3 DEF Enter, RequestsInOrder, ScoredOnce
    <3> QED BY <3>1, <3>2
  <2>4. CASE Returns(i, "raised") /\ UNCHANGED request
    BY <1>1, <2>1, <2>4 DEF Enter, Returns, RequestsInOrder, ScoredOnce
  <2> QED BY <1>1, <2>3, <2>4 DEF Enter
<1>2. ASSUME NEW i \in Items, Answered(i) PROVE Base'
  BY <1>2 DEF Answered, Returns, RequestsInOrder, ScoredOnce
<1>3. ASSUME NEW i \in Items, Failed(i) PROVE Base'
  <2>1. Retries(i) => tries[i] < MaxPrmRetries - 1
    BY DEF Retries
  <2>2. place[i] = "asking" /\ UNCHANGED <<manager, tries, request, counts, up, step>>
    BY <1>3 DEF Failed
  <2>3. CASE Retries(i)
    <3>1. place' = [place EXCEPT ![i] = "sleeping"] /\ UNCHANGED result
      BY <1>3, <2>3 DEF Failed
    <3> QED BY <2>1, <2>2, <2>3, <3>1 DEF RequestsInOrder, ScoredOnce
  <2>4. CASE ~Retries(i)
    <3>1. place' = [place EXCEPT ![i] = "scored"] /\ result' = [result EXCEPT ![i] = "failed"]
      BY <1>3, <2>4 DEF Failed, Returns
    <3> QED BY <2>2, <3>1 DEF RequestsInOrder, ScoredOnce
  <2> QED BY <2>3, <2>4
<1>4. ASSUME NEW i \in Items, AskAgain(i) PROVE Base'
  <2> DEFINE posted == <<i, tries[i] + 1>>
  <2>1. posted \in Asks /\ request[posted].at = "none" /\ tries[i] \in Nat
    BY <1>4, PostedIsNew, RewardAssumption DEF AskAgain
  <2>2. posted[1] = i /\ posted[2] = tries[i] + 1
    OBVIOUS
  <2>3. tries' = [tries EXCEPT ![i] = tries[i] + 1] /\ tries'[i] = tries[i] + 1
    BY <1>4 DEF AskAgain
  <2>4. request' = [request EXCEPT ![posted].at = "arriving"]
    BY <1>4, <2>3 DEF AskAgain
  <2>5. tries[i] + 1 \in 0 .. MaxPrmRetries - 1
    BY <2>1 DEF Asks
  <2>6. tries' \in [Items -> 0 .. MaxPrmRetries - 1]
    BY <2>3, <2>5
  <2> HIDE DEF posted
  <2>7. TypeOK'
    BY <1>4, <2>1, <2>4, <2>6 DEF AskAgain
  <2>8. \A b \in Asks : b # posted => request'[b] = request[b]
    BY <2>1, <2>4
  <2>9. \A j \in Items : tries[j] \in Nat /\ tries'[j] \in Nat /\ tries[j] <= tries'[j]
    BY <2>3, RewardAssumption
  <2>10. \A b \in Asks : b[1] \in Items /\ b[2] \in Nat
    BY RewardAssumption DEF Asks
  <2>11. place' = [place EXCEPT ![i] = "asking"] /\ place[i] = "sleeping" /\ result' = result
    BY <1>4 DEF AskAgain
  <2>12. \A b \in Asks : request'[b].at # "none" => place'[b[1]] # "queued" /\ b[2] <= tries'[b[1]]
    <3> SUFFICES ASSUME NEW b \in Asks, request'[b].at # "none"
                 PROVE  place'[b[1]] # "queued" /\ b[2] <= tries'[b[1]]
      OBVIOUS
    <3>1. CASE b = posted
      BY <2>2, <2>3, <2>11, <3>1, <2>1
    <3>2. CASE b # posted
      <4>1. request[b].at # "none"
        BY <2>8, <3>2
      <4>2. place[b[1]] # "queued" /\ b[2] <= tries[b[1]]
        BY <4>1 DEF RequestsInOrder
      <4>3. b[2] <= tries'[b[1]]
        BY <4>2, <2>9, <2>10
      <4> QED BY <4>2, <4>3, <2>10, <2>11
    <3> QED BY <3>1, <3>2
  <2>13. \A j \in Items :
           /\ place'[j] = "queued" => tries'[j] = 0
           /\ place'[j] = "sleeping" => tries'[j] < MaxPrmRetries - 1
    BY <2>3, <2>11 DEF RequestsInOrder
  <2>14. ScoredOnce'
    BY <2>11 DEF ScoredOnce
  <2>15. RequestsInOrder'
    BY <2>12, <2>13 DEF RequestsInOrder
  <2> QED BY <2>7, <2>14, <2>15
<1>5. ASSUME NEW i \in Items, Timeout(i) PROVE Base'
  BY <1>5 DEF Timeout, TimedOut, Returns, RequestsInOrder, ScoredOnce
<1>6. ASSUME NEW a \in Asks, Select(a) PROVE Base'
  <2>1. LeastLoaded \in Workers
    BY LeastLoadedIsLeast
  <2>2. counts' \in [Workers -> Nat]
    BY <1>6, <2>1 DEF Select
  <2>3. request' = [request EXCEPT ![a] = [@ EXCEPT !.at = "forwarded", !.worker = LeastLoaded]]
    BY <1>6 DEF Select
  <2>4. TypeOK'
    BY <1>6, <2>1, <2>2, <2>3 DEF Select
  <2> QED BY <1>6, <2>3, <2>4 DEF Select, RequestsInOrder, ScoredOnce
<1>7. ASSUME NEW a \in Asks, Forwarded(a) PROVE Base'
  BY <1>7 DEF Forwarded, RequestsInOrder, ScoredOnce
<1>8. ASSUME NEW a \in Asks, Rejected(a) PROVE Base'
  BY <1>8 DEF Rejected, Raises, RequestsInOrder, ScoredOnce
<1>9. ASSUME NEW a \in Asks, Disconnected(a) PROVE Base'
  BY <1>9 DEF Disconnected, Raises, RequestsInOrder, ScoredOnce
<1>10. ASSUME NEW w \in Workers, Changes(w) PROVE Base'
  BY <1>10 DEF Changes, RequestsInOrder, ScoredOnce
<1>11. CASE ComputeRmScore
  BY <1>11 DEF ComputeRmScore, RequestsInOrder, ScoredOnce
<1>12. CASE UNCHANGED vars
  BY <1>12 DEF vars, RequestsInOrder, ScoredOnce
<1> QED BY <1>1, <1>2, <1>3, <1>4, <1>5, <1>6, <1>7, <1>8, <1>9, <1>10, <1>11, <1>12
        DEF Next, Item, Handler
\* Every variable keeps its type: requests are numbered below MAX_PRM_RETRIES, the
\* router's counts never go below zero.
THEOREM RewardTypeCorrect == Spec => []TypeOK
<1>1. Base => TypeOK
  BY DEF Base
<1> QED BY InitBase, BaseInduction, <1>1, PTL DEF Spec

-----------------------------------------------------------------------------
(* What the router counts.                                                 *)

\* A step that changes one request moves it between the sets it belongs to.
LEMMA OneRequestMoves ==
  ASSUME NEW a \in Asks,
         \A b \in Asks : b # a => request'[b].at = request[b].at
                                  /\ request'[b].worker = request[b].worker,
         NEW w \in Workers, NEW where
  PROVE  At(w, where)' = IF request'[a].at = where /\ request'[a].worker = w
                         THEN At(w, where) \cup {a} ELSE At(w, where) \ {a}
BY DEF At

\* A failed request stays failed, at the same worker.
LEMMA FailedStays ==
  ASSUME Base, [Next]_vars, NEW b \in Asks, request[b].at = "failed"
  PROVE  request'[b].at = "failed" /\ request'[b].worker = request[b].worker
<1> USE DEF Base, TypeOK
<1>1. ASSUME NEW i \in Items, Enter(i)
      PROVE  request'[b].at = "failed" /\ request'[b].worker = request[b].worker
  <2>1. Ask(i) \in Asks /\ request[Ask(i)].at = "none"
    BY <1>1, PostedIsNew DEF Enter
  <2>2. CASE request' = [request EXCEPT ![Ask(i)].at = "arriving"]
    BY <2>1, <2>2
  <2>3. CASE UNCHANGED request
    BY <2>3
  <2> QED BY <1>1, <2>2, <2>3 DEF Enter
<1>2. ASSUME NEW i \in Items, AskAgain(i)
      PROVE  request'[b].at = "failed" /\ request'[b].worker = request[b].worker
  <2>1. <<i, tries[i] + 1>> \in Asks /\ request[<<i, tries[i] + 1>>].at = "none"
    BY <1>2, PostedIsNew DEF AskAgain
  <2>2. request' = [request EXCEPT ![<<i, tries[i] + 1>>].at = "arriving"]
    BY <1>2 DEF AskAgain
  <2> QED BY <2>1, <2>2
<1>3. ASSUME NEW i \in Items, Answered(i) \/ Failed(i) \/ Timeout(i)
      PROVE  request' = request
  BY <1>3 DEF Answered, Failed, Timeout
<1>4. ASSUME NEW a \in Asks, Select(a)
      PROVE  request'[b].at = "failed" /\ request'[b].worker = request[b].worker
  BY <1>4 DEF Select
<1>5. ASSUME NEW a \in Asks, Forwarded(a)
      PROVE  request'[b].at = "failed" /\ request'[b].worker = request[b].worker
  BY <1>5 DEF Forwarded
<1>6. ASSUME NEW a \in Asks, Rejected(a) \/ Disconnected(a)
      PROVE  request'[b].at = "failed" /\ request'[b].worker = request[b].worker
  <2>1. request[a].at = "forwarded" /\ a # b
    BY <1>6 DEF Rejected, Disconnected
  <2>2. request'[b] = request[b]
    BY <1>6, <2>1 DEF Rejected, Disconnected, Raises
  <2> QED BY <2>2
<1>7. CASE (\E w \in Workers : Changes(w)) \/ ComputeRmScore \/ UNCHANGED vars
  BY <1>7 DEF Changes, ComputeRmScore, vars
<1> QED BY <1>1, <1>2, <1>3, <1>4, <1>5, <1>6, <1>7 DEF Next, Item, Handler

LEMMA InitCounts == Init => CountsCoverRequests
<1> SUFFICES ASSUME Init, NEW w \in Workers
             PROVE  counts[w] = Cardinality(At(w, "forwarded")) + Cardinality(At(w, "failed"))
  BY DEF CountsCoverRequests
<1>1. At(w, "forwarded") = {} /\ At(w, "failed") = {}
  BY DEF At, Init, None
<1> QED BY <1>1, FS_EmptySet DEF Init

\* A request that has just been posted is at no worker.
LEMMA PostingKeepsCounts ==
  ASSUME Base, CountsCoverRequests, NEW a \in Asks, request[a].at = "none",
         request' = [request EXCEPT ![a].at = "arriving"], counts' = counts
  PROVE  CountsCoverRequests'
<1> SUFFICES ASSUME NEW w \in Workers
             PROVE  At(w, "forwarded")' = At(w, "forwarded") /\ At(w, "failed")' = At(w, "failed")
  BY DEF CountsCoverRequests
<1> USE DEF Base, TypeOK
<1>1. \A b \in Asks : b # a => request'[b] = request[b]
  OBVIOUS
<1>2. request'[a].at = "arriving"
  OBVIOUS
<1> QED BY <1>1, <1>2 DEF At

LEMMA CountsInduction == Base /\ CountsCoverRequests /\ [Next]_vars => CountsCoverRequests'
<1> SUFFICES ASSUME Base, CountsCoverRequests, [Next]_vars PROVE CountsCoverRequests'
  OBVIOUS
<1>1. ASSUME NEW i \in Items, Enter(i) PROVE CountsCoverRequests'
  <2>1. Ask(i) \in Asks /\ request[Ask(i)].at = "none" /\ counts' = counts
    BY <1>1, PostedIsNew DEF Enter
  <2>2. CASE request' = [request EXCEPT ![Ask(i)].at = "arriving"]
    BY <2>1, <2>2, PostingKeepsCounts
  <2>3. CASE UNCHANGED request
    BY <2>1, <2>3 DEF CountsCoverRequests, At
  <2> QED BY <1>1, <2>2, <2>3 DEF Enter
<1>2. ASSUME NEW i \in Items, AskAgain(i) PROVE CountsCoverRequests'
  <2>1. <<i, tries[i] + 1>> \in Asks /\ request[<<i, tries[i] + 1>>].at = "none"
    BY <1>2, PostedIsNew DEF AskAgain
  <2>2. request' = [request EXCEPT ![<<i, tries[i] + 1>>].at = "arriving"] /\ counts' = counts
    BY <1>2 DEF AskAgain, Base, TypeOK
  <2> QED BY <2>1, <2>2, PostingKeepsCounts
<1>3. ASSUME UNCHANGED <<request, counts>> PROVE CountsCoverRequests'
  BY <1>3 DEF CountsCoverRequests, At
<1>4. ASSUME NEW a \in Asks, Select(a) PROVE CountsCoverRequests'
  <2>1. LeastLoaded \in Workers
    BY LeastLoadedIsLeast DEF Base
  <2>2. request' = [request EXCEPT ![a] = [@ EXCEPT !.at = "forwarded", !.worker = LeastLoaded]]
    BY <1>4 DEF Select
  <2>3. /\ \A b \in Asks : b # a => request'[b] = request[b]
        /\ request'[a].at = "forwarded" /\ request'[a].worker = LeastLoaded
    BY <2>1, <2>2 DEF Base, TypeOK
  <2>4. counts' = [counts EXCEPT ![LeastLoaded] = @ + 1] /\ request[a].at = "arriving"
    BY <1>4 DEF Select
  <2> SUFFICES ASSUME NEW w \in Workers
               PROVE  counts'[w] = Cardinality(At(w, "forwarded")') + Cardinality(At(w, "failed")')
    BY DEF CountsCoverRequests
  <2>5. a \notin At(w, "forwarded") /\ At(w, "failed") \ {a} = At(w, "failed")
    BY <2>4 DEF At
  <2>6. At(w, "failed")' = At(w, "failed")
    BY <2>3, <2>5, OneRequestMoves
  <2>7. At(w, "forwarded")' = IF w = LeastLoaded THEN At(w, "forwarded") \cup {a}
                              ELSE At(w, "forwarded")
    BY <2>3, <2>5, OneRequestMoves
  <2>8. Cardinality(At(w, "forwarded") \cup {a}) = Cardinality(At(w, "forwarded")) + 1
    BY <2>5, AtFinite, FS_AddElement
  <2>9. /\ counts[w] = Cardinality(At(w, "forwarded")) + Cardinality(At(w, "failed"))
        /\ Cardinality(At(w, "forwarded")) \in Nat /\ Cardinality(At(w, "failed")) \in Nat
    BY AtFinite DEF CountsCoverRequests
  <2>10. counts'[w] = IF w = LeastLoaded THEN counts[w] + 1 ELSE counts[w]
    BY <2>1, <2>4 DEF Base, TypeOK
  <2>11. CASE w = LeastLoaded
    <3>1. Cardinality(At(w, "forwarded")') = Cardinality(At(w, "forwarded")) + 1
      BY <2>7, <2>8, <2>11
    <3> QED BY <2>6, <2>9, <2>10, <2>11, <3>1
  <2>12. CASE w # LeastLoaded
    BY <2>6, <2>7, <2>9, <2>10, <2>12
  <2> QED BY <2>11, <2>12
<1>5. ASSUME NEW a \in Asks, request[a].at = "forwarded",
             \A b \in Asks : b # a => request'[b] = request[b],
             request'[a].worker = request[a].worker,
             \/ /\ request'[a].at = "ok"
                /\ counts' = [counts EXCEPT ![request[a].worker] = IF @ > 0 THEN @ - 1 ELSE 0]
             \/ request'[a].at = "failed" /\ counts' = counts
      PROVE  CountsCoverRequests'
  <2> SUFFICES ASSUME NEW w \in Workers
               PROVE  counts'[w] = Cardinality(At(w, "forwarded")') + Cardinality(At(w, "failed")')
    BY DEF CountsCoverRequests
  <2> DEFINE mine == request[a].worker = w
  <2>1. /\ At(w, "forwarded")' = At(w, "forwarded") \ {a}
        /\ (a \in At(w, "forwarded") <=> mine) /\ a \notin At(w, "failed")
    <3>1. request'[a].at # "forwarded"
      BY <1>5
    <3> QED BY <1>5, <3>1, OneRequestMoves DEF At
  <2>2. /\ counts[w] = Cardinality(At(w, "forwarded")) + Cardinality(At(w, "failed"))
        /\ Cardinality(At(w, "forwarded")) \in Nat /\ Cardinality(At(w, "failed")) \in Nat
    BY AtFinite DEF CountsCoverRequests
  <2>3. /\ mine => /\ Cardinality(At(w, "forwarded") \ {a}) = Cardinality(At(w, "forwarded")) - 1
                   /\ Cardinality(At(w, "forwarded")) # 0
        /\ ~mine => At(w, "forwarded") \ {a} = At(w, "forwarded")
    <3>1. mine => Cardinality(At(w, "forwarded") \ {a}) = Cardinality(At(w, "forwarded")) - 1
      BY <2>1, AtFinite, FS_RemoveElement
    <3>2. mine => At(w, "forwarded") # {}
      BY <2>1
    <3>3. mine => Cardinality(At(w, "forwarded")) # 0
      BY <3>2, AtFinite, FS_EmptySet
    <3>4. ~mine => At(w, "forwarded") \ {a} = At(w, "forwarded")
      BY <2>1
    <3> QED BY <3>1, <3>3, <3>4
  <2>4. CASE /\ request'[a].at = "ok"
             /\ counts' = [counts EXCEPT ![request[a].worker] = IF @ > 0 THEN @ - 1 ELSE 0]
    <3>1. At(w, "failed")' = At(w, "failed")
      BY <1>5, <2>1, <2>4, OneRequestMoves DEF At
    <3>2. counts'[w] = IF mine THEN (IF counts[w] > 0 THEN counts[w] - 1 ELSE 0) ELSE counts[w]
      BY <2>4 DEF Base, TypeOK
    <3>3. CASE mine
      <4>1. counts[w] > 0
        BY <2>2, <2>3, <3>3
      <4>2. counts'[w] = counts[w] - 1
        BY <3>2, <3>3, <4>1
      <4>3. Cardinality(At(w, "forwarded")') = Cardinality(At(w, "forwarded")) - 1
        BY <2>1, <2>3, <3>3
      <4> HIDE DEF mine
      <4> QED BY <2>2, <3>1, <4>2, <4>3
    <3>4. CASE ~mine
      <4>1. Cardinality(At(w, "forwarded")') = Cardinality(At(w, "forwarded")) /\ counts'[w] = counts[w]
        BY <2>1, <2>3, <3>2, <3>4
      <4> QED BY <2>2, <3>1, <4>1
    <3> QED BY <3>3, <3>4
  <2>5. CASE request'[a].at = "failed" /\ counts' = counts
    <3>1. At(w, "failed")' = IF mine THEN At(w, "failed") \cup {a} ELSE At(w, "failed")
      <4>1. At(w, "failed") \ {a} = At(w, "failed")
        BY <2>1
      <4>2. At(w, "failed")' = IF request'[a].at = "failed" /\ request'[a].worker = w
                               THEN At(w, "failed") \cup {a} ELSE At(w, "failed") \ {a}
        BY <1>5, OneRequestMoves
      <4> QED BY <1>5, <2>5, <4>1, <4>2
    <3>2. Cardinality(At(w, "failed") \cup {a}) = Cardinality(At(w, "failed")) + 1
      BY <2>1, AtFinite, FS_AddElement
    <3>3. CASE mine
      <4>1. /\ Cardinality(At(w, "failed")') = Cardinality(At(w, "failed")) + 1
            /\ Cardinality(At(w, "forwarded")') = Cardinality(At(w, "forwarded")) - 1
        BY <2>1, <2>3, <3>1, <3>2, <3>3
      <4> HIDE DEF mine
      <4> QED BY <2>2, <2>5, <4>1
    <3>4. CASE ~mine
      <4>1. /\ Cardinality(At(w, "failed")') = Cardinality(At(w, "failed"))
            /\ Cardinality(At(w, "forwarded")') = Cardinality(At(w, "forwarded"))
        BY <2>1, <2>3, <3>1, <3>4
      <4> QED BY <2>2, <2>5, <4>1
    <3> QED BY <3>3, <3>4
  <2> QED BY <1>5, <2>4, <2>5
<1>6. ASSUME NEW a \in Asks, Forwarded(a) PROVE CountsCoverRequests'
  <2>1. request' = [request EXCEPT ![a].at = "ok"] /\ request[a].at = "forwarded"
        /\ counts' = [counts EXCEPT ![request[a].worker] = IF @ > 0 THEN @ - 1 ELSE 0]
    BY <1>6 DEF Forwarded
  <2>2. /\ \A b \in Asks : b # a => request'[b] = request[b]
        /\ request'[a].worker = request[a].worker /\ request'[a].at = "ok"
    BY <2>1 DEF Base, TypeOK
  <2> QED BY <1>5, <2>1, <2>2
<1>7. ASSUME NEW a \in Asks, Raises(a), request[a].at = "forwarded" PROVE CountsCoverRequests'
  <2>1. request' = [request EXCEPT ![a].at = "failed"] /\ counts' = counts
    BY <1>7 DEF Raises
  <2>2. /\ \A b \in Asks : b # a => request'[b] = request[b]
        /\ request'[a].worker = request[a].worker /\ request'[a].at = "failed"
    BY <2>1 DEF Base, TypeOK
  <2> QED BY <1>5, <1>7, <2>1, <2>2
<1>8. ASSUME NEW a \in Asks, request' = [request EXCEPT ![a].attempt = @ + 1], counts' = counts
      PROVE  CountsCoverRequests'
  <2>1. \A b \in Asks : request'[b].at = request[b].at /\ request'[b].worker = request[b].worker
    BY <1>8 DEF Base, TypeOK
  <2>2. \A w : At(w, "forwarded")' = At(w, "forwarded") /\ At(w, "failed")' = At(w, "failed")
    BY <2>1 DEF At
  <2> QED BY <1>8, <2>2 DEF CountsCoverRequests
<1>9. ASSUME NEW a \in Asks, Rejected(a) \/ Disconnected(a) PROVE CountsCoverRequests'
  BY <1>7, <1>8, <1>9 DEF Rejected, Disconnected
<1>10. CASE \/ \E i \in Items : Answered(i) \/ Failed(i) \/ Timeout(i)
            \/ \E w \in Workers : Changes(w)
            \/ ComputeRmScore \/ UNCHANGED vars
  <2>1. UNCHANGED <<request, counts>>
    BY <1>10 DEF Answered, Failed, Timeout, Changes, ComputeRmScore, vars
  <2> QED BY <1>3, <2>1
<1> QED BY <1>1, <1>2, <1>4, <1>6, <1>9, <1>10 DEF Next, Item, Handler

\* The router's count of a worker is what it forwarded there and has no answer to,
\* and what failed there: NaiveRouter never takes a worker for less busy than it is.
THEOREM CountsCover == Spec => []CountsCoverRequests
BY InitBase, BaseInduction, InitCounts, CountsInduction, PTL DEF Spec
-----------------------------------------------------------------------------
(* What one failing worker can cost.                                       *)

LEMMA InitSemaphore == Init => WaitedFor /\ SemaphoreHolds /\ LoadBounded
<1> SUFFICES ASSUME Init PROVE WaitedFor /\ SemaphoreHolds /\ LoadBounded
  OBVIOUS
<1>1. UnderWay = {} /\ \A l \in Loops : InSemaphore(l) = {}
  BY DEF Init, None, UnderWay, InSemaphore
<1>2. MaxConcurrent \in Nat /\ MaxConcurrent >= 0 /\ NumWorkers * MaxConcurrent >= 0
  BY RewardAssumption
<1> QED BY <1>1, <1>2, FS_EmptySet DEF Init, WaitedFor, SemaphoreHolds, LoadBounded

\* A result is final.
LEMMA ResultStays ==
  ASSUME Base, [Next]_vars, NEW j \in Items, result[j] # "none"
  PROVE  result'[j] = result[j]
<1> USE DEF Base, TypeOK, ScoredOnce
<1>1. ASSUME NEW i \in Items, NEW r, place[i] # "scored", Returns(i, r)
      PROVE  result'[j] = result[j]
  BY <1>1 DEF Returns
<1>2. ASSUME NEW i \in Items, Enter(i) PROVE result'[j] = result[j]
  BY <1>1, <1>2 DEF Enter
<1>3. ASSUME NEW i \in Items, Answered(i) PROVE result'[j] = result[j]
  BY <1>1, <1>3 DEF Answered
<1>4. ASSUME NEW i \in Items, Failed(i) PROVE result'[j] = result[j]
  BY <1>1, <1>4 DEF Failed
<1>5. ASSUME NEW i \in Items, Timeout(i) PROVE result'[j] = result[j]
  BY <1>1, <1>5 DEF Timeout, TimedOut
<1>6. CASE result' = result
  BY <1>6
<1>7. \/ \E i \in Items : Enter(i) \/ Answered(i) \/ Failed(i) \/ Timeout(i)
      \/ result' = result
  BY DEF Next, Item, Handler, AskAgain, Select, Forwarded, Rejected, Disconnected, Changes,
         ComputeRmScore, vars
<1> QED BY <1>2, <1>3, <1>4, <1>5, <1>6, <1>7

\* An item that timed out stays so.
LEMMA TimeoutStays == Base /\ [Next]_vars /\ NoTimeout' => NoTimeout
BY ResultStays DEF NoTimeout

\* The manager is configured once.
LEMMA ManagerStays == [Next]_vars => manager' = manager
<1>1. ASSUME NEW i \in Items, Item(i) \/ Timeout(i) PROVE manager' = manager
  BY <1>1 DEF Item, Enter, Answered, Failed, AskAgain, Timeout
<1>2. ASSUME NEW a \in Asks, Handler(a) PROVE manager' = manager
  BY <1>2 DEF Handler, Select, Forwarded, Rejected, Disconnected
<1>3. CASE (\E w \in Workers : Changes(w)) \/ ComputeRmScore \/ UNCHANGED vars
  BY <1>3 DEF Changes, ComputeRmScore, vars
<1> QED BY <1>1, <1>2, <1>3 DEF Next

\* The semaphore of a loop: an item enters it where there is room.
LEMMA SemaphoreInduction == Base /\ SemaphoreHolds /\ [Next]_vars => SemaphoreHolds'
<1> SUFFICES ASSUME Base, SemaphoreHolds, [Next]_vars, manager = "rate_limited", NEW l \in Loops
             PROVE  Cardinality(InSemaphore(l)') <= MaxConcurrent
  BY ManagerStays DEF SemaphoreHolds
<1> DEFINE before == InSemaphore(l)
           after == InSemaphore(l)'
<1>1. Cardinality(before) <= MaxConcurrent /\ MaxConcurrent \in Nat
  BY RewardAssumption DEF SemaphoreHolds
<1>2. before \in SUBSET Items /\ after \in SUBSET Items
  BY DEF InSemaphore
<1>3. IsFiniteSet(before) /\ Cardinality(before) \in Nat /\ Cardinality(after) \in Nat
  BY <1>2, Sizes
<1>4. ASSUME after \subseteq before PROVE Cardinality(after) <= MaxConcurrent
  <2> HIDE DEF before, after
  <2>1. Cardinality(after) <= Cardinality(before)
    BY <1>3, <1>4, FS_Subset
  <2> QED BY <1>1, <1>3, <2>1
<1>5. ASSUME NEW i \in Items, Enter(i), LoopOf[i] = l
      PROVE  Cardinality(after) <= MaxConcurrent
  <2>1. Cardinality(before) < MaxConcurrent
    BY <1>5 DEF Enter, HasRoom
  <2>2. after \subseteq before \cup {i}
    BY <1>5 DEF Enter, Returns, InSemaphore, Base, TypeOK
  <2> HIDE DEF before, after
  <2>3. /\ IsFiniteSet(before \cup {i})
        /\ Cardinality(before \cup {i}) <= Cardinality(before) + 1
        /\ Cardinality(before \cup {i}) \in Nat
    <3>1. /\ IsFiniteSet(before \cup {i})
          /\ Cardinality(before \cup {i}) =
               IF i \in before THEN Cardinality(before) ELSE Cardinality(before) + 1
      BY <1>3, FS_AddElement
    <3> QED BY <1>3, <3>1
  <2>4. Cardinality(after) <= Cardinality(before \cup {i})
    BY <2>2, <2>3, FS_Subset
  <2> QED BY <1>1, <1>3, <2>1, <2>3, <2>4
<1>6. ASSUME NEW i \in Items, Enter(i), LoopOf[i] # l
      PROVE  after \subseteq before
  BY <1>6 DEF Enter, Returns, InSemaphore, Base, TypeOK
<1>7. ASSUME NEW i \in Items, Answered(i) \/ Failed(i) \/ AskAgain(i) \/ Timeout(i)
      PROVE  after \subseteq before
  BY <1>7 DEF Answered, Failed, AskAgain, Timeout, TimedOut, Returns, InSemaphore, Base, TypeOK
<1>8. CASE place' = place
  BY <1>4, <1>8 DEF InSemaphore
<1>9. \/ \E i \in Items : Enter(i) \/ Answered(i) \/ Failed(i) \/ AskAgain(i) \/ Timeout(i)
      \/ place' = place
  BY DEF Next, Item, Handler, Select, Forwarded, Rejected, Disconnected, Changes,
         ComputeRmScore, vars
<1> QED BY <1>4, <1>5, <1>6, <1>7, <1>8, <1>9

\* The items that hold a semaphore, and those of the first l loops among them.
Asking == {i \in Items : place[i] \in {"asking", "sleeping"}}
OfFirst(l) == {i \in Asking : LoopOf[i] <= l}

\* The first l loops have at most l times max_concurrent of them: the least number
\* of loops with more would owe them to its last loop.
LEMMA AskingBounded ==
  ASSUME SemaphoreHolds, manager = "rate_limited"
  PROVE  Cardinality(Asking) <= NumWorkers * MaxConcurrent
<1> DEFINE more == {l \in 0 .. NumWorkers : ~(Cardinality(OfFirst(l)) <= l * MaxConcurrent)}
<1>0. /\ NumWorkers \in Nat /\ MaxConcurrent \in Nat
      /\ \A i \in Items : LoopOf[i] \in 1 .. NumWorkers
  BY RewardAssumption DEF Items
<1>1. \A l \in Nat : OfFirst(l) \in SUBSET Items
  BY DEF OfFirst, Asking
<1>2. CASE more = {}
  <2>1. NumWorkers \in 0 .. NumWorkers /\ OfFirst(NumWorkers) = Asking
    BY <1>0 DEF OfFirst, Asking
  <2> QED BY <1>2, <2>1
<1>3. CASE more # {}
  <2>1. more \in SUBSET Nat
    BY <1>0
  <2>2. PICK l \in more : \A k \in more : l <= k
    <3> HIDE DEF more
    <3> QED BY <1>3, <2>1, LeastNumber
  <2>3. l \in 0 .. NumWorkers /\ ~(Cardinality(OfFirst(l)) <= l * MaxConcurrent) /\ l \in Nat
    BY <1>0, <2>2
  <2>4. l # 0
    <3>1. OfFirst(0) = {}
      BY <1>0 DEF OfFirst, Asking
    <3>2. 0 * MaxConcurrent = 0
      BY <1>0
    <3> QED BY <2>3, <3>1, <3>2, FS_EmptySet
  <2>5. l - 1 \in 0 .. NumWorkers /\ l - 1 \in Nat /\ l \in Loops /\ ~(l <= l - 1)
    BY <1>0, <2>3, <2>4 DEF Loops
  <2>6. Cardinality(OfFirst(l - 1)) <= (l - 1) * MaxConcurrent
    <3>1. l - 1 \notin more
      BY <2>2, <2>5
    <3> QED BY <2>5, <3>1
  <2>7. Cardinality(InSemaphore(l)) <= MaxConcurrent
    BY <2>5 DEF SemaphoreHolds
  <2>8. OfFirst(l) = OfFirst(l - 1) \cup InSemaphore(l)
    <3>1. \A i \in Items : LoopOf[i] <= l <=> LoopOf[i] <= l - 1 \/ LoopOf[i] = l
      BY <1>0, <2>3
    <3> QED BY <3>1 DEF OfFirst, Asking, InSemaphore
  <2>9. InSemaphore(l) \in SUBSET Items /\ OfFirst(l - 1) \in SUBSET Items
    BY <1>1, <2>5 DEF InSemaphore
  <2> DEFINE total == Cardinality(OfFirst(l))
             first == Cardinality(OfFirst(l - 1))
             last == Cardinality(InSemaphore(l))
  <2>10. total <= first + last /\ total \in Nat /\ first \in Nat /\ last \in Nat
    <3>1. /\ IsFiniteSet(OfFirst(l - 1)) /\ IsFiniteSet(InSemaphore(l))
          /\ first \in Nat /\ last \in Nat
      BY <2>9, Sizes
    <3>2. /\ total = first + last - Cardinality(OfFirst(l - 1) \cap InSemaphore(l))
          /\ Cardinality(OfFirst(l - 1) \cap InSemaphore(l)) \in Nat
      <4>1. OfFirst(l - 1) \cap InSemaphore(l) \in SUBSET Items
        BY <2>9
      <4> QED BY <2>8, <3>1, <4>1, Sizes, FS_Union
    <3>3. total \in Nat
      BY <1>1, <2>3, Sizes
    <3> HIDE DEF total, first, last
    <3> QED BY <3>1, <3>2, <3>3
  <2>11. (l - 1) * MaxConcurrent + MaxConcurrent = l * MaxConcurrent
    BY <1>0, <2>3
  <2>12. (l - 1) * MaxConcurrent \in Int /\ l * MaxConcurrent \in Int
    BY <1>0, <2>3
  <2> DEFINE product == l * MaxConcurrent
             part == (l - 1) * MaxConcurrent
  <2>13. /\ total <= first + last /\ first <= part /\ last <= MaxConcurrent
         /\ part + MaxConcurrent = product /\ ~(total <= product)
         /\ total \in Int /\ first \in Int /\ last \in Int /\ part \in Int /\ product \in Int
         /\ MaxConcurrent \in Int
    BY <1>0, <2>3, <2>6, <2>7, <2>10, <2>11, <2>12
  <2> HIDE DEF total, first, last, product, part
  <2> QED BY <2>13
<1> QED BY <1>2, <1>3

\* Only a time limit lets go of a request that is under way.
LEMMA WaitedForInduction == Base /\ WaitedFor /\ [Next]_vars => WaitedFor'
<1> SUFFICES ASSUME Base, WaitedFor, [Next]_vars, NoTimeout', NEW b \in Asks, b \in UnderWay'
             PROVE  place'[b[1]] = "asking" /\ b[2] = tries'[b[1]]
  BY DEF WaitedFor, UnderWay
<1> USE DEF Base, TypeOK
<1>0. NoTimeout
  BY TimeoutStays
<1>1. request'[b].at \in {"arriving", "forwarded"} /\ b[1] \in Items
  BY DEF UnderWay, Asks
<1>2. request[b].at \in {"arriving", "forwarded"}
        => place[b[1]] = "asking" /\ b[2] = tries[b[1]]
  BY <1>0 DEF WaitedFor, UnderWay
<1>3. ASSUME NEW i \in Items, Enter(i) PROVE place'[b[1]] = "asking" /\ b[2] = tries'[b[1]]
  <2>1. Ask(i) \in Asks /\ place[i] = "queued" /\ tries' = tries
    BY <1>3, PostedIsNew DEF Enter
  <2>2. CASE request' = [request EXCEPT ![Ask(i)].at = "arriving"]
             /\ place' = [place EXCEPT ![i] = "asking"]
    <3>1. CASE b = Ask(i)
      <4>1. b[1] = i /\ b[2] = tries[i]
        BY <3>1 DEF Ask
      <4> QED BY <2>1, <2>2, <4>1
    <3>2. CASE b # Ask(i)
      <4>1. request[b] = request'[b]
        BY <2>1, <2>2, <3>2
      <4> QED BY <1>1, <1>2, <2>1, <2>2, <4>1
    <3> QED BY <3>1, <3>2
  <2>3. CASE UNCHANGED request /\ place' = [place EXCEPT ![i] = "scored"]
    BY <1>1, <1>2, <2>1, <2>3
  <2> QED BY <1>3, <2>2, <2>3 DEF Enter, Returns
<1>4. ASSUME NEW i \in Items, AskAgain(i) PROVE place'[b[1]] = "asking" /\ b[2] = tries'[b[1]]
  <2> DEFINE posted == <<i, tries[i] + 1>>
  <2>1. posted \in Asks /\ place[i] = "sleeping"
    BY <1>4, PostedIsNew DEF AskAgain
  <2>2. /\ tries' = [tries EXCEPT ![i] = tries[i] + 1] /\ tries'[i] = tries[i] + 1
        /\ place' = [place EXCEPT ![i] = "asking"]
    BY <1>4 DEF AskAgain
  <2>3. request' = [request EXCEPT ![posted].at = "arriving"]
    BY <1>4, <2>2 DEF AskAgain
  <2>4. CASE b = posted
    <3>1. b[1] = i /\ b[2] = tries[i] + 1
      BY <2>4
    <3> QED BY <2>2, <3>1
  <2>5. CASE b # posted
    <3> HIDE DEF posted
    <3>1. request[b] = request'[b]
      BY <2>1, <2>3, <2>5
    <3>2. place[b[1]] = "asking" /\ b[2] = tries[b[1]] /\ b[1] # i
      BY <1>1, <1>2, <2>1, <3>1
    <3> QED BY <1>1, <2>2, <3>2
  <2> QED BY <2>4, <2>5
<1>5. ASSUME NEW i \in Items, Answered(i) \/ Failed(i)
      PROVE  place'[b[1]] = "asking" /\ b[2] = tries'[b[1]]
  <2>1. request' = request /\ tries' = tries
    BY <1>5 DEF Answered, Failed
  <2>2. /\ place[i] = "asking" /\ request[Ask(i)].at \notin {"arriving", "forwarded"}
        /\ \A j \in Items : j # i => place'[j] = place[j]
    BY <1>5 DEF Answered, Failed, Returns
  <2>3. b = <<b[1], b[2]>>
    BY DEF Asks
  <2>4. b # Ask(i)
    BY <1>1, <2>1, <2>2
  <2>5. b[1] # i
    BY <1>1, <1>2, <2>1, <2>3, <2>4 DEF Ask
  <2> QED BY <1>1, <1>2, <2>1, <2>2, <2>5
<1>6. ASSUME NEW i \in Items, Timeout(i) PROVE FALSE
  <2>1. result'[i] = "timeout"
    BY <1>6 DEF Timeout, Returns
  <2> QED BY <2>1 DEF NoTimeout
<1>7. ASSUME UNCHANGED <<place, tries>>, request[b].at \in {"arriving", "forwarded"}
      PROVE  place'[b[1]] = "asking" /\ b[2] = tries'[b[1]]
  BY <1>2, <1>7
<1>8. ASSUME NEW a \in Asks, Handler(a)
      PROVE  UNCHANGED <<place, tries>> /\ request[b].at \in {"arriving", "forwarded"}
  <2>1. UNCHANGED <<place, tries>> /\ request[a].at \in {"arriving", "forwarded"}
    BY <1>8 DEF Handler, Select, Forwarded, Rejected, Disconnected
  <2>2. CASE b = a
    BY <2>1, <2>2
  <2>3. CASE b # a
    <3>1. request'[b] = request[b]
      BY <1>8, <2>3 DEF Handler, Select, Forwarded, Rejected, Disconnected, Raises
    <3> QED BY <1>1, <2>1, <3>1
  <2> QED BY <2>2, <2>3
<1>9. CASE (\E w \in Workers : Changes(w)) \/ ComputeRmScore \/ UNCHANGED vars
  <2>1. UNCHANGED <<place, tries, request>>
    BY <1>9 DEF Changes, ComputeRmScore, vars
  <2> QED BY <1>1, <1>7, <2>1
<1> QED BY <1>3, <1>4, <1>5, <1>6, <1>7, <1>8, <1>9 DEF Next, Item

\* The requests under way belong to items inside a semaphore, one for each.
LEMMA UnderWayBounded ==
  ASSUME Base, WaitedFor, SemaphoreHolds, NoTimeout, manager = "rate_limited"
  PROVE  /\ IsFiniteSet(UnderWay) /\ Cardinality(UnderWay) \in Nat
         /\ Cardinality(UnderWay) <= NumWorkers * MaxConcurrent
<1> DEFINE f == [a \in UnderWay |-> a[1]]
<1>1. UnderWay \in SUBSET Asks /\ Asking \in SUBSET Items
  BY DEF UnderWay, Asking
<1>2. \A a \in UnderWay : a[1] \in Asking /\ a = <<a[1], tries[a[1]]>>
  BY <1>1 DEF WaitedFor, Asking, Asks
<1>3. f \in Injection(UnderWay, Asking)
  BY <1>2 DEF Injection, IsInjective
<1>4. Cardinality(UnderWay) <= Cardinality(Asking)
  BY <1>1, <1>3, Sizes, FS_Injection
<1>5. /\ IsFiniteSet(UnderWay) /\ Cardinality(UnderWay) \in Nat
      /\ Cardinality(Asking) \in Nat /\ Cardinality(Asking) <= NumWorkers * MaxConcurrent
  BY <1>1, Sizes, AskingBounded
<1> QED BY <1>4, <1>5, RewardAssumption

\* The worker that is chosen counts no more than one that failed nothing, and that
\* one counts only what is under way, less the request being placed.
LEMMA ChosenHasRoom ==
  ASSUME Base, CountsCoverRequests, WaitedFor, SemaphoreHolds, NoTimeout,
         manager = "rate_limited", NEW a \in Asks, Select(a),
         NEW v \in Workers, At(v, "failed") = {}
  PROVE  counts[LeastLoaded] + 1 <= NumWorkers * MaxConcurrent
<1>1. /\ LeastLoaded \in Workers /\ counts[LeastLoaded] <= counts[v]
      /\ counts[LeastLoaded] \in Nat /\ counts[v] \in Nat
  BY LeastLoadedIsLeast DEF Base, TypeOK
<1>2. counts[v] = Cardinality(At(v, "forwarded")) /\ Cardinality(At(v, "forwarded")) \in Nat
  BY AtFinite, FS_EmptySet DEF CountsCoverRequests
<1>3. a \notin At(v, "forwarded") /\ At(v, "forwarded") \cup {a} \subseteq UnderWay
  BY DEF Select, At, UnderWay
<1>4. Cardinality(At(v, "forwarded") \cup {a}) = Cardinality(At(v, "forwarded")) + 1
  BY <1>3, AtFinite, FS_AddElement
<1>5. Cardinality(At(v, "forwarded") \cup {a}) <= Cardinality(UnderWay)
  BY <1>3, UnderWayBounded, FS_Subset
<1>6. Cardinality(UnderWay) \in Nat /\ Cardinality(UnderWay) <= NumWorkers * MaxConcurrent
      /\ NumWorkers * MaxConcurrent \in Nat
  BY UnderWayBounded, RewardAssumption
<1> QED BY <1>1, <1>2, <1>4, <1>5, <1>6

RewardIInv == /\ Base /\ CountsCoverRequests
              /\ WaitedFor /\ SemaphoreHolds /\ LoadBounded

LEMMA LoadInduction == RewardIInv /\ [Next]_vars => LoadBounded'
<1> SUFFICES ASSUME RewardIInv, [Next]_vars, manager' = "rate_limited", NoTimeout',
                    NEW v \in Workers, NEW w \in Workers, At(v, "failed")' = {}, v # w
             PROVE  counts'[w] <= NumWorkers * MaxConcurrent
  BY DEF LoadBounded
<1> USE DEF RewardIInv
<1>1. manager = "rate_limited"
  BY ManagerStays
<1>2. NoTimeout
  BY TimeoutStays
<1>3. At(v, "failed") = {}
  BY FailedStays DEF At
<1>4. /\ counts[w] <= NumWorkers * MaxConcurrent /\ counts[w] \in Nat
      /\ NumWorkers * MaxConcurrent \in Nat
  BY <1>1, <1>2, <1>3, RewardAssumption DEF LoadBounded, Base, TypeOK
<1>5. ASSUME NEW a \in Asks, Select(a) PROVE counts'[w] <= NumWorkers * MaxConcurrent
  <2>1. counts[LeastLoaded] + 1 <= NumWorkers * MaxConcurrent
    BY <1>1, <1>2, <1>3, <1>5, ChosenHasRoom
  <2>2. counts' = [counts EXCEPT ![LeastLoaded] = @ + 1]
    BY <1>5 DEF Select
  <2>3. counts'[w] = IF w = LeastLoaded THEN counts[w] + 1 ELSE counts[w]
    BY <2>2 DEF Base, TypeOK
  <2> QED BY <1>4, <2>1, <2>3
<1>6. ASSUME NEW a \in Asks, Forwarded(a) PROVE counts'[w] <= NumWorkers * MaxConcurrent
  <2>1. counts' = [counts EXCEPT ![request[a].worker] = IF @ > 0 THEN @ - 1 ELSE 0]
    BY <1>6 DEF Forwarded
  <2>2. counts'[w] = IF w = request[a].worker THEN (IF counts[w] > 0 THEN counts[w] - 1 ELSE 0)
                     ELSE counts[w]
    BY <2>1 DEF Base, TypeOK
  <2> QED BY <1>4, <2>2
<1>7. CASE counts' = counts
  BY <1>4, <1>7
<1>8. (\E a \in Asks : Select(a) \/ Forwarded(a)) \/ counts' = counts
  BY DEF Next, Item, Handler, Enter, Answered, Failed, AskAgain, Timeout, Rejected,
         Disconnected, Raises, Changes, ComputeRmScore, vars
<1> QED BY <1>5, <1>6, <1>7, <1>8

\* A dead or rejecting worker costs at most max_concurrent requests of each reward
\* loop, taken together, while another one fails nothing: NaiveRouter never takes back
\* the count of a failed request.
THEOREM LossesAreBounded == Spec => []LossesBounded
<1>1. Init => RewardIInv
  BY InitBase, InitCounts, InitSemaphore DEF RewardIInv
<1>2. RewardIInv /\ [Next]_vars => RewardIInv'
  BY BaseInduction, CountsInduction, WaitedForInduction, SemaphoreInduction, LoadInduction
     DEF RewardIInv
<1>3. RewardIInv => LossesBounded
  <2> SUFFICES ASSUME RewardIInv, manager = "rate_limited", NoTimeout,
                      NEW v \in Workers, NEW w \in Workers, At(v, "failed") = {}, v # w
               PROVE  Cardinality(At(w, "failed")) <= NumWorkers * MaxConcurrent
    BY DEF LossesBounded, NoTimeout
  <2>1. counts[w] <= NumWorkers * MaxConcurrent
    BY DEF RewardIInv, LoadBounded
  <2>2. /\ counts[w] = Cardinality(At(w, "forwarded")) + Cardinality(At(w, "failed"))
        /\ Cardinality(At(w, "forwarded")) \in Nat /\ Cardinality(At(w, "failed")) \in Nat
    BY AtFinite DEF RewardIInv, CountsCoverRequests
  <2> QED BY <2>1, <2>2, RewardAssumption
<1> QED BY <1>1, <1>2, <1>3, PTL DEF Spec
-----------------------------------------------------------------------------
(* Why a step raises.                                                      *)

Raising == Base /\ RaisedFor /\ NaiveNeverTimesOut

LEMMA NaiveInduction == Base /\ NaiveNeverTimesOut /\ [Next]_vars => NaiveNeverTimesOut'
<1> SUFFICES ASSUME Base, NaiveNeverTimesOut, [Next]_vars, manager' = "naive", NEW j \in Items
             PROVE  result'[j] # "timeout"
  BY DEF NaiveNeverTimesOut, NoTimeout
<1>1. manager = "naive"
  BY ManagerStays
<1>2. result[j] # "timeout"
  BY <1>1 DEF NaiveNeverTimesOut, NoTimeout
<1>3. ASSUME NEW i \in Items, Item(i) PROVE result'[j] # "timeout"
  BY <1>2, <1>3 DEF Item, Enter, Answered, Failed, AskAgain, Returns, Base, TypeOK
<1>4. ASSUME NEW i \in Items, Timeout(i) PROVE FALSE
  BY <1>1, <1>4 DEF Timeout, TimedOut
<1>5. ASSUME NEW a \in Asks, Handler(a) PROVE result' = result
  BY <1>5 DEF Handler, Select, Forwarded, Rejected, Disconnected
<1>6. CASE (\E w \in Workers : Changes(w)) \/ ComputeRmScore \/ UNCHANGED vars
  BY <1>2, <1>6 DEF Changes, ComputeRmScore, vars
<1> QED BY <1>2, <1>3, <1>4, <1>5, <1>6 DEF Next

\* The step is decided by ComputeRmScore, once.
LEMMA RaisedInduction == Base /\ RaisedFor /\ [Next]_vars => RaisedFor'
<1> SUFFICES ASSUME Base, RaisedFor, [Next]_vars, step' = "raised"
             PROVE  \/ GatherRaises'
                    \/ ~GatherRaises' /\ LookupRaises' /\ \A i \in Items : place'[i] = "scored"
  BY DEF RaisedFor
<1>0. manager' = manager /\ 1 \in Items
  BY ManagerStays, RewardAssumption DEF Items
<1>1. \/ GatherRaises
      \/ ~GatherRaises /\ LookupRaises /\ \A i \in Items : place[i] = "scored"
  <2>1. CASE step = "raised"
    BY <2>1 DEF RaisedFor
  <2>2. CASE step # "raised"
    <3>1. ASSUME NEW i \in Items, Item(i) \/ Timeout(i) PROVE step' = step
      BY <3>1 DEF Item, Enter, Answered, Failed, AskAgain, Timeout
    <3>2. ASSUME NEW a \in Asks, Handler(a) PROVE step' = step
      BY <3>2 DEF Handler, Select, Forwarded, Rejected, Disconnected
    <3>3. ComputeRmScore
      BY <2>2, <3>1, <3>2 DEF Next, Changes, vars
    <3> QED BY <3>3 DEF ComputeRmScore
  <2> QED BY <2>1, <2>2
<1>2. CASE GatherRaises
  <2>1. PICK i \in Items : result[i] = "raised"
    BY <1>2 DEF GatherRaises
  <2>2. result'[i] = "raised"
    BY <2>1, ResultStays
  <2> QED BY <1>0, <1>2, <2>2 DEF GatherRaises
<1>3. CASE ~GatherRaises /\ LookupRaises /\ \A i \in Items : place[i] = "scored"
  <2>1. \A i \in Items : result[i] # "none" /\ result'[i] = result[i]
    BY <1>3, ResultStays DEF Base, ScoredOnce
  <2>2. \A i \in Items : place'[i] = "scored"
    BY <2>1, BaseInduction DEF Base, ScoredOnce
  <2>3. ~GatherRaises' /\ LookupRaises'
    BY <1>0, <1>3, <2>1 DEF GatherRaises, LookupRaises
  <2> QED BY <2>2, <2>3
<1> QED BY <1>1, <1>2, <1>3

\* compute_rm_score raises only for an item that timed out or could not be asked
\* about: answers that failed or cannot be read cost their own score.
THEOREM WhyStepsRaise == Spec => []StepRaisesOnTimeouts
<1>1. Init => Raising
  BY InitBase DEF Init, Raising, RaisedFor, NaiveNeverTimesOut, NoTimeout
<1>2. Raising /\ [Next]_vars => Raising'
  BY BaseInduction, RaisedInduction, NaiveInduction DEF Raising
<1>3. Raising => StepRaisesOnTimeouts
  <2> SUFFICES ASSUME Raising, step = "raised"
               PROVE  \E i \in Items :
                        /\ result[i] \in {"timeout", "raised"}
                        /\ manager = "rate_limited" => \E j \in Items : result[j] # result[i]
    BY DEF StepRaisesOnTimeouts
  <2>1. CASE GatherRaises
    BY <2>1 DEF GatherRaises
  <2>2. CASE ~GatherRaises /\ LookupRaises /\ \A i \in Items : place[i] = "scored"
    <3>1. 1 \in Items
      BY RewardAssumption DEF Items
    <3>2. PICK k \in Items : ~(Keys(result[1]) \subseteq Keys(result[k]))
      BY <2>2 DEF LookupRaises
    <3>3. \A i \in Items : result[i] \in {"answered", "failed", "raised", "timeout"}
      BY <2>2 DEF Raising, Base, TypeOK, ScoredOnce
    <3>4. result[1] # result[k]
      BY <3>2
    <3>5. result[1] \in {"timeout", "raised"} \/ result[k] \in {"timeout", "raised"}
      <4>1. Keys("answered") = Keys("failed")
        BY DEF Keys
      <4> QED BY <3>1, <3>2, <3>3, <4>1
    <3> QED BY <3>1, <3>4, <3>5
  <2> QED BY <2>1, <2>2 DEF Raising, RaisedFor
<1> QED BY <1>1, <1>2, <1>3, PTL DEF Spec
=============================================================================
