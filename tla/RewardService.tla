----------------------------- MODULE RewardService -----------------------------
(* Scoring one batch with a process reward model: RewardLoopManager splits the *)
(* batch over its reward loops (RewardLoopWorker, one process each), whose     *)
(* items ask the reward model with compute_score_prm through one NaiveRouter,  *)
(* and then lines up the extra infos of all items. The items are under         *)
(* NaiveRewardManager, which the PRO-CUA scripts leave as the default, or      *)
(* under the semaphore and the time limit of RateLimitedRewardManager, whose   *)
(* semaphore is a class attribute: each loop has its own. The workers behind   *)
(* the router answer, reject, hang, die and come back. The manager's two token *)
(* buckets are off, as by default.                                             *)
(*                                                                             *)
(* compute_score_prm retries an error whose text has "429" in it. The router   *)
(* turns every error into status 500, but the text also names the router's     *)
(* address: whether an error is retried is a matter of its port.               *)
EXTENDS Integers, FiniteSets

CONSTANTS
    N,               \* items of the batch
    NumWorkers,      \* num_workers: reward loops
    LoopOf,          \* LoopOf[i]: the loop to which data.chunk gives item i
    W,               \* workers behind the router, in the order of request_counts
    MaxConcurrent,   \* max_concurrent of the manager
    MaxAttempts,     \* max_attempts of the router
    MaxPrmRetries,   \* MAX_PRM_RETRIES
    MaxChanges       \* bound on the deaths and restarts of workers

ASSUME RewardAssumption ==
    /\ N \in Nat \ {0} /\ NumWorkers \in Nat \ {0}
    /\ LoopOf \in [1 .. N -> 1 .. NumWorkers]
    /\ W \in Nat \ {0} /\ MaxConcurrent \in Nat \ {0}
    /\ MaxAttempts \in Nat \ {0} /\ MaxPrmRetries \in Nat \ {0} /\ MaxChanges \in Nat

Items == 1 .. N
Loops == 1 .. NumWorkers
Workers == 1 .. W
Asks == Items \X (0 .. MaxPrmRetries - 1)

VARIABLES
    manager,    \* reward.reward_manager.name
    place,      \* place[i]: where run_single of item i is
    tries,      \* tries[i]: attempt_idx of compute_score_prm
    result,     \* result[i]: what run_single returned
    request,    \* request[a]: the router's handler of a request
    counts,     \* request_counts of the router
    portHas429, \* the address of the router contains "429"
    up,         \* workers that are up
    changes,    \* deaths and restarts so far
    step        \* compute_rm_score: open, returned or raised

vars == <<manager, place, tries, result, request, counts, portHas429, up, changes, step>>

None == [at |-> "none", worker |-> 1, attempt |-> 0]

Init ==
    /\ manager \in {"naive", "rate_limited"}
    /\ place = [i \in Items |-> "queued"] /\ tries = [i \in Items |-> 0]
    /\ result = [i \in Items |-> "none"]
    /\ request = [a \in Asks |-> None]
    /\ counts = [w \in Workers |-> 0]
    /\ portHas429 \in BOOLEAN
    /\ up \in {Workers, Workers \ {W}} /\ changes = 0 /\ step = "open"

(* ------------------------------- a reward loop ----------------------------- *)

InSemaphore(l) == {i \in Items : LoopOf[i] = l /\ place[i] \in {"asking", "sleeping"}}
Ask(i) == <<i, tries[i]>>

\* Mutant: nothing limits the items that ask at once.
HasRoomAlways(i) == TRUE

HasRoom(i) == manager = "naive" \/ Cardinality(InSemaphore(LoopOf[i])) < MaxConcurrent

Returns(i, r) ==
    /\ place' = [place EXCEPT ![i] = "scored"]
    /\ result' = [result EXCEPT ![i] = r]

\* run_single enters the semaphore, if there is one. compute_score_prm posts its first request, or
\* raises since its messages cannot be built (no image).
Enter(i) ==
    /\ place[i] = "queued" /\ HasRoom(i)
    /\ \/ /\ place' = [place EXCEPT ![i] = "asking"]
          /\ request' = [request EXCEPT ![Ask(i)].at = "arriving"]
          /\ UNCHANGED result
       \/ Returns(i, "raised") /\ UNCHANGED request
    /\ UNCHANGED <<manager, tries, counts, portHas429, up, changes, step>>

\* _format_prm_result: with a score read from the answer, or with 0.
Answered(i) ==
    /\ place[i] = "asking" /\ request[Ask(i)].at = "ok"
    /\ Returns(i, "answered")
    /\ UNCHANGED <<manager, tries, request, counts, portHas429, up, changes, step>>

\* _should_retry_prm_error of a status 500 that names the router's address.
Retries(i) == portHas429 /\ tries[i] < MaxPrmRetries - 1

Failed(i) ==
    /\ place[i] = "asking" /\ request[Ask(i)].at = "failed"
    /\ IF Retries(i)
       THEN place' = [place EXCEPT ![i] = "sleeping"] /\ UNCHANGED result
       ELSE Returns(i, "failed")
    /\ UNCHANGED <<manager, tries, request, counts, portHas429, up, changes, step>>

AskAgain(i) ==
    /\ place[i] = "sleeping"
    /\ tries' = [tries EXCEPT ![i] = @ + 1]
    /\ place' = [place EXCEPT ![i] = "asking"]
    /\ request' = [request EXCEPT ![<<i, tries'[i]>>].at = "arriving"]
    /\ UNCHANGED <<manager, result, counts, portHas429, up, changes, step>>

\* Mutant: the time limit covers the pauses between two requests only.
TimedOutAsleep(i) == manager = "rate_limited" /\ place[i] = "sleeping"

\* wait_for cancels the coroutine; the router goes on with the request.
TimedOut(i) == manager = "rate_limited" /\ place[i] \in {"asking", "sleeping"}

Timeout(i) ==
    /\ TimedOut(i)
    /\ Returns(i, "timeout")
    /\ UNCHANGED <<manager, tries, request, counts, portHas429, up, changes, step>>

(* --------------------------------- NaiveRouter ----------------------------- *)

\* _select_worker: the least requests, the first of them.
LeastLoaded == CHOOSE w \in Workers :
    /\ \A v \in Workers : counts[w] <= counts[v]
    /\ \A v \in Workers : counts[v] = counts[w] => w <= v

Select(a) ==
    /\ request[a].at = "arriving"
    /\ request' = [request EXCEPT ![a].at = "forwarded", ![a].worker = LeastLoaded]
    /\ counts' = [counts EXCEPT ![LeastLoaded] = @ + 1]
    /\ UNCHANGED <<manager, place, tries, result, portHas429, up, changes, step>>

\* A worker answers: its count goes down.
Forwarded(a) ==
    /\ request[a].at = "forwarded" /\ request[a].worker \in up
    /\ request' = [request EXCEPT ![a].at = "ok"]
    /\ counts' = [counts EXCEPT ![request[a].worker] = IF @ > 0 THEN @ - 1 ELSE 0]
    /\ UNCHANGED <<manager, place, tries, result, portHas429, up, changes, step>>

\* Mutant: a failed request is released as well.
ReleasedAfterFailure(a) ==
    /\ request' = [request EXCEPT ![a].at = "failed"]
    /\ counts' = [counts EXCEPT ![request[a].worker] = IF @ > 0 THEN @ - 1 ELSE 0]

\* The exception leaves the handler, and the count as it is.
Raises(a) ==
    /\ request' = [request EXCEPT ![a].at = "failed"]
    /\ UNCHANGED counts

\* raise_for_status of the worker's answer is not retried.
Rejected(a) ==
    /\ request[a].at = "forwarded" /\ request[a].worker \in up
    /\ Raises(a)
    /\ UNCHANGED <<manager, place, tries, result, portHas429, up, changes, step>>

\* A connection error is retried on the same worker.
Disconnected(a) ==
    /\ request[a].at = "forwarded" /\ request[a].worker \notin up
    /\ IF request[a].attempt < MaxAttempts - 1
       THEN request' = [request EXCEPT ![a].attempt = @ + 1] /\ UNCHANGED counts
       ELSE Raises(a)
    /\ UNCHANGED <<manager, place, tries, result, portHas429, up, changes, step>>

(* ---------------------------------- workers -------------------------------- *)

Changes(w) ==
    /\ changes < MaxChanges
    /\ changes' = changes + 1
    /\ up' = IF w \in up THEN up \ {w} ELSE up \cup {w}
    /\ UNCHANGED <<manager, place, tries, result, request, counts, portHas429, step>>

(* ------------------------------ RewardLoopManager -------------------------- *)

PrmKeys == {"score", "prm_response", "prm_error", "prm_retry_count"}
PrmMetadata == {"prm_is_correct", "prm_reflection", "prm_parse_error"}

\* Mutant: the result of an error goes without _empty_prm_metadata.
KeysWithoutMetadata(r) ==
    CASE r = "timeout" -> {"timeout", "acc"}
      [] r = "raised" -> {"error", "acc"}
      [] r = "failed" -> PrmKeys
      [] r = "answered" -> PrmKeys \cup PrmMetadata

\* The keys of an item's reward_extra_info.
Keys(r) ==
    CASE r = "timeout" -> {"timeout", "acc"}
      [] r = "raised" -> {"error", "acc"}
      [] r \in {"failed", "answered"} -> PrmKeys \cup PrmMetadata

\* What NaiveRewardManager does not catch leaves the gathering of its loop's items.
GatherRaises == manager = "naive" /\ \E i \in Items : result[i] = "raised"

\* The keys of the first item are looked up in all of them.
LookupRaises == \E i \in Items : ~ (Keys(result[1]) \subseteq Keys(result[i]))

ComputeRmScore ==
    /\ step = "open"
    /\ \/ GatherRaises /\ step' = "raised"
       \/ /\ ~GatherRaises /\ \A i \in Items : place[i] = "scored"
          /\ step' = IF LookupRaises THEN "raised" ELSE "returned"
    /\ UNCHANGED <<manager, place, tries, result, request, counts, portHas429, up, changes>>

Item(i) == Enter(i) \/ Answered(i) \/ Failed(i) \/ AskAgain(i)
Handler(a) == Select(a) \/ Forwarded(a) \/ Rejected(a) \/ Disconnected(a)

Next ==
    \/ \E i \in Items : Item(i) \/ Timeout(i)
    \/ \E a \in Asks : Handler(a)
    \/ \E w \in Workers : Changes(w)
    \/ ComputeRmScore

\* Coroutines go on and timers run out. A worker that is up need not answer.
Fairness ==
    /\ WF_vars(ComputeRmScore)
    /\ \A i \in Items : WF_vars(Item(i)) /\ WF_vars(Timeout(i))

Spec == Init /\ [][Next]_vars /\ Fairness

(* -------------------------------- properties ------------------------------- *)

At(w, where) == {a \in Asks : request[a].at = where /\ request[a].worker = w}

\* The router never thinks a worker less busy than it is: what it counts beyond
\* the requests under way are those that failed there.
CountsCoverRequests == \A w \in Workers :
    counts[w] = Cardinality(At(w, "forwarded")) + Cardinality(At(w, "failed"))

\* A dead or rejecting worker costs few requests: while another worker fails none
\* and no item times out, at most max_concurrent requests of each loop, taken
\* together, are lost to it, since each one stays in its count. The loops share
\* the router but no semaphore. (The naive manager has no such bound.)
LossesBounded ==
    manager = "rate_limited" /\ (\A i \in Items : result[i] # "timeout")
      => \A v, w \in Workers : At(v, "failed") = {} /\ v # w
           => Cardinality(At(w, "failed")) <= NumWorkers * MaxConcurrent

\* A failed, rejected or unreadable answer costs its own score only. The step
\* raises for an item whose messages could not be built and, under the rate
\* limited manager, for one that ran out of time; there only among items that
\* ended in another way.
StepRaisesOnTimeouts == step = "raised" =>
    \E i \in Items :
        /\ result[i] \in {"timeout", "raised"}
        /\ manager = "rate_limited" => \E j \in Items : result[j] # result[i]

\* With a time limit the batch ends, whatever the workers do.
EveryBatchEnds == manager = "rate_limited" => <>(step # "open")

(* -------- the parts of the inductive invariant behind these properties ------ *)

TypeOK ==
    /\ manager \in {"naive", "rate_limited"}
    /\ place \in [Items -> {"queued", "asking", "sleeping", "scored"}]
    /\ tries \in [Items -> 0 .. MaxPrmRetries - 1]
    /\ result \in [Items -> {"none", "answered", "failed", "raised", "timeout"}]
    /\ request \in [Asks -> [at : {"none", "arriving", "forwarded", "ok", "failed"},
                             worker : Workers, attempt : Nat]]
    /\ counts \in [Workers -> Nat]
    /\ up \subseteq Workers /\ step \in {"open", "returned", "raised"}

\* A request not yet made is unused, and another one is made only after it.
RequestsInOrder ==
    /\ \A a \in Asks : request[a].at # "none" => place[a[1]] # "queued" /\ a[2] <= tries[a[1]]
    /\ \A i \in Items : /\ place[i] = "queued" => tries[i] = 0
                        /\ place[i] = "sleeping" => tries[i] < MaxPrmRetries - 1

ScoredOnce == \A i \in Items : place[i] = "scored" <=> result[i] # "none"

\* Until an item times out, what is under way is waited for.
NoTimeout == \A i \in Items : result[i] # "timeout"
UnderWay == {a \in Asks : request[a].at \in {"arriving", "forwarded"}}
WaitedFor == NoTimeout => \A a \in UnderWay : place[a[1]] = "asking" /\ a[2] = tries[a[1]]

SemaphoreHolds ==
    manager = "rate_limited" => \A l \in Loops : Cardinality(InSemaphore(l)) <= MaxConcurrent

\* A worker is chosen while it counts no more than one that failed nothing.
LoadBounded ==
    manager = "rate_limited" /\ NoTimeout
      => \A v, w \in Workers : At(v, "failed") = {} /\ v # w
           => counts[w] <= NumWorkers * MaxConcurrent

\* The manager raises as soon as an item has, or when all items are scored.
RaisedFor ==
    step = "raised" => \/ GatherRaises
                       \/ ~GatherRaises /\ LookupRaises /\ \A i \in Items : place[i] = "scored"
NaiveNeverTimesOut == manager = "naive" => NoTimeout
===============================================================================
