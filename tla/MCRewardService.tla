---------------------------- MODULE MCRewardService ----------------------------
(* Two reward loops, one of them with more items than its semaphore admits     *)
(* (three items are chunked so with auto padding; equal chunks of two are too  *)
(* many states). One of two workers may be down at first, and one of them dies *)
(* or comes back.                                                              *)
EXTENDS RewardService
TwoAndOne == <<1, 1, 2>>
===============================================================================
