------------------------- MODULE MCAccountScheduling -------------------------
(* Small instances of AccountScheduling for TLC.                            *)
EXTENDS AccountScheduling

CONSTANTS r1, r2, a1, a2, s1, s2

(* r1 prefers a1 and falls back to a2; r2 the other way round.              *)
CrossedAccounts ==
  [r \in Runs |-> [i \in Candidates |-> IF (r = r1) = (i % 2 = 0) THEN a1 ELSE a2]]

(* Everything runs on a1.                                                   *)
OneAccount == [r \in Runs |-> [i \in Candidates |-> a1]]

(* Both prefer a1, every fallback is on a2.                                 *)
SharedPrimary == [r \in Runs |-> [i \in Candidates |-> IF i = 0 THEN a1 ELSE a2]]

AllCompatible == [r \in Runs |-> [i \in Candidates |-> TRUE]]

QueuePolicy == [r \in Runs |-> "queue"]
AskAndFallback == [r \in Runs |-> IF r = r1 THEN "ask" ELSE "fallback"]
QueueAndFallback == [r \in Runs |-> IF r = r1 THEN "queue" ELSE "fallback"]

SecondFirst == [r \in Runs |-> IF r = r1 THEN 0 ELSE 1]
=============================================================================
