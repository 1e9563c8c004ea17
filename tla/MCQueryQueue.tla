---------------------------- MODULE MCQueryQueue ----------------------------
(***************************************************************************)
(* Instances of QueryQueue for TLC: two queries, two workers, in one       *)
(* process or one worker in each of two processes.                         *)
(***************************************************************************)
EXTENDS QueryQueue, TLC

CONSTANTS low, high, p1, p2, w1, w2

TwoKeys == {low, high}
HighFirst == [k \in TwoKeys |-> IF k = high THEN 1 ELSE 0]
Equal == [k \in Keys |-> 0]

TwoWorkers == {w1, w2}
AllInOne == [w \in TwoWorkers |-> p1]
OneEach == [w \in TwoWorkers |-> IF w = w1 THEN p1 ELSE p2]

WorkersAlike == Permutations(TwoWorkers)
=============================================================================
