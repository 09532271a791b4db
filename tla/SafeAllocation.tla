--------------------------- MODULE SafeAllocation ---------------------------
(***************************************************************************)
(* What the banker's algorithm promises, without the algorithm: requests   *)
(* are granted whole and in one step, and only into states from which all  *)
(* processes can still get what they need, one after the other.            *)
(***************************************************************************)
EXTENDS Integers

CONSTANTS N, Res, Requests

VARIABLES avail, alloc, need

Proc == 0 .. N - 1

(* What is free once the processes in S have given back what they hold.    *)
FreeAfter(S, av, al) ==
  [j \in Res |->
    LET sum[n \in 0 .. N] ==
          IF n = 0 THEN av[j]
          ELSE sum[n - 1] + IF n - 1 \in S THEN al[n - 1][j] ELSE 0
    IN sum[N]]

(* No group of processes is stuck: when all the others have finished, one  *)
(* of the group can finish too.                                            *)
Safe(av, al, nd) ==
  \A S \in (SUBSET Proc) \ {{}} :
    \E i \in S :
      \A j \in Res : nd[i][j] <= FreeAfter(Proc \ S, av, al)[j]

AllocInit ==
  /\ avail \in [Res -> Int]
  /\ alloc \in [Proc -> [Res -> Int]]
  /\ need \in [Proc -> [Res -> Int]]

Grant(i, r) ==
  /\ \A j \in Res : r[j] <= need[i][j] /\ r[j] <= avail[j]
  /\ avail' = [j \in Res |-> avail[j] - r[j]]
  /\ alloc' = [alloc EXCEPT ![i] = [j \in Res |-> @[j] + r[j]]]
  /\ need' = [need EXCEPT ![i] = [j \in Res |-> @[j] - r[j]]]
  /\ Safe(avail', alloc', need')

AllocNext == \E i \in Proc, r \in Requests : Grant(i, r)

AllocSpec == AllocInit /\ [][AllocNext]_<<avail, alloc, need>>
=============================================================================
