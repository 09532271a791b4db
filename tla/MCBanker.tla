------------------------------ MODULE MCBanker ------------------------------
(***************************************************************************)
(* The systems and the requests for which Banker is checked.               *)
(***************************************************************************)
EXTENDS Banker, TLC

Vector(a, b, c) == 0 :> a @@ 1 :> b @@ 2 :> c

(* The system of main.c ...                                                *)
MainAllocation ==
  0 :> Vector(0, 1, 1) @@ 1 :> Vector(2, 0, 0) @@ 2 :> Vector(3, 0, 2)
    @@ 3 :> Vector(2, 1, 1) @@ 4 :> Vector(0, 0, 2)

MainMax ==
  0 :> Vector(7, 5, 3) @@ 1 :> Vector(3, 2, 2) @@ 2 :> Vector(9, 0, 2)
    @@ 3 :> Vector(2, 2, 2) @@ 4 :> Vector(4, 3, 3)

System(available, allocation, max) ==
  [available |-> available, allocation |-> allocation, max |-> max]

MainSystem == {System(Vector(3, 3, 2), MainAllocation, MainMax)}

(* ... and with its processes in reverse order and less available, so that *)
(* IsSafety needs more passes, or the system is not safe.                  *)
Reversed(matrix) == [i \in 0 .. 4 |-> matrix[4 - i]]

Systems5 ==
  MainSystem \cup
  {System(v, Reversed(MainAllocation), Reversed(MainMax)) :
     v \in {Vector(3, 3, 2), Vector(2, 3, 0), Vector(0, 1, 1)}}

(* Two of the requests are too much for some process, some are refused by  *)
(* the safety check in some states, and one asks for nothing.              *)
MainRequests == {Vector(1, 0, 2), Vector(3, 3, 0), Vector(0, 2, 0),
                 Vector(1, 1, 1), Vector(0, 0, 0)}

ReturningRequests == {Vector(1, 0, 2), Vector(-1, 0, 0)}
=============================================================================
