------------------------------- MODULE Banker -------------------------------
(***************************************************************************)
(* lab-08-banker: the command loop of main.c and the banker's algorithm of *)
(* banker.c.  The program is sequential; what is hard about it is the      *)
(* arithmetic over a long sequence of requests, the rollback, and the      *)
(* input it does not check.  Numbers are not bounded to the width of int:  *)
(* the requests that are tried are far from it.                            *)
(***************************************************************************)
EXTENDS Integers, Sequences

CONSTANTS
  N,          \* PROCESS_COUNT
  M,          \* RESOURCE_TYPE_COUNT
  Systems,    \* the initial matrices: records of available, allocation, max
  Requests    \* the request vectors a user types

Proc == 0 .. N - 1
Res == 0 .. M - 1

ASSUME BankerAssumption ==
  /\ N \in Nat \ {0} /\ M \in Nat \ {0}
  /\ \A sys \in Systems :
       /\ sys.available \in [Res -> Nat]
       /\ sys.allocation \in [Proc -> [Res -> Nat]]
       /\ sys.max \in [Proc -> [Res -> Nat]]
       /\ \A i \in Proc, j \in Res : sys.allocation[i][j] <= sys.max[i][j]
  /\ Requests \subseteq [Res -> Int]

(* "a" asks for resources, "q" quits, "pd" prints; "other" is any text that *)
(* is no command.                                                          *)
Command == {"a", "q", "pd", "", "other"}

VARIABLES
  iAvailable, iAllocation, iNeed,
  iMax,
  bSafe,       \* what IsSafety said of the initial state
  cmd,         \* cmd of main, which starts uninitialised
  pid, req,    \* what Banker has read
  pc,
  eof,         \* standard input is at its end
  long,        \* history: GetInput met no newline, for it the line is too long
  total        \* history: the resources of each type there were at first

matrices == <<iAvailable, iAllocation, iNeed>>
vars == <<matrices, iMax, bSafe, cmd, pid, req, pc, eof, long, total>>

-----------------------------------------------------------------------------
(* IsSafety: the processes in the order in which they can finish, found in *)
(* passes over the indices that repeat until a pass finds nobody.          *)

CanFinish(need, i, work) == \A j \in Res : need[i][j] <= work[j]

Release(alloc, i, work) == [j \in Res |-> work[j] + alloc[i][j]]

(* One turn of the inner loop, in the pass that st has come to.            *)
Visit(st, i) ==
  IF i \notin st.finish /\ CanFinish(st.need, i, st.work)
  THEN [st EXCEPT !.work = Release(st.alloc, i, @),
                  !.finish = @ \cup {i},
                  !.safeSeq = Append(@, i)]
  ELSE st

(* The while loop ends when all have finished or a pass finds nobody; a    *)
(* pass more changes nothing then, so that N passes of N turns stand for   *)
(* any number of them.  turn[k] holds the one state the loop is in after k *)
(* turns.                                                                  *)
SafeSeq_OnePass(avail, alloc, need) ==
  LET start == [work |-> avail, alloc |-> alloc, need |-> need,
                finish |-> {}, safeSeq |-> <<>>]
      turn[k \in 0 .. N] ==
        IF k = 0 THEN {start} ELSE {Visit(st, k - 1) : st \in turn[k - 1]}
  IN (CHOOSE st \in turn[N] : TRUE).safeSeq

SafeSeq(avail, alloc, need) ==
  LET start == [work |-> avail, alloc |-> alloc, need |-> need,
                finish |-> {}, safeSeq |-> <<>>]
      turn[k \in 0 .. N * N] ==
        IF k = 0 THEN {start} ELSE {Visit(st, (k - 1) % N) : st \in turn[k - 1]}
  IN (CHOOSE st \in turn[N * N] : TRUE).safeSeq

IsSafety == Len(SafeSeq(iAvailable, iAllocation, iNeed)) = N

-----------------------------------------------------------------------------
Total(avail, alloc) ==
  [j \in Res |->
    LET sum[n \in 0 .. N] ==
          IF n = 0 THEN avail[j] ELSE sum[n - 1] + alloc[n - 1][j]
    IN sum[N]]

Init ==
  /\ \E sys \in Systems :
       /\ iAvailable = sys.available
       /\ iAllocation = sys.allocation
       /\ iMax = sys.max
       /\ iNeed = [i \in Proc |->
                    [j \in Res |-> sys.max[i][j] - sys.allocation[i][j]]]
  /\ bSafe = IsSafety
  /\ cmd \in Command
  /\ pid = 0 /\ req = [j \in Res |-> 0]
  /\ pc = "prompt" /\ eof = FALSE /\ long = FALSE
  /\ total = Total(iAvailable, iAllocation)

Goto(from, to) == pc = from /\ pc' = to

(* GetInput returns -1 and leaves cmd as it was when there is no newline   *)
(* within its buffer, and empties cmd at the end of the input; main looks  *)
(* at cmd all the same.                                                    *)
GetInput ==
  /\ Goto("prompt", "command")
  /\ \/ ~eof /\ cmd' \in Command /\ long' = FALSE /\ UNCHANGED eof
     \/ ~eof /\ UNCHANGED cmd /\ long' = TRUE /\ eof' \in BOOLEAN
     \/ cmd' = "" /\ long' = FALSE /\ eof' = TRUE
  /\ UNCHANGED <<matrices, iMax, bSafe, pid, req, total>>

(* The if chain of main: "a" calls Banker, "q" ends the program, anything  *)
(* else prints something.                                                  *)
Dispatch ==
  /\ Goto("command", CASE cmd = "a" -> "read_pid" [] cmd = "q" -> "end"
                       [] OTHER -> "prompt")
  /\ UNCHANGED <<matrices, iMax, bSafe, cmd, pid, req, eof, long, total>>

(* scanf of the process number: it is read, or is no number of a process   *)
(* and Banker returns, or is no number at all.  In that case the rest of   *)
(* the line is skipped, for ever when the input is at its end.             *)
ReadPid ==
  /\ \/ ~eof /\ Goto("read_pid", "read_request") /\ pid' \in Proc
     \/ ~eof /\ Goto("read_pid", "prompt") /\ UNCHANGED pid
     \/ Goto("read_pid", "skip") /\ UNCHANGED pid
  /\ eof' \in IF pc' = "skip" THEN {TRUE} ELSE {eof}
  /\ UNCHANGED <<matrices, iMax, bSafe, cmd, req, long, total>>

(* scanf of the three numbers of the request.                              *)
ReadRequest ==
  /\ \/ ~eof /\ Goto("read_request", "check") /\ req' \in Requests
     \/ ~eof /\ Goto("read_request", "prompt") /\ UNCHANGED req
     \/ Goto("read_request", "skip") /\ UNCHANGED req
  /\ eof' \in IF pc' = "skip" THEN {TRUE} ELSE {eof}
  /\ UNCHANGED <<matrices, iMax, bSafe, cmd, pid, long, total>>

(* while(getchar() != '\n') at the end of the input.                       *)
SkipForEver == pc = "skip" /\ UNCHANGED vars

Within(v, limit) == \A j \in Res : v[j] <= limit[j]

(* More than the process still needs, or than is available.                *)
Refuse ==
  /\ Goto("check", "prompt")
  /\ ~Within(req, iNeed[pid]) \/ ~Within(req, iAvailable)
  /\ UNCHANGED <<matrices, iMax, bSafe, cmd, pid, req, eof, long, total>>

(* Take n times the request out of what is available.                      *)
Give(n) ==
  /\ iAvailable' = [j \in Res |-> iAvailable[j] - n * req[j]]
  /\ iAllocation' = [iAllocation EXCEPT ![pid] =
                      [j \in Res |-> @[j] + n * req[j]]]
  /\ iNeed' = [iNeed EXCEPT ![pid] = [j \in Res |-> @[j] - n * req[j]]]

TryAllocation_NeedOnly ==
  /\ Goto("check", "tried")
  /\ Within(req, iNeed[pid])
  /\ Give(1)
  /\ UNCHANGED <<iMax, bSafe, cmd, pid, req, eof, long, total>>

TryAllocation ==
  /\ Goto("check", "tried")
  /\ Within(req, iNeed[pid]) /\ Within(req, iAvailable)
  /\ Give(1)
  /\ UNCHANGED <<iMax, bSafe, cmd, pid, req, eof, long, total>>

Grant_Unchecked ==
  /\ Goto("tried", "prompt")
  /\ UNCHANGED <<matrices, iMax, bSafe, cmd, pid, req, eof, long, total>>

Grant ==
  /\ Goto("tried", "prompt") /\ IsSafety
  /\ UNCHANGED <<matrices, iMax, bSafe, cmd, pid, req, eof, long, total>>

Rollback_NotNeed ==
  /\ Goto("tried", "prompt") /\ ~IsSafety
  /\ iAvailable' = [j \in Res |-> iAvailable[j] + req[j]]
  /\ iAllocation' = [iAllocation EXCEPT ![pid] = [j \in Res |-> @[j] - req[j]]]
  /\ UNCHANGED <<iNeed, iMax, bSafe, cmd, pid, req, eof, long, total>>

Rollback ==
  /\ Goto("tried", "prompt") /\ ~IsSafety
  /\ Give(-1)
  /\ UNCHANGED <<iMax, bSafe, cmd, pid, req, eof, long, total>>

End == pc = "end" /\ UNCHANGED vars

Next ==
  \/ GetInput \/ Dispatch
  \/ ReadPid \/ ReadRequest \/ Refuse \/ TryAllocation \/ Grant \/ Rollback
  \/ SkipForEver \/ End

Spec == Init /\ [][Next]_vars

-----------------------------------------------------------------------------
(* What follows is said of requests that ask for resources, except for     *)
(* ResourcesConserved and AllocationIsACount: Banker reads any numbers.    *)

(* Nobody owes resources: nothing available, held or needed is negative.   *)
(* It is what Banker's two comparisons are for, also between the trial and *)
(* the rollback.                                                           *)
TypeOK ==
  /\ iAvailable \in [Res -> Nat]
  /\ iAllocation \in [Proc -> [Res -> Nat]]
  /\ iNeed \in [Proc -> [Res -> Nat]]
  /\ iMax \in [Proc -> [Res -> Nat]]
  /\ bSafe \in BOOLEAN /\ cmd \in Command
  /\ pid \in Proc /\ req \in Requests \cup {[j \in Res |-> 0]}
  /\ pc \in {"prompt", "command", "read_pid", "read_request", "skip",
             "check", "tried", "end"}
  /\ eof \in BOOLEAN /\ long \in BOOLEAN
  /\ total \in [Res -> Nat]

(* However many requests were granted, refused and rolled back, no unit of *)
(* a resource appears or is lost, and iNeed is still what iMax leaves      *)
(* above iAllocation: the three matrices Banker changes stay in step.      *)
ResourcesConserved ==
  /\ Total(iAvailable, iAllocation) = total
  /\ \A i \in Proc, j \in Res : iNeed[i][j] = iMax[i][j] - iAllocation[i][j]

(* At the prompt the matrices are those before the request when it is      *)
(* refused by the safety check: a trial that will be rolled back counts as *)
(* not begun.                                                              *)
Doomed == pc = "tried" /\ ~IsSafety
Back == IF Doomed THEN 1 ELSE 0
Promised == INSTANCE SafeAllocation WITH
  avail <- [j \in Res |-> iAvailable[j] + Back * req[j]],
  alloc <- [iAllocation EXCEPT ![pid] = [j \in Res |-> @[j] - Back * req[j]]],
  need <- [iNeed EXCEPT ![pid] = [j \in Res |-> @[j] + Back * req[j]]]

(* Banker grants a request whole or not at all, and grants none that       *)
(* leaves a group of processes stuck: comparisons, trial, safety check and *)
(* rollback together are one step of SafeAllocation, or none.              *)
AllOrNothing == Promised!AllocSpec

(* A system that was safe when main started is safe whenever main asks for *)
(* the next command.  Once somebody owes resources it may be stuck although*)
(* IsSafety said yes.                                                      *)
StaysSafe ==
  bSafe /\ pc = "prompt" => Promised!Safe(iAvailable, iAllocation, iNeed)

(* IsSafety says yes exactly when no group of processes is stuck, and the  *)
(* sequence it prints names each process once, in an order in which each   *)
(* can get what it needs from what is available and what those before it   *)
(* give back.                                                              *)
SafetyCheckExact ==
  LET seq == SafeSeq(iAvailable, iAllocation, iNeed)
      Before(k) == {seq[l] : l \in 1 .. k - 1}
  IN /\ IsSafety <=> Promised!Safe(iAvailable, iAllocation, iNeed)
     /\ \A k \in 1 .. Len(seq) :
          /\ seq[k] \notin Before(k)
          /\ CanFinish(iNeed, seq[k],
                       Promised!FreeAfter(Before(k), iAvailable, iAllocation))

(* iAllocation holds the numbers of resources allocated to each process,   *)
(* says the comment above PrintStatus: negative ones are none.             *)
AllocationIsACount == \A i \in Proc, j \in Res : iAllocation[i][j] >= 0

(* A line that GetInput reports as too long starts no allocation.          *)
LongLineIsNoCommand == pc = "read_pid" => ~long
=============================================================================
