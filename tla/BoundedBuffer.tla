--------------------------- MODULE BoundedBuffer ---------------------------
(***************************************************************************)
(* What the pool of lab-05/Producer-Consumer promises: between a clean     *)
(* start and the next disturbance it is a first-in first-out queue of at   *)
(* most BufferSize names, from which each consumer takes whole names.      *)
(***************************************************************************)
EXTENDS Naturals, Sequences

CONSTANTS
  Consumers,
  Item,         \* the names a user types
  Unset,        \* a consumer that has consumed nothing yet
  BufferSize    \* BUFFER_SIZE

VARIABLES
  up,    \* the pool was started cleanly and nothing has disturbed it since
  buf,   \* the names in the pool, the oldest first
  got    \* the name each consumer took last

bufvars == <<up, buf, got>>

BufInit == up = FALSE /\ buf = <<>> /\ got = [c \in Consumers |-> Unset]

Put(x) ==
  /\ up /\ Len(buf) < BufferSize
  /\ buf' = Append(buf, x)
  /\ UNCHANGED <<up, got>>

Get(c) ==
  /\ up /\ buf # <<>>
  /\ got' = [got EXCEPT ![c] = Head(buf)]
  /\ buf' = Tail(buf)
  /\ UNCHANGED up

(* A consumer process that starts anew has consumed nothing.               *)
Forget(c) ==
  /\ got' = [got EXCEPT ![c] = Unset]
  /\ UNCHANGED <<up, buf>>

Start ==
  /\ ~up /\ up' = TRUE
  /\ buf' = <<>>
  /\ got' \in [Consumers -> Item \cup {Unset}]

Disturb ==
  /\ up /\ up' = FALSE
  /\ buf' = <<>>
  /\ got' = [c \in Consumers |-> Unset]

BufNext ==
  \/ \E x \in Item : Put(x)
  \/ \E c \in Consumers : Get(c) \/ Forget(c)
  \/ Start
  \/ Disturb

BufSpec == BufInit /\ [][BufNext]_bufvars
=============================================================================
