------------------------------ MODULE RcuList ------------------------------
(***************************************************************************)
(* The kernel services that lab-06-RCULock/library/*.c calls: the slab     *)
(* allocator, the circular doubly linked list of rculist.h, and RCU        *)
(* (read-side critical sections, call_rcu, synchronize_rcu).  None of it   *)
(* is in the repository: it is modelled from how the library uses it, and  *)
(* rcu-debug.txt:9-18 of the repository quotes list_replace_rcu itself.    *)
(*                                                                         *)
(* Every operator below is one kernel call, an action formula over the     *)
(* variables of this module; a caller conjoins it with its own step.       *)
(***************************************************************************)
EXTENDS Naturals

CONSTANTS
  Node,     \* the addresses kzalloc can return for a struct book
  Thread,   \* the kernel threads that use the list
  HEAD,     \* the list head (LIST_HEAD(books)), an entry of no book
  POISON    \* LIST_POISON2, what an unlinked entry's prev pointer becomes

ASSUME RcuListAssumption ==
  /\ HEAD \notin Node
  /\ POISON \notin Node \cup {HEAD}

VARIABLES
  heap,     \* where each struct book is in its life, see Life
  next,     \* node.next of each entry
  prev,     \* node.prev of each entry
  readers,  \* the threads between rcu_read_lock and rcu_read_unlock
  waits,    \* waits[n]: the readers the grace period of n still waits for
  mayhold   \* history: the readers whose section began before n was unlinked

listvars == <<heap, next, prev, readers, waits, mayhold>>

Entry == Node \cup {HEAD}

(* A struct book is unallocated, allocated but private to its allocator,   *)
(* on the list, off the list but not yet handed to RCU, or waiting for its *)
(* reclaim callback.                                                       *)
Life == {"free", "fresh", "linked", "unlinked", "queued"}

Linked == {n \in Node : heap[n] = "linked"}

ListTypeOK ==
  /\ heap \in [Node -> Life]
  /\ next \in [Entry -> Entry]
  /\ prev \in [Entry -> Entry \cup {POISON}]
  /\ readers \in SUBSET Thread
  /\ waits \in [Node -> SUBSET Thread]
  /\ mayhold \in [Node -> SUBSET Thread]

(* Before module_init: no struct book is allocated, the list is empty.     *)
ListInit ==
  /\ heap = [n \in Node |-> "free"]
  /\ next = [e \in Entry |-> HEAD]
  /\ prev = [e \in Entry |-> HEAD]
  /\ readers = {}
  /\ waits = [n \in Node |-> {}]
  /\ mayhold = [n \in Node |-> {}]

(* kzalloc returns any address that is not in use.  The zeroing it does is *)
(* done by kfree here: nobody may read a free struct, and one that is free *)
(* then has one representation.                                            *)
kzalloc(n) ==
  /\ heap[n] = "free"
  /\ heap' = [heap EXCEPT ![n] = "fresh"]

(* list_add_rcu(&n->node, &books): n becomes the first entry.              *)
list_add_rcu(n) ==
  /\ next' = [next EXCEPT ![n] = next[HEAD], ![HEAD] = n]
  /\ prev' = [prev EXCEPT ![n] = HEAD, ![next[HEAD]] = n]

(* list_replace_rcu(&old->node, &new->node).  The one store a reader can   *)
(* see is the one into old->prev->next; old->next is left as it was, so a  *)
(* reader that stands on old walks on.                                     *)
list_replace_rcu(old, new) ==
  /\ next' = [next EXCEPT ![new] = next[old], ![prev[old]] = new]
  /\ prev' = [prev EXCEPT ![new] = prev[old], ![next[old]] = new,
                          ![old] = POISON]

(* list_del_rcu(&n->node).                                                 *)
list_del_rcu(n) ==
  /\ next' = [next EXCEPT ![prev[n]] = next[n]]
  /\ prev' = [prev EXCEPT ![next[n]] = prev[n], ![n] = POISON]

rcu_read_lock(t) == readers' = readers \cup {t}

(* A reader that leaves its section holds up no grace period any more.     *)
rcu_read_unlock(t) ==
  /\ readers' = readers \ {t}
  /\ waits' = [n \in Node |-> waits[n] \ {t}]
  /\ mayhold' = [n \in Node |-> mayhold[n] \ {t}]

(* Bookkeeping of an unlink: the readers that may hold n from now on are   *)
(* those already inside a section.                                         *)
Unlink(n) == mayhold' = [mayhold EXCEPT ![n] = readers]

(* A grace period that starts now ends when the readers inside a section   *)
(* now have left it.                                                       *)
StartGracePeriod(n) == waits' = [waits EXCEPT ![n] = readers]

GracePeriodOver(n) == waits[n] = {}

(* call_rcu(&n->rcu, callback): n waits for a grace period in the queue.   *)
call_rcu(n) ==
  /\ heap' = [heap EXCEPT ![n] = "queued"]
  /\ StartGracePeriod(n)

kfree(n) ==
  /\ heap' = [heap EXCEPT ![n] = "free"]
  /\ next' = [next EXCEPT ![n] = HEAD]
  /\ prev' = [prev EXCEPT ![n] = HEAD]
=============================================================================
