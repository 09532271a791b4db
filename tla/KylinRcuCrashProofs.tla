------------------------- MODULE KylinRcuCrashProofs -------------------------
(***************************************************************************)
(* Proofs about KylinRcuCrash, for any number of students, managers, books *)
(* and addresses: the race that kills students corrupts neither memory nor *)
(* the list nor the loans.                                                 *)
(*                                                                         *)
(* Two students about to replace one entry are told apart by its prev.  An *)
(* entry that a section may find and that is not on the list was unlinked  *)
(* and is not freed yet, so its prev is LIST_POISON2: a swap that does not *)
(* fault is one of an entry on the list.                                   *)
(***************************************************************************)
EXTENDS KylinRcuCrash, KylinRcuProofs

(***************************************************************************)
(* The list, whoever works on it.                                          *)
(***************************************************************************)
(* The types of what the list is made of.                                  *)
ChainTypes == ListTypeOK /\ id \in [Node -> Books]

(* What a reader may find leads to what it may find.                       *)
ClosedInv == \A t \in readers : \A e \in MaySee(t) : next[e] \in MaySee(t)

(* list_replace_rcu and list_del_rcu leave LIST_POISON2 in the entry.      *)
PoisonInv == \A n \in Node : heap[n] \in {"unlinked", "queued"} => prev[n] = POISON

(* add_book puts larger ids in front, list_replace_rcu keeps the place.    *)
DescendInv == \A n \in Linked : next[n] \in Linked => id[next[n]] < id[n]

(* What is so of the list between any two steps.                           *)
ChainInv ==
  /\ ListWellFormed /\ OneEntryPerBook /\ DescendInv /\ PoisonInv
  /\ GraceInv /\ ClosedInv /\ AheadInv

(* What a step that only allocates, enters or leaves a section, or that    *)
(* hands an entry to RCU keeps of the chain.                               *)
LEMMA ChainFacts ==
  ASSUME ChainTypes, ChainInv
  PROVE  /\ \A e \in Seen : e = HEAD \/ (e \in Node /\ heap[e] \in {"linked", "unlinked", "queued"})
         /\ \A e \in Seen : next[e] \in Seen
         /\ \A t \in Thread : MaySee(t) \subseteq Seen
         /\ \A e \in Node : id[e] \in Nat
         /\ HEAD \notin Node
<1> USE RcuListAssumption
<1>1. \A t \in Thread : MaySee(t) \subseteq Seen
  BY DEF MaySee, Seen
<1>2. ASSUME NEW e \in Seen
      PROVE  next[e] \in Seen
  <2>1. CASE e \in Linked \cup {HEAD}
    BY <2>1 DEF ChainInv, ListWellFormed, Seen
  <2>2. CASE e \notin Linked \cup {HEAD}
    <3>1. PICK t \in readers : e \in MaySee(t)
      BY <2>2 DEF Seen, MaySee, ChainInv, GraceInv
    <3>2. t \in Thread
      BY DEF ChainTypes, ListTypeOK
    <3> QED BY <1>1, <3>1, <3>2 DEF ChainInv, ClosedInv
  <2> QED BY <2>1, <2>2
<1>3. \A e \in Seen : e = HEAD \/ (e \in Node /\ heap[e] \in {"linked", "unlinked", "queued"})
  BY DEF ChainInv, GraceInv, Seen, Linked
<1> QED BY <1>1, <1>2, <1>3 DEF ChainTypes, Books

(* Steps after which no more is seen, and what is seen is as it was.       *)
LEMMA AheadKept ==
  ASSUME ChainTypes, ChainInv, Linked' \subseteq Linked, Seen' \subseteq Seen,
         \A e \in Seen : next'[e] = next[e] /\ id'[e] = id[e]
  PROVE  AheadInv'
<1> SUFFICES ASSUME NEW e \in Seen', NEW x \in Linked', e = HEAD \/ id'[x] < id'[e]
             PROVE  next'[e] # HEAD /\ id'[x] <= id'[next'[e]]
  BY DEF AheadInv
<1>1. e \in Seen /\ x \in Seen /\ x \in Linked /\ next[e] \in Seen
  BY ChainFacts DEF Seen
<1> QED BY <1>1 DEF AheadInv, ChainInv

-----------------------------------------------------------------------------
(* The operations on the list: a thread begins or ends a section, or       *)
(* allocates a struct book; entry o is replaced by n; n is taken off, is   *)
(* handed to RCU, is freed, is added in front.                             *)
Idle == UNCHANGED <<listvars, id>>

Enters(t) ==
  /\ t \in Thread \ readers /\ rcu_read_lock(t)
  /\ UNCHANGED <<heap, next, prev, waits, mayhold, id>>

Leaves(t) ==
  /\ t \in Thread /\ rcu_read_unlock(t)
  /\ UNCHANGED <<heap, next, prev, id>>

Allocates(c) ==
  /\ c \in Node /\ kzalloc(c)
  /\ UNCHANGED <<next, prev, readers, waits, mayhold, id>>

Swaps(o, n) ==
  /\ o \in Linked /\ n \in Node /\ heap[n] = "fresh"
  /\ heap' = [heap EXCEPT ![o] = "unlinked", ![n] = "linked"]
  /\ id' = [id EXCEPT ![n] = id[o]]
  /\ list_replace_rcu(o, n) /\ Unlink(o)
  /\ UNCHANGED <<readers, waits>>

TakesOff(n) ==
  /\ n \in Linked
  /\ heap' = [heap EXCEPT ![n] = "unlinked"]
  /\ list_del_rcu(n) /\ Unlink(n) /\ StartGracePeriod(n)
  /\ UNCHANGED <<readers, id>>

Queues(n) ==
  /\ n \in Node /\ heap[n] = "unlinked" /\ call_rcu(n)
  /\ UNCHANGED <<next, prev, readers, mayhold, id>>

Frees(n) ==
  /\ n \in Node /\ heap[n] \in {"unlinked", "queued"} /\ mayhold[n] = {}
  /\ kfree(n)
  /\ id' = [id EXCEPT ![n] = 0]
  /\ UNCHANGED <<readers, waits, mayhold>>

Adds(n, k) ==
  /\ n \in Free /\ readers = {}
  /\ k \in Books /\ \A x \in Linked : id[x] < k
  /\ heap' = [heap EXCEPT ![n] = "linked"]
  /\ id' = [id EXCEPT ![n] = k]
  /\ list_add_rcu(n)
  /\ UNCHANGED <<readers, waits, mayhold>>

(* The steps of thread t leave alone what the readers see.                 *)
Shows(t) ==
  /\ readers \ {t} = readers' \ {t}
  /\ \A r \in readers \ {t} : /\ MaySee(r) \subseteq MaySee(r)'
                             /\ MaySee(r)' \subseteq MaySee(r) \cup Linked'
  /\ \A n \in Node \cap Seen : id'[n] = id[n]

(* And the entries off the list; except for one private copy c and one     *)
(* entry u, which the thread lets go.                                      *)
Spares(t, c, u) ==
  /\ Shows(t)
  /\ \A n \in Node : heap[n] = "fresh" => heap'[n] = "fresh" \/ n = c
  /\ \A n \in Node : heap[n] = "unlinked" =>
       \/ heap'[n] = "unlinked" /\ (mayhold[n] \subseteq waits[n]
                                     => mayhold'[n] \subseteq waits'[n])
       \/ n = u

-----------------------------------------------------------------------------
(* Nothing is done to the list.                                            *)
LEMMA IdleStep ==
  ASSUME ChainTypes, ChainInv, Idle
  PROVE  /\ ChainTypes' /\ ChainInv' /\ Linked' = Linked
         /\ \A t \in Thread : MaySee(t)' = MaySee(t)
         /\ \A t, c, u : Spares(t, c, u)
BY DEF Idle, listvars, ChainTypes, ListTypeOK, ChainInv, ListWellFormed, OneEntryPerBook,
       DescendInv, PoisonInv, GraceInv, ClosedInv, AheadInv, Linked, MaySee, Seen, Spares, Shows

(* rcu_read_lock: thread t may find what is on the list.                   *)
LEMMA EntersStep ==
  ASSUME ChainTypes, ChainInv, NEW t \in Thread, Enters(t)
  PROVE  /\ ChainTypes' /\ ChainInv' /\ Linked' = Linked
         /\ MaySee(t)' = Linked \cup {HEAD} /\ readers' = readers \cup {t}
         /\ \A c, u : Spares(t, c, u)
<1> USE DEF Enters, rcu_read_lock
<1>1. ChainTypes' /\ Linked' = Linked /\ Seen' = Seen
  BY DEF ChainTypes, ListTypeOK, Linked, Seen
<1>2. \A r \in Thread : MaySee(r)' = MaySee(r)
  BY <1>1 DEF MaySee
<1>3. MaySee(t) = Linked \cup {HEAD}
  BY DEF MaySee, ChainInv, GraceInv
<1>4. ListWellFormed' /\ OneEntryPerBook' /\ DescendInv' /\ PoisonInv' /\ GraceInv'
  BY <1>1 DEF ChainInv, ListWellFormed, OneEntryPerBook, DescendInv, PoisonInv, GraceInv
<1>5. ClosedInv'
  <2> SUFFICES ASSUME NEW r \in readers', NEW e \in MaySee(r)'
               PROVE  next'[e] \in MaySee(r)'
    BY DEF ClosedInv
  <2>1. r \in Thread
    BY DEF ChainTypes, ListTypeOK
  <2>2. CASE r = t
    BY <1>2, <1>3, <2>1, <2>2 DEF ChainInv, ListWellFormed
  <2>3. CASE r # t
    BY <1>2, <2>1, <2>3 DEF ChainInv, ClosedInv
  <2> QED BY <2>2, <2>3
<1>6. AheadInv'
  BY <1>1, AheadKept
<1>7. ASSUME NEW c, NEW u
      PROVE  Spares(t, c, u)
  BY <1>2 DEF Spares, Shows, ChainTypes, ListTypeOK
<1> QED BY <1>1, <1>2, <1>3, <1>4, <1>5, <1>6, <1>7 DEF ChainInv

(* rcu_read_unlock: no grace period waits for thread t any more.           *)
LEMMA LeavesStep ==
  ASSUME ChainTypes, ChainInv, NEW t \in Thread, Leaves(t)
  PROVE  /\ ChainTypes' /\ ChainInv' /\ Linked' = Linked /\ readers' = readers \ {t}
         /\ \A c, u : Spares(t, c, u)
<1> USE DEF Leaves, rcu_read_unlock
<1>1. /\ ChainTypes' /\ Linked' = Linked /\ Seen' \subseteq Seen
      /\ \A n \in Node : /\ mayhold'[n] = mayhold[n] \ {t}
                         /\ waits'[n] = waits[n] \ {t}
  BY DEF ChainTypes, ListTypeOK, Linked, Seen
<1>2. \A r \in Thread \ {t} : MaySee(r)' = MaySee(r)
  BY <1>1 DEF MaySee
<1>3. ListWellFormed' /\ OneEntryPerBook' /\ DescendInv' /\ PoisonInv' /\ GraceInv'
  BY <1>1 DEF ChainInv, ListWellFormed, OneEntryPerBook, DescendInv, PoisonInv, GraceInv
<1>4. ClosedInv'
  BY <1>2 DEF ChainInv, ClosedInv, ChainTypes, ListTypeOK
<1>5. AheadInv'
  BY <1>1, AheadKept
<1>6. ASSUME NEW c, NEW u
      PROVE  Spares(t, c, u)
  BY <1>1, <1>2 DEF Spares, Shows, ChainTypes, ListTypeOK
<1> QED BY <1>1, <1>3, <1>4, <1>5, <1>6 DEF ChainInv

(* kzalloc: the copy is nobody else's.                                     *)
LEMMA AllocatesStep ==
  ASSUME ChainTypes, ChainInv, NEW c \in Node, Allocates(c)
  PROVE  /\ ChainTypes' /\ ChainInv' /\ Linked' = Linked
         /\ \A t \in Thread : MaySee(t)' = MaySee(t)
         /\ heap[c] = "free" /\ heap'[c] = "fresh"
         /\ \A t, d, u : Spares(t, d, u)
<1> USE DEF Allocates, kzalloc
<1>1. /\ ChainTypes' /\ Linked' = Linked /\ heap'[c] = "fresh"
      /\ \A n \in Node \ {c} : heap'[n] = heap[n]
  BY DEF ChainTypes, ListTypeOK, Linked, Life
<1>2. Seen' = Seen /\ \A r \in Thread : MaySee(r)' = MaySee(r)
  BY <1>1 DEF MaySee, Seen
<1>3. ListWellFormed' /\ OneEntryPerBook' /\ DescendInv' /\ PoisonInv' /\ GraceInv'
  BY <1>1 DEF ChainInv, ListWellFormed, OneEntryPerBook, DescendInv, PoisonInv, GraceInv
<1>4. ClosedInv'
  BY <1>2 DEF ChainInv, ClosedInv, ChainTypes, ListTypeOK
<1>5. AheadInv'
  BY <1>1, <1>2, AheadKept
<1>6. ASSUME NEW t, NEW d, NEW u
      PROVE  Spares(t, d, u)
  BY <1>1, <1>2 DEF Spares, Shows, ChainTypes, ListTypeOK
<1> QED BY <1>1, <1>2, <1>3, <1>4, <1>5, <1>6 DEF ChainInv

(* call_rcu: the grace period waits for all that may find the entry.       *)
LEMMA QueuesStep ==
  ASSUME ChainTypes, ChainInv, NEW n \in Node, Queues(n)
  PROVE  /\ ChainTypes' /\ ChainInv' /\ Linked' = Linked
         /\ \A t \in Thread : MaySee(t)' = MaySee(t)
         /\ \A t, c : Spares(t, c, n)
<1> USE DEF Queues, call_rcu, StartGracePeriod
<1>1. /\ ChainTypes' /\ Linked' = Linked /\ heap'[n] = "queued" /\ waits'[n] = readers
      /\ \A x \in Node \ {n} : heap'[x] = heap[x] /\ waits'[x] = waits[x]
  BY DEF ChainTypes, ListTypeOK, Linked, Life
<1>2. Seen' = Seen /\ \A r \in Thread : MaySee(r)' = MaySee(r)
  BY <1>1 DEF MaySee, Seen
<1>3. ListWellFormed' /\ OneEntryPerBook' /\ DescendInv' /\ PoisonInv' /\ GraceInv'
  BY <1>1 DEF ChainInv, ListWellFormed, OneEntryPerBook, DescendInv, PoisonInv, GraceInv
<1>4. ClosedInv'
  BY <1>2 DEF ChainInv, ClosedInv, ChainTypes, ListTypeOK
<1>5. AheadInv'
  BY <1>1, <1>2, AheadKept
<1>6. ASSUME NEW t, NEW c
      PROVE  Spares(t, c, n)
  BY <1>1, <1>2 DEF Spares, Shows, ChainTypes, ListTypeOK
<1> QED BY <1>1, <1>2, <1>3, <1>4, <1>5, <1>6 DEF ChainInv

(* kfree: of an entry that nobody can find.                                *)
LEMMA FreesStep ==
  ASSUME ChainTypes, ChainInv, NEW n \in Node, Frees(n)
  PROVE  /\ ChainTypes' /\ ChainInv' /\ Linked' = Linked
         /\ \A t \in Thread : MaySee(t)' = MaySee(t)
         /\ \A t, c : Spares(t, c, n)
<1> USE DEF Frees, kfree
<1>1. /\ ChainTypes' /\ Linked' = Linked /\ heap'[n] = "free" /\ n \notin Linked /\ n # HEAD
      /\ \A x \in Node \ {n} : heap'[x] = heap[x] /\ id'[x] = id[x]
      /\ \A e \in Entry \ {n} : next'[e] = next[e] /\ prev'[e] = prev[e]
  BY ZeroBook, RcuListAssumption DEF ChainTypes, ListTypeOK, Linked, Life, Entry
<1>2. Seen' = Seen /\ n \notin Seen /\ \A r \in Thread : MaySee(r)' = MaySee(r)
  BY <1>1 DEF MaySee, Seen
<1>3. \A e \in Seen : e \in Entry /\ (e = HEAD \/ e \in Node)
  BY ChainFacts DEF Entry
<1>4. Linked \subseteq Seen /\ HEAD \in Seen /\ \A r \in Thread : MaySee(r) \subseteq Seen
  BY ChainFacts DEF Seen
<1>5. \A e \in Seen : next'[e] = next[e] /\ prev'[e] = prev[e]
  BY <1>1, <1>2, <1>3
<1>6. ListWellFormed'
  BY <1>1, <1>4, <1>5 DEF ChainInv, ListWellFormed
<1>7. OneEntryPerBook' /\ DescendInv'
  BY <1>1, <1>4, <1>5 DEF ChainInv, OneEntryPerBook, DescendInv, Linked
<1>8. PoisonInv' /\ GraceInv'
  BY <1>1 DEF ChainInv, PoisonInv, GraceInv, Entry
<1>9. ClosedInv'
  BY <1>2, <1>4, <1>5 DEF ChainInv, ClosedInv, ChainTypes, ListTypeOK
<1>10. AheadInv'
  <2> SUFFICES ASSUME NEW e \in Seen', NEW x \in Linked', e = HEAD \/ id'[x] < id'[e]
               PROVE  next'[e] # HEAD /\ id'[x] <= id'[next'[e]]
    BY DEF AheadInv
  <2>1. e \in Seen /\ x \in Linked /\ next[e] \in Seen /\ next'[e] = next[e]
    BY <1>1, <1>2, <1>5, ChainFacts
  <2>2. id'[x] = id[x] /\ (e # HEAD => id'[e] = id[e])
    BY <1>1, <1>2, <1>3, <1>4, <2>1
  <2>3. next[e] # HEAD /\ id[x] <= id[next[e]]
    BY <2>1, <2>2 DEF ChainInv, AheadInv
  <2>4. id'[next[e]] = id[next[e]]
    BY <1>1, <1>2, <1>3, <2>1, <2>3
  <2> QED BY <2>1, <2>2, <2>3, <2>4
<1>11. ASSUME NEW t, NEW c
       PROVE  Spares(t, c, n)
  BY <1>1, <1>2 DEF Spares, Shows, ChainTypes, ListTypeOK
<1> QED BY <1>1, <1>2, <1>6, <1>7, <1>8, <1>9, <1>10, <1>11 DEF ChainInv

(* Entry o is replaced by its copy n: whoever is in a section may find it. *)
LEMMA SwapsStep ==
  ASSUME ChainTypes, ChainInv, NEW o, NEW n, Swaps(o, n)
  PROVE  /\ ChainTypes' /\ ChainInv'
         /\ Linked' = (Linked \ {o}) \cup {n} /\ n \notin Linked /\ n \notin Seen
         /\ heap'[o] = "unlinked" /\ id'[n] = id[o] /\ n # o
         /\ \A t \in readers : MaySee(t)' = MaySee(t) \cup {n}
         /\ \A t, u : Spares(t, n, u)
<1> USE RcuListAssumption
<1> USE DEF list_replace_rcu, Unlink
<1>0. /\ o \in Linked /\ n \in Node /\ heap[n] = "fresh" /\ n # o /\ o \in Node
      /\ heap' = [heap EXCEPT ![o] = "unlinked", ![n] = "linked"]
      /\ id' = [id EXCEPT ![n] = id[o]]
      /\ next' = [next EXCEPT ![n] = next[o], ![prev[o]] = n]
      /\ prev' = [prev EXCEPT ![n] = prev[o], ![next[o]] = n, ![o] = POISON]
      /\ mayhold' = [mayhold EXCEPT ![o] = readers]
      /\ UNCHANGED <<readers, waits>>
  BY DEF Swaps, Linked
<1>1. /\ heap \in [Node -> Life] /\ id \in [Node -> Books]
      /\ next \in [Entry -> Entry] /\ prev \in [Entry -> Entry \cup {POISON}]
      /\ mayhold \in [Node -> SUBSET Thread] /\ readers \subseteq Thread
  BY DEF ChainTypes, ListTypeOK
<1>2. /\ Linked' = (Linked \ {o}) \cup {n} /\ n \notin Linked
      /\ heap'[o] = "unlinked" /\ heap'[n] = "linked"
      /\ \A x \in Node \ {o, n} : heap'[x] = heap[x]
  BY <1>0, <1>1 DEF Linked
<1>3. /\ id'[n] = id[o] /\ \A x \in Node \ {n} : id'[x] = id[x]
      /\ mayhold'[o] = readers /\ \A x \in Node \ {o} : mayhold'[x] = mayhold[x]
  BY <1>0, <1>1
<1>4. /\ next[o] \in Linked \cup {HEAD} /\ prev[o] \in Linked \cup {HEAD}
      /\ next[prev[o]] = o /\ prev[next[o]] = o
  BY <1>0 DEF ChainInv, ListWellFormed
<1>5. next[o] # o /\ prev[o] # o
  <2>1. id[o] \in Nat
    BY <1>0, <1>1 DEF Books
  <2>2. next[o] \in Linked => id[next[o]] < id[o]
    BY <1>0 DEF ChainInv, DescendInv
  <2> QED BY <2>1, <2>2, <1>0, <1>4
<1>6. /\ next'[n] = next[o] /\ next'[prev[o]] = n
      /\ \A e \in Entry \ {n, prev[o]} : next'[e] = next[e]
      /\ prev'[n] = prev[o] /\ prev'[next[o]] = n /\ prev'[o] = POISON
      /\ \A e \in Entry \ {n, o, next[o]} : prev'[e] = prev[e]
  BY <1>0, <1>1, <1>2, <1>4, <1>5 DEF Entry, Linked
<1>7. ChainTypes'
  BY <1>0, <1>1, <1>4 DEF ChainTypes, ListTypeOK, Life, Entry, Linked
<1>8. n \notin Seen /\ o \in Seen /\ Seen' \subseteq Seen \cup {n}
  <2>1. n \notin Seen
    BY <1>0, ChainFacts
  <2> QED BY <2>1, <1>0, <1>1, <1>2, <1>3 DEF Seen
<1>9. \A t \in readers : MaySee(t)' = MaySee(t) \cup {n}
  BY <1>0, <1>2, <1>3 DEF MaySee, ChainInv, GraceInv, Linked
<1>10. ListWellFormed'
  <2> SUFFICES ASSUME NEW e \in (Linked \ {o}) \cup {n, HEAD}
               PROVE  /\ next'[e] \in (Linked \ {o}) \cup {n, HEAD}
                      /\ prev'[next'[e]] = e
                      /\ prev'[e] \in (Linked \ {o}) \cup {n, HEAD}
                      /\ next'[prev'[e]] = e
    BY <1>2 DEF ListWellFormed
  <2>1. e \in Entry /\ e # o /\ n \in Entry /\ o \in Entry /\ n # HEAD
    BY <1>0 DEF Entry, Linked
  <2>2. e # n => /\ next[e] \in Linked \cup {HEAD} /\ prev[next[e]] = e
                 /\ prev[e] \in Linked \cup {HEAD} /\ next[prev[e]] = e
    BY DEF ChainInv, ListWellFormed
  <2>3. \A f \in Linked \cup {HEAD} : f \in Entry /\ f # n
    BY <1>2, <2>1 DEF Entry, Linked
  <2>4. CASE e = n
    BY <2>1, <2>3, <2>4, <1>0, <1>4, <1>5, <1>6
  <2>5. CASE e # n
    <3>1. next'[e] \in (Linked \ {o}) \cup {n, HEAD} /\ prev'[next'[e]] = e
      <4>1. CASE e = prev[o]
        BY <4>1, <2>1, <1>6
      <4>2. CASE e # prev[o]
        <5>1. next'[e] = next[e] /\ next[e] # o /\ next[e] # next[o] /\ next[e] # n
          BY <4>2, <2>1, <2>2, <2>3, <2>5, <1>4, <1>6
        <5> QED BY <5>1, <2>2, <2>3, <2>5, <1>6
      <4> QED BY <4>1, <4>2
    <3>2. prev'[e] \in (Linked \ {o}) \cup {n, HEAD} /\ next'[prev'[e]] = e
      <4>1. CASE e = next[o]
        BY <4>1, <2>1, <1>6
      <4>2. CASE e # next[o]
        <5>1. prev'[e] = prev[e] /\ prev[e] # o /\ prev[e] # prev[o] /\ prev[e] # n
          BY <4>2, <2>1, <2>2, <2>3, <2>5, <1>4, <1>6
        <5> QED BY <5>1, <2>2, <2>3, <2>5, <1>6
      <4> QED BY <4>1, <4>2
    <3> QED BY <3>1, <3>2
  <2> QED BY <2>4, <2>5
<1>11. OneEntryPerBook'
  BY <1>0, <1>2, <1>3 DEF ChainInv, OneEntryPerBook, Linked
<1>12. DescendInv'
  <2> SUFFICES ASSUME NEW x \in Linked', next'[x] \in Linked'
               PROVE  id'[next'[x]] < id'[x]
    BY DEF DescendInv
  <2>1. \A y \in Linked : id'[y] = id[y] /\ y \in Entry /\ y # HEAD
    BY <1>2, <1>3 DEF Entry, Linked
  <2>2. \A y \in Linked : next[y] \in Linked => id[next[y]] < id[y]
    BY DEF ChainInv, DescendInv
  <2>3. n # HEAD /\ n \in Entry
    BY <1>0 DEF Entry
  <2>4. CASE x = n
    BY <2>1, <2>2, <2>3, <2>4, <1>0, <1>2, <1>3, <1>4, <1>6
  <2>5. CASE x = prev[o] /\ x # n
    <3>1. x \in Linked /\ next[x] = o /\ next'[x] = n
      BY <2>5, <1>2, <1>4, <1>6
    <3> QED BY <3>1, <2>1, <2>2, <1>0, <1>3
  <2>6. CASE x # prev[o] /\ x # n
    <3>1. x \in Linked /\ next'[x] = next[x] /\ next[x] \in Linked \cup {HEAD}
      BY <2>1, <2>6, <1>2, <1>6 DEF ChainInv, ListWellFormed
    <3>2. next[x] # HEAD
      BY <3>1, <1>2, <2>3, RcuListAssumption DEF Linked
    <3> QED BY <3>1, <3>2, <2>1, <2>2
  <2> QED BY <2>4, <2>5, <2>6
<1>13. PoisonInv'
  <2> SUFFICES ASSUME NEW x \in Node, heap'[x] \in {"unlinked", "queued"}
               PROVE  prev'[x] = POISON
    BY DEF PoisonInv
  <2>1. CASE x = o
    BY <2>1, <1>6
  <2>2. CASE x # o
    <3>1. x # n /\ heap[x] \in {"unlinked", "queued"} /\ x \in Entry
      BY <2>2, <1>2 DEF Entry
    <3>2. prev[x] = POISON /\ x # next[o]
      BY <3>1, <1>4 DEF ChainInv, PoisonInv, Linked
    <3> QED BY <3>1, <3>2, <2>2, <1>6
  <2> QED BY <2>1, <2>2
<1>14. GraceInv'
  BY <1>0, <1>1, <1>2, <1>3 DEF ChainInv, GraceInv, Linked
<1>15. ClosedInv'
  <2> SUFFICES ASSUME NEW t \in readers, NEW e \in MaySee(t) \cup {n}
               PROVE  next'[e] \in MaySee(t) \cup {n}
    BY <1>0, <1>9 DEF ClosedInv
  <2>1. \A f \in MaySee(t) : next[f] \in MaySee(t) /\ f \in Entry
    BY DEF ChainInv, ClosedInv, MaySee, Entry, Linked
  <2>2. o \in MaySee(t)
    BY <1>0 DEF MaySee
  <2> QED BY <2>1, <2>2, <1>6
<1>16. AheadInv'
  <2> SUFFICES ASSUME NEW e \in Seen', NEW x \in Linked', e = HEAD \/ id'[x] < id'[e]
               PROVE  next'[e] # HEAD /\ id'[x] <= id'[next'[e]]
    BY DEF AheadInv
  <2>1. \A f \in Seen : f \in Entry /\ next[f] \in Seen /\ (f # HEAD => f \in Node /\ id'[f] = id[f])
    BY <1>3, <1>8, ChainFacts DEF Entry
  <2>2. \A f \in Node : id[f] \in Nat
    BY <1>1 DEF Books
  <2>3. PICK y \in Linked : id'[x] = id[y]
    <3>1. x = n \/ (x \in Linked /\ id'[x] = id[x])
      BY <1>2, <1>3 DEF Linked
    <3> QED BY <3>1, <1>0, <1>3
  <2>4. CASE e = n
    <3>1. n # HEAD /\ o # HEAD /\ id[y] < id[o]
      BY <2>3, <2>4, <1>0, <1>3
    <3>2. next[o] # HEAD /\ id[y] <= id[next[o]] /\ next[o] \in Seen
      BY <3>1, <2>1, <1>8 DEF ChainInv, AheadInv
    <3> QED BY <3>2, <2>3, <2>4, <2>1, <1>6
  <2>5. CASE e = prev[o]
    <3>1. e \in Seen /\ (e = HEAD \/ id[y] < id[e])
      BY <2>3, <2>5, <2>1, <1>4 DEF Seen
    <3>2. id[y] <= id[o]
      BY <3>1, <2>5, <1>4 DEF ChainInv, AheadInv
    <3> QED BY <3>2, <2>3, <2>5, <1>0, <1>3, <1>6
  <2>6. CASE e # n /\ e # prev[o]
    <3>1. e \in Seen /\ next[e] \in Seen /\ next'[e] = next[e]
      BY <2>6, <2>1, <1>6, <1>8
    <3>2. next[e] # HEAD /\ id[y] <= id[next[e]]
      BY <3>1, <2>3, <2>1 DEF ChainInv, AheadInv
    <3> QED BY <3>1, <3>2, <2>3, <2>1
  <2> QED BY <2>4, <2>5, <2>6
<1>17. ASSUME NEW t, NEW u
       PROVE  Spares(t, n, u)
  <2>1. \A r \in readers \ {t} : /\ MaySee(r) \subseteq MaySee(r)'
                                 /\ MaySee(r)' \subseteq MaySee(r) \cup Linked'
    BY <1>2, <1>9
  <2>2. \A x \in Node \cap Seen : id'[x] = id[x]
    BY <1>3, <1>8
  <2>3. \A x \in Node : heap[x] = "fresh" => heap'[x] = "fresh" \/ x = n
    BY <1>0, <1>2 DEF Linked
  <2>4. \A x \in Node : heap[x] = "unlinked" =>
          heap'[x] = "unlinked" /\ mayhold'[x] = mayhold[x] /\ waits'[x] = waits[x]
    BY <1>0, <1>2, <1>3 DEF Linked
  <2> QED BY <2>1, <2>2, <2>3, <2>4, <1>0 DEF Spares, Shows
<1> QED BY <1>0, <1>2, <1>3, <1>7, <1>8, <1>9, <1>10, <1>11, <1>12, <1>13, <1>14, <1>15, <1>16, <1>17
        DEF ChainInv

(* Entry n is taken off: the readers may still stand on it.                *)
LEMMA TakesOffStep ==
  ASSUME ChainTypes, ChainInv, NEW n, TakesOff(n)
  PROVE  /\ ChainTypes' /\ ChainInv'
         /\ Linked' = Linked \ {n} /\ heap[n] = "linked" /\ heap'[n] = "unlinked"
         /\ mayhold'[n] \subseteq waits'[n]
         /\ \A t \in readers : MaySee(t)' = MaySee(t)
         /\ \A t, c, u : Spares(t, c, u)
<1> USE RcuListAssumption
<1> USE DEF list_del_rcu, Unlink, StartGracePeriod
<1>0. /\ n \in Linked /\ n \in Node
      /\ heap' = [heap EXCEPT ![n] = "unlinked"]
      /\ next' = [next EXCEPT ![prev[n]] = next[n]]
      /\ prev' = [prev EXCEPT ![next[n]] = prev[n], ![n] = POISON]
      /\ mayhold' = [mayhold EXCEPT ![n] = readers]
      /\ waits' = [waits EXCEPT ![n] = readers]
      /\ UNCHANGED <<readers, id>>
  BY DEF TakesOff, Linked
<1>1. /\ heap \in [Node -> Life] /\ id \in [Node -> Books]
      /\ next \in [Entry -> Entry] /\ prev \in [Entry -> Entry \cup {POISON}]
      /\ mayhold \in [Node -> SUBSET Thread] /\ waits \in [Node -> SUBSET Thread]
      /\ readers \subseteq Thread
  BY DEF ChainTypes, ListTypeOK
<1>2. /\ Linked' = Linked \ {n} /\ heap[n] = "linked" /\ heap'[n] = "unlinked"
      /\ \A x \in Node \ {n} : heap'[x] = heap[x]
      /\ mayhold'[n] = readers /\ \A x \in Node \ {n} : mayhold'[x] = mayhold[x]
      /\ waits'[n] = readers /\ \A x \in Node \ {n} : waits'[x] = waits[x]
  BY <1>0, <1>1 DEF Linked
<1>4. /\ next[n] \in Linked \cup {HEAD} /\ prev[n] \in Linked \cup {HEAD}
      /\ next[prev[n]] = n /\ prev[next[n]] = n
  BY <1>0 DEF ChainInv, ListWellFormed
<1>5. next[n] # n /\ prev[n] # n
  <2>1. id[n] \in Nat
    BY <1>0, <1>1 DEF Books
  <2>2. next[n] \in Linked => id[next[n]] < id[n]
    BY <1>0 DEF ChainInv, DescendInv
  <2> QED BY <2>1, <2>2, <1>0, <1>4
<1>6. /\ next'[prev[n]] = next[n]
      /\ \A e \in Entry \ {prev[n]} : next'[e] = next[e]
      /\ prev'[next[n]] = prev[n] /\ prev'[n] = POISON
      /\ \A e \in Entry \ {n, next[n]} : prev'[e] = prev[e]
  BY <1>0, <1>1, <1>4, <1>5 DEF Entry, Linked
<1>7. ChainTypes'
  BY <1>0, <1>1, <1>4 DEF ChainTypes, ListTypeOK, Life, Entry, Linked
<1>8. Seen' \subseteq Seen
  BY <1>0, <1>2 DEF Seen
<1>9. \A t \in readers : MaySee(t)' = MaySee(t)
  BY <1>0, <1>2 DEF MaySee, ChainInv, GraceInv, Linked
<1>10. ListWellFormed'
  <2> SUFFICES ASSUME NEW e \in (Linked \ {n}) \cup {HEAD}
               PROVE  /\ next'[e] \in (Linked \ {n}) \cup {HEAD}
                      /\ prev'[next'[e]] = e
                      /\ prev'[e] \in (Linked \ {n}) \cup {HEAD}
                      /\ next'[prev'[e]] = e
    BY <1>2 DEF ListWellFormed
  <2>1. e \in Entry /\ e # n /\ n \in Entry
    BY <1>0 DEF Entry, Linked
  <2>2. /\ next[e] \in Linked \cup {HEAD} /\ prev[next[e]] = e
        /\ prev[e] \in Linked \cup {HEAD} /\ next[prev[e]] = e
    BY DEF ChainInv, ListWellFormed
  <2>3. /\ next[e] \in Entry /\ prev[e] \in Entry
        /\ next[n] \in Entry /\ prev[n] \in Entry
    BY <2>2, <1>4 DEF Entry, Linked
  <2>4. next'[e] \in (Linked \ {n}) \cup {HEAD} /\ prev'[next'[e]] = e
    <3>1. CASE e = prev[n]
      BY <3>1, <2>1, <2>3, <1>4, <1>5, <1>6
    <3>2. CASE e # prev[n]
      <4>1. next'[e] = next[e] /\ next[e] # n /\ next[e] # next[n]
        BY <3>2, <2>1, <2>2, <1>4, <1>6
      <4> QED BY <4>1, <2>2, <2>3, <1>6
    <3> QED BY <3>1, <3>2
  <2>5. prev'[e] \in (Linked \ {n}) \cup {HEAD} /\ next'[prev'[e]] = e
    <3>1. CASE e = next[n]
      BY <3>1, <2>1, <2>3, <1>4, <1>5, <1>6
    <3>2. CASE e # next[n]
      <4>1. prev'[e] = prev[e] /\ prev[e] # n /\ prev[e] # prev[n]
        BY <3>2, <2>1, <2>2, <1>4, <1>6
      <4> QED BY <4>1, <2>2, <2>3, <1>6
    <3> QED BY <3>1, <3>2
  <2> QED BY <2>4, <2>5
<1>11. OneEntryPerBook'
  BY <1>0, <1>2 DEF ChainInv, OneEntryPerBook
<1>12. DescendInv'
  <2> SUFFICES ASSUME NEW x \in Linked', next'[x] \in Linked'
               PROVE  id[next'[x]] < id[x]
    BY <1>0 DEF DescendInv
  <2>1. x \in Linked /\ x \in Entry /\ x \in Node
    BY <1>2 DEF Entry, Linked
  <2>2. CASE x = prev[n]
    <3>1. id[n] < id[x] /\ next'[x] = next[n] /\ next[n] \in Linked
      BY <2>1, <2>2, <1>0, <1>2, <1>4, <1>6 DEF ChainInv, DescendInv
    <3>2. id[next[n]] < id[n]
      BY <3>1, <1>0 DEF ChainInv, DescendInv
    <3>3. id[x] \in Nat /\ id[n] \in Nat /\ id[next[n]] \in Nat
      BY <2>1, <3>1, <1>0, <1>1 DEF Books, Linked
    <3> QED BY <3>1, <3>2, <3>3
  <2>3. CASE x # prev[n]
    BY <2>1, <2>3, <1>2, <1>6 DEF ChainInv, DescendInv
  <2> QED BY <2>2, <2>3
<1>13. PoisonInv'
  <2> SUFFICES ASSUME NEW x \in Node, heap'[x] \in {"unlinked", "queued"}
               PROVE  prev'[x] = POISON
    BY DEF PoisonInv
  <2>1. CASE x = n
    BY <2>1, <1>6
  <2>2. CASE x # n
    <3>1. heap[x] \in {"unlinked", "queued"} /\ x \in Entry
      BY <2>2, <1>2 DEF Entry
    <3>2. prev[x] = POISON /\ x # next[n]
      BY <3>1, <1>4 DEF ChainInv, PoisonInv, Linked
    <3> QED BY <3>1, <3>2, <2>2, <1>6
  <2> QED BY <2>1, <2>2
<1>14. GraceInv'
  BY <1>0, <1>1, <1>2 DEF ChainInv, GraceInv, Linked
<1>15. ClosedInv'
  <2> SUFFICES ASSUME NEW t \in readers, NEW e \in MaySee(t)
               PROVE  next'[e] \in MaySee(t)
    BY <1>0, <1>9 DEF ClosedInv
  <2>1. \A f \in MaySee(t) : next[f] \in MaySee(t) /\ f \in Entry
    BY DEF ChainInv, ClosedInv, MaySee, Entry, Linked
  <2>2. n \in MaySee(t)
    BY <1>0 DEF MaySee
  <2> QED BY <2>1, <2>2, <1>6
<1>16. AheadInv'
  <2> SUFFICES ASSUME NEW e \in Seen', NEW x \in Linked', e = HEAD \/ id[x] < id[e]
               PROVE  next'[e] # HEAD /\ id[x] <= id[next'[e]]
    BY <1>0 DEF AheadInv
  <2>1. e \in Seen /\ x \in Linked /\ x # n /\ e \in Entry
    BY <1>2, <1>8, ChainFacts DEF Entry
  <2>2. next[e] # HEAD /\ id[x] <= id[next[e]]
    BY <2>1 DEF ChainInv, AheadInv
  <2>3. CASE e = prev[n]
    <3>1. id[x] # id[n] /\ id[x] <= id[n]
      BY <2>1, <2>2, <2>3, <1>0, <1>4 DEF ChainInv, OneEntryPerBook
    <3>2. id[x] \in Nat /\ id[n] \in Nat /\ n \in Seen
      BY <2>1, <1>0, <1>1 DEF Books, Linked, Seen
    <3>3. id[x] < id[n]
      BY <3>1, <3>2
    <3> QED BY <3>2, <3>3, <2>1, <2>3, <1>6 DEF ChainInv, AheadInv
  <2> QED BY <2>1, <2>2, <2>3, <1>6
<1>17. ASSUME NEW t, NEW c, NEW u
       PROVE  Spares(t, c, u)
  <2>1. \A r \in readers \ {t} : /\ MaySee(r) \subseteq MaySee(r)'
                                 /\ MaySee(r)' \subseteq MaySee(r) \cup Linked'
    BY <1>2, <1>9
  <2>2. \A x \in Node : heap[x] = "fresh" => heap'[x] = "fresh"
    BY <1>2
  <2>3. \A x \in Node : heap[x] = "unlinked" =>
          heap'[x] = "unlinked" /\ mayhold'[x] = mayhold[x] /\ waits'[x] = waits[x]
    BY <1>2
  <2> QED BY <2>1, <2>2, <2>3, <1>0 DEF Spares, Shows
<1> QED BY <1>2, <1>7, <1>9, <1>10, <1>11, <1>12, <1>13, <1>14, <1>15, <1>16, <1>17
        DEF ChainInv

(* Entry n with a greater id than all others comes first.                  *)
LEMMA AddsStep ==
  ASSUME ChainTypes, ChainInv, NEW n, NEW k, Adds(n, k)
  PROVE  /\ ChainTypes' /\ ChainInv'
         /\ Linked' = Linked \cup {n} /\ n \notin Linked /\ id'[n] = k
         /\ \A t, c, u : Spares(t, c, u)
<1> USE RcuListAssumption
<1> USE DEF list_add_rcu
<1>0. /\ n \in Node /\ heap[n] = "free" /\ readers = {}
      /\ k \in Books /\ \A x \in Linked : id[x] < k
      /\ heap' = [heap EXCEPT ![n] = "linked"]
      /\ id' = [id EXCEPT ![n] = k]
      /\ next' = [next EXCEPT ![n] = next[HEAD], ![HEAD] = n]
      /\ prev' = [prev EXCEPT ![n] = HEAD, ![next[HEAD]] = n]
      /\ UNCHANGED <<readers, waits, mayhold>>
  BY DEF Adds, Free
<1>1. /\ heap \in [Node -> Life] /\ id \in [Node -> Books]
      /\ next \in [Entry -> Entry] /\ prev \in [Entry -> Entry \cup {POISON}]
  BY DEF ChainTypes, ListTypeOK
<1>2. /\ Linked' = Linked \cup {n} /\ n \notin Linked /\ n # HEAD
      /\ \A x \in Node \ {n} : heap'[x] = heap[x] /\ id'[x] = id[x]
      /\ id'[n] = k
  BY <1>0, <1>1 DEF Linked
<1>3. /\ next[HEAD] \in Linked \cup {HEAD} /\ next'[n] = next[HEAD] /\ next'[HEAD] = n
      /\ \A e \in Entry \ {n, HEAD} : next'[e] = next[e]
      /\ prev'[n] = HEAD /\ prev'[next[HEAD]] = n
      /\ \A e \in Entry \ {n, next[HEAD]} : prev'[e] = prev[e]
  BY <1>0, <1>1, <1>2 DEF Entry, Linked, ChainInv, ListWellFormed
<1>4. /\ \A x \in Node : mayhold[x] = {}
      /\ Seen = Linked \cup {HEAD} /\ Seen' = Linked' \cup {HEAD}
  BY <1>0 DEF ChainInv, GraceInv, Seen
<1>5. ChainTypes'
  BY <1>0, <1>1, <1>3 DEF ChainTypes, ListTypeOK, Life, Entry, Linked
<1>6. ListWellFormed'
  BY <1>0, <1>1, <1>2, <1>3 DEF ChainInv, ListWellFormed, Entry, Linked
<1>7. /\ \A x \in Linked : x \in Node /\ id'[x] = id[x] /\ id[x] < k /\ id[x] \in Nat
      /\ k \in Nat
  BY <1>0, <1>1, <1>2 DEF Linked, Books
<1>8. OneEntryPerBook'
  BY <1>2, <1>7 DEF ChainInv, OneEntryPerBook
<1>9. DescendInv'
  BY <1>2, <1>3, <1>7 DEF ChainInv, DescendInv, ListWellFormed, Entry
<1>10. PoisonInv'
  <2> SUFFICES ASSUME NEW x \in Node, heap'[x] \in {"unlinked", "queued"}
               PROVE  prev'[x] = POISON
    BY DEF PoisonInv
  <2>1. x # n /\ heap[x] \in {"unlinked", "queued"} /\ x \in Entry
    BY <1>0, <1>1 DEF Entry
  <2>2. prev[x] = POISON /\ x # next[HEAD]
    BY <2>1, <1>3 DEF ChainInv, PoisonInv, Linked
  <2> QED BY <2>1, <2>2, <1>3
<1>11. GraceInv' /\ ClosedInv'
  BY <1>0, <1>1, <1>2, <1>4 DEF ChainInv, GraceInv, ClosedInv
<1>12. AheadInv'
  <2> SUFFICES ASSUME NEW e \in Linked' \cup {HEAD}, NEW x \in Linked',
                      e = HEAD \/ id'[x] < id'[e]
               PROVE  next'[e] # HEAD /\ id'[x] <= id'[next'[e]]
    BY <1>4 DEF AheadInv
  <2>1. id'[x] <= k
    BY <1>2, <1>7
  <2>2. CASE e = HEAD
    BY <1>2, <1>3, <2>1, <2>2
  <2>3. CASE e # HEAD
    <3>1. /\ x \in Linked
          /\ e \in Linked => id[x] < id[e]
      BY <1>2, <1>7, <2>1, <2>3
    <3>2. ASSUME NEW f \in Linked \cup {HEAD}, f = HEAD \/ id[x] < id[f]
          PROVE  next[f] \in Linked /\ id[x] <= id[next[f]]
      BY <3>1, <3>2, <1>4 DEF ChainInv, AheadInv, ListWellFormed
    <3>3. CASE e = n
      BY <3>1, <3>2, <3>3, <1>3, <1>7, <1>2
    <3>4. CASE e \in Linked
      <4>1. next'[e] = next[e]
        BY <3>4, <2>3, <1>2, <1>3 DEF Entry, Linked
      <4> QED BY <4>1, <3>1, <3>2, <3>4, <1>7, <1>2
    <3> QED BY <3>3, <3>4, <1>2, <2>3
  <2> QED BY <2>2, <2>3
<1>13. ASSUME NEW t, NEW c, NEW u
       PROVE  Spares(t, c, u)
  <2>1. \A x \in Node \cap Seen : id'[x] = id[x]
    BY <1>4, <1>7
  <2>2. \A x \in Node : /\ heap[x] = "fresh" => heap'[x] = "fresh"
                        /\ heap[x] = "unlinked" => heap'[x] = "unlinked"
    BY <1>0, <1>1
  <2> QED BY <2>1, <2>2, <1>0 DEF Spares, Shows
<1> QED BY <1>2, <1>5, <1>6, <1>8, <1>9, <1>10, <1>11, <1>12, <1>13 DEF ChainInv

-----------------------------------------------------------------------------
(***************************************************************************)
(* The threads.                                                            *)
(***************************************************************************)
(* A student walks as a reader, has found the entry, is about to replace   *)
(* it, has replaced it.                                                    *)
Walking == {"borrow_next", "return_next"}
Copying == {"borrow_copy", "return_copy"}
Swapping == {"borrow_swap", "return_swap"}
Replaced == {"borrow_unlock", "return_unlock"} \cup Retiring
InSection ==
  Reading \cup Walking \cup Copying \cup Swapping \cup {"borrow_unlock", "return_unlock"}

(* TypeOK, with the points that only this version has.                     *)
CrashTypes ==
  /\ ChainTypes
  /\ borrow \in [Node -> {0, 1}]
  /\ pc \in [Thread -> WorkerPC \cup LoaderPC \cup InSection]
  /\ book \in [Thread -> Books]
  /\ cur \in [Thread -> Entry] /\ new \in [Thread -> Entry]

(* What a manager or a student has at each point.                          *)
WorkerInv(t) ==
  /\ t \in readers <=> pc[t] \in InSection
  /\ pc[t] \in InSection => cur[t] \in MaySee(t)
  /\ pc[t] \in Copying \cup Swapping => cur[t] # HEAD /\ id[cur[t]] = book[t]
  /\ pc[t] \in Swapping => new[t] \in Node /\ heap[new[t]] = "fresh"
  /\ pc[t] \in Replaced => cur[t] \in Node /\ heap[cur[t]] = "unlinked"
  /\ pc[t] \notin InSection \cup Retiring => cur[t] = HEAD

(* Nobody else has the copy that a student is about to publish, or the     *)
(* entry that it took off the list.                                        *)
OwnInv ==
  \A t \in Workers :
    /\ pc[t] \in Swapping =>
         \A u \in Workers : pc[u] \in Swapping /\ new[u] = new[t] => u = t
    /\ pc[t] \in Replaced =>
         /\ \A u \in Workers : pc[u] \in Replaced /\ cur[u] = cur[t] => u = t
         /\ cur[Loader] # cur[t]

(* The books are added before the threads exist.                           *)
AddingInv ==
  pc[Loader] = "add" => /\ \A t \in Workers : pc[t] = "none"
                        /\ \A n \in Linked : id[n] < book[Loader]

(* The inductive invariant of this version.                                *)
CrashInv ==
  /\ CrashTypes /\ ChainInv /\ readers \subseteq Workers
  /\ \A t \in Workers : WorkerInv(t)
  /\ OwnInv /\ LoaderInv /\ AddingInv

-----------------------------------------------------------------------------
(* Before insmod.                                                          *)
LEMMA InitCrash == Init => CrashInv
<1> SUFFICES ASSUME Init
             PROVE  CrashInv
  OBVIOUS
<1> USE RcuListAssumption, KylinRcuAssumption
<1> USE DEF Init, ListInit
<1>1. Linked = {} /\ Seen = {HEAD}
  BY DEF Linked, Seen
<1>2. ChainTypes
  BY ZeroBook DEF ChainTypes, ListTypeOK, Life, Entry
<1>3. CrashTypes
  <2>1. pc \in [Thread -> WorkerPC \cup LoaderPC \cup InSection]
    BY DEF WorkerPC, LoaderPC
  <2> QED BY <1>2, <2>1, ZeroBook DEF CrashTypes, Entry
<1>4. ChainInv
  BY <1>1 DEF ChainInv, ListWellFormed, OneEntryPerBook, DescendInv, PoisonInv,
     GraceInv, ClosedInv, AheadInv, Entry
<1>5. \A t \in Workers : pc[t] = "none" /\ cur[t] = HEAD
  BY DEF Workers
<1>6. \A t \in Workers : WorkerInv(t)
  BY <1>5 DEF WorkerInv, InSection, Reading, Walking, Copying, Swapping, Replaced, Retiring
<1>7. OwnInv
  BY <1>5 DEF OwnInv, Swapping, Replaced, Retiring
<1>8. LoaderInv /\ AddingInv
  BY <1>1, <1>5 DEF LoaderInv, AddingInv
<1> QED BY <1>3, <1>4, <1>6, <1>7, <1>8 DEF CrashInv

(* What CrashInv says of a worker.                                         *)
LEMMA WorkerFacts ==
  ASSUME CrashInv, NEW t \in Workers
  PROVE  /\ t \in Thread /\ t # Loader /\ WorkerInv(t)
         /\ MaySee(t) \subseteq Seen
         /\ \A e \in Seen : e = HEAD \/ e \in Node
         /\ pc[t] \in InSection => cur[t] \in Seen
         /\ CrashTypes /\ ChainTypes /\ ChainInv
BY KylinRcuAssumption, ChainFacts DEF CrashInv, CrashTypes, Workers, WorkerInv

(* Thread v makes no step.                                                 *)
Stays(v) ==
  pc'[v] = pc[v] /\ cur'[v] = cur[v] /\ book'[v] = book[v] /\ new'[v] = new[v]

(* A step of thread t that changes neither what is on the list nor a flag  *)
(* that anybody may read.                                                  *)
Quiet(t) ==
  /\ Shows(t) /\ Linked' = Linked
  /\ \A n \in Node \cap Seen : borrow'[n] = borrow[n]
  /\ \A v \in Workers \ {t} : Stays(v)

(* A worker that makes no step keeps what it has.                          *)
LEMMA OtherKept ==
  ASSUME CrashInv, NEW t, NEW c, NEW u, Spares(t, c, u),
         NEW v \in Workers, v # t, Stays(v),
         pc[v] \in Swapping => new[v] # c,
         pc[v] \in Replaced => cur[v] # u
  PROVE  WorkerInv(v)'
<1>1. /\ WorkerInv(v) /\ (pc[v] \in InSection => cur[v] \in Seen)
      /\ \A e \in Seen : e = HEAD \/ e \in Node
  BY WorkerFacts
<1>2. v \in readers' <=> v \in readers
  BY DEF Spares, Shows
<1>3. pc[v] \in InSection => cur[v] \in MaySee(v)'
  BY <1>1 DEF Spares, Shows, WorkerInv
<1>4. /\ pc[v] \in Copying \cup Swapping => id'[cur[v]] = book[v]
      /\ pc[v] \in Swapping => heap'[new[v]] = "fresh"
  <2>1. pc[v] \in Copying \cup Swapping => cur[v] \in Node \cap Seen
    BY <1>1 DEF WorkerInv, InSection
  <2> QED BY <1>1, <2>1 DEF Spares, Shows, WorkerInv
<1>5. pc[v] \in Replaced => heap'[cur[v]] = "unlinked"
  BY <1>1 DEF Spares, Shows, WorkerInv
<1> QED BY <1>1, <1>2, <1>3, <1>4, <1>5 DEF Stays, WorkerInv

(* A step of one worker: what it lets go was its own, and what it takes    *)
(* was nobody's.                                                           *)
LEMMA WorkerStep ==
  ASSUME CrashInv, CrashTypes', ChainInv',
         NEW t \in Workers, pc[t] # "none", WorkerInv(t)',
         \A v \in Thread \ {t} : Stays(v),
         NEW c, NEW u, Spares(t, c, u),
         c = HEAD \/ (pc[t] \in Swapping /\ c = new[t]),
         u = HEAD \/ (pc[t] \in Replaced /\ u = cur[t]),
         pc'[t] \in Swapping =>
           (pc[t] \in Swapping /\ new'[t] = new[t]) \/ heap[new'[t]] # "fresh",
         pc'[t] \in Replaced =>
           (pc[t] \in Replaced /\ cur'[t] = cur[t]) \/ heap[cur'[t]] # "unlinked"
  PROVE  CrashInv'
<1> USE RcuListAssumption, KylinRcuAssumption
<1>1. /\ \A v \in Workers : WorkerInv(v)
      /\ OwnInv /\ LoaderInv /\ AddingInv /\ readers \subseteq Workers
  BY DEF CrashInv
<1>2. \A v \in Workers : v \in Thread /\ v # Loader
  BY DEF Workers
<1>3. Stays(Loader) /\ \A v \in Workers \ {t} : Stays(v)
  BY <1>2
<1>4. /\ \A v \in Workers : pc[v] \in Swapping => new[v] \in Node /\ heap[new[v]] = "fresh"
      /\ \A v \in Workers : pc[v] \in Replaced => cur[v] \in Node /\ heap[cur[v]] = "unlinked"
  BY <1>1 DEF WorkerInv
<1>5. ASSUME NEW v \in Workers \ {t}
      PROVE  /\ pc[v] \in Swapping => new[v] # c
             /\ pc[v] \in Replaced => cur[v] # u
  BY <1>1, <1>4 DEF OwnInv
<1>6. ASSUME NEW v \in Workers
      PROVE  WorkerInv(v)'
  BY <1>3, <1>5, OtherKept
<1>7. OwnInv'
  <2>1. ASSUME NEW v \in Workers, pc'[v] \in Swapping,
               NEW w \in Workers, pc'[w] \in Swapping, new'[w] = new'[v]
        PROVE  w = v
    BY <2>1, <1>1, <1>3, <1>4 DEF OwnInv, Stays
  <2>2. ASSUME NEW v \in Workers, pc'[v] \in Replaced,
               NEW w \in Workers, pc'[w] \in Replaced, cur'[w] = cur'[v]
        PROVE  w = v
    BY <2>2, <1>1, <1>3, <1>4 DEF OwnInv, Stays
  <2>3. ASSUME NEW v \in Workers, pc'[v] \in Replaced
        PROVE  cur'[Loader] # cur'[v]
    <3>1. cur'[Loader] = cur[Loader]
      BY <1>3 DEF Stays
    <3>2. CASE v # t
      BY <2>3, <3>1, <3>2, <1>1, <1>3 DEF OwnInv, Stays
    <3>3. CASE v = t /\ pc[t] \in Replaced /\ cur'[t] = cur[t]
      BY <3>1, <3>3, <1>1 DEF OwnInv
    <3>4. CASE v = t /\ heap[cur'[t]] # "unlinked"
      <4>1. cur'[t] \in Node
        BY <2>3, <3>4 DEF WorkerInv
      <4> QED BY <3>1, <3>4, <4>1, <1>1 DEF LoaderInv
    <3> QED BY <2>3, <3>2, <3>3, <3>4
  <2> QED BY <2>1, <2>2, <2>3 DEF OwnInv
<1>8. LoaderInv'
  <2>1. pc'[Loader] = pc[Loader] /\ cur'[Loader] = cur[Loader]
    BY <1>3 DEF Stays
  <2>2. CASE pc[Loader] = "synchronize_rcu"
    <3>1. /\ cur[Loader] \in Node /\ heap[cur[Loader]] = "unlinked"
          /\ mayhold[cur[Loader]] \subseteq waits[cur[Loader]]
      BY <2>2, <1>1 DEF LoaderInv
    <3>2. cur[Loader] # u
      BY <3>1, <1>1 DEF OwnInv
    <3> QED BY <2>1, <2>2, <3>1, <3>2 DEF LoaderInv, Spares, Shows
  <2> QED BY <2>1, <2>2, <1>1 DEF LoaderInv
<1>9. AddingInv'
  <2>1. pc'[Loader] # "add"
    BY <1>1, <1>3 DEF AddingInv, Stays
  <2> QED BY <2>1 DEF AddingInv
<1>10. readers' \subseteq Workers
  BY <1>1 DEF Spares, Shows
<1> QED BY <1>6, <1>7, <1>8, <1>9, <1>10 DEF CrashInv

(* A step of the loader, or a callback, which frees entry u.               *)
LEMMA LoaderCrashStep ==
  ASSUME CrashInv, CrashTypes', ChainInv',
         readers' = readers, \A v \in Workers : Stays(v),
         NEW u, Spares(Loader, HEAD, u),
         \A v \in Workers : pc[v] \in Replaced => cur[v] # u /\ cur'[Loader] # cur[v],
         LoaderInv', AddingInv'
  PROVE  CrashInv'
<1> USE RcuListAssumption, KylinRcuAssumption
<1>1. /\ \A v \in Workers : WorkerInv(v)
      /\ OwnInv /\ readers \subseteq Workers
  BY DEF CrashInv
<1>2. ASSUME NEW v \in Workers
      PROVE  WorkerInv(v)'
  <2>1. v # Loader
    BY DEF Workers
  <2>2. pc[v] \in Swapping => new[v] # HEAD
    BY <1>1 DEF WorkerInv
  <2> QED BY <2>1, <2>2, OtherKept
<1>3. OwnInv'
  BY <1>1 DEF OwnInv, Stays
<1> QED BY <1>1, <1>2, <1>3 DEF CrashInv

-----------------------------------------------------------------------------
(* Steps of a worker that leave the list and its section as they are.      *)
LEMMA WalkCrashStep ==
  ASSUME CrashInv, NEW t \in Workers,
         \/ t \in Managers /\ (ManagerLoop(t) \/ ReadNext(t) \/ ReadOther(t) \/ ReadFound(t))
         \/ /\ t \in Students
            /\ \/ CrashStudentLoop(t) \/ LookupNext(t)
               \/ LookupFound(t, 0, "borrow_next", "borrow_copy")
               \/ LookupFound(t, 1, "return_next", "return_copy")
  PROVE  CrashInv' /\ Quiet(t) /\ MaySee(t)' = MaySee(t)
<1> USE RcuListAssumption, KylinRcuAssumption
<1>1. /\ t \in Thread /\ t # Loader /\ WorkerInv(t) /\ CrashTypes /\ ChainTypes /\ ChainInv
  BY WorkerFacts
<1>2. /\ UNCHANGED <<listvars, bookvars, new>>
      /\ \A v \in Thread \ {t} : Stays(v)
      /\ pc[t] \in {"loop", "next", "test"} \cup Walking
      /\ pc' \in [Thread -> WorkerPC \cup LoaderPC \cup InSection]
      /\ book' \in [Thread -> Books] /\ cur' \in [Thread -> Entry]
  <2>1. cur[t] \in Entry => next[cur[t]] \in Entry
    BY <1>1 DEF ChainTypes, ListTypeOK
  <2>2. CASE ManagerLoop(t) \/ CrashStudentLoop(t)
    BY <1>1, <2>2, ZeroBook DEF ManagerLoop, CrashStudentLoop, StudentLoop, Goto, CrashTypes,
       WorkerPC, Stays
  <2>3. CASE ReadNext(t) \/ ReadOther(t) \/ ReadFound(t)
    BY <1>1, <2>1, <2>3 DEF ReadNext, ReadOther, ReadFound, Goto, CrashTypes, WorkerPC, Stays
  <2>4. CASE LookupNext(t)
    BY <1>1, <2>1, <2>4 DEF LookupNext, CrashTypes, Stays, Walking
  <2>5. CASE \/ LookupFound(t, 0, "borrow_next", "borrow_copy")
             \/ LookupFound(t, 1, "return_next", "return_copy")
    BY <1>1, <2>1, <2>5 DEF LookupFound, Goto, CrashTypes, InSection, Copying, Stays, Walking
  <2> QED BY <2>2, <2>3, <2>4, <2>5
<1>3. /\ ChainTypes' /\ ChainInv' /\ MaySee(t)' = MaySee(t)
      /\ Spares(t, HEAD, HEAD)
  <2>1. Idle
    BY <1>2 DEF Idle, bookvars
  <2> QED BY <1>1, <2>1, IdleStep
<1>4. CrashTypes'
  BY <1>1, <1>2, <1>3 DEF CrashTypes, bookvars
<1>5. WorkerInv(t)'
  <2>1. /\ pc[t] \in InSection => next[cur[t]] \in MaySee(t)
        /\ readers' = readers
    BY <1>1, <1>2 DEF WorkerInv, ChainInv, ClosedInv, listvars
  <2>2. CASE ManagerLoop(t) \/ CrashStudentLoop(t)
    <3>1. pc[t] = "loop" /\ pc'[t] \in {"off", "print_book", "borrow_book"} /\ cur'[t] = cur[t]
      BY <1>1, <2>2 DEF ManagerLoop, CrashStudentLoop, StudentLoop, Goto, CrashTypes
    <3> QED BY <3>1, <1>1, <2>1
            DEF WorkerInv, InSection, Reading, Walking, Copying, Swapping, Replaced, Retiring
  <2>3. CASE ReadNext(t) \/ ReadOther(t) \/ ReadFound(t)
    <3>1. /\ pc[t] \in Reading /\ pc'[t] \in Reading /\ cur'[t] \in {cur[t], next[cur[t]]}
      BY <1>1, <2>3 DEF ReadNext, ReadOther, ReadFound, Goto, CrashTypes, Reading
    <3> QED BY <3>1, <1>1, <1>3, <2>1
            DEF WorkerInv, InSection, Reading, Walking, Copying, Swapping, Replaced, Retiring
  <2>4. CASE LookupNext(t)
    <3>1. /\ pc[t] \in Walking /\ pc'[t] \in Walking /\ cur'[t] = next[cur[t]]
      BY <1>1, <2>4 DEF LookupNext, CrashTypes, Walking
    <3> QED BY <3>1, <1>1, <1>3, <2>1
            DEF WorkerInv, InSection, Reading, Walking, Copying, Swapping, Replaced, Retiring
  <2>5. CASE \/ LookupFound(t, 0, "borrow_next", "borrow_copy")
             \/ LookupFound(t, 1, "return_next", "return_copy")
    <3>1. /\ pc[t] \in Walking /\ pc'[t] \in Copying /\ cur'[t] = next[cur[t]]
          /\ next[cur[t]] # HEAD /\ id[next[cur[t]]] = book[t] /\ book' = book
      BY <1>1, <2>5 DEF LookupFound, Goto, CrashTypes, Walking, Copying
    <3>2. id' = id
      BY <1>2 DEF bookvars
    <3> QED BY <3>1, <3>2, <1>1, <1>3, <2>1
            DEF WorkerInv, InSection, Reading, Walking, Copying, Swapping, Replaced, Retiring
  <2> QED BY <2>2, <2>3, <2>4, <2>5
<1>6. pc'[t] \notin Swapping \cup Replaced /\ pc[t] # "none"
  BY <1>1, <1>2 DEF ManagerLoop, CrashStudentLoop, StudentLoop, ReadNext, ReadOther, ReadFound,
     LookupNext, LookupFound, Goto, CrashTypes, Walking, Swapping, Replaced, Retiring
<1>7. Quiet(t)
  BY <1>2, <1>3, WorkerFacts DEF Quiet, Spares, bookvars, listvars, Linked
<1> QED BY <1>7, <1>2, <1>3, <1>4, <1>5, <1>6, WorkerStep

(* rcu_read_lock.                                                          *)
LEMMA EnterCrashStep ==
  ASSUME CrashInv, NEW t \in Workers,
         \/ t \in Managers /\ ReadLock(t)
         \/ t \in Students /\ LookupLock(t)
  PROVE  CrashInv' /\ Quiet(t) /\ MaySee(t)' = Linked \cup {HEAD} /\ cur'[t] = HEAD
<1> USE RcuListAssumption, KylinRcuAssumption
<1>1. /\ t \in Thread /\ t # Loader /\ WorkerInv(t) /\ CrashTypes /\ ChainTypes /\ ChainInv
  BY WorkerFacts
<1>2. /\ rcu_read_lock(t)
      /\ UNCHANGED <<heap, next, prev, waits, mayhold, bookvars, book, new>>
      /\ \A v \in Thread \ {t} : Stays(v)
      /\ pc[t] \in {"print_book", "borrow_book", "reading"} /\ pc'[t] \in {"next"} \cup Walking
      /\ cur'[t] = HEAD
      /\ pc' \in [Thread -> WorkerPC \cup LoaderPC \cup InSection]
      /\ cur' \in [Thread -> Entry]
  <2>1. CASE ReadLock(t)
    BY <1>1, <2>1 DEF ReadLock, Goto, CrashTypes, WorkerPC, Stays, Entry
  <2>2. CASE LookupLock(t)
    <3>1. cur[t] = HEAD
      BY <1>1, <2>2 DEF LookupLock, Goto, WorkerInv, InSection, Reading, Walking, Copying, Swapping, Retiring
    <3> QED BY <1>1, <2>2, <3>1 DEF LookupLock, Goto, CrashTypes, InSection, Walking, Stays
  <2> QED BY <2>1, <2>2
<1>3. Enters(t)
  BY <1>1, <1>2 DEF Enters, bookvars, WorkerInv, InSection, Reading, Walking, Copying, Swapping
<1>4. /\ ChainTypes' /\ ChainInv' /\ Linked' = Linked /\ readers' = readers \cup {t}
      /\ MaySee(t)' = Linked \cup {HEAD} /\ Spares(t, HEAD, HEAD)
  BY <1>1, <1>3, EntersStep
<1>5. CrashTypes'
  BY <1>1, <1>2, <1>4 DEF CrashTypes, bookvars
<1>6. WorkerInv(t)'
  BY <1>2, <1>4 DEF WorkerInv, InSection, Reading, Walking, Copying, Swapping, Replaced, Retiring
<1>7. pc'[t] \notin Swapping \cup Replaced /\ pc[t] # "none"
  BY <1>2 DEF Walking, Swapping, Replaced, Retiring
<1>8. Quiet(t)
  BY <1>2, <1>4, WorkerFacts DEF Quiet, Spares, bookvars
<1> QED BY <1>8, <1>2, <1>4, <1>5, <1>6, <1>7, WorkerStep

(* rcu_read_unlock, also of a thread that is killed.                       *)
LEMMA LeaveCrashStep ==
  ASSUME CrashInv, NEW t \in Workers,
         \/ t \in Managers /\ ReadUnlock(t)
         \/ /\ t \in Students
            /\ \/ LookupFailed(t, 0, "borrow_next") \/ LookupFailed(t, 1, "return_next")
               \/ NoMemory(t, "borrow_copy") \/ NoMemory(t, "return_copy")
               \/ \E from \in Swapping : Fault(t, from, "oops")
               \/ SwapUnlock(t)
  PROVE  CrashInv' /\ Quiet(t)
<1> USE RcuListAssumption, KylinRcuAssumption
<1>1. /\ t \in Thread /\ t # Loader /\ WorkerInv(t) /\ CrashTypes /\ ChainTypes /\ ChainInv
  BY WorkerFacts
<1> DEFINE Out ==
      /\ rcu_read_unlock(t)
      /\ UNCHANGED <<heap, next, prev, bookvars, new>>
      /\ \A v \in Thread \ {t} : Stays(v)
      /\ \/ cur'[t] = HEAD /\ pc'[t] \in {"loop", "print_book", "oops"}
            /\ pc[t] \in InSection
         \/ cur'[t] = cur[t] /\ pc'[t] \in Retiring
            /\ pc[t] \in {"borrow_unlock", "return_unlock"}
      /\ pc' \in [Thread -> WorkerPC \cup LoaderPC \cup InSection]
      /\ cur' \in [Thread -> Entry] /\ book' \in [Thread -> Books]
<1>2. Out
  <2>1. CASE ReadUnlock(t)
    <3>1. NextBook(book[t]) \in Books
      BY <1>1, NextBookFacts DEF CrashTypes
    <3> QED BY <1>1, <2>1, <3>1 DEF ReadUnlock, CrashTypes, WorkerPC, Stays, Entry, InSection, Reading
  <2>2. ASSUME NEW from \in Walking \cup Copying, GiveUp(t, from, "loop")
        PROVE  Out
    BY <1>1, <2>2 DEF GiveUp, Goto, CrashTypes, WorkerPC, Stays, Entry, InSection
  <2>3. ASSUME NEW from \in Swapping, Fault(t, from, "oops")
        PROVE  Out
    BY <1>1, <2>3 DEF Fault, Goto, CrashTypes, LoaderPC, Stays, Entry, InSection
  <2>4. CASE SwapUnlock(t)
    BY <1>1, <2>4 DEF SwapUnlock, Goto, CrashTypes, WorkerPC, Stays, Retiring
  <2> HIDE DEF Out
  <2> QED BY <2>1, <2>2, <2>3, <2>4 DEF LookupFailed, NoMemory, Walking, Copying
<1>3. Leaves(t)
  BY <1>1, <1>2 DEF Leaves, bookvars
<1>4. /\ ChainTypes' /\ ChainInv' /\ Linked' = Linked /\ readers' = readers \ {t}
      /\ Spares(t, HEAD, HEAD)
  BY <1>1, <1>3, LeavesStep
<1>5. CrashTypes'
  BY <1>1, <1>2, <1>4 DEF CrashTypes, bookvars
<1>6. WorkerInv(t)'
  BY <1>1, <1>2, <1>4 DEF WorkerInv, InSection, Reading, Walking, Copying, Swapping, Replaced, Retiring
<1>7. /\ pc'[t] \notin Swapping /\ pc[t] # "none"
      /\ pc'[t] \in Replaced => pc[t] \in Replaced /\ cur'[t] = cur[t]
  BY <1>2 DEF Walking, InSection, Reading, Copying, Swapping, Replaced, Retiring
<1>8. Quiet(t)
  BY <1>2, <1>4, WorkerFacts DEF Quiet, Spares, bookvars
<1> QED BY <1>8, <1>2, <1>4, <1>5, <1>6, <1>7, WorkerStep

(* kzalloc gives the copy.                                                 *)
LEMMA CopyCrashStep ==
  ASSUME CrashInv, NEW s \in Students,
         \/ CopyBook(s, "borrow_copy", "borrow_swap")
         \/ CopyBook(s, "return_copy", "return_swap")
  PROVE  CrashInv' /\ Quiet(s) /\ MaySee(s)' = MaySee(s)
<1> USE RcuListAssumption, KylinRcuAssumption
<1>0. s \in Workers
  BY DEF Workers
<1>1. /\ s \in Thread /\ s # Loader /\ WorkerInv(s) /\ CrashTypes /\ ChainTypes /\ ChainInv
  BY <1>0, WorkerFacts
<1>2. PICK c \in Node : kzalloc(c) /\ new' = [new EXCEPT ![s] = c]
  BY DEF CopyBook
<1>3. /\ UNCHANGED <<next, prev, readers, waits, mayhold, bookvars, book, cur>>
      /\ \A v \in Thread \ {s} : Stays(v)
      /\ pc[s] \in Copying /\ pc'[s] \in Swapping
      /\ pc' \in [Thread -> WorkerPC \cup LoaderPC \cup InSection]
  BY <1>1, <1>2 DEF CopyBook, Goto, CrashTypes, Stays, Copying, Swapping, InSection
<1>4. /\ ChainTypes' /\ ChainInv' /\ Linked' = Linked /\ MaySee(s)' = MaySee(s)
      /\ heap[c] = "free" /\ heap'[c] = "fresh" /\ Spares(s, HEAD, HEAD)
  BY <1>1, <1>2, <1>3, AllocatesStep DEF Allocates, bookvars
<1>5. new'[s] = c /\ new' \in [Thread -> Entry]
  BY <1>1, <1>2 DEF CrashTypes, Entry
<1>6. CrashTypes'
  BY <1>1, <1>3, <1>4, <1>5 DEF CrashTypes, bookvars
<1>7. WorkerInv(s)'
  BY <1>1, <1>3, <1>4, <1>5
     DEF WorkerInv, InSection, Reading, Walking, Copying, Swapping, Replaced, Retiring, bookvars
<1>8. /\ pc'[s] \notin Replaced /\ pc[s] # "none"
      /\ heap[new'[s]] # "fresh"
  BY <1>3, <1>4, <1>5 DEF Copying, Swapping, Replaced, Retiring
<1>9. Quiet(s)
  BY <1>3, <1>4, WorkerFacts DEF Quiet, Spares, bookvars
<1> QED BY <1>9, <1>0, <1>3, <1>4, <1>6, <1>7, <1>8, WorkerStep

(* Of the entries that a reader may find, those that are off the list have *)
(* lost their prev.                                                        *)
LEMMA OffTheList ==
  ASSUME CrashInv, NEW t \in Workers, pc[t] \in Swapping, cur[t] \notin Linked
  PROVE  prev[cur[t]] = POISON
<1>1. /\ cur[t] \in MaySee(t) /\ cur[t] # HEAD /\ ChainInv
  BY WorkerFacts DEF WorkerInv, InSection
<1>2. cur[t] \in Node /\ heap[cur[t]] \in {"unlinked", "queued"}
  BY <1>1 DEF MaySee, ChainInv, GraceInv
<1> QED BY <1>1, <1>2 DEF ChainInv, PoisonInv

(* A swap, in terms of the list.                                           *)
LEMMA SwapIs ==
  ASSUME CrashInv, NEW s \in Students,
         \/ Swap(s, 1, "borrow_swap", "borrow_unlock")
         \/ Swap(s, 0, "return_swap", "return_unlock")
  PROVE  /\ Swaps(cur[s], new[s]) /\ id[cur[s]] = book[s]
         /\ pc[s] \in Swapping /\ pc'[s] \in {"borrow_unlock", "return_unlock"}
         /\ pc'[s] = "borrow_unlock" <=> pc[s] = "borrow_swap"
         /\ \A v \in Thread \ {s} : Stays(v)
         /\ borrow' = [borrow EXCEPT ![new[s]] = IF pc[s] = "borrow_swap" THEN 1 ELSE 0]
         /\ cur' = cur /\ book' = book /\ new' = [new EXCEPT ![s] = HEAD]
         /\ pc' \in [Thread -> WorkerPC \cup LoaderPC \cup InSection]
<1> USE RcuListAssumption, KylinRcuAssumption
<1>0. s \in Workers
  BY DEF Workers
<1>1. /\ s \in Thread /\ WorkerInv(s) /\ CrashTypes
  BY <1>0, WorkerFacts
<1>2. /\ pc[s] \in Swapping /\ prev[cur[s]] # POISON
      /\ heap' = [heap EXCEPT ![cur[s]] = "unlinked", ![new[s]] = "linked"]
      /\ id' = [id EXCEPT ![new[s]] = id[cur[s]]]
      /\ list_replace_rcu(cur[s], new[s]) /\ Unlink(cur[s])
      /\ UNCHANGED <<readers, waits, book, cur>> /\ new' = [new EXCEPT ![s] = HEAD]
  BY DEF Swap, Publish, Goto, Swapping
<1>3. cur[s] \in Linked
  BY <1>0, <1>2, OffTheList
<1>4. Swaps(cur[s], new[s]) /\ id[cur[s]] = book[s]
  BY <1>1, <1>2, <1>3 DEF Swaps, WorkerInv
<1>5. /\ pc'[s] \in {"borrow_unlock", "return_unlock"}
      /\ pc'[s] = "borrow_unlock" <=> pc[s] = "borrow_swap"
      /\ \A v \in Thread \ {s} : pc'[v] = pc[v]
      /\ pc' \in [Thread -> WorkerPC \cup LoaderPC \cup InSection]
      /\ borrow' = [borrow EXCEPT ![new[s]] = IF pc[s] = "borrow_swap" THEN 1 ELSE 0]
  BY <1>1 DEF Swap, Publish, Goto, CrashTypes, InSection
<1>6. \A v \in Thread \ {s} : Stays(v)
  BY <1>1, <1>2, <1>5 DEF Stays, CrashTypes
<1> QED BY <1>2, <1>4, <1>5, <1>6

(* list_replace_rcu, of an entry that is still on the list.                *)
LEMMA SwapCrashStep ==
  ASSUME CrashInv, NEW s \in Students,
         \/ Swap(s, 1, "borrow_swap", "borrow_unlock")
         \/ Swap(s, 0, "return_swap", "return_unlock")
  PROVE  CrashInv'
<1> USE RcuListAssumption, KylinRcuAssumption
<1> DEFINE o == cur[s]
           n == new[s]
<1>0. s \in Workers
  BY DEF Workers
<1>1. /\ s \in Thread /\ s # Loader /\ WorkerInv(s) /\ CrashTypes /\ ChainTypes /\ ChainInv
  BY <1>0, WorkerFacts
<1>2. /\ Swaps(o, n) /\ id[o] = book[s]
      /\ pc[s] \in Swapping /\ pc'[s] \in {"borrow_unlock", "return_unlock"}
      /\ \A v \in Thread \ {s} : Stays(v)
      /\ cur' = cur /\ book' = book /\ new' = [new EXCEPT ![s] = HEAD]
      /\ pc' \in [Thread -> WorkerPC \cup LoaderPC \cup InSection]
      /\ borrow' \in [Node -> {0, 1}]
  BY <1>1, SwapIs DEF CrashTypes
<1>3. /\ ChainTypes' /\ ChainInv' /\ heap'[o] = "unlinked"
      /\ Spares(s, n, HEAD) /\ o \in Node /\ heap[o] = "linked" /\ readers' = readers
  BY <1>1, <1>2, SwapsStep DEF Swaps, Linked
<1>4. CrashTypes'
  BY <1>1, <1>2, <1>3 DEF CrashTypes, Entry
<1>5. WorkerInv(s)'
  <2>1. s \in readers /\ o \in MaySee(s) /\ MaySee(s)' = MaySee(s) \cup {n}
    BY <1>1, <1>2, SwapsStep DEF WorkerInv, InSection
  <2> QED BY <2>1, <1>2, <1>3
          DEF WorkerInv, InSection, Reading, Walking, Copying, Swapping, Replaced, Retiring
<1>6. /\ pc'[s] \notin Swapping /\ pc[s] # "none"
      /\ heap[cur'[s]] # "unlinked"
  BY <1>2, <1>3 DEF Swapping
<1> QED BY <1>0, <1>2, <1>3, <1>4, <1>5, <1>6, WorkerStep

(* call_rcu, of the entry the student itself took off.                     *)
LEMMA RetireCrashStep ==
  ASSUME CrashInv, NEW s \in Students, BorrowRetire(s) \/ ReturnRetire(s)
  PROVE  CrashInv' /\ Quiet(s)
<1> USE RcuListAssumption, KylinRcuAssumption
<1> DEFINE n == cur[s]
<1>0. s \in Workers
  BY DEF Workers
<1>1. /\ s \in Thread /\ s # Loader /\ WorkerInv(s) /\ CrashTypes /\ ChainTypes /\ ChainInv
  BY <1>0, WorkerFacts
<1>2. /\ call_rcu(n)
      /\ UNCHANGED <<next, prev, readers, mayhold, bookvars, book, new>>
      /\ \A v \in Thread \ {s} : Stays(v)
      /\ pc[s] \in Retiring /\ pc'[s] \in {"reading", "loop"} /\ cur'[s] = HEAD
      /\ pc' \in [Thread -> WorkerPC \cup LoaderPC \cup InSection]
      /\ cur' \in [Thread -> Entry]
  BY <1>1 DEF BorrowRetire, ReturnRetire, Retire, Goto, CrashTypes, WorkerPC, Stays, Entry, Retiring
<1>3. n \in Node /\ Queues(n)
  BY <1>1, <1>2 DEF WorkerInv, Replaced, Queues, bookvars
<1>4. /\ ChainTypes' /\ ChainInv' /\ Linked' = Linked /\ Spares(s, HEAD, n)
  BY <1>1, <1>3, QueuesStep
<1>5. CrashTypes'
  BY <1>1, <1>2, <1>4 DEF CrashTypes, bookvars
<1>6. WorkerInv(s)'
  BY <1>1, <1>2 DEF WorkerInv, InSection, Reading, Walking, Copying, Swapping, Replaced, Retiring
<1>7. /\ pc'[s] \notin Swapping \cup Replaced /\ pc[s] # "none" /\ pc[s] \in Replaced
  BY <1>2 DEF Swapping, Replaced, Retiring
<1>8. Quiet(s)
  BY <1>2, <1>4, WorkerFacts DEF Quiet, Spares, bookvars
<1> QED BY <1>8, <1>0, <1>2, <1>4, <1>5, <1>6, <1>7, WorkerStep

(* book_reclaim_callback, after the grace period.                          *)
LEMMA CallbackCrashStep ==
  ASSUME CrashInv, NEW n \in Node, CrashCallback(n)
  PROVE  CrashInv' /\ Quiet(Loader)
<1> USE RcuListAssumption, KylinRcuAssumption
<1>1. CrashTypes /\ ChainTypes /\ ChainInv /\ LoaderInv /\ AddingInv
      /\ \A v \in Workers : WorkerInv(v)
  BY DEF CrashInv, CrashTypes
<1>2. /\ heap[n] = "queued" /\ waits[n] = {} /\ kfree(n)
      /\ id' = [id EXCEPT ![n] = 0] /\ borrow' = [borrow EXCEPT ![n] = 0]
      /\ UNCHANGED <<readers, waits, mayhold, pc, book, cur, new>>
  BY DEF CrashCallback, RunCallback, GracePeriodOver
<1>3. Frees(n)
  <2>1. mayhold[n] = {}
    BY <1>1, <1>2 DEF ChainInv, GraceInv
  <2> QED BY <1>2, <2>1 DEF Frees
<1>4. /\ ChainTypes' /\ ChainInv' /\ Linked' = Linked /\ Spares(Loader, HEAD, n)
  BY <1>1, <1>3, FreesStep
<1>5. CrashTypes'
  BY <1>1, <1>2, <1>4 DEF CrashTypes
<1>6. LoaderInv'
  BY <1>1, <1>2, <1>4 DEF LoaderInv, Spares, Shows
<1>7. AddingInv'
  BY <1>1, <1>2, <1>4 DEF AddingInv, ChainInv, Linked, ChainTypes
<1>8. \A v \in Workers : pc[v] \in Replaced => cur[v] # n /\ cur'[Loader] # cur[v]
  BY <1>1, <1>2 DEF WorkerInv, CrashInv, OwnInv
<1>9. Quiet(Loader)
  BY <1>1, <1>2, <1>3, <1>4 DEF Quiet, Spares, Stays, Frees, Seen, Linked, CrashTypes
<1> QED BY <1>9, <1>2, <1>4, <1>5, <1>6, <1>7, <1>8, LoaderCrashStep DEF Stays

(* insmod: a thread is created.                                            *)
LEMMA SpawnCrashStep ==
  ASSUME CrashInv, NEW t \in Workers, Spawn(t)
  PROVE  CrashInv' /\ Quiet(t)
<1> USE RcuListAssumption, KylinRcuAssumption
<1>1. /\ t \in Thread /\ t # Loader /\ WorkerInv(t) /\ CrashTypes /\ ChainTypes /\ ChainInv
  BY WorkerFacts
<1>2. /\ UNCHANGED <<listvars, bookvars, book, cur, new>>
      /\ pc[Loader] = "spawn" /\ pc[t] = "none"
  BY DEF Spawn
<1>3. /\ pc'[t] \in {"loop", "err"} /\ pc'[Loader] \in {"spawn", "loaded"}
      /\ \A v \in Thread \ {t, Loader} : pc'[v] = pc[v]
      /\ pc' \in [Thread -> WorkerPC \cup LoaderPC \cup InSection]
  BY <1>1, <1>2 DEF Spawn, CrashTypes, WorkerPC, LoaderPC
<1>4. ChainTypes' /\ ChainInv' /\ Linked' = Linked /\ Spares(t, HEAD, HEAD)
  BY <1>1, <1>2, IdleStep DEF Idle, bookvars
<1>5. CrashTypes'
  BY <1>1, <1>2, <1>3, <1>4 DEF CrashTypes, bookvars
<1>6. WorkerInv(t)'
  BY <1>1, <1>2, <1>3 DEF WorkerInv, InSection, Reading, Walking, Copying, Swapping, Replaced, Retiring,
     listvars
<1>7. ASSUME NEW v \in Workers, v # t
      PROVE  Stays(v) /\ WorkerInv(v)'
  <2>1. Stays(v)
    BY <1>2, <1>3, <1>7 DEF Stays, Workers
  <2>2. /\ pc[v] \in Swapping => new[v] # HEAD
        /\ pc[v] \in Replaced => cur[v] # HEAD
    BY WorkerFacts DEF WorkerInv
  <2> QED BY <1>4, <1>7, <2>1, <2>2, OtherKept
<1>8. OwnInv'
  BY <1>2, <1>3, <1>7 DEF CrashInv, OwnInv, Stays, Swapping, Replaced, Retiring
<1>9. LoaderInv' /\ AddingInv' /\ readers' = readers
  BY <1>2, <1>3 DEF CrashInv, LoaderInv, AddingInv, listvars
<1>10. Quiet(t)
  BY <1>2, <1>4, <1>7 DEF Quiet, Spares, bookvars
<1> QED BY <1>10, <1>4, <1>5, <1>6, <1>7, <1>8, <1>9 DEF CrashInv

(* add_book: before there is a thread.                                     *)
LEMMA AddCrashStep ==
  ASSUME CrashInv, AddBook
  PROVE  /\ CrashInv'
         /\ \/ Idle /\ UNCHANGED borrow
            \/ \E n \in Node : /\ Adds(n, book[Loader])
                               /\ borrow' = [borrow EXCEPT ![n] = 0]
<1> USE RcuListAssumption, KylinRcuAssumption
<1>1. CrashTypes /\ ChainTypes /\ ChainInv /\ LoaderInv /\ AddingInv
      /\ readers \subseteq Workers /\ \A v \in Workers : WorkerInv(v)
  BY DEF CrashInv, CrashTypes
<1>2. /\ pc[Loader] = "add" /\ pc'[Loader] \in {"add", "spawn"}
      /\ pc'[Loader] = "add" => book[Loader] # BookCount - 1
      /\ \A v \in Thread \ {Loader} : pc'[v] = pc[v] /\ book'[v] = book[v]
      /\ book'[Loader] = NextBook(book[Loader]) /\ book[Loader] \in Books
      /\ UNCHANGED <<readers, waits, mayhold, cur, new>>
      /\ pc' \in [Thread -> WorkerPC \cup LoaderPC \cup InSection]
      /\ book' \in [Thread -> Books]
  <2>1. book[Loader] \in Books /\ NextBook(book[Loader]) \in Books
    BY <1>1, NextBookFacts DEF CrashTypes
  <2> QED BY <1>1, <2>1 DEF AddBook, Goto, CrashTypes, LoaderPC
<1>3. readers = {} /\ \A v \in Workers : pc[v] = "none" /\ Stays(v)
  <2>1. \A v \in Workers : pc[v] = "none" /\ v \in Thread \ {Loader}
    BY <1>1, <1>2 DEF AddingInv, Workers
  <2> QED BY <1>1, <1>2, <2>1
          DEF WorkerInv, InSection, Reading, Walking, Copying, Swapping, Stays
<1>4. \A x \in Linked : id[x] < book[Loader]
  BY <1>1, <1>2 DEF AddingInv
<1>5. \/ Idle /\ UNCHANGED borrow
      \/ \E n \in Node : /\ Adds(n, book[Loader])
                         /\ borrow' = [borrow EXCEPT ![n] = 0]
  <2>1. CASE UNCHANGED <<heap, next, prev, bookvars>>
    BY <1>2, <2>1 DEF Idle, listvars, bookvars
  <2>2. ASSUME NEW n \in Free,
               heap' = [heap EXCEPT ![n] = "linked"],
               id' = [id EXCEPT ![n] = book[Loader]],
               borrow' = [borrow EXCEPT ![n] = 0],
               list_add_rcu(n)
        PROVE  n \in Node /\ Adds(n, book[Loader])
    BY <1>2, <1>3, <1>4, <2>2 DEF Adds, Free
  <2> QED BY <2>1, <2>2 DEF AddBook
<1>6. /\ ChainTypes' /\ ChainInv' /\ Spares(Loader, HEAD, HEAD)
      /\ \A x \in Linked' : id'[x] <= book[Loader] /\ id'[x] \in Nat
      /\ borrow' \in [Node -> {0, 1}]
  <2>1. \A x \in Linked : id[x] \in Nat /\ book[Loader] \in Nat
    BY <1>1, <1>2 DEF ChainTypes, Linked, Books
  <2>2. CASE Idle /\ UNCHANGED borrow
    <3>1. Linked' = Linked /\ id' = id
      BY <2>2 DEF Idle, Linked, listvars
    <3> QED BY <1>1, <1>4, <2>1, <2>2, <3>1, IdleStep DEF CrashTypes
  <2>3. ASSUME NEW n \in Node, Adds(n, book[Loader]),
               borrow' = [borrow EXCEPT ![n] = 0]
        PROVE  /\ ChainTypes' /\ ChainInv' /\ Spares(Loader, HEAD, HEAD)
               /\ \A x \in Linked' : id'[x] <= book[Loader] /\ id'[x] \in Nat
               /\ borrow' \in [Node -> {0, 1}]
    <3>1. /\ ChainTypes' /\ ChainInv' /\ Spares(Loader, HEAD, HEAD)
          /\ Linked' = Linked \cup {n} /\ id'[n] = book[Loader]
      BY <1>1, <2>3, AddsStep
    <3>2. \A x \in Linked : x # n => id'[x] = id[x]
      BY <1>1, <2>3 DEF Adds, ChainTypes, Linked
    <3> QED BY <1>1, <1>2, <1>4, <2>1, <2>3, <3>1, <3>2 DEF CrashTypes, Books
  <2> QED BY <1>5, <2>2, <2>3
<1>7. CrashTypes'
  BY <1>1, <1>2, <1>6 DEF CrashTypes
<1>8. LoaderInv' /\ \A v \in Workers : pc[v] \notin Replaced
  BY <1>1, <1>2, <1>3 DEF LoaderInv, Replaced, Retiring
<1>9. AddingInv'
  <2>1. pc'[Loader] = "add" => book'[Loader] = book[Loader] + 1 /\ book[Loader] \in Nat
    BY <1>2, NextBookFacts DEF NextBook, Books
  <2> QED BY <1>3, <1>6, <2>1 DEF AddingInv, Stays
<1> QED BY <1>2, <1>3, <1>5, <1>6, <1>7, <1>8, <1>9, LoaderCrashStep

(* on_duty = 0, and a book that is not there.                              *)
LEMMA OffDutyCrashStep ==
  ASSUME CrashInv, OffDuty \/ DeleteNone
  PROVE  CrashInv' /\ Quiet(Loader)
<1> USE RcuListAssumption, KylinRcuAssumption
<1>1. CrashTypes /\ ChainTypes /\ ChainInv /\ LoaderInv
      /\ \A v \in Workers : WorkerInv(v)
  BY DEF CrashInv, CrashTypes
<1>2. /\ UNCHANGED <<listvars, bookvars, cur, new>>
      /\ pc[Loader] \in {"loaded", "delete"} /\ pc'[Loader] \in {"delete", "unloaded"}
      /\ \A v \in Workers : Stays(v)
      /\ pc' \in [Thread -> WorkerPC \cup LoaderPC \cup InSection]
      /\ book' \in [Thread -> Books]
  <2>1. NextBook(book[Loader]) \in Books
    BY <1>1, NextBookFacts DEF CrashTypes
  <2> QED BY <1>1, <2>1 DEF OffDuty, DeleteNone, NextDelete, Goto, CrashTypes, LoaderPC, Stays, Workers
<1>3. ChainTypes' /\ ChainInv' /\ Linked' = Linked /\ Spares(Loader, HEAD, HEAD)
  BY <1>1, <1>2, IdleStep DEF Idle, bookvars
<1>4. CrashTypes'
  BY <1>1, <1>2, <1>3 DEF CrashTypes, bookvars
<1>5. LoaderInv' /\ AddingInv' /\ readers' = readers
  BY <1>1, <1>2 DEF LoaderInv, AddingInv, listvars
<1>6. \A v \in Workers : pc[v] \in Replaced => cur[v] # HEAD /\ cur'[Loader] # cur[v]
  BY <1>1, <1>2 DEF WorkerInv, LoaderInv
<1>7. Quiet(Loader)
  BY <1>2, <1>3 DEF Quiet, Spares, bookvars
<1> QED BY <1>7, <1>2, <1>3, <1>4, <1>5, <1>6, LoaderCrashStep

(* delete_book up to synchronize_rcu: one entry is taken off the list.     *)
LEMMA DeleteCrashStep ==
  ASSUME CrashInv, DeleteBook
  PROVE  /\ CrashInv'
         /\ \E n \in OnShelf(book[Loader]) : TakesOff(n)
<1> USE RcuListAssumption, KylinRcuAssumption
<1>1. CrashTypes /\ ChainTypes /\ ChainInv /\ LoaderInv
      /\ \A v \in Workers : WorkerInv(v)
  BY DEF CrashInv, CrashTypes
<1>2. PICK n \in OnShelf(book[Loader]) :
        /\ Goto(Loader, "delete", "synchronize_rcu")
        /\ list_del_rcu(n)
        /\ heap' = [heap EXCEPT ![n] = "unlinked"]
        /\ Unlink(n)
        /\ StartGracePeriod(n)
        /\ cur' = [cur EXCEPT ![Loader] = n]
        /\ UNCHANGED <<readers, bookvars, book, new>>
  BY DEF DeleteBook
<1>3. n \in Linked /\ n \in Node /\ TakesOff(n)
  BY <1>2 DEF OnShelf, Linked, TakesOff, bookvars
<1>4. /\ ChainTypes' /\ ChainInv' /\ Spares(Loader, HEAD, HEAD)
      /\ heap[n] = "linked" /\ heap'[n] = "unlinked" /\ mayhold'[n] \subseteq waits'[n]
  BY <1>1, <1>3, TakesOffStep
<1>5. /\ cur'[Loader] = n /\ pc'[Loader] = "synchronize_rcu"
      /\ \A v \in Workers : Stays(v)
      /\ pc' \in [Thread -> WorkerPC \cup LoaderPC \cup InSection]
      /\ cur' \in [Thread -> Entry]
  BY <1>1, <1>2, <1>3 DEF Goto, CrashTypes, LoaderPC, Stays, Workers, Entry
<1>6. CrashTypes'
  BY <1>1, <1>2, <1>4, <1>5 DEF CrashTypes, bookvars
<1>7. LoaderInv' /\ AddingInv'
  BY <1>3, <1>4, <1>5 DEF LoaderInv, AddingInv
<1>8. \A v \in Workers : pc[v] \in Replaced => cur[v] # HEAD /\ cur'[Loader] # cur[v]
  BY <1>1, <1>4, <1>5 DEF WorkerInv
<1> QED BY <1>2, <1>3, <1>4, <1>5, <1>6, <1>7, <1>8, LoaderCrashStep

(* kfree after synchronize_rcu.                                            *)
LEMMA FreeCrashStep ==
  ASSUME CrashInv, DeleteFree
  PROVE  CrashInv' /\ Quiet(Loader)
<1> USE RcuListAssumption, KylinRcuAssumption
<1> DEFINE n == cur[Loader]
<1>1. CrashTypes /\ ChainTypes /\ ChainInv /\ LoaderInv /\ OwnInv
      /\ \A v \in Workers : WorkerInv(v)
  BY DEF CrashInv, CrashTypes
<1>2. /\ pc[Loader] = "synchronize_rcu" /\ pc'[Loader] \in {"unloaded", "delete"}
      /\ waits[n] = {} /\ kfree(n)
      /\ id' = [id EXCEPT ![n] = 0] /\ borrow' = [borrow EXCEPT ![n] = 0]
      /\ UNCHANGED <<readers, waits, mayhold, new>> /\ cur'[Loader] = HEAD
      /\ \A v \in Workers : Stays(v)
      /\ pc' \in [Thread -> WorkerPC \cup LoaderPC \cup InSection]
      /\ cur' \in [Thread -> Entry] /\ book' \in [Thread -> Books]
  <2>1. NextBook(book[Loader]) \in Books
    BY <1>1, NextBookFacts DEF CrashTypes
  <2> QED BY <1>1, <2>1
          DEF DeleteFree, NextDelete, Goto, GracePeriodOver, CrashTypes, LoaderPC, Stays, Workers, Entry
<1>3. Frees(n)
  BY <1>1, <1>2 DEF LoaderInv, Frees
<1>4. /\ ChainTypes' /\ ChainInv' /\ Linked' = Linked /\ Spares(Loader, HEAD, n)
  BY <1>1, <1>3, FreesStep DEF Frees
<1>5. CrashTypes'
  BY <1>1, <1>2, <1>4 DEF CrashTypes
<1>6. LoaderInv' /\ AddingInv'
  BY <1>2 DEF LoaderInv, AddingInv
<1>7. \A v \in Workers : pc[v] \in Replaced => cur[v] # n /\ cur'[Loader] # cur[v]
  BY <1>1, <1>2 DEF WorkerInv, OwnInv
<1>8. Quiet(Loader)
  BY <1>1, <1>2, <1>3, <1>4 DEF Quiet, Spares, Frees, Seen, Linked, CrashTypes
<1> QED BY <1>8, <1>2, <1>4, <1>5, <1>6, <1>7, LoaderCrashStep

(* Every step keeps the invariant.                                         *)
LEMMA NextCrash == CrashInv /\ [CrashNext]_vars => CrashInv'
<1> SUFFICES ASSUME CrashInv, [CrashNext]_vars
             PROVE  CrashInv'
  OBVIOUS
<1>1. CASE UNCHANGED vars
  BY <1>1 DEF vars, listvars, bookvars, CrashInv, CrashTypes, ChainTypes, ListTypeOK,
     ChainInv, ListWellFormed, OneEntryPerBook, DescendInv, PoisonInv, GraceInv, ClosedInv,
     AheadInv, Linked, MaySee, Seen, WorkerInv, OwnInv, LoaderInv, AddingInv
<1>2. CASE CrashInsmod
  BY <1>2, AddCrashStep, SpawnCrashStep DEF CrashInsmod
<1>3. ASSUME NEW m \in Managers, CrashManager(m)
      PROVE  CrashInv'
  <2>1. m \in Workers
    BY DEF Workers
  <2> QED BY <1>3, <2>1, WalkCrashStep, EnterCrashStep, LeaveCrashStep
          DEF CrashManager, CrashPrintBook
<1>4. ASSUME NEW s \in Students, CrashStudent(s)
      PROVE  CrashInv'
  <2>1. s \in Workers
    BY DEF Workers
  <2>2. CASE CrashStudentLoop(s) \/ LookupNext(s) \/ LookupLock(s) \/ SwapUnlock(s)
    BY <2>1, <2>2, WalkCrashStep, EnterCrashStep, LeaveCrashStep
  <2>3. CASE CrashBorrow(s) \/ CrashReturn(s)
    BY <2>1, <2>3, WalkCrashStep, LeaveCrashStep, CopyCrashStep, SwapCrashStep, RetireCrashStep
       DEF CrashBorrow, CrashReturn, Swapping
  <2> QED BY <1>4, <2>2, <2>3 DEF CrashStudent
<1>5. ASSUME NEW n \in Node, CrashCallback(n)
      PROVE  CrashInv'
  BY <1>5, CallbackCrashStep
<1>6. CASE OffDuty \/ CrashDeleteBook
  BY <1>6, OffDutyCrashStep, DeleteCrashStep, FreeCrashStep DEF CrashDeleteBook
<1> QED BY <1>1, <1>2, <1>3, <1>4, <1>5, <1>6 DEF CrashNext

(* So it holds forever.                                                    *)
LEMMA CrashInvariance == CrashSpec => []CrashInv
BY InitCrash, NextCrash, PTL DEF CrashSpec, CrashInit

-----------------------------------------------------------------------------
(* A student about to replace an entry that somebody else replaced stores  *)
(* through LIST_POISON2: its section keeps the entry from being reused.    *)
THEOREM StaleFaults == CrashSpec => []StaleSwapFaults
<1>1. CrashInv => StaleSwapFaults
  <2> SUFFICES ASSUME CrashInv, NEW s \in Students, pc[s] \in Swapping
               PROVE  /\ id[cur[s]] = book[s]
                      /\ cur[s] \notin Linked => prev[cur[s]] = POISON
    BY DEF StaleSwapFaults, Swapping
  <2>1. s \in Workers
    BY DEF Workers
  <2> QED BY <2>1, OffTheList DEF CrashInv, WorkerInv
<1> QED BY <1>1, CrashInvariance, PTL

(* The race never makes a thread stand on freed memory: who dies does so   *)
(* of the poison alone, and its section protected it until then.           *)
THEOREM MemoryStaysSafe == CrashSpec => []NoUseAfterFree
<1>1. CrashInv => NoUseAfterFree
  <2> SUFFICES ASSUME CrashInv, NEW t \in Thread, cur[t] # HEAD
               PROVE  heap[cur[t]] \notin {"free", "fresh"}
    BY DEF NoUseAfterFree
  <2>1. CASE t \in Workers
    <3>1. pc[t] \in InSection => cur[t] \in Seen
      BY <2>1, WorkerFacts
    <3>2. \A e \in Seen : e = HEAD \/ heap[e] \in {"linked", "unlinked", "queued"}
      BY <2>1, WorkerFacts, ChainFacts
    <3>3. pc[t] \notin InSection => heap[cur[t]] = "unlinked"
      BY <2>1, WorkerFacts DEF WorkerInv, Replaced
    <3> QED BY <3>1, <3>2, <3>3
  <2>2. CASE t = Loader
    BY <2>2 DEF CrashInv, LoaderInv
  <2> QED BY <2>1, <2>2, KylinRcuAssumption DEF Workers
<1> QED BY <1>1, CrashInvariance, PTL

(* Nor does it corrupt the list, or leave two entries of one book on it.   *)
THEOREM ListStaysWhole == CrashSpec => []ListOfBooks
<1>1. CrashInv => ListOfBooks
  BY DEF CrashInv, ChainInv, ListOfBooks
<1> QED BY <1>1, CrashInvariance, PTL

-----------------------------------------------------------------------------
(***************************************************************************)
(* The books.                                                              *)
(***************************************************************************)
(* From its replacement in borrow_book on, a student has a book.           *)
HasPC == {"borrow_unlock", "borrow_retire", "reading",
          "return_next", "return_copy", "return_swap"}

(* It has found the entry that it is to replace.                           *)
ToBorrow == {"borrow_copy", "borrow_swap"}
ToReturn == {"return_copy", "return_swap"}

(* The flag of the entry that was found is as it was; the book of a        *)
(* student that has one is marked; what it looks for is ahead of it, on    *)
(* the list.                                                               *)
StudentInv(s) ==
  /\ pc[s] \in ToBorrow => borrow[cur[s]] = 0
  /\ pc[s] \in ToReturn => borrow[cur[s]] = 1
  /\ pc[s] \in HasPC => \A n \in OnShelf(book[s]) : borrow[n] = 1
  /\ OnShelf(book[s]) # {} =>
       /\ pc[s] \in {"return_next"} \cup ToReturn =>
            \A e \in MaySee(s) \cap Node : id[e] = book[s] => e \in Linked
       /\ pc[s] = "return_next" => cur[s] = HEAD \/ book[s] < id[cur[s]]

LentInv ==
  /\ \A s \in Students : StudentInv(s)
  /\ \A s, t \in Students :
       pc[s] \in HasPC /\ pc[t] \in HasPC /\ book[s] = book[t] => s = t

(* The steps that Lending has names for, and the others.                   *)
LendStep == CrashLibrary!LendNext
Unseen == UNCHANGED <<Shelf, CrashLoans, Marked>>

(* Before insmod: no book, no loan.                                        *)
LEMMA InitLent == Init => LentInv /\ CrashLibrary!LendInit
<1> SUFFICES ASSUME Init
             PROVE  LentInv /\ CrashLibrary!LendInit
  OBVIOUS
<1>1. /\ Linked = {} /\ \A i : OnShelf(i) = {}
      /\ \A s \in Students : pc[s] = "none"
  BY KylinRcuAssumption DEF Init, ListInit, OnShelf, Linked
<1>2. Shelf = {} /\ Marked = {} /\ CrashLoans = {}
  BY <1>1 DEF Shelf, Marked, CrashLoans
<1> QED BY <1>1, <1>2 DEF LentInv, StudentInv, HasPC, ToBorrow, ToReturn, CrashLibrary!LendInit

(* A student that makes no step: nothing comes to the shelf of a book that *)
(* it has.                                                                 *)
LEMMA OtherStudent ==
  ASSUME CrashInv, CrashInv', NEW t, Shows(t), NEW v \in Students, v # t,
         Stays(v), StudentInv(v),
         \A n \in Node \cap Seen : borrow'[n] = borrow[n],
         pc[v] \in HasPC => OnShelf(book[v])' \subseteq OnShelf(book[v])
  PROVE  StudentInv(v)'
<1> USE RcuListAssumption, KylinRcuAssumption
<1>0. v \in Workers
  BY DEF Workers
<1>1. /\ WorkerInv(v) /\ MaySee(v) \subseteq Seen /\ ChainInv /\ OneEntryPerBook
      /\ (pc[v] \in InSection => cur[v] \in Seen)
      /\ \A e \in Seen : e = HEAD \/ e \in Node
  BY <1>0, WorkerFacts DEF ChainInv
<1>2. \A x \in Linked : x \in Node \cap Seen
  BY DEF Linked, Seen
<1>3. pc[v] \in {"return_next"} \cup ToReturn =>
        pc[v] \in HasPC /\ pc[v] \in InSection /\ v \in readers
  BY <1>1 DEF HasPC, ToReturn, InSection, Walking, Copying, Swapping, WorkerInv
<1>4. /\ pc[v] \in ToBorrow => borrow'[cur[v]] = 0
      /\ pc[v] \in ToReturn => borrow'[cur[v]] = 1
  <2>1. pc[v] \in Copying \cup Swapping => cur[v] \in Node \cap Seen
    BY <1>1 DEF WorkerInv, InSection
  <2> QED BY <2>1 DEF StudentInv, ToBorrow, ToReturn, Copying, Swapping
<1>5. pc[v] \in HasPC => \A n \in OnShelf(book[v])' : borrow'[n] = 1
  <2> SUFFICES ASSUME pc[v] \in HasPC, NEW n \in OnShelf(book[v])'
               PROVE  borrow'[n] = 1
    OBVIOUS
  <2>1. n \in OnShelf(book[v]) /\ n \in Node \cap Seen
    BY <1>2 DEF OnShelf
  <2> QED BY <2>1 DEF StudentInv
<1>6. ASSUME OnShelf(book[v])' # {}, pc[v] \in {"return_next"} \cup ToReturn
      PROVE  /\ \A e \in MaySee(v)' \cap Node : id'[e] = book[v] => e \in Linked'
             /\ pc[v] = "return_next" => cur[v] = HEAD \/ book[v] < id'[cur[v]]
  <2>1. PICK x \in OnShelf(book[v])' : x \in OnShelf(book[v])
    BY <1>3, <1>6
  <2>2. x \in Linked /\ x \in Linked' /\ id[x] = book[v]
    BY <2>1 DEF OnShelf
  <2>3. ASSUME NEW e \in MaySee(v)' \cap Node, id'[e] = book[v]
        PROVE  e \in Linked'
    <3>1. CASE e \in MaySee(v)
      <4>1. e \in Seen /\ id[e] = book[v]
        BY <2>3, <3>1, <1>1 DEF Shows
      <4>2. e \in Linked
        BY <4>1, <3>1, <1>6, <2>1 DEF StudentInv
      <4> QED BY <4>1, <4>2, <2>2, <1>1 DEF OneEntryPerBook
    <3>2. CASE e \notin MaySee(v)
      BY <2>3, <3>2, <1>3, <1>6 DEF Shows
    <3> QED BY <3>1, <3>2
  <2>4. pc[v] = "return_next" => cur[v] = HEAD \/ book[v] < id'[cur[v]]
    BY <1>1, <1>3, <2>1 DEF StudentInv, Shows
  <2> QED BY <2>3, <2>4
<1>7. OnShelf(book[v])' = {n \in Linked' : id'[n] = book[v]}
  BY DEF Stays, OnShelf
<1> QED BY <1>4, <1>5, <1>6 DEF Stays, StudentInv, OnShelf

(* A quiet step: the thread that makes it gets no book.                    *)
LEMMA QuietLent ==
  ASSUME CrashInv, CrashInv', LentInv, NEW t, Quiet(t),
         t \in Students =>
           /\ StudentInv(t)'
           /\ pc'[t] \in HasPC => pc[t] \in HasPC /\ book'[t] = book[t]
  PROVE  LentInv'
<1>1. \A v \in Students \ {t} : Stays(v)
  BY DEF Quiet, Workers
<1>2. ASSUME NEW v \in Students
      PROVE  StudentInv(v)'
  <2>1. OnShelf(book[v])' \subseteq OnShelf(book[v]) \/ v = t
    <3>1. \A n \in Linked : n \in Node \cap Seen
      BY DEF Linked, Seen
    <3> QED BY <3>1, <1>1 DEF Quiet, Shows, OnShelf, Stays
  <2> QED BY <2>1, <1>1, OtherStudent DEF Quiet, LentInv
<1>3. \A v \in Students : pc'[v] \in HasPC => pc[v] \in HasPC /\ book'[v] = book[v]
  BY <1>1 DEF Stays
<1> QED BY <1>2, <1>3 DEF LentInv

(* And if it had one the book is gone.                                     *)
LEMMA QuietUnseen ==
  ASSUME CrashInv, NEW t, Quiet(t),
         t \in Students =>
           /\ pc'[t] \in HasPC => pc[t] \in HasPC /\ book'[t] = book[t]
           /\ pc[t] \in HasPC /\ OnShelf(book[t]) # {} =>
                pc'[t] \in HasPC /\ book'[t] = book[t]
  PROVE  Unseen
<1>1. \A v \in Students \ {t} : Stays(v)
  BY DEF Quiet, Workers
<1>2. /\ Linked' = Linked
      /\ \A n \in Linked : id'[n] = id[n] /\ borrow'[n] = borrow[n]
  <2>1. \A n \in Linked : n \in Node \cap Seen
    BY DEF Linked, Seen
  <2> QED BY <2>1 DEF Quiet, Shows
<1>3. \A i : OnShelf(i)' = OnShelf(i)
  BY <1>2 DEF OnShelf
<1>4. Shelf' = Shelf /\ Marked' = Marked
  BY <1>2, <1>3 DEF Shelf, Marked, OnShelf
<1>5. ASSUME NEW l \in Students \X Books
      PROVE  l \in CrashLoans' <=> l \in CrashLoans
  <2>1. l \in CrashLoans <=>
          book[l[1]] = l[2] /\ OnShelf(l[2]) # {} /\ pc[l[1]] \in HasPC
    BY DEF CrashLoans, HasPC
  <2>2. l \in CrashLoans' <=>
          book'[l[1]] = l[2] /\ OnShelf(l[2])' # {} /\ pc'[l[1]] \in HasPC
    BY DEF CrashLoans, HasPC
  <2>3. l[1] \in Students
    OBVIOUS
  <2> QED BY <2>1, <2>2, <2>3, <1>1, <1>3 DEF Stays
<1>6. CrashLoans' = CrashLoans
  <2>1. CrashLoans \subseteq Students \X Books /\ CrashLoans' \subseteq Students \X Books
    BY DEF CrashLoans
  <2> QED BY <2>1, <1>5
<1> QED BY <1>4, <1>6 DEF Unseen

(* What a quiet step leaves on the shelves.                                *)
LEMMA QuietShelf ==
  ASSUME NEW t, Quiet(t)
  PROVE  /\ Linked' = Linked
         /\ \A n \in Linked : id'[n] = id[n] /\ borrow'[n] = borrow[n]
         /\ \A i : OnShelf(i)' = OnShelf(i)
<1>1. \A n \in Linked : n \in Node \cap Seen
  BY DEF Linked, Seen
<1>2. \A n \in Linked : id'[n] = id[n] /\ borrow'[n] = borrow[n]
  BY <1>1 DEF Quiet, Shows
<1> QED BY <1>2 DEF OnShelf, Quiet

(* kthread_student's loop; the steps of a student that leave its book with *)
(* it, or that it makes when it has none.                                  *)
LEMMA PlainLent ==
  ASSUME CrashInv, LentInv, NEW s \in Students,
         \/ CrashStudentLoop(s) \/ SwapUnlock(s) \/ BorrowRetire(s) \/ ReturnRetire(s)
         \/ LookupFailed(s, 0, "borrow_next") \/ NoMemory(s, "borrow_copy")
         \/ Fault(s, "borrow_swap", "oops")
  PROVE  LentInv' /\ Unseen
<1>0. s \in Workers
  BY DEF Workers
<1>1. s \in Thread /\ CrashTypes /\ StudentInv(s)
  BY <1>0, WorkerFacts DEF LentInv
<1>2. CrashInv' /\ Quiet(s)
  BY <1>0, WalkCrashStep, LeaveCrashStep, RetireCrashStep DEF Swapping
<1>3. /\ pc'[s] \notin {"return_next"} \cup ToBorrow \cup ToReturn
      /\ pc'[s] \in HasPC <=> pc[s] \in HasPC
      /\ pc[s] \in HasPC => book'[s] = book[s]
  BY <1>1 DEF CrashStudentLoop, StudentLoop, SwapUnlock, BorrowRetire, ReturnRetire,
     Retire, LookupFailed, NoMemory, GiveUp, Fault, Goto, CrashTypes, HasPC, ToBorrow, ToReturn
<1>4. StudentInv(s)'
  BY <1>1, <1>2, <1>3, QuietShelf DEF StudentInv, OnShelf
<1> QED BY <1>2, <1>3, <1>4, QuietLent, QuietUnseen

(* A student with a book goes to look for it, or one looks for one.        *)
LEMMA LookupLockLent ==
  ASSUME CrashInv, LentInv, NEW s \in Students, LookupLock(s)
  PROVE  LentInv' /\ Unseen
<1>0. s \in Workers
  BY DEF Workers
<1>1. s \in Thread /\ CrashTypes /\ StudentInv(s)
  BY <1>0, WorkerFacts DEF LentInv
<1>2. CrashInv' /\ Quiet(s) /\ MaySee(s)' = Linked \cup {HEAD} /\ cur'[s] = HEAD
  BY <1>0, EnterCrashStep
<1>3. /\ pc'[s] \in {"borrow_next", "return_next"}
      /\ pc'[s] = "return_next" <=> pc[s] = "reading"
      /\ pc[s] \in {"borrow_book", "reading"} /\ book'[s] = book[s]
  BY <1>1 DEF LookupLock, Goto, CrashTypes
<1>4. StudentInv(s)'
  BY <1>1, <1>2, <1>3, QuietShelf, RcuListAssumption DEF StudentInv, OnShelf, HasPC, ToBorrow, ToReturn
<1> QED BY <1>2, <1>3, <1>4, QuietLent, QuietUnseen DEF HasPC

(* It is one entry further, and not past its book.                         *)
LEMMA LookupNextLent ==
  ASSUME CrashInv, LentInv, NEW s \in Students, LookupNext(s)
  PROVE  LentInv' /\ Unseen
<1> USE RcuListAssumption
<1> DEFINE n == next[cur[s]]
<1>0. s \in Workers
  BY DEF Workers
<1>1. /\ s \in Thread /\ CrashTypes /\ StudentInv(s) /\ WorkerInv(s) /\ ChainInv
      /\ ChainTypes /\ MaySee(s) \subseteq Seen
  BY <1>0, WorkerFacts DEF LentInv
<1>2. CrashInv' /\ Quiet(s) /\ MaySee(s)' = MaySee(s)
  BY <1>0, WalkCrashStep
<1>3. /\ pc[s] \in {"borrow_next", "return_next"} /\ pc'[s] = pc[s]
      /\ book'[s] = book[s] /\ cur'[s] = n /\ n # HEAD /\ id[n] # book[s]
  BY <1>1 DEF LookupNext, CrashTypes
<1>4. s \in readers /\ cur[s] \in MaySee(s) /\ n \in MaySee(s)
  BY <1>1, <1>3 DEF WorkerInv, InSection, Walking, ChainInv, ClosedInv
<1>5. \A e \in MaySee(s) \cap Node : id'[e] = id[e]
  BY <1>1, <1>2 DEF Quiet, Shows
<1>6. n \in Node /\ id'[n] = id[n] /\ id[n] \in Nat /\ book[s] \in Nat
  BY <1>1, <1>3, <1>4, <1>5, ChainFacts DEF CrashTypes, Books
<1>7. ASSUME OnShelf(book[s]) # {}, pc[s] = "return_next"
      PROVE  book[s] < id[n]
  <2>1. PICK x \in Linked : id[x] = book[s]
    BY <1>7 DEF OnShelf
  <2>2. cur[s] = HEAD \/ book[s] < id[cur[s]]
    BY <1>1, <1>7 DEF StudentInv
  <2>3. id[x] <= id[n]
    BY <1>1, <1>4, <2>1, <2>2 DEF ChainInv, AheadInv
  <2> QED BY <1>3, <1>6, <2>1, <2>3
<1>8. StudentInv(s)'
  <2>1. OnShelf(book[s])' = OnShelf(book[s])
    BY <1>2, <1>3, QuietShelf DEF OnShelf
  <2>2. \A x \in OnShelf(book[s]) : borrow'[x] = borrow[x]
    BY <1>2, QuietShelf DEF OnShelf
  <2>3. Linked' = Linked
    BY <1>2 DEF Quiet
  <2> HIDE DEF n
  <2> QED BY <1>1, <1>2, <1>3, <1>5, <1>6, <1>7, <2>1, <2>2, <2>3
          DEF StudentInv, HasPC, ToBorrow, ToReturn
<1> HIDE DEF n
<1> QED BY <1>2, <1>3, <1>8, QuietLent, QuietUnseen

(* It has found it, and the flag is the one it looks for; it has the copy. *)
LEMMA FoundLent ==
  ASSUME CrashInv, LentInv, NEW s \in Students,
         \/ LookupFound(s, 0, "borrow_next", "borrow_copy")
         \/ LookupFound(s, 1, "return_next", "return_copy")
         \/ CopyBook(s, "borrow_copy", "borrow_swap")
         \/ CopyBook(s, "return_copy", "return_swap")
  PROVE  LentInv' /\ Unseen
<1>0. s \in Workers
  BY DEF Workers
<1>1. /\ s \in Thread /\ CrashTypes /\ StudentInv(s) /\ MaySee(s) \subseteq Seen
  BY <1>0, WorkerFacts DEF LentInv
<1>2. CrashInv' /\ Quiet(s) /\ MaySee(s)' = MaySee(s)
  BY <1>0, WalkCrashStep, CopyCrashStep
<1>3. /\ \/ /\ pc[s] \in {"borrow_next"} \cup ToBorrow
            /\ pc'[s] \in ToBorrow /\ borrow'[cur'[s]] = 0
         \/ /\ pc[s] \in {"return_next"} \cup ToReturn
            /\ pc'[s] \in ToReturn /\ borrow'[cur'[s]] = 1
      /\ book'[s] = book[s]
  BY <1>1 DEF LookupFound, CopyBook, Goto, CrashTypes, bookvars, StudentInv, ToBorrow, ToReturn
<1>4. \A e \in MaySee(s) \cap Node : id'[e] = id[e]
  BY <1>1, <1>2 DEF Quiet, Shows
<1>5. StudentInv(s)'
  <2>1. OnShelf(book[s])' = OnShelf(book[s])
    BY <1>2, <1>3, QuietShelf DEF OnShelf
  <2>2. \A x \in OnShelf(book[s]) : borrow'[x] = borrow[x]
    BY <1>2, QuietShelf DEF OnShelf
  <2>3. Linked' = Linked
    BY <1>2 DEF Quiet
  <2> QED BY <1>1, <1>2, <1>3, <1>4, <2>1, <2>2, <2>3
          DEF StudentInv, HasPC, ToBorrow, ToReturn
<1> QED BY <1>2, <1>3, <1>5, QuietLent, QuietUnseen DEF HasPC, ToBorrow, ToReturn

(* A student that has a book and is about to replace its entry faults only *)
(* when the module has deleted the book.                                   *)
LEMMA ReturnFaultLent ==
  ASSUME CrashInv, LentInv, NEW s \in Students, Fault(s, "return_swap", "oops")
  PROVE  LentInv' /\ Unseen
<1> USE RcuListAssumption
<1>0. s \in Workers
  BY DEF Workers
<1>1. /\ s \in Thread /\ CrashTypes /\ StudentInv(s) /\ WorkerInv(s) /\ ChainInv
      /\ MaySee(s) \subseteq Seen /\ \A e \in Seen : e = HEAD \/ e \in Node
  BY <1>0, WorkerFacts DEF LentInv
<1>2. CrashInv' /\ Quiet(s)
  BY <1>0, LeaveCrashStep DEF Swapping
<1>3. pc[s] = "return_swap" /\ pc'[s] = "oops" /\ prev[cur[s]] = POISON
  BY <1>1 DEF Fault, Goto, CrashTypes
<1>4. OnShelf(book[s]) = {}
  <2> SUFFICES ASSUME OnShelf(book[s]) # {}
               PROVE  FALSE
    OBVIOUS
  <2>1. cur[s] \in MaySee(s) \cap Node /\ id[cur[s]] = book[s]
    BY <1>1, <1>3 DEF WorkerInv, InSection, Copying, Swapping
  <2>2. cur[s] \in Linked
    BY <1>1, <1>3, <2>1 DEF StudentInv, ToReturn
  <2>3. prev[cur[s]] \in Linked \cup {HEAD}
    BY <1>1, <2>2 DEF ChainInv, ListWellFormed
  <2> QED BY <1>3, <2>3 DEF Linked
<1>5. StudentInv(s)' /\ pc'[s] \notin HasPC
  BY <1>3 DEF StudentInv, HasPC, ToBorrow, ToReturn
<1> QED BY <1>2, <1>4, <1>5, QuietLent, QuietUnseen

-----------------------------------------------------------------------------
(* The loans, a student at a time.                                         *)
LEMMA LoanIs ==
  /\ CrashLoans \subseteq Students \X Books
  /\ CrashLoans' \subseteq Students \X Books
  /\ \A v \in Students, j \in Books :
       /\ <<v, j>> \in CrashLoans <=>
            book[v] = j /\ OnShelf(j) # {} /\ pc[v] \in HasPC
       /\ <<v, j>> \in CrashLoans' <=>
            book'[v] = j /\ OnShelf(j)' # {} /\ pc'[v] \in HasPC
BY DEF CrashLoans, HasPC

(* Two sets of pairs with the same members.                                *)
LEMMA SamePairs ==
  ASSUME NEW A, NEW B, A \subseteq Students \X Books, B \subseteq Students \X Books,
         \A v \in Students, j \in Books : <<v, j>> \in A <=> <<v, j>> \in B
  PROVE  A = B
<1>1. \A l \in Students \X Books : l = <<l[1], l[2]>> /\ l[1] \in Students /\ l[2] \in Books
  OBVIOUS
<1> QED BY <1>1

(* return_book fails: the book is given up, unless it had been deleted.    *)
LEMMA ForfeitLent ==
  ASSUME CrashInv, LentInv, NEW s \in Students,
         LookupFailed(s, 1, "return_next") \/ NoMemory(s, "return_copy")
  PROVE  LentInv' /\ (LendStep \/ Unseen)
<1> DEFINE i == book[s]
<1>0. s \in Workers
  BY DEF Workers
<1>1. s \in Thread /\ CrashTypes /\ i \in Books
  BY <1>0, WorkerFacts DEF CrashTypes
<1>2. CrashInv' /\ Quiet(s)
  BY <1>0, LeaveCrashStep
<1>3. pc[s] \in {"return_next", "return_copy"} /\ pc'[s] = "loop" /\ book' = book
  BY <1>1 DEF LookupFailed, NoMemory, GiveUp, Goto, CrashTypes
<1>4. LentInv'
  <2>1. StudentInv(s)' /\ pc'[s] \notin HasPC
    BY <1>3 DEF StudentInv, HasPC, ToBorrow, ToReturn
  <2> QED BY <1>2, <2>1, QuietLent
<1>5. CASE OnShelf(i) = {}
  <2>1. Unseen
    BY <1>2, <1>3, <1>5, QuietUnseen DEF HasPC
  <2> QED BY <1>4, <2>1
<1>6. CASE OnShelf(i) # {}
  <2>1. /\ Linked' = Linked /\ \A j : OnShelf(j)' = OnShelf(j)
        /\ \A n \in Linked : id'[n] = id[n] /\ borrow'[n] = borrow[n]
    BY <1>2, QuietShelf
  <2>2. Shelf' = Shelf /\ Marked' = Marked
    BY <2>1 DEF Shelf, Marked, OnShelf
  <2>3. \A v \in Students \ {s} : pc'[v] = pc[v]
    BY <1>2 DEF Quiet, Stays, Workers
  <2>4. <<s, i>> \in CrashLoans
    BY <1>1, <1>3, <1>6, LoanIs DEF HasPC
  <2>5. CrashLoans' = CrashLoans \ {<<s, i>>}
    <3>1. \A v \in Students, j \in Books :
            <<v, j>> \in CrashLoans' <=> <<v, j>> \in CrashLoans \ {<<s, i>>}
      BY <1>3, <2>1, <2>3, LoanIs DEF HasPC
    <3> HIDE DEF i
    <3> QED BY <3>1, LoanIs, SamePairs
  <2>6. CrashLibrary!Forfeit(s, i)
    BY <2>2, <2>4, <2>5 DEF CrashLibrary!Forfeit
  <2> QED BY <1>1, <1>4, <2>6 DEF LendStep, CrashLibrary!LendNext
<1> QED BY <1>5, <1>6

(* Only one student has the book that another one lends or gives back.     *)
LEMMA SwapperAlone ==
  ASSUME CrashInv, LentInv, NEW s \in Students, pc[s] \in Swapping, cur[s] \in Linked
  PROVE  /\ OnShelf(book[s]) = {cur[s]}
         /\ borrow[cur[s]] = IF pc[s] = "borrow_swap" THEN 0 ELSE 1
         /\ \A v \in Students \ {s} : pc[v] \in HasPC => book[v] # book[s]
<1>1. id[cur[s]] = book[s] /\ OneEntryPerBook /\ StudentInv(s)
  BY WorkerFacts DEF WorkerInv, Workers, ChainInv, LentInv
<1>2. OnShelf(book[s]) = {cur[s]}
  BY <1>1 DEF OnShelf, OneEntryPerBook
<1>3. borrow[cur[s]] = IF pc[s] = "borrow_swap" THEN 0 ELSE 1
  BY <1>1 DEF StudentInv, Swapping, ToBorrow, ToReturn
<1>4. ASSUME NEW v \in Students \ {s}, pc[v] \in HasPC, book[v] = book[s]
      PROVE  FALSE
  <2>1. borrow[cur[s]] = 1
    BY <1>2, <1>4 DEF LentInv, StudentInv
  <2>2. pc[s] = "return_swap"
    BY <1>3, <2>1 DEF Swapping
  <2> QED BY <1>4, <2>2 DEF LentInv, HasPC
<1> QED BY <1>2, <1>3, <1>4

(* list_replace_rcu is the loan, or the return.                            *)
LEMMA SwapLent ==
  ASSUME CrashInv, LentInv, NEW s \in Students,
         \/ Swap(s, 1, "borrow_swap", "borrow_unlock")
         \/ Swap(s, 0, "return_swap", "return_unlock")
  PROVE  LentInv' /\ LendStep
<1> USE RcuListAssumption, KylinRcuAssumption
<1> DEFINE o == cur[s]
           n == new[s]
           i == book[s]
           flag == IF pc[s] = "borrow_swap" THEN 1 ELSE 0
<1>0. s \in Workers
  BY DEF Workers
<1>1. /\ s \in Thread /\ CrashTypes /\ ChainTypes /\ ChainInv /\ i \in Books
  BY <1>0, WorkerFacts DEF CrashTypes
<1>2. CrashInv'
  BY SwapCrashStep
<1>3. /\ Swaps(o, n) /\ id[o] = i /\ o \in Linked /\ n \in Node
      /\ pc[s] \in Swapping /\ pc'[s] \in {"borrow_unlock", "return_unlock"}
      /\ pc'[s] = "borrow_unlock" <=> pc[s] = "borrow_swap"
      /\ \A v \in Thread \ {s} : Stays(v)
      /\ borrow' = [borrow EXCEPT ![n] = flag] /\ book' = book
      /\ id' = [id EXCEPT ![n] = id[o]]
  BY SwapIs DEF Swaps
<1>4. /\ Linked' = (Linked \ {o}) \cup {n} /\ n \notin Linked /\ n \notin Seen
      /\ id'[n] = i /\ Spares(s, n, HEAD)
  BY <1>1, <1>3, SwapsStep
<1>5. /\ OnShelf(i) = {o} /\ borrow[o] = 1 - flag
      /\ \A v \in Students \ {s} : pc[v] \in HasPC => book[v] # i
  BY <1>3, SwapperAlone
<1>6. /\ borrow'[n] = flag
      /\ \A x \in Node \ {n} : id'[x] = id[x] /\ borrow'[x] = borrow[x]
      /\ \A v \in Students \ {s} : v \in Thread \ {s}
  BY <1>1, <1>3 DEF CrashTypes, ChainTypes
<1>7. \A j : OnShelf(j)' = IF j = i THEN {n} ELSE OnShelf(j)
  <2>1. \A x \in Linked : x \in Node \ {n} /\ (id[x] = i <=> x = o)
    BY <1>4, <1>5 DEF OnShelf, Linked
  <2>2. ASSUME NEW j, j # i
        PROVE  OnShelf(j)' = OnShelf(j)
    BY <1>4, <1>6, <2>1, <2>2 DEF OnShelf
  <2>3. \A j : j = i => OnShelf(j)' = {n}
    BY <1>4, <1>6, <2>1 DEF OnShelf
  <2> HIDE DEF i
  <2> QED BY <2>2, <2>3
<1>8. LentInv'
  <2>1. pc'[s] \in HasPC <=> flag = 1
    BY <1>3 DEF HasPC
  <2>2. StudentInv(s)'
    <3>1. OnShelf(book[s])' = {n}
      BY <1>3, <1>7 DEF OnShelf
    <3> HIDE DEF n
    <3> QED BY <1>3, <1>6, <2>1, <3>1 DEF StudentInv, ToBorrow, ToReturn
  <2>3. ASSUME NEW v \in Students \ {s}
        PROVE  StudentInv(v)'
    <3>1. pc[v] \in HasPC => OnShelf(book[v])' \subseteq OnShelf(book[v])
      <4>1. pc[v] \in HasPC => book[v] # i /\ book'[v] = book[v]
        BY <1>5, <1>3
      <4> HIDE DEF i
      <4> QED BY <4>1, <1>7 DEF OnShelf
    <3>2. \A x \in Node \cap Seen : borrow'[x] = borrow[x]
      BY <1>4, <1>6
    <3>3. Shows(s) /\ Stays(v) /\ StudentInv(v)
      BY <1>3, <1>4, <1>6 DEF Spares, LentInv
    <3> QED BY <1>2, <3>1, <3>2, <3>3, OtherStudent
  <2>4. \A v \in Students \ {s} : pc'[v] = pc[v] /\ book'[v] = book[v]
    BY <1>3, <1>6 DEF Stays
  <2>5. ASSUME NEW v \in Students, NEW w \in Students,
               pc'[v] \in HasPC, pc'[w] \in HasPC, book'[v] = book'[w]
        PROVE  v = w
    BY <1>3, <1>5, <2>4, <2>5 DEF LentInv
  <2> QED BY <2>2, <2>3, <2>5 DEF LentInv
<1>9. /\ Shelf' = Shelf /\ i \in Shelf
      /\ i \in Marked <=> flag = 0
      /\ Marked' = IF flag = 1 THEN Marked \cup {i} ELSE Marked \ {i}
  <2>1. \A j \in Books : OnShelf(j)' # {} <=> OnShelf(j) # {}
    BY <1>5, <1>7
  <2>2. \A j \in Books \ {i} : (\E x \in OnShelf(j)' : borrow'[x] = 1)
                                <=> (\E x \in OnShelf(j) : borrow[x] = 1)
    <3>1. \A x \in Linked : x \in Node \ {n}
      BY <1>4 DEF Linked
    <3> QED BY <1>6, <1>7, <3>1 DEF OnShelf
  <2>3. \A j : j = i => ((\E x \in OnShelf(j)' : borrow'[x] = 1) <=> flag = 1)
    BY <1>6, <1>7
  <2>4. (\E x \in OnShelf(i) : borrow[x] = 1) <=> flag = 0
    BY <1>5
  <2>5. Shelf' = Shelf /\ i \in Shelf
    BY <1>1, <1>5, <2>1 DEF Shelf
  <2>6. i \in Marked <=> flag = 0
    BY <1>1, <2>4 DEF Marked
  <2>7. Marked' = IF flag = 1 THEN Marked \cup {i} ELSE Marked \ {i}
    <3>1. \A j \in Books : j \in Marked' <=> \E x \in OnShelf(j)' : borrow'[x] = 1
      BY DEF Marked
    <3>2. \A j \in Books : j \in Marked <=> \E x \in OnShelf(j) : borrow[x] = 1
      BY DEF Marked
    <3>3. Marked \subseteq Books /\ Marked' \subseteq Books
      BY DEF Marked
    <3> HIDE DEF i, flag
    <3> QED BY <1>1, <2>2, <2>3, <3>1, <3>2, <3>3
  <2> QED BY <2>5, <2>6, <2>7
<1>10. /\ \A j \in Books : OnShelf(j)' # {} <=> OnShelf(j) # {}
       /\ \A v \in Students \ {s} : pc'[v] = pc[v]
  BY <1>3, <1>5, <1>6, <1>7 DEF Stays
<1>11. CASE pc[s] = "borrow_swap"
  <2>1. \A j \in Books : <<s, j>> \notin CrashLoans
    BY <1>11, LoanIs DEF HasPC
  <2>2. CrashLoans' = CrashLoans \cup {<<s, i>>}
    <3>1. \A v \in Students, j \in Books :
            <<v, j>> \in CrashLoans' <=> <<v, j>> \in CrashLoans \cup {<<s, i>>}
      BY <1>3, <1>5, <1>10, <1>11, LoanIs DEF HasPC
    <3>2. CrashLoans \cup {<<s, i>>} \subseteq Students \X Books
      BY <1>1, LoanIs
    <3> HIDE DEF i
    <3> QED BY <3>1, <3>2, LoanIs, SamePairs
  <2>3. CrashLibrary!Borrow(s, i)
    BY <1>9, <1>11, <2>1, <2>2 DEF CrashLibrary!Borrow
  <2> QED BY <1>1, <1>8, <2>3 DEF LendStep, CrashLibrary!LendNext
<1>12. CASE pc[s] = "return_swap"
  <2>1. <<s, i>> \in CrashLoans
    BY <1>1, <1>5, <1>12, LoanIs DEF HasPC
  <2>2. CrashLoans' = CrashLoans \ {<<s, i>>}
    <3>1. \A v \in Students, j \in Books :
            <<v, j>> \in CrashLoans' <=> <<v, j>> \in CrashLoans \ {<<s, i>>}
      BY <1>3, <1>10, <1>12, LoanIs DEF HasPC
    <3> HIDE DEF i
    <3> QED BY <3>1, LoanIs, SamePairs
  <2>3. CrashLibrary!Return(s, i)
    BY <1>9, <1>12, <2>1, <2>2 DEF CrashLibrary!Return
  <2> QED BY <1>1, <1>8, <2>3 DEF LendStep, CrashLibrary!LendNext
<1> QED BY <1>3, <1>11, <1>12 DEF Swapping

(* delete_book takes the book off the shelf, whoever has it.               *)
LEMMA DeleteLent ==
  ASSUME CrashInv, LentInv, DeleteBook
  PROVE  LentInv' /\ LendStep
<1> USE RcuListAssumption, KylinRcuAssumption
<1> DEFINE i == book[Loader]
<1>1. CrashTypes /\ ChainTypes /\ ChainInv /\ i \in Books
  BY DEF CrashInv, CrashTypes
<1>2. PICK n \in OnShelf(i) : TakesOff(n)
  BY DeleteCrashStep
<1>3. CrashInv'
  BY DeleteCrashStep
<1>4. /\ UNCHANGED <<bookvars, book>>
      /\ \A v \in Students : Stays(v)
  BY <1>1 DEF DeleteBook, Goto, Stays, CrashTypes
<1>5. Linked' = Linked \ {n} /\ Shows(Loader)
  BY <1>1, <1>2, TakesOffStep DEF Spares
<1>6. \A j : OnShelf(j)' = IF j = i THEN {} ELSE OnShelf(j)
  <2>1. \A x \in Linked : id[x] = i <=> x = n
    BY <1>1, <1>2 DEF OnShelf, ChainInv, OneEntryPerBook
  <2> HIDE DEF i
  <2> QED BY <1>4, <1>5, <2>1 DEF OnShelf, bookvars
<1>7. LentInv'
  <2>1. ASSUME NEW v \in Students
        PROVE  StudentInv(v)'
    <3>1. OnShelf(book[v])' \subseteq OnShelf(book[v])
      BY <1>4, <1>5 DEF OnShelf, bookvars
    <3>2. v # Loader /\ Stays(v) /\ StudentInv(v)
      BY <1>4 DEF LentInv
    <3>3. \A x \in Node \cap Seen : borrow'[x] = borrow[x]
      BY <1>4 DEF bookvars
    <3> QED BY <1>3, <1>5, <3>1, <3>2, <3>3, OtherStudent
  <2> QED BY <1>4, <2>1 DEF LentInv, Stays
<1>8. /\ i \in Shelf /\ Shelf' = Shelf \ {i} /\ Marked' = Marked \ {i}
  <2> HIDE DEF i
  <2> QED BY <1>1, <1>2, <1>4, <1>6 DEF Shelf, Marked, bookvars
<1>9. CrashLoans' = {l \in CrashLoans : l[2] # i}
  <2>1. \A v \in Students, j \in Books :
          <<v, j>> \in CrashLoans' <=> <<v, j>> \in {l \in CrashLoans : l[2] # i}
    <3>1. \A v \in Students : pc'[v] = pc[v] /\ book'[v] = book[v]
      BY <1>4 DEF Stays
    <3> HIDE DEF i
    <3> QED BY <1>6, <3>1, LoanIs
  <2>2. {l \in CrashLoans : l[2] # i} \subseteq Students \X Books
    BY LoanIs
  <2> HIDE DEF i
  <2> QED BY <2>1, <2>2, LoanIs, SamePairs
<1>10. CrashLibrary!Remove(i)
  BY <1>8, <1>9 DEF CrashLibrary!Remove
<1> QED BY <1>1, <1>7, <1>10 DEF LendStep, CrashLibrary!LendNext

(* add_book puts a new book on the shelf, or nothing when kzalloc fails.   *)
LEMMA AddLent ==
  ASSUME CrashInv, LentInv, AddBook
  PROVE  LentInv' /\ (LendStep \/ Unseen)
<1> USE RcuListAssumption, KylinRcuAssumption
<1> DEFINE i == book[Loader]
<1>1. /\ CrashTypes /\ ChainTypes /\ ChainInv /\ AddingInv /\ i \in Books
      /\ pc[Loader] = "add"
  BY DEF CrashInv, CrashTypes, AddBook, Goto
<1>2. CrashInv'
  BY AddCrashStep
<1>3. \A v \in Workers : Stays(v) /\ pc[v] = "none"
  <2>1. \A v \in Workers : v \in Thread \ {Loader}
    BY DEF Workers
  <2> QED BY <1>1, <2>1 DEF AddBook, Goto, Stays, CrashTypes, AddingInv
<1>4. CASE Idle /\ UNCHANGED borrow
  <2>1. Quiet(Loader)
    BY <1>1, <1>3, <1>4, IdleStep DEF Quiet, Spares
  <2>2. Loader \notin Students
    OBVIOUS
  <2> QED BY <1>2, <2>1, <2>2, QuietLent, QuietUnseen
<1>5. ASSUME NEW n \in Node, Adds(n, i), borrow' = [borrow EXCEPT ![n] = 0]
      PROVE  LentInv' /\ LendStep
  <2>1. /\ Linked' = Linked \cup {n} /\ n \notin Linked /\ id'[n] = i
        /\ \A x \in Linked : id[x] < i
    BY <1>1, <1>5, AddsStep DEF Adds
  <2>2. /\ borrow'[n] = 0
        /\ \A x \in Linked : id'[x] = id[x] /\ borrow'[x] = borrow[x] /\ id[x] # i
    <3>1. \A x \in Linked : x \in Node \ {n} /\ id[x] \in Nat /\ i \in Nat
      BY <1>1, <2>1 DEF Linked, ChainTypes, Books
    <3> QED BY <1>1, <1>5, <2>1, <3>1 DEF Adds, CrashTypes, ChainTypes
  <2>3. /\ \A j : OnShelf(j)' = IF j = i THEN {n} ELSE OnShelf(j)
        /\ OnShelf(i) = {}
    <3> HIDE DEF i
    <3> QED BY <2>1, <2>2 DEF OnShelf
  <2>4. \A v \in Students : pc[v] = "none" /\ pc'[v] = "none"
    BY <1>3 DEF Workers, Stays
  <2>5. LentInv'
    BY <2>4 DEF LentInv, StudentInv, HasPC, ToBorrow, ToReturn
  <2>6. i \notin Shelf /\ Shelf' = Shelf \cup {i}
    <3> HIDE DEF i
    <3> QED BY <1>1, <2>3 DEF Shelf
  <2>7. Marked' = Marked
    <3>1. \A j : (\E x \in OnShelf(j)' : borrow'[x] = 1) <=> \E x \in OnShelf(j) : borrow[x] = 1
      <4> HIDE DEF i
      <4> QED BY <2>2, <2>3 DEF OnShelf
    <3> QED BY <3>1 DEF Marked
  <2>8. CrashLoans' = {} /\ CrashLoans = {}
    BY <2>4 DEF CrashLoans
  <2>9. CrashLibrary!Add(i)
    BY <2>6, <2>7, <2>8 DEF CrashLibrary!Add
  <2> QED BY <1>1, <2>5, <2>9 DEF LendStep, CrashLibrary!LendNext
<1> QED BY <1>4, <1>5, AddCrashStep

(* A step of a manager, a callback, a kthread_run, or one of the loader    *)
(* that does not take a book off the list.                                 *)
LEMMA OtherLent ==
  ASSUME CrashInv, LentInv,
         \/ \E m \in Managers : CrashManager(m)
         \/ \E n \in Node : CrashCallback(n)
         \/ \E t \in Workers : Spawn(t)
         \/ OffDuty \/ DeleteNone \/ DeleteFree
  PROVE  LentInv' /\ Unseen
<1> USE KylinRcuAssumption
<1>1. ASSUME NEW m \in Managers, CrashManager(m)
      PROVE  LentInv' /\ Unseen
  <2>1. m \in Workers /\ m \notin Students
    BY DEF Workers
  <2>2. CrashInv' /\ Quiet(m)
    BY <1>1, <2>1, WalkCrashStep, EnterCrashStep, LeaveCrashStep DEF CrashManager, CrashPrintBook
  <2> QED BY <2>1, <2>2, QuietLent, QuietUnseen
<1>2. ASSUME NEW t \in Workers, Spawn(t)
      PROVE  LentInv' /\ Unseen
  <2>1. CrashInv' /\ Quiet(t)
    BY <1>2, SpawnCrashStep
  <2>2. pc[t] = "none" /\ pc'[t] \in {"loop", "err"}
    BY <1>2, WorkerFacts DEF Spawn, CrashTypes
  <2>3. t \in Students => StudentInv(t)'
    BY <2>2 DEF StudentInv, HasPC, ToBorrow, ToReturn
  <2> QED BY <2>1, <2>2, <2>3, QuietLent, QuietUnseen DEF HasPC
<1>3. CASE (\E n \in Node : CrashCallback(n)) \/ OffDuty \/ DeleteNone \/ DeleteFree
  <2>1. CrashInv' /\ Quiet(Loader)
    BY <1>3, CallbackCrashStep, OffDutyCrashStep, FreeCrashStep
  <2>2. Loader \notin Students
    OBVIOUS
  <2> QED BY <2>1, <2>2, QuietLent, QuietUnseen
<1> QED BY <1>1, <1>2, <1>3

(* Every step is one of Lending, or shows nothing of itself.               *)
LEMMA NextLent ==
  ASSUME CrashInv, LentInv, [CrashNext]_vars
  PROVE  LentInv' /\ (LendStep \/ Unseen)
<1>1. CASE UNCHANGED vars
  BY <1>1 DEF vars, listvars, bookvars, LentInv, StudentInv, HasPC, OnShelf, Linked, MaySee,
     Unseen, Shelf, CrashLoans, Marked
<1>2. CASE CrashInsmod
  BY <1>2, AddLent, OtherLent DEF CrashInsmod
<1>3. ASSUME NEW s \in Students, CrashStudent(s)
      PROVE  LentInv' /\ (LendStep \/ Unseen)
  <2>1. CASE CrashBorrow(s)
    BY <2>1, FoundLent, PlainLent, SwapLent DEF CrashBorrow
  <2>2. CASE CrashReturn(s)
    BY <2>2, FoundLent, ForfeitLent, SwapLent, ReturnFaultLent, PlainLent DEF CrashReturn
  <2> QED BY <1>3, <2>1, <2>2, PlainLent, LookupLockLent, LookupNextLent DEF CrashStudent
<1>4. CASE CrashDeleteBook
  BY <1>4, DeleteLent, OtherLent DEF CrashDeleteBook
<1>5. CASE (\E m \in Managers : CrashManager(m)) \/ (\E n \in Node : CrashCallback(n)) \/ OffDuty
  BY <1>5, OtherLent
<1> QED BY <1>1, <1>2, <1>3, <1>4, <1>5 DEF CrashNext

(* So both invariants hold forever.                                        *)
LEMMA LentInvariance == CrashSpec => [](CrashInv /\ LentInv)
<1>1. Init => LentInv
  BY InitLent
<1>2. LentInv /\ CrashInv /\ [CrashNext]_vars => LentInv'
  BY NextLent
<1> QED BY <1>1, <1>2, CrashInvariance, PTL DEF CrashSpec, CrashInit

(* A student with a book finds its entry, and finds it marked, by a walk   *)
(* that takes no lock, and nobody replaces that entry before it does:      *)
(* since only who has borrowed a book returns it (line 294), which is not  *)
(* so in the text that rcu-debug.txt:164-215 is a report of.               *)
THEOREM BorrowerFinds == CrashSpec => []BorrowerFindsBook
<1>1. CrashInv /\ LentInv => BorrowerFindsBook
  <2> SUFFICES ASSUME CrashInv, LentInv, NEW s \in Students, OnShelf(book[s]) # {}
               PROVE  /\ pc[s] = "return_next" => /\ next[cur[s]] # HEAD
                                                  /\ next[cur[s]] \in Returnable(book[s])
                                                     \/ id[next[cur[s]]] # book[s]
                      /\ pc[s] \in ToReturn => cur[s] \in Linked
    BY DEF ToReturn, BorrowerFindsBook
  <2>0. s \in Workers
    BY DEF Workers
  <2>1. /\ ChainInv /\ WorkerInv(s) /\ StudentInv(s) /\ MaySee(s) \subseteq Seen
        /\ \A e \in Seen : e = HEAD \/ e \in Node
    BY <2>0, WorkerFacts DEF LentInv
  <2>2. ASSUME pc[s] = "return_next"
        PROVE  /\ next[cur[s]] # HEAD
               /\ next[cur[s]] \in Returnable(book[s]) \/ id[next[cur[s]]] # book[s]
    <3>1. s \in readers /\ cur[s] \in MaySee(s) /\ next[cur[s]] \in MaySee(s)
      BY <2>1, <2>2 DEF WorkerInv, InSection, Walking, ChainInv, ClosedInv
    <3>2. PICK x \in Linked : id[x] = book[s]
      BY DEF OnShelf
    <3>3. next[cur[s]] # HEAD
      BY <2>1, <2>2, <3>1, <3>2 DEF StudentInv, ChainInv, AheadInv
    <3>4. id[next[cur[s]]] = book[s] => next[cur[s]] \in OnShelf(book[s])
      BY <2>1, <2>2, <3>1, <3>3 DEF StudentInv, OnShelf
    <3> QED BY <2>1, <2>2, <3>3, <3>4 DEF StudentInv, HasPC, Returnable
  <2>3. pc[s] \in ToReturn => cur[s] \in Linked
    BY <2>1 DEF StudentInv, WorkerInv, InSection, ToReturn, Copying, Swapping
  <2> QED BY <2>2, <2>3
<1> QED BY <1>1, LentInvariance, PTL

(* The crashing version implements the library of Lending too: a book is   *)
(* lent and given back in the one step of list_replace_rcu, and never lent *)
(* twice; the race costs students, not books.                              *)
THEOREM ImplementsLending == CrashSpec => CrashLendsBooks
<1>1. Init => CrashLibrary!LendInit
  BY InitLent
<1>2. CrashInv /\ LentInv /\ [CrashNext]_vars =>
        [CrashLibrary!LendStep]_(CrashLibrary!lendvars)
  BY NextLent DEF LendStep, Unseen, CrashLibrary!LendStep, CrashLibrary!lendvars
<1> QED BY <1>1, <1>2, LentInvariance, PTL
        DEF CrashSpec, CrashInit, CrashLendsBooks, CrashLibrary!LendSpec
==============================================================================
