------------------------------ MODULE Lending ------------------------------
(***************************************************************************)
(* What both versions of the RCU library of lab-06-RCULock promise: a      *)
(* library in which every operation is one step.  A student who borrows a  *)
(* book changes what everybody sees of it at that moment, and nobody else  *)
(* gets the book before it is back.                                        *)
(***************************************************************************)
EXTENDS Naturals

CONSTANTS
  Students,
  Books       \* the ids of books

VARIABLES
  shelf,      \* the books of the library
  loans,      \* <<s, i>>: student s has book i
  marked      \* the books that a reader sees as borrowed

lendvars == <<shelf, loans, marked>>

LendInit == shelf = {} /\ loans = {} /\ marked = {}

Add(i) ==
  /\ i \notin shelf
  /\ shelf' = shelf \cup {i}
  /\ UNCHANGED <<loans, marked>>

(* A student has one book at a time.                                       *)
Borrow(s, i) ==
  /\ i \in shelf \ marked
  /\ \A j \in Books : <<s, j>> \notin loans
  /\ loans' = loans \cup {<<s, i>>}
  /\ marked' = marked \cup {i}
  /\ UNCHANGED shelf

Return(s, i) ==
  /\ i \in shelf /\ <<s, i>> \in loans
  /\ loans' = loans \ {<<s, i>>}
  /\ marked' = marked \ {i}
  /\ UNCHANGED shelf

(* The return fails for want of memory: nobody has the book, and nobody    *)
(* can borrow it.                                                          *)
Forfeit(s, i) ==
  /\ <<s, i>> \in loans
  /\ loans' = loans \ {<<s, i>>}
  /\ UNCHANGED <<shelf, marked>>

(* The library closes, whoever still has the book.                         *)
Remove(i) ==
  /\ i \in shelf
  /\ shelf' = shelf \ {i}
  /\ loans' = {l \in loans : l[2] # i}
  /\ marked' = marked \ {i}

LendNext ==
  \E i \in Books :
    \/ Add(i) \/ Remove(i)
    \/ \E s \in Students : Borrow(s, i) \/ Return(s, i) \/ Forfeit(s, i)

(* A step of a module that implements this shows nothing, or one of these  *)
(* operations.                                                             *)
LendStep == UNCHANGED lendvars \/ LendNext

LendSpec == LendInit /\ [][LendStep]_lendvars
=============================================================================
